------------------------------ MODULE MCContainers -----------------------------
(***************************************************************************)
(* Model checking containers: the table of a dict or a set, KrkTable, and  *)
(* a list, KrkList.  Each behaviour is about one of them.                  *)
(***************************************************************************)
EXTENDS KrkTable, MCList, TLC

CONSTANTS one, true, seven, dict   \* keys: 1, True, an unrelated one, an unhashable one

\* 1 and True are equal and both hash to 7, the last slot of eight; the
\* third key hashes to 15 and meets them there, or one slot further.
MCHash == (one :> 7) @@ (true :> 7) @@ (seven :> 15) @@ (dict :> 0)
MCEqualTo == (one :> {one, true}) @@ (true :> {one, true}) @@ (seven :> {seven}) @@ (dict :> {dict})

-----------------------------------------------------------------------------
CONSTANTS s, t

VARIABLE part

MCThreads == {s, t}

\* An element is a key and, to tell equal ones apart, where it came from.
MCElements == {<<1, 1>>, <<1, 2>>, <<2, 1>>}
MCWorth == [e \in {1, 2, 3} \X (1 .. 8) |-> e[1]]

\* All lists of five elements with three keys, of seven with two, and one
\* with five runs: the stack gets up to three high.
Numbered(S, n) == {[i \in 1 .. n |-> <<f[i], i>>] : f \in [1 .. n -> S]}
MCToSort == Numbered({1, 2, 3}, 5) \cup Numbered({1, 2}, 7)

MCIndices == -4 .. 4
MCSlices == [start : {None} \cup (-4 .. 4), end : {None} \cup (-4 .. 4), step : {None, 1}]
MCSequels == {<<>>, <<<<2, 1>>>>, <<<<2, 1>>, <<1, 2>>>>}
MCRanges == {[low |-> None, high |-> None], [low |-> 1, high |-> None], [low |-> -2, high |-> -1]}
MCWanted == {<<1, 2>>, <<2, 1>>}

MCInit ==
  /\ part \in {"table", "list"}
  /\ Init /\ LInit
  /\ part = "table" => values = <<>>
  /\ part = "list" => capacity = 0

MCNext ==
  \/ part = "table" /\ Next /\ UNCHANGED <<part, listVars>>
  \/ part = "list" /\ LNext /\ UNCHANGED <<part, vars>>

MCSpec == MCInit /\ [][MCNext]_<<part, vars, listVars>>

\* Slices of lists and tuples, comparisons and the loops of the builtins are
\* right about the lists there are (obj_slice.c, obj_list.c, builtins.c).
SequencesRight == part = "list" => SlicesRight /\ LoopsRight
================================================================================
