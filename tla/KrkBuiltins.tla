----------------------------- MODULE KrkBuiltins ------------------------------
(***************************************************************************)
(* The builtins that consume sequences (builtins.c): any, all, sum, min,   *)
(* max, which go through everything at once, and map, zip, filter and      *)
(* enumerate, which are iterators: objects that are called for the next    *)
(* item and answer with themselves, End here, when there is none.  What    *)
(* they draw from are iterators of lists; a drawn one is [s, i].           *)
(* An item that calls itself equal to everything is not among the elements:*)
(* the end is told by ==, so it would end the iteration.                   *)
(***************************************************************************)
EXTENDS KrkSlices

CONSTANT End

Truthy(x) == Worth[x] > 1

-----------------------------------------------------------------------------
(* krk_unpackIterable with its callbacks; a callback may stop it.          *)

\* How far it gets when the callback stops it at the positions stops: to the
\* first of them, or past the end.
StoppedAt(s, stops) ==
  CHOOSE i \in stops \cup {Len(s) + 1} : \A j \in stops : i <= j

AnyOf(s) == StoppedAt(s, {i \in DOMAIN s : Truthy(s[i])}) <= Len(s)
AllOf(s) == StoppedAt(s, {i \in DOMAIN s : ~Truthy(s[i])}) > Len(s)

SumOf(s, start) ==
  LET base[i \in 0 .. Len(s)] == IF i = 0 THEN start ELSE base[i - 1] + Worth[s[i]] IN base[Len(s)]

\* The base is replaced by a value that is smaller, or greater, than it.
BestOf(s, better(_, _)) ==
  LET base[i \in 0 .. Len(s)] ==
        IF i = 0 THEN None
        ELSE IF base[i - 1] = None \/ better(Worth[s[i]], Worth[base[i - 1]]) THEN s[i] ELSE base[i - 1]
  IN base[Len(s)]

MinOf(s) == BestOf(s, LAMBDA a, b : a < b)
MaxOf(s) == BestOf(s, LAMBDA a, b : a > b)

-----------------------------------------------------------------------------
(* Iterators: what a call answers, and the iterator after it.              *)

Over(s) == [s |-> s, i |-> 0]
Pull(it) ==
  IF it.i < Len(it.s) THEN [item |-> At(it.s, it.i), rest |-> [it EXCEPT !.i = @ + 1]]
  ELSE [item |-> End, rest |-> it]

\* zip and map ask their iterators in turn, up to one that has no more.
PullAll(its) ==
  LET stop == StoppedAt(its, {k \in DOMAIN its : Pull(its[k]).item = End})
  IN [item |-> IF stop <= Len(its) THEN End ELSE [k \in DOMAIN its |-> Pull(its[k]).item],
      rest |-> [k \in DOMAIN its |-> IF k < stop THEN Pull(its[k]).rest ELSE its[k]]]

\* filter goes on until an item passes; passing is the set of those that do.
PullPassing(it, passing) ==
  LET from[i \in 0 .. Len(it.s)] ==
        LET at == Pull([it EXCEPT !.i = i])
        IN IF at.item = End \/ at.item \in passing THEN at ELSE from[i + 1]
  IN from[it.i]

\* enumerate: [of, counter].
PullCounted(e) ==
  LET at == Pull(e.of)
  IN IF at.item = End THEN [item |-> End, rest |-> [e EXCEPT !.of = at.rest]]
     ELSE [item |-> <<e.counter, at.item>>, rest |-> [of |-> at.rest, counter |-> e.counter + 1]]

\* A loop over an iterator: its items up to End, and what is left of it;
\* more than most items are not waited for.
Drawn(it, pull(_), most) ==
  LET from[n \in 0 .. most] ==
        IF n = 0 THEN [items |-> <<>>, rest |-> it, ended |-> FALSE]
        ELSE LET so == from[n - 1]
                 at == pull(so.rest)
             IN IF so.ended THEN so
                ELSE IF at.item = End THEN [so EXCEPT !.rest = at.rest, !.ended = TRUE]
                ELSE [items |-> Append(so.items, at.item), rest |-> at.rest, ended |-> FALSE]
  IN from[most]
=============================================================================
