------------------------------- MODULE Lists ---------------------------------
(***************************************************************************)
(* What a list promises to the threads that use it: each call takes effect *)
(* at once and answers for the list as it then is.  A call that runs code  *)
(* of the program in between, to compare or to get the next item, may be   *)
(* cut short by an exception, with nothing lost but what it has not done.  *)
(***************************************************************************)
EXTENDS Sequential

CONSTANTS Elements, Threads, MaxLen, Indices, Slices, Sequels, Nothing

VARIABLES list, outcome   \* outcome[t]: the call t has an answer to, and it

Reply(t, reply) == outcome' = [outcome EXCEPT ![t] = reply]

Place(i) == IF i < 0 THEN Len(list) + i ELSE i   \* how many elements are before it

Init == list \in Seq(DOMAIN Key) /\ outcome = [t \in Threads |-> Nothing]

Add == list' \in {Append(list, x) : x \in Elements}

Insert(i, x) ==
  LET p == IF Place(i) < 0 THEN 0 ELSE IF Place(i) > Len(list) THEN Len(list) ELSE Place(i)
  IN list' = Spliced(list, p, Len(list) - p, <<x>>)

Set(i, x) == Place(i) \in 0 .. Len(list) - 1 /\ list' = Spliced(list, Place(i), Len(list) - Place(i) - 1, <<x>>)

\* Only slices without gaps can be replaced or deleted.
Replace(slice, new) ==
  /\ slice.step \in {None, 1}
  /\ LET P == PositionsOf(list, slice)
         start == IF slice.start = None THEN 0 ELSE Place(slice.start)
         p == IF P # {} THEN First(P) - 1
              ELSE IF start < 0 THEN 0 ELSE IF start > Len(list) THEN Len(list) ELSE start
     IN list' = Spliced(list, p, Len(list) - p - Cardinality(P), new)

Extend(new) == list' = list \o new

Pop(t, i) ==
  /\ Place(i) \in 0 .. Len(list) - 1
  /\ list' = Spliced(list, Place(i), Len(list) - Place(i) - 1, <<>>)
  /\ Reply(t, [op |-> "pop", i |-> i, reply |-> list[Place(i) + 1]])

Remove(x) == Occurrences(list, x) # {} /\
  LET p == First(Occurrences(list, x)) IN list' = Spliced(list, p - 1, Len(list) - p, <<>>)

Sort == \E reverse \in BOOLEAN : list' = Sorted(list, reverse)
Reverse == list' = [i \in DOMAIN list |-> list[Len(list) - i + 1]]

Change ==
  /\ UNCHANGED outcome
  /\ \/ Add \/ Sort \/ Reverse
     \/ list' = <<>>
     \/ \E i \in Indices, x \in Elements : Insert(i, x) \/ Set(i, x)
     \/ \E slice \in Slices, new \in Sequels : Replace(slice, new)
     \/ \E new \in Sequels : Extend(new)
     \/ Extend(list)
     \/ \E x \in Elements : Remove(x)

\* What a call that only looks may answer.
Right(o) ==
  CASE o.op = "contains" -> o.reply = (Occurrences(list, o.x) # {})
    [] o.op = "count" -> o.reply = Cardinality(Occurrences(list, o.x))
    [] o.op = "index" ->
         LET P == Occurrences(list, o.x)
                    \cap PositionsOf(list, [start |-> o.low, end |-> o.high, step |-> None])
         IN o.reply = IF P = {} THEN None ELSE First(P) - 1
    [] o.op = "getitem" -> Place(o.i) \in 0 .. Len(list) - 1 /\ o.reply = list[Place(o.i) + 1]
    [] o.op = "sort" -> TRUE   \* raised: the list is as it was
    [] o.op = "remove" -> Occurrences(list, o.x) = {}
    [] OTHER -> FALSE

Answer(t) ==
  /\ UNCHANGED list
  /\ outcome[t] = Nothing /\ outcome[t]' # Nothing
  /\ Right(outcome[t]')
  /\ Reply(t, outcome[t]')

Drop(t) == Reply(t, Nothing) /\ UNCHANGED list

Next == \/ Change
        \/ \E t \in Threads : Answer(t) \/ Drop(t) \/ \E i \in Indices : Pop(t, i)

Spec == Init /\ [][Next]_<<list, outcome>>
==============================================================================
