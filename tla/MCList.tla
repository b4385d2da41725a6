------------------------------- MODULE MCList --------------------------------
(***************************************************************************)
(* What must hold of KrkList and KrkBuiltins, and the refinement.          *)
(***************************************************************************)
EXTENDS KrkList, KrkBuiltins

CONSTANT Nothing

Steps == [start : {None} \cup (-5 .. 5), end : {None} \cup (-5 .. 5), step : {None} \cup (-3 .. 3)]

Reference == INSTANCE Sequential WITH Key <- Worth

\* Indexing by a slice gives the elements the slice stands for, whatever its
\* ends and step, and an error only for a step of zero.
SlicesRight ==
  (Small /\ \A u \in Threads : Idle(u)) =>
    \A slice \in Steps :
      Reference!Meaningful(values, slice) /\ ~Rejected(Len(values), slice) =>
        Slice(values, slice) = Reference!Sliced(values, slice)

\* The loops over lists and tuples say what they should of a list and
\* another: which is smaller, what both and n of one are, whether any and all
\* elements are true, the first of the smallest, and which items come out of
\* iterators, with nothing taken from a list that is not given out but what
\* zip has taken before it found a later list to be at its end.
Numbers == [start : -3 .. 3, end : -3 .. 3, step : {-3, -2, -1, 1, 2, 3}]
RangesRight(r) ==
  \A i \in -4 .. 4 : InRange(r, i) <=> \E k \in DOMAIN RangeWalk(r) : RangeWalk(r)[k] = i

Shorter(a, b) == IF Len(a) < Len(b) THEN Len(a) ELSE Len(b)

LoopsAgree(a, b) ==
  LET zipped == Drawn(<<Over(a), Over(b)>>, PullAll, 9)
      passed == Drawn(Over(a), LAMBDA it : PullPassing(it, {x \in ToSet(a) : Truthy(x)}), 9)
      counted == Drawn([of |-> Over(a), counter |-> 7], PullCounted, 9)
  IN /\ Compare(a, b, LAMBDA x, y : x < y) = Reference!Precedes(a, b)
     /\ Equal(a, b) = Reference!Twins(a, b)
     /\ TupleAdd(a, b) = a \o b
     /\ TupleMul(a, 2) = a \o a /\ TupleMul(a, -1) = <<>>
     /\ \A x \in Elements : TupleContains(a, x) = (Reference!Occurrences(a, x) # {})
     /\ AnyOf(a) = \E x \in ToSet(a) : Truthy(x)
     /\ AllOf(a) = \A x \in ToSet(a) : Truthy(x)
     /\ SumOf(a, 0) + SumOf(b, 0) = SumOf(a \o b, 0)
     /\ a # <<>> => MinOf(a) = Reference!Sorted(a, FALSE)[1] /\ MaxOf(a) = Reference!Sorted(a, TRUE)[1]
     /\ zipped.items = [k \in 1 .. Shorter(a, b) |-> <<a[k], b[k]>>]
     /\ zipped.rest[1].i = (IF Len(a) > Len(b) THEN Len(b) + 1 ELSE Len(a))
     /\ zipped.rest[2].i = Shorter(a, b)
     /\ passed.items = SelectSeq(a, Truthy)
     /\ counted.items = [k \in DOMAIN a |-> <<k + 6, a[k]>>]

LoopsRight ==
  (Small /\ \A u \in Threads : Idle(u)) =>
    /\ values = <<>> => \A r \in Numbers : RangesRight(r)
    /\ \A other \in Sequels : LoopsAgree(values, other) /\ LoopsAgree(other, values)

\* A list that is being sorted counts as it was before.  The answer to a
\* call is known until the thread goes on.
Outcome(u) ==
  IF frames[u] = <<>> \/ Top(u).reply = <<>> THEN Nothing ELSE [Top(u) EXCEPT !.reply = Head(@)]
AbstractList ==
  INSTANCE Lists WITH
    Key <- Worth,
    list <- IF \E u \in Threads : In(u, {"sort"})
            THEN Top(CHOOSE u \in Threads : In(u, {"sort"})).was ELSE values,
    outcome <- [u \in Threads |-> Outcome(u)]

\* Whatever threads do with a list, and whatever __eq__ and iterators do in
\* between, every call has its effect at once and a right answer.
ImplementsLists == AbstractList!Spec
==============================================================================
