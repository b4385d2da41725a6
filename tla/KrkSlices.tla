------------------------------ MODULE KrkSlices ------------------------------
(***************************************************************************)
(* Positions in a sequence: how an index and a slice are brought into      *)
(* bounds (obj_slice.c, the wrapping macros of obj_list.c), how loops walk *)
(* them, and how tuples, which only have operators, answer with them.      *)
(* Positions count from 0 here, as in the code; At reads one.              *)
(***************************************************************************)
EXTENDS Integers, Sequences

CONSTANTS
  None,   \* the value None, where an int may be left out
  Worth   \* of each element, the number that == and < compare

At(s, i) == s[i + 1]
Same(a, b) == Worth[a] = Worth[b]

Clipped(low, high, i) == IF i < low THEN low ELSE IF i > high THEN high ELSE i

\* A negative index counts from the end.
FromEnd(n, i) == IF i < 0 THEN i + n ELSE i

\* LIST_WRAP_INDEX: an index outside is an IndexError.
InBounds(n, i) == FromEnd(n, i) >= 0 /\ FromEnd(n, i) < n

\* LIST_WRAP_SOFT, _wrap: an index outside is taken to the nearest end.
Wrap(n, i) == Clipped(0, n, FromEnd(n, i))
\* Mutant: an end before the first is taken for the first.
MutWrapN(n, i) == Clipped(0, n, FromEnd(n, i))

\* _wrapn, for the end of a slice that runs down: before the first is -1.
WrapN(n, i) == Clipped(-1, n, FromEnd(n, i))

Or(i, default) == IF i = None THEN default ELSE i

Rejected(n, slice) == n # 0 /\ slice.step = 0

\* krk_extractSlicer.  An empty sequence is not asked for the step.
Bounds(n, slice) ==
  LET step == Or(slice.step, 1)
      start == Wrap(n, Or(slice.start, IF step > 0 THEN 0 ELSE n - 1))
      first == IF step < 0 /\ start >= n THEN n - 1 ELSE start
      end == IF step > 0 THEN Wrap(n, Or(slice.end, n))
             ELSE IF slice.end = None THEN -1 ELSE WrapN(n, slice.end)
  IN IF n = 0 THEN [start |-> 0, end |-> 0, step |-> 1]
     ELSE [start |-> first,
           end |-> IF (step > 0 /\ end < first) \/ (step < 0 /\ end > first) THEN first ELSE end,
           step |-> step]

\* for (i = start; step < 0 ? i > end : i < end; i += step)
Walk(b) ==
  LET from[i \in Int] ==
        IF (b.step > 0 /\ i < b.end) \/ (b.step < 0 /\ i > b.end) THEN <<i>> \o from[i + b.step]
        ELSE <<>>
  IN from[b.start]

Slice(s, slice) ==
  LET b == Bounds(Len(s), slice)
      walk == Walk(b)
  IN IF b.step = 1 THEN SubSeq(s, b.start + 1, b.end) ELSE [k \in DOMAIN walk |-> At(s, walk[k])]

\* range(): the iterator counts, the test reckons.
RangeWalk(r) == Walk(r)
InRange(r, i) ==
  CASE r.step = 1 -> r.start <= i /\ i < r.end
    [] r.step = -1 -> i <= r.start /\ i > r.end
    [] r.step > 1 -> i < r.end /\ i >= r.start /\ (i - r.start) % r.step = 0
    [] r.step < -1 -> i > r.end /\ i <= r.start /\ (r.start - i) % (-r.step) = 0

-----------------------------------------------------------------------------
(* Comparing: the first elements that are not equal decide, else lengths.  *)

FirstDifference(s, t) ==
  LET lesser == IF Len(s) < Len(t) THEN Len(s) ELSE Len(t)
      from[i \in 1 .. lesser + 1] == IF i > lesser \/ ~Same(s[i], t[i]) THEN i ELSE from[i + 1]
  IN from[1]

Compare(s, t, Rel(_, _)) ==
  LET i == FirstDifference(s, t)
  IN IF i <= Len(s) /\ i <= Len(t) THEN Rel(Worth[s[i]], Worth[t[i]]) ELSE Rel(Len(s), Len(t))

Equal(s, t) == Len(s) = Len(t) /\ FirstDifference(s, t) > Len(s)

-----------------------------------------------------------------------------
(* Tuples.                                                                 *)

TupleAdd(s, t) == [i \in 1 .. Len(s) + Len(t) |-> IF i <= Len(s) THEN s[i] ELSE t[i - Len(s)]]

TupleMul(s, n) == [i \in 1 .. Clipped(0, n, n) * Len(s) |-> s[((i - 1) % Len(s)) + 1]]

TupleContains(s, x) == \E i \in DOMAIN s : Same(s[i], x)
=============================================================================
