------------------------------ MODULE Sequential ------------------------------
(***************************************************************************)
(* What sequences promise, said without loops: an index picks the element  *)
(* at its distance from either end, a slice the elements whose positions   *)
(* are in step between its ends, the order is that of dictionaries, a list *)
(* is sorted by putting each element behind those that belong before it.   *)
(* Only what the operators of the code are compared with; nothing here is  *)
(* translated from it.                                                     *)
(***************************************************************************)
EXTENDS Integers, Sequences, FiniteSets

CONSTANTS None, Key

Equals(a, b) == Key[a] = Key[b]

\* The elements of s at the positions in P, in order or from the back.
Selected(s, P, down) ==
  [k \in 1 .. Cardinality(P) |->
     s[CHOOSE i \in P :
         Cardinality({j \in P : IF down THEN j > i ELSE j < i}) = k - 1]]

\* s[start:end:step] with positions 1 .. Len(s); a start before the first
\* element is not given a meaning for slices that run down.
PositionsOf(s, slice) ==
  LET n == Len(s)
      step == IF slice.step = None THEN 1 ELSE slice.step
      place(i) == IF i < 0 THEN n + i + 1 ELSE i + 1
      first == IF slice.start = None THEN (IF step > 0 THEN 1 ELSE n)
               ELSE IF step > 0 /\ place(slice.start) < 1 THEN 1
               ELSE IF step < 0 /\ place(slice.start) > n THEN n
               ELSE place(slice.start)
  IN {i \in 1 .. n :
        /\ IF step > 0 THEN i >= first /\ (i - first) % step = 0
           ELSE i <= first /\ (first - i) % (-step) = 0
        /\ slice.end # None => IF step > 0 THEN i < place(slice.end) ELSE i > place(slice.end)}

Meaningful(s, slice) ==
  /\ slice.step # 0
  /\ slice.start # None /\ slice.step # None => (slice.step < 0 => slice.start >= -Len(s))

Sliced(s, slice) ==
  Selected(s, PositionsOf(s, slice), slice.step # None /\ slice.step < 0)

\* s comes before t: it is shorter but otherwise the same, or smaller at the
\* first place where they differ.
Precedes(s, t) ==
  \E k \in 0 .. Len(s) :
    /\ k <= Len(t)
    /\ \A i \in 1 .. k : Equals(s[i], t[i])
    /\ k < Len(t)
    /\ k < Len(s) => Key[s[k + 1]] < Key[t[k + 1]]

Twins(s, t) == Len(s) = Len(t) /\ \A i \in DOMAIN s : Equals(s[i], t[i])

\* Stable, whichever way.
Sorted(s, reverse) ==
  LET before(i, j) == \/ IF reverse THEN Key[s[i]] > Key[s[j]] ELSE Key[s[i]] < Key[s[j]]
                      \/ Equals(s[i], s[j]) /\ i < j
  IN [k \in DOMAIN s |-> s[CHOOSE i \in DOMAIN s : Cardinality({j \in DOMAIN s : before(j, i)}) = k - 1]]

\* s with the elements behind the first p and before the last q taken out and
\* new ones put there.
Spliced(s, p, q, new) == SubSeq(s, 1, p) \o new \o SubSeq(s, Len(s) - q + 1, Len(s))

\* The positions, from 1, of the elements equal to x.
Occurrences(s, x) == {i \in DOMAIN s : Equals(s[i], x)}
First(P) == CHOOSE i \in P : \A j \in P : i <= j
=============================================================================
