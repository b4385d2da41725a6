--------------------------- MODULE KrkTable_proofs ---------------------------
(***************************************************************************)
(* Proofs about KrkTable, for every set of keys, every hash function and   *)
(* every bound.                                                            *)
(*                                                                         *)
(* The inductive invariant says of a pair of arrays that they are          *)
(* WellFormed; it holds of the table, and of the arrays a rehash fills.    *)
(* Its heart is Reached: from the home slot of a key that is alive to the  *)
(* slot of its pair there is no Empty slot.  A probe therefore cannot stop *)
(* early, a search that does stop at an Empty slot has shown that no equal *)
(* key is alive, and inserting there keeps the keys distinct.              *)
(***************************************************************************)
EXTENDS KrkTable, FiniteSetTheorems, SequenceTheorems, WellFoundedInduction, TLAPS

Live(ents, cap) == {i \in Slots(cap) : ents[i].key # NoKey}
FullSlots(idx, cap) == {s \in Slots(cap) : idx[s] # Empty}

Typed(ents, idx, cap, u) ==
  /\ cap \in Nat /\ u \in Nat
  /\ ents \in [Slots(cap) -> Entry]
  /\ idx \in [Slots(cap) -> {Empty, Tombstone} \cup Slots(cap)]

\* Indexes point at pairs that are alive, no two at the same one; the
\* positions not yet used are gaps.
Pointing(ents, idx, cap, u) ==
  /\ \A s \in Slots(cap) : idx[s] >= 0 => idx[s] < u /\ ents[idx[s]].key # NoKey
  /\ \A s, t \in Slots(cap) : idx[s] >= 0 /\ idx[s] = idx[t] => s = t
  /\ \A i \in Slots(cap) : i >= u => ents[i] = Gap

\* No slot between h and s, in the order a probe walks them, is Empty.
Bridged(idx, cap, h, s) ==
  \A t \in Slots(cap) : Dist(h, t, cap) < Dist(h, s, cap) => idx[t] # Empty

Reached(ents, idx, cap) ==
  \A i \in Live(ents, cap) :
    /\ ents[i].key \notin Unhashable
    /\ \E s \in Slots(cap) : idx[s] = i /\ Bridged(idx, cap, Home(ents[i].key, cap), s)

NoEqualKeys(ents, cap) ==
  \A i, j \in Live(ents, cap) : ents[j].key \in EqualTo[ents[i].key] => i = j

Loaded(idx, cap, u) == 4 * u <= 3 * cap /\ Cardinality(FullSlots(idx, cap)) <= u

WellFormed(ents, idx, cap, u) ==
  /\ Typed(ents, idx, cap, u)
  /\ Pointing(ents, idx, cap, u)
  /\ Reached(ents, idx, cap)
  /\ NoEqualKeys(ents, cap)
  /\ Loaded(idx, cap, u)

-----------------------------------------------------------------------------
(* Arrays.                                                                 *)

LEMMA HomeIsSlot ==
  ASSUME NEW k \in Key, NEW cap \in Nat, cap > 0
  PROVE  Home(k, cap) \in Slots(cap)
BY KeyAssumption DEF Home, Slots

\* Distances tell the slots apart.
LEMMA DistInjective ==
  ASSUME NEW cap \in Nat, NEW h \in Slots(cap), NEW s \in Slots(cap), NEW t \in Slots(cap),
         Dist(h, s, cap) = Dist(h, t, cap)
  PROVE  s = t
BY DEF Dist, Slots

LEMMA DistNat ==
  ASSUME NEW cap \in Nat, NEW h \in Slots(cap), NEW s \in Slots(cap)
  PROVE  Dist(h, s, cap) \in Nat
BY DEF Dist, Slots

\* A pair that is alive has a key.
LEMMA LiveKey ==
  ASSUME NEW cap, NEW ents \in [Slots(cap) -> Entry], NEW i \in Live(ents, cap)
  PROVE  /\ i \in Slots(cap)
         /\ ents[i].key \in Key
         /\ ents[i] \in [key : Key, value : Value]
BY DEF Live, Entry, Gap

LEMMA IntervalSize ==
  ASSUME NEW n \in Nat
  PROVE  IsFiniteSet(0 .. n - 1) /\ Cardinality(0 .. n - 1) = n
<1>1. n - 1 \in Int /\ 0 \in Int
  OBVIOUS
<1>2. /\ IsFiniteSet(0 .. n - 1)
      /\ Cardinality(0 .. n - 1) = IF 0 > n - 1 THEN 0 ELSE (n - 1) - 0 + 1
  BY <1>1, FS_Interval
<1>3. QED
  BY <1>2

LEMMA FullSlotsFinite ==
  ASSUME NEW cap \in Nat, NEW idx
  PROVE  IsFiniteSet(FullSlots(idx, cap)) /\ Cardinality(FullSlots(idx, cap)) \in Nat
<1>1. IsFiniteSet(Slots(cap))
  BY FS_Interval DEF Slots
<1>2. IsFiniteSet(FullSlots(idx, cap))
  BY <1>1, FS_Subset DEF FullSlots
<1>3. QED
  BY <1>2, FS_CardinalityType

LEMMA AddAtMostOne ==
  ASSUME NEW S, IsFiniteSet(S), NEW x
  PROVE  /\ Cardinality(S) \in Nat
         /\ Cardinality(S \cup {x}) \in Nat
         /\ Cardinality(S \cup {x}) <= Cardinality(S) + 1
<1>1. Cardinality(S) \in Nat
  BY FS_CardinalityType
<1>2. Cardinality(S \cup {x}) = IF x \in S THEN Cardinality(S) ELSE Cardinality(S) + 1
  BY FS_AddElement
<1>3. QED
  BY <1>1, <1>2

\* More slots than positions: a probe finds an Empty slot.
LEMMA EmptySlotExists ==
  ASSUME NEW ents, NEW idx, NEW cap, NEW u, WellFormed(ents, idx, cap, u), cap > 0
  PROVE  \E s \in Slots(cap) : idx[s] = Empty
<1>1. cap \in Nat /\ u \in Nat /\ 4 * u <= 3 * cap /\ Cardinality(FullSlots(idx, cap)) <= u
  BY DEF WellFormed, Typed, Loaded
<1>2. IsFiniteSet(Slots(cap)) /\ Cardinality(Slots(cap)) = cap
  BY <1>1, FS_Interval DEF Slots
<1>3. FullSlots(idx, cap) # Slots(cap)
  BY <1>1, <1>2
<1>4. QED
  BY <1>3 DEF FullSlots

\* A probe for a key of the table stops at its own pair.
LEMMA ProbeFindsPair ==
  ASSUME NEW ents, NEW idx, NEW cap, NEW u, WellFormed(ents, idx, cap, u),
         NEW i \in Live(ents, cap)
  PROVE  \E s \in Slots(cap) :
           /\ IsKeySlot(ents, idx, cap, ents[i].key, EqualTo[ents[i].key], s)
           /\ idx[s] = i
<1> DEFINE k == ents[i].key
           h == Home(k, cap)
           match == EqualTo[k]
<1>1. cap \in Nat /\ ents \in [Slots(cap) -> Entry]
      /\ idx \in [Slots(cap) -> {Empty, Tombstone} \cup Slots(cap)]
  BY DEF WellFormed, Typed
<1>2. i \in Slots(cap) /\ k \in Key
  BY <1>1, LiveKey
<1>3. cap > 0 /\ h \in Slots(cap)
  BY <1>1, <1>2, HomeIsSlot DEF Slots
<1>4. k \in match
  BY <1>2, KeyAssumption
<1>5. PICK s \in Slots(cap) : idx[s] = i /\ Bridged(idx, cap, h, s)
  BY DEF WellFormed, Reached
<1>6. s \in Stops(ents, idx, cap, match)
  BY <1>2, <1>4, <1>5 DEF Stops, Slots
<1>7. ASSUME NEW t \in Stops(ents, idx, cap, match)
      PROVE  Dist(h, s, cap) <= Dist(h, t, cap)
  <2>1. t \in Slots(cap)
    BY DEF Stops
  <2>2. CASE idx[t] = Empty
    BY <1>1, <1>3, <1>5, <2>1, <2>2, DistNat DEF Bridged
  <2>3. CASE idx[t] # Empty
    <3>1. idx[t] >= 0 /\ ents[idx[t]].key \in match
      BY <2>3 DEF Stops
    <3>2. idx[t] \in Live(ents, cap)
      BY <1>1, <2>1, <3>1 DEF WellFormed, Pointing, Live, Slots, Empty, Tombstone
    <3>3. idx[t] = i
      BY <3>1, <3>2 DEF WellFormed, NoEqualKeys
    <3>4. t = s
      BY <1>5, <2>1, <3>1, <3>3 DEF WellFormed, Pointing
    <3>5. QED
      BY <1>1, <1>3, <3>4, DistNat
  <2>4. QED
    BY <2>2, <2>3
<1>8. Nearest(h, Stops(ents, idx, cap, match), cap, s)
  BY <1>6, <1>7 DEF Nearest
<1>9. idx[s] # Empty
  BY <1>2, <1>5 DEF Slots, Empty
<1>10. IsKeySlot(ents, idx, cap, k, match, s)
  BY <1>6, <1>8, <1>9 DEF IsKeySlot
<1>11. QED
  BY <1>5, <1>10
\* What krk_tableIndexKeyC returns: the slot where the probe stopped, or a
\* tombstone on the way to an Empty one.
LEMMA KeySlotShape ==
  ASSUME NEW ents, NEW idx, NEW cap, NEW u, WellFormed(ents, idx, cap, u), cap > 0,
         NEW k \in Key, NEW match, NEW s, IsKeySlot(ents, idx, cap, k, match, s)
  PROVE  /\ s \in Slots(cap)
         /\ \E stop \in Slots(cap) :
              /\ Nearest(Home(k, cap), Stops(ents, idx, cap, match), cap, stop)
              /\ \/ s = stop
                 \/ /\ idx[stop] = Empty
                    /\ idx[s] = Tombstone
                    /\ Dist(Home(k, cap), s, cap) < Dist(Home(k, cap), stop, cap)
<1>1. PICK e \in Slots(cap) : idx[e] = Empty
  BY EmptySlotExists
<1>2. Stops(ents, idx, cap, match) # {}
  BY <1>1 DEF Stops
<1>3. QED
  BY <1>2 DEF IsKeySlot, Nearest, Stops, Passed

\* A search that ends at a free slot passed no Empty slot and no pair with
\* one of the keys looked for, and there is none in the whole table.
LEMMA SearchFails ==
  ASSUME NEW ents, NEW idx, NEW cap, NEW u, WellFormed(ents, idx, cap, u), cap > 0,
         NEW k \in Key, NEW match \in SUBSET EqualTo[k],
         NEW s, IsKeySlot(ents, idx, cap, k, match, s), idx[s] < 0
  PROVE  /\ s \in Slots(cap)
         /\ Bridged(idx, cap, Home(k, cap), s)
         /\ \A i \in Live(ents, cap) : ents[i].key \notin match
<1> DEFINE h == Home(k, cap)
           stops == Stops(ents, idx, cap, match)
<1>1. cap \in Nat /\ ents \in [Slots(cap) -> Entry]
      /\ idx \in [Slots(cap) -> {Empty, Tombstone} \cup Slots(cap)]
  BY DEF WellFormed, Typed
<1>2. h \in Slots(cap)
  BY <1>1, HomeIsSlot
<1>3. s \in Slots(cap)
  BY KeySlotShape
<1>4. PICK stop \in Slots(cap) :
        /\ Nearest(h, stops, cap, stop)
        /\ \/ s = stop
           \/ /\ idx[stop] = Empty
              /\ idx[s] = Tombstone
              /\ Dist(h, s, cap) < Dist(h, stop, cap)
  BY KeySlotShape
<1>5. idx[stop] = Empty
  BY <1>1, <1>4 DEF Nearest, Stops, Slots, Empty, Tombstone
<1>6. ASSUME NEW t \in Slots(cap), Dist(h, t, cap) < Dist(h, stop, cap)
      PROVE  t \notin stops
  BY <1>1, <1>2, <1>4, <1>6, DistNat DEF Nearest
<1>7. Bridged(idx, cap, h, s)
  <2> SUFFICES ASSUME NEW t \in Slots(cap), Dist(h, t, cap) < Dist(h, s, cap)
               PROVE  idx[t] # Empty
    BY DEF Bridged
  <2>1. Dist(h, t, cap) < Dist(h, stop, cap)
    BY <1>1, <1>2, <1>3, <1>4, DistNat
  <2>2. QED
    BY <1>6, <2>1 DEF Stops
<1>8. ASSUME NEW i \in Live(ents, cap), ents[i].key \in match
      PROVE  FALSE
  <2>1. ents[i].key \in Key /\ i \in Slots(cap)
    BY <1>1, LiveKey
  <2>2. Home(ents[i].key, cap) = h
    BY <1>8, <2>1, KeyAssumption DEF Home
  <2>3. PICK t \in Slots(cap) : idx[t] = i /\ Bridged(idx, cap, h, t)
    BY <2>2 DEF WellFormed, Reached
  <2>4. t \in stops
    BY <1>8, <2>1, <2>3 DEF Stops, Slots
  <2>5. Dist(h, stop, cap) <= Dist(h, t, cap)
    BY <1>4, <2>4 DEF Nearest
  <2>6. t # stop
    BY <1>5, <2>1, <2>3 DEF Slots, Empty
  <2>7. Dist(h, stop, cap) < Dist(h, t, cap)
    BY <1>1, <1>2, <2>5, <2>6, DistNat, DistInjective
  <2>8. QED
    BY <1>5, <2>3, <2>7 DEF Bridged
<1>9. QED
  BY <1>3, <1>7, <1>8

Room(cap, u) == 4 * (u + 1) <= 3 * cap

\* Where a failed search for k may leave the probe.
Free(ents, idx, cap, k, s) ==
  /\ s \in Slots(cap) /\ idx[s] < 0
  /\ Bridged(idx, cap, Home(k, cap), s)
  /\ \A i \in Live(ents, cap) : ents[i].key \notin EqualTo[k]

\* pair takes position u and slot s.
Placed(ents, idx, u, s, pair, ents2, idx2) ==
  /\ ents2 = [ents EXCEPT ![u] = pair]
  /\ idx2 = [idx EXCEPT ![s] = u]

\* Placing a new pair at the next position and a free slot.
LEMMA InsertPair ==
  ASSUME NEW ents, NEW idx, NEW cap, NEW u, WellFormed(ents, idx, cap, u), Room(cap, u),
         NEW k \in Key \ Unhashable, NEW pair \in [key : Key, value : Value], pair.key = k,
         NEW s, Free(ents, idx, cap, k, s),
         NEW ents2, NEW idx2, Placed(ents, idx, u, s, pair, ents2, idx2)
  PROVE  /\ WellFormed(ents2, idx2, cap, u + 1)
         /\ Live(ents2, cap) = Live(ents, cap) \cup {u}
         /\ u \notin Live(ents, cap)
         /\ u \in Slots(cap)
<1>1. /\ s \in Slots(cap) /\ idx[s] < 0
      /\ Bridged(idx, cap, Home(k, cap), s)
      /\ \A i \in Live(ents, cap) : ents[i].key \notin EqualTo[k]
      /\ 4 * (u + 1) <= 3 * cap
      /\ cap \in Nat /\ u \in Nat
      /\ ents \in [Slots(cap) -> Entry]
      /\ idx \in [Slots(cap) -> {Empty, Tombstone} \cup Slots(cap)]
  BY DEF WellFormed, Typed, Free, Room
<1>2. u \in Slots(cap) /\ ents[u] = Gap
  BY <1>1 DEF Slots, WellFormed, Pointing
<1>3. u \notin Live(ents, cap)
  BY <1>2 DEF Live, Gap
<1>4. /\ ents2 \in [Slots(cap) -> Entry] /\ ents2[u] = pair
      /\ \A i \in Slots(cap) : i # u => ents2[i] = ents[i]
  BY <1>1, <1>2 DEF Entry, Placed
<1>5. /\ idx2 \in [Slots(cap) -> {Empty, Tombstone} \cup Slots(cap)] /\ idx2[s] = u
      /\ \A t \in Slots(cap) : t # s => idx2[t] = idx[t]
  BY <1>1, <1>2 DEF Placed
<1>6. k # NoKey
  BY KeyAssumption
<1>7. Live(ents2, cap) = Live(ents, cap) \cup {u}
  BY <1>2, <1>4, <1>6 DEF Live
<1>8. Typed(ents2, idx2, cap, u + 1)
  BY <1>1, <1>4, <1>5 DEF Typed
<1>9. Pointing(ents2, idx2, cap, u + 1)
  <2>1. ASSUME NEW t \in Slots(cap), idx2[t] >= 0
        PROVE  idx2[t] < u + 1 /\ ents2[idx2[t]].key # NoKey
    <3>1. CASE t = s
      BY <1>1, <1>4, <1>5, <1>6, <3>1
    <3>2. CASE t # s
      BY <1>1, <1>4, <1>5, <2>1, <3>2 DEF WellFormed, Pointing, Slots, Empty, Tombstone
    <3>3. QED
      BY <3>1, <3>2
  <2>2. ASSUME NEW t \in Slots(cap), NEW r \in Slots(cap), idx2[t] >= 0, idx2[t] = idx2[r]
        PROVE  t = r
    BY <1>1, <1>5, <2>2 DEF WellFormed, Pointing, Slots, Empty, Tombstone
  <2>3. ASSUME NEW i \in Slots(cap), i >= u + 1
        PROVE  ents2[i] = Gap
    BY <1>1, <1>4, <2>3 DEF WellFormed, Pointing, Slots
  <2>4. QED
    BY <2>1, <2>2, <2>3 DEF Pointing
<1>10. Reached(ents2, idx2, cap)
  <2>1. ASSUME NEW h, NEW t, Bridged(idx, cap, h, t)
        PROVE  Bridged(idx2, cap, h, t)
    BY <1>1, <1>5, <2>1 DEF Bridged, Empty
  <2>2. ASSUME NEW i \in Live(ents2, cap)
        PROVE  /\ ents2[i].key \notin Unhashable
               /\ \E t \in Slots(cap) : idx2[t] = i /\ Bridged(idx2, cap, Home(ents2[i].key, cap), t)
    <3>1. CASE i = u
      BY <1>1, <1>4, <1>5, <2>1, <3>1
    <3>2. CASE i # u
      <4>1. i \in Live(ents, cap) /\ ents2[i] = ents[i]
        BY <1>4, <1>7, <2>2, <3>2 DEF Live
      <4>2. ents[i].key \notin Unhashable
        BY <4>1 DEF WellFormed, Reached
      <4>3. PICK t \in Slots(cap) : idx[t] = i /\ Bridged(idx, cap, Home(ents[i].key, cap), t)
        BY <4>1 DEF WellFormed, Reached
      <4>4. t # s
        BY <1>1, <4>1, <4>3 DEF Live, Slots
      <4>5. QED
        BY <1>5, <2>1, <4>1, <4>2, <4>3, <4>4
    <3>3. QED
      BY <3>1, <3>2
  <2>3. QED
    BY <2>2 DEF Reached
<1>11. NoEqualKeys(ents2, cap)
  <2> SUFFICES ASSUME NEW i \in Live(ents2, cap), NEW j \in Live(ents2, cap),
                      ents2[j].key \in EqualTo[ents2[i].key]
               PROVE  i = j
    BY DEF NoEqualKeys
  <2>1. CASE i = u /\ j = u
    BY <2>1
  <2>2. CASE i = u /\ j # u
    BY <1>1, <1>4, <1>7, <2>2 DEF Live
  <2>3. CASE i # u /\ j = u
    <3>1. i \in Live(ents, cap) /\ ents2[i] = ents[i] /\ ents[i].key \in Key
      BY <1>1, <1>4, <1>7, <2>3, LiveKey DEF Live
    <3>2. k \in EqualTo[ents[i].key]
      BY <1>4, <2>3, <3>1
    <3>3. ents[i].key \in EqualTo[k]
      BY <3>1, <3>2, KeyAssumption
    <3>4. QED
      BY <1>1, <3>1, <3>3
  <2>4. CASE i # u /\ j # u
    BY <1>4, <1>7, <2>4 DEF WellFormed, NoEqualKeys, Live
  <2>5. QED
    BY <2>1, <2>2, <2>3, <2>4
<1>12. Loaded(idx2, cap, u + 1)
  <2>1. FullSlots(idx2, cap) = FullSlots(idx, cap) \cup {s}
    BY <1>1, <1>5 DEF FullSlots, Empty
  <2>2. IsFiniteSet(FullSlots(idx, cap))
    BY <1>1, FullSlotsFinite
  <2>3. /\ Cardinality(FullSlots(idx2, cap)) \in Nat
        /\ Cardinality(FullSlots(idx, cap)) \in Nat
        /\ Cardinality(FullSlots(idx2, cap)) <= Cardinality(FullSlots(idx, cap)) + 1
    BY <2>1, <2>2, AddAtMostOne
  <2>4. QED
    BY <1>1, <2>3 DEF WellFormed, Loaded
<1>13. QED
  BY <1>2, <1>3, <1>7, <1>8, <1>9, <1>10, <1>11, <1>12 DEF WellFormed

\* A search that ends at a pair ends at one with a key looked for.
LEMMA SearchHits ==
  ASSUME NEW ents, NEW idx, NEW cap, NEW u, WellFormed(ents, idx, cap, u), cap > 0,
         NEW k \in Key, NEW match,
         NEW s, IsKeySlot(ents, idx, cap, k, match, s), idx[s] >= 0
  PROVE  /\ s \in Slots(cap)
         /\ idx[s] \in Live(ents, cap)
         /\ ents[idx[s]].key \in match
<1>1. idx \in [Slots(cap) -> {Empty, Tombstone} \cup Slots(cap)]
  BY DEF WellFormed, Typed
<1>2. s \in Slots(cap) /\ s \in Stops(ents, idx, cap, match)
  BY KeySlotShape DEF Nearest, Empty, Tombstone
<1>3. idx[s] # Empty
  BY DEF Empty
<1>4. idx[s] \in Slots(cap)
  BY <1>1, <1>2 DEF Empty, Tombstone, Slots
<1>5. QED
  BY <1>2, <1>3, <1>4 DEF Stops, Live, WellFormed, Pointing

LEMMA LiveBounded ==
  ASSUME NEW ents, NEW idx, NEW cap, NEW u, WellFormed(ents, idx, cap, u)
  PROVE  /\ IsFiniteSet(Live(ents, cap))
         /\ Cardinality(Live(ents, cap)) \in Nat
         /\ Cardinality(Live(ents, cap)) <= u
<1>1. u \in Nat /\ cap \in Nat
  BY DEF WellFormed, Typed
<1>2. Live(ents, cap) \subseteq 0 .. u - 1
  BY <1>1 DEF Live, WellFormed, Pointing, Slots, Gap
<1>3. IsFiniteSet(0 .. u - 1) /\ Cardinality(0 .. u - 1) = u
  BY <1>1, IntervalSize
<1>4. QED
  BY <1>2, <1>3, FS_Subset, FS_CardinalityType

\* An overwritten value leaves every key alone.
LEMMA OverwriteKeepsKeys ==
  ASSUME NEW cap, NEW ents \in [Slots(cap) -> Entry], NEW i \in Live(ents, cap),
         NEW ents2, NEW v \in Value, ents2 = [ents EXCEPT ![i].value = v],
         NEW j \in Slots(cap)
  PROVE  ents2[j].key = ents[j].key
<1>1. i \in Slots(cap) /\ ents[i] \in [key : Key, value : Value]
  BY LiveKey
<1>2. QED
  BY <1>1 DEF Entry

\* A new value for a pair that is alive disturbs nothing.
LEMMA OverwritePair ==
  ASSUME NEW ents, NEW idx, NEW cap, NEW u, WellFormed(ents, idx, cap, u),
         NEW i \in Live(ents, cap), NEW v \in Value
  PROVE  /\ WellFormed([ents EXCEPT ![i].value = v], idx, cap, u)
         /\ Live([ents EXCEPT ![i].value = v], cap) = Live(ents, cap)
<1> DEFINE ents2 == [ents EXCEPT ![i].value = v]
<1>1. /\ cap \in Nat /\ u \in Nat
      /\ ents \in [Slots(cap) -> Entry]
  BY DEF WellFormed, Typed
<1>2. i \in Slots(cap) /\ ents[i] \in [key : Key, value : Value]
  BY <1>1, LiveKey
<1>3. /\ ents2 \in [Slots(cap) -> Entry]
      /\ \A j \in Slots(cap) : ents2[j].key = ents[j].key
      /\ \A j \in Slots(cap) : j # i => ents2[j] = ents[j]
  BY <1>1, <1>2 DEF Entry
<1>4. Live(ents2, cap) = Live(ents, cap)
  BY <1>3 DEF Live
<1>5. Typed(ents2, idx, cap, u)
  BY <1>3 DEF WellFormed, Typed
<1>6. Pointing(ents2, idx, cap, u)
  <2>1. \A s \in Slots(cap) : idx[s] >= 0 => idx[s] \in Slots(cap)
    BY DEF WellFormed, Typed, Slots, Empty, Tombstone
  <2>2. i < u
    BY <1>1, <1>2 DEF Live, WellFormed, Pointing, Gap, Slots
  <2>3. QED
    BY <1>1, <1>2, <1>3, <2>1, <2>2 DEF WellFormed, Pointing, Slots
<1>7. Reached(ents2, idx, cap)
  BY <1>3, <1>4 DEF WellFormed, Reached, Live
<1>8. NoEqualKeys(ents2, cap)
  BY <1>3, <1>4 DEF WellFormed, NoEqualKeys, Live
<1>9. QED
  BY <1>4, <1>5, <1>6, <1>7, <1>8 DEF WellFormed

\* A pair becomes a gap and its slot a tombstone: no bridge is broken.
LEMMA RemovePair ==
  ASSUME NEW ents, NEW idx, NEW cap, NEW u, WellFormed(ents, idx, cap, u),
         NEW s \in Slots(cap), idx[s] >= 0
  PROVE  /\ WellFormed([ents EXCEPT ![idx[s]] = Gap], [idx EXCEPT ![s] = Tombstone], cap, u)
         /\ Live([ents EXCEPT ![idx[s]] = Gap], cap) = Live(ents, cap) \ {idx[s]}
         /\ idx[s] \in Live(ents, cap)
<1> DEFINE i == idx[s]
           ents2 == [ents EXCEPT ![i] = Gap]
           idx2 == [idx EXCEPT ![s] = Tombstone]
<1>1. /\ cap \in Nat /\ u \in Nat
      /\ ents \in [Slots(cap) -> Entry]
      /\ idx \in [Slots(cap) -> {Empty, Tombstone} \cup Slots(cap)]
  BY DEF WellFormed, Typed
<1>2. i \in Slots(cap) /\ i \in Live(ents, cap)
  BY <1>1 DEF WellFormed, Pointing, Live, Empty, Tombstone, Slots
<1>3. /\ ents2 \in [Slots(cap) -> Entry] /\ ents2[i] = Gap
      /\ \A j \in Slots(cap) : j # i => ents2[j] = ents[j]
  BY <1>1, <1>2 DEF Entry
<1>4. /\ idx2 \in [Slots(cap) -> {Empty, Tombstone} \cup Slots(cap)] /\ idx2[s] = Tombstone
      /\ \A t \in Slots(cap) : t # s => idx2[t] = idx[t]
  BY <1>1
<1>5. Live(ents2, cap) = Live(ents, cap) \ {i}
  BY <1>2, <1>3 DEF Live, Gap
<1>6. Typed(ents2, idx2, cap, u)
  BY <1>1, <1>3, <1>4 DEF Typed
<1>7. Pointing(ents2, idx2, cap, u)
  <2>1. ASSUME NEW t \in Slots(cap), idx2[t] >= 0
        PROVE  t # s /\ idx2[t] = idx[t] /\ idx[t] # i /\ idx[t] \in Slots(cap)
    BY <1>1, <1>4, <2>1 DEF WellFormed, Pointing, Empty, Tombstone, Slots
  <2>2. QED
    BY <1>3, <1>4, <2>1 DEF WellFormed, Pointing
<1>8. Reached(ents2, idx2, cap)
  <2>1. ASSUME NEW h, NEW t, Bridged(idx, cap, h, t)
        PROVE  Bridged(idx2, cap, h, t)
    BY <1>4, <2>1 DEF Bridged, Empty, Tombstone
  <2>2. ASSUME NEW j \in Live(ents2, cap)
        PROVE  /\ ents2[j].key \notin Unhashable
               /\ \E t \in Slots(cap) : idx2[t] = j /\ Bridged(idx2, cap, Home(ents2[j].key, cap), t)
    <3>1. j \in Live(ents, cap) /\ j # i /\ ents2[j] = ents[j]
      BY <1>3, <1>5, <2>2 DEF Live
    <3>2. ents[j].key \notin Unhashable
      BY <3>1 DEF WellFormed, Reached
    <3>3. PICK t \in Slots(cap) : idx[t] = j /\ Bridged(idx, cap, Home(ents[j].key, cap), t)
      BY <3>1 DEF WellFormed, Reached
    <3>4. QED
      BY <1>4, <2>1, <3>1, <3>2, <3>3
  <2>3. QED
    BY <2>2 DEF Reached
<1>9. NoEqualKeys(ents2, cap)
  BY <1>3, <1>5 DEF WellFormed, NoEqualKeys, Live
<1>10. Loaded(idx2, cap, u)
  <2>1. FullSlots(idx2, cap) = FullSlots(idx, cap)
    BY <1>4 DEF FullSlots, Empty, Tombstone
  <2>2. QED
    BY <2>1 DEF WellFormed, Loaded
<1>11. QED
  BY <1>2, <1>5, <1>6, <1>7, <1>8, <1>9, <1>10 DEF WellFormed

\* Fresh arrays, all gaps and Empty.
LEMMA FreshArrays ==
  ASSUME NEW cap \in Nat
  PROVE  /\ WellFormed([i \in Slots(cap) |-> Gap], [s \in Slots(cap) |-> Empty], cap, 0)
         /\ Live([i \in Slots(cap) |-> Gap], cap) = {}
<1> DEFINE ents == [i \in Slots(cap) |-> Gap]
           idx == [s \in Slots(cap) |-> Empty]
<1>1. Live(ents, cap) = {}
  BY DEF Live, Gap
<1>2. FullSlots(idx, cap) = {}
  BY DEF FullSlots
<1>3. Cardinality(FullSlots(idx, cap)) = 0
  BY <1>2, FS_EmptySet
<1>4. Typed(ents, idx, cap, 0)
  BY DEF Typed, Entry
<1>5. Pointing(ents, idx, cap, 0)
  BY DEF Pointing, Empty
<1>6. QED
  BY <1>1, <1>3, <1>4, <1>5 DEF WellFormed, Reached, NoEqualKeys, Loaded

\* The new capacity has room for every pair and one more.
LEMMA GrowEnough ==
  ASSUME NEW c \in Nat, NEW n \in Nat, 4 * n <= 3 * c
  PROVE  GrowCapacity(c) \in Nat /\ 4 * (n + 1) <= 3 * GrowCapacity(c)
BY DEF GrowCapacity

-----------------------------------------------------------------------------
(* The inductive invariant.                                                *)

Moved == {i \in Live(entries, capacity) : i < cursor}

\* The pairs copied so far are the first ones of the table, and the new
\* arrays have room for the rest and for the pair that waits.
RehashInv ==
  /\ WellFormed(nentries, nindexes, ncapacity, moved)
  /\ Live(nentries, ncapacity) = 0 .. moved - 1
  /\ \A j \in 0 .. moved - 1 : \E i \in Moved : nentries[j].key = entries[i].key
  /\ cursor \in 0 .. capacity
  /\ moved = Cardinality(Moved)
  /\ pending \in [key : Key, value : Value]
  /\ 4 * (count + 1) <= 3 * ncapacity

AtRest ==
  /\ pending = NoPair
  /\ nentries = NoTable /\ nindexes = NoTable /\ ncapacity = 0
  /\ moved = 0 /\ cursor = 0

TableInv ==
  /\ WellFormed(entries, indexes, capacity, used)
  /\ count = Cardinality(Live(entries, capacity))

IInv ==
  /\ TableInv
  /\ \/ pc = "idle" /\ AtRest
     \/ pc = "rehash" /\ RehashInv

LEMMA CountFits ==
  ASSUME TableInv
  PROVE  /\ count \in Nat /\ capacity \in Nat /\ used \in Nat
         /\ 4 * count <= 3 * capacity
<1>1. count \in Nat /\ count <= used
  BY LiveBounded DEF TableInv
<1>2. capacity \in Nat /\ used \in Nat /\ 4 * used <= 3 * capacity
  BY DEF TableInv, WellFormed, Typed, Loaded
<1>3. QED
  BY <1>1, <1>2

\* krk_tableSet with room for a pair, on whichever arrays.
LEMMA StoreKeeps ==
  ASSUME NEW ents, NEW idx, NEW cap, NEW u, WellFormed(ents, idx, cap, u),
         count = Cardinality(Live(ents, cap)),
         4 * (u + 1) <= 3 * cap,
         NEW k \in Key, NEW v \in Value,
         Store(ents, idx, cap, u, k, v)
  PROVE  TableInv'
<1>1. cap \in Nat /\ u \in Nat /\ cap > 0
      /\ idx \in [Slots(cap) -> {Empty, Tombstone} \cup Slots(cap)]
  BY DEF WellFormed, Typed
<1>2. capacity' = cap
  BY DEF Store
<1>3. CASE k \in Unhashable
  BY <1>2, <1>3 DEF Store, TableInv
<1>4. CASE k \notin Unhashable
  <2>1. PICK s \in Slots(cap) :
          /\ IsKeySlot(ents, idx, cap, k, EqualTo[k], s)
          /\ \/ /\ idx[s] < 0
                /\ indexes' = [idx EXCEPT ![s] = u]
                /\ entries' = [ents EXCEPT ![u] = [key |-> k, value |-> v]]
                /\ used' = u + 1
                /\ count' = count + 1
             \/ /\ idx[s] >= 0
                /\ entries' = [ents EXCEPT ![idx[s]].value = v]
                /\ indexes' = idx /\ used' = u
                /\ count' = count
    BY <1>4 DEF Store
  <2>2. EqualTo[k] \in SUBSET EqualTo[k]
    OBVIOUS
  <2>3. CASE idx[s] < 0
    <3>1. /\ s \in Slots(cap)
          /\ indexes' = [idx EXCEPT ![s] = u]
          /\ entries' = [ents EXCEPT ![u] = [key |-> k, value |-> v]]
          /\ used' = u + 1
          /\ count' = count + 1
      BY <1>1, <2>1, <2>3 DEF Empty, Tombstone, Slots
    <3>2. Free(ents, idx, cap, k, s)
      BY <1>1, <2>1, <2>2, <2>3, SearchFails DEF Free
    <3>3. PICK pair \in [key : Key, value : Value] :
            pair.key = k /\ pair = [key |-> k, value |-> v]
      OBVIOUS
    <3>4. /\ WellFormed(entries', indexes', cap, u + 1)
          /\ Live(entries', cap) = Live(ents, cap) \cup {u}
          /\ u \notin Live(ents, cap)
      <4>1. Placed(ents, idx, u, s, pair, entries', indexes')
        BY <3>1, <3>3 DEF Placed
      <4>2. Room(cap, u)
        BY DEF Room
      <4>3. QED
        BY <1>4, <3>2, <3>3, <4>1, <4>2, InsertPair
    <3>5. Cardinality(Live(ents, cap) \cup {u}) = Cardinality(Live(ents, cap)) + 1
      BY <3>4, LiveBounded, FS_AddElement
    <3>6. QED
      BY <1>2, <3>1, <3>4, <3>5 DEF TableInv
  <2>4. CASE idx[s] >= 0
    <3>1. /\ entries' = [ents EXCEPT ![idx[s]].value = v]
          /\ indexes' = idx /\ used' = u /\ count' = count
      BY <1>1, <2>1, <2>4 DEF Empty, Tombstone, Slots
    <3>2. idx[s] \in Live(ents, cap)
      BY <1>1, <2>1, <2>4, SearchHits
    <3>3. /\ WellFormed([ents EXCEPT ![idx[s]].value = v], idx, cap, u)
          /\ Live([ents EXCEPT ![idx[s]].value = v], cap) = Live(ents, cap)
      BY <3>2, OverwritePair
    <3>4. WellFormed(entries', indexes', cap, u) /\ Live(entries', cap) = Live(ents, cap)
      BY <3>1, <3>3
    <3>5. QED
      BY <1>2, <3>1, <3>4 DEF TableInv
  <2>5. QED
    BY <1>1, <2>3, <2>4 DEF Empty, Tombstone, Slots
<1>5. QED
  BY <1>3, <1>4

LEMMA FoundLive ==
  ASSUME TableInv, NEW k \in Key, NEW s, Found(k, s)
  PROVE  /\ s \in Slots(capacity) /\ indexes[s] >= 0
         /\ indexes[s] \in Live(entries, capacity)
<1>1. capacity \in Nat /\ capacity > 0
  BY CountFits DEF Found
<1>2. QED
  BY <1>1, SearchHits DEF Found, TableInv

LEMMA InitInv == Init => IInv
<1> SUFFICES ASSUME Init
             PROVE  IInv
  OBVIOUS
<1>1. capacity \in Nat
  BY CapacityAssumption DEF Init
<1>2. WellFormed(entries, indexes, capacity, used) /\ Live(entries, capacity) = {}
  BY <1>1, FreshArrays DEF Init
<1>3. TableInv
  BY <1>2, FS_EmptySet DEF TableInv, Init
<1>4. QED
  BY <1>3 DEF Init, IInv, AtRest

\* A turn of the loop of krk_tableAdjustCapacity keeps the new arrays well
\* formed, although it compares keys by identity only: the keys it moves
\* were already distinct.
LEMMA RehashKeeps == IInv /\ Rehash => IInv'
<1> SUFFICES ASSUME IInv, Rehash
             PROVE  IInv'
  OBVIOUS
<1>1. TableInv /\ RehashInv /\ pc = "rehash"
  BY DEF IInv, Rehash
<1>2. UNCHANGED <<count, capacity, used, entries, indexes, pc, pending, ncapacity>>
  BY DEF Rehash, table
<1>3. TableInv'
  BY <1>1, <1>2 DEF TableInv
<1>4. PICK e \in cursor .. capacity - 1 :
        /\ entries[e].key # NoKey
        /\ \A j \in cursor .. e - 1 : entries[j].key = NoKey
        /\ nentries' = [nentries EXCEPT ![moved] = entries[e]]
        /\ \E s \in Slots(ncapacity) :
             /\ IsKeySlot(nentries', nindexes, ncapacity, entries[e].key, {entries[e].key}, s)
             /\ nindexes' = [nindexes EXCEPT ![s] = moved]
        /\ cursor' = e + 1
  BY DEF Rehash
<1>5. PICK s \in Slots(ncapacity) :
        /\ IsKeySlot(nentries', nindexes, ncapacity, entries[e].key, {entries[e].key}, s)
        /\ nindexes' = [nindexes EXCEPT ![s] = moved]
  BY <1>4
<1> DEFINE k == entries[e].key
<1>6. moved < count /\ moved' = moved + 1
  BY DEF Rehash
<1>7. /\ count \in Nat /\ capacity \in Nat
      /\ ncapacity \in Nat /\ moved \in Nat
      /\ entries \in [Slots(capacity) -> Entry]
      /\ nentries \in [Slots(ncapacity) -> Entry]
      /\ nindexes \in [Slots(ncapacity) -> {Empty, Tombstone} \cup Slots(ncapacity)]
      /\ cursor \in 0 .. capacity
  BY <1>1, CountFits DEF RehashInv, TableInv, WellFormed, Typed
<1>8. e \in Live(entries, capacity) /\ e \in Slots(capacity) /\ e \notin Moved
  BY <1>4, <1>7 DEF Live, Slots, Moved
<1>9. entries[e] \in [key : Key, value : Value] /\ k \in Key /\ k \notin Unhashable
  BY <1>1, <1>7, <1>8, LiveKey DEF TableInv, WellFormed, Reached
<1>10. \A j \in Live(nentries, ncapacity) : nentries[j].key \notin EqualTo[k]
  <2> SUFFICES ASSUME NEW j \in Live(nentries, ncapacity), nentries[j].key \in EqualTo[k]
               PROVE  FALSE
    OBVIOUS
  <2>1. PICK i \in Moved : nentries[j].key = entries[i].key
    BY <1>1 DEF RehashInv
  <2>2. i \in Live(entries, capacity) /\ i # e
    BY <1>8 DEF Moved
  <2>3. QED
    BY <1>1, <1>8, <2>1, <2>2 DEF TableInv, WellFormed, NoEqualKeys
<1>11. IsKeySlot(nentries, nindexes, ncapacity, k, {k}, s)
  <2>1. \A t \in Slots(ncapacity) : nindexes[t] >= 0 =>
           nindexes[t] \in Slots(ncapacity) /\ nentries'[nindexes[t]] = nentries[nindexes[t]]
    BY <1>1, <1>4, <1>7 DEF RehashInv, WellFormed, Pointing, Slots, Empty, Tombstone
  <2>2. Stops(nentries', nindexes, ncapacity, {k}) = Stops(nentries, nindexes, ncapacity, {k})
    BY <2>1 DEF Stops
  <2>3. QED
    BY <1>5, <2>2 DEF IsKeySlot
<1>12. k \in EqualTo[k] /\ {k} \in SUBSET EqualTo[k]
  BY <1>9, KeyAssumption
<1>13. ncapacity > 0
  BY <1>7 DEF Slots
<1>14. nindexes[s] < 0
  <2>1. CASE nindexes[s] >= 0
    <3>1. nindexes[s] \in Live(nentries, ncapacity) /\ nentries[nindexes[s]].key \in {k}
      BY <1>1, <1>9, <1>11, <1>13, <2>1, SearchHits DEF RehashInv
    <3>2. QED
      BY <1>10, <1>12, <3>1
  <2>2. QED
    BY <1>5, <1>7, <2>1 DEF Empty, Tombstone, Slots
<1>15. Bridged(nindexes, ncapacity, Home(k, ncapacity), s)
  <2>1. WellFormed(nentries, nindexes, ncapacity, moved)
    BY <1>1 DEF RehashInv
  <2>2. QED
    BY <1>9, <1>11, <1>12, <1>13, <1>14, <2>1, SearchFails
<1>16. 4 * (moved + 1) <= 3 * ncapacity
  BY <1>1, <1>6, <1>7 DEF RehashInv
<1>17. /\ WellFormed(nentries', nindexes', ncapacity, moved + 1)
       /\ Live(nentries', ncapacity) = Live(nentries, ncapacity) \cup {moved}
       /\ moved \in Slots(ncapacity)
  <2>1. Room(ncapacity, moved)
    BY <1>16 DEF Room
  <2>2. Free(nentries, nindexes, ncapacity, k, s)
    BY <1>5, <1>10, <1>14, <1>15 DEF Free
  <2>3. Placed(nentries, nindexes, moved, s, entries[e], nentries', nindexes')
    BY <1>4, <1>5 DEF Placed
  <2>4. WellFormed(nentries, nindexes, ncapacity, moved)
    BY <1>1 DEF RehashInv
  <2>5. QED
    BY <1>9, <2>1, <2>2, <2>3, <2>4, InsertPair
<1>18. Live(nentries', ncapacity) = 0 .. (moved + 1) - 1
  BY <1>1, <1>7, <1>17 DEF RehashInv
<1>19. Moved' = Moved \cup {e}
  <2>1. ASSUME NEW i \in Live(entries, capacity), i < e + 1, i # e
        PROVE  i < cursor
    BY <1>4, <1>7, <2>1 DEF Live, Slots
  <2>2. ASSUME NEW i \in Live(entries, capacity), i < cursor
        PROVE  i < e + 1
    BY <1>4, <1>7, <2>2 DEF Live, Slots
  <2>3. e < e + 1
    BY <1>7, <1>8 DEF Slots
  <2>4. Moved' = {i \in Live(entries, capacity) : i < e + 1}
    BY <1>2, <1>4 DEF Moved, Live
  <2>5. QED
    BY <1>8, <2>1, <2>2, <2>3, <2>4 DEF Moved
<1>20. moved + 1 = Cardinality(Moved')
  <2>1. IsFiniteSet(Moved)
    BY <1>1, LiveBounded, FS_Subset DEF TableInv, Moved
  <2>2. QED
    BY <1>1, <1>8, <1>19, <2>1, FS_AddElement DEF RehashInv
<1>21. ASSUME NEW j \in 0 .. (moved + 1) - 1
       PROVE  \E i \in Moved' : nentries'[j].key = entries[i].key
  <2>1. CASE j = moved
    BY <1>4, <1>7, <1>17, <1>19, <2>1
  <2>2. CASE j # moved
    <3>1. j \in 0 .. moved - 1
      BY <1>7, <1>21, <2>2
    <3>2. PICK i \in Moved : nentries[j].key = entries[i].key
      BY <1>1, <3>1 DEF RehashInv
    <3>3. nentries'[j] = nentries[j]
      BY <1>4, <1>7, <1>17, <2>2, <3>1 DEF Slots
    <3>4. QED
      BY <1>19, <3>2, <3>3
  <2>3. QED
    BY <2>1, <2>2
<1>22. cursor' \in 0 .. capacity
  BY <1>4, <1>7
<1>23. RehashInv'
  BY <1>1, <1>2, <1>6, <1>17, <1>18, <1>20, <1>21, <1>22 DEF RehashInv
<1>24. QED
  BY <1>1, <1>2, <1>3, <1>23 DEF IInv

\* krk_tableSet at the load limit: fresh arrays, large enough for every pair
\* and for the one that waits.
LEMMA GrowKeeps ==
  ASSUME IInv, NEW k \in Key, NEW v \in Value, SetGrowing(k, v)
  PROVE  IInv'
<1>1. TableInv
  BY DEF IInv
<1>2. /\ UNCHANGED <<count, capacity, used, entries, indexes>>
      /\ ncapacity' = GrowCapacity(capacity)
      /\ nentries' = [i \in Slots(ncapacity') |-> Gap]
      /\ nindexes' = [s \in Slots(ncapacity') |-> Empty]
      /\ moved' = 0 /\ cursor' = 0 /\ pc' = "rehash"
      /\ pending' \in [key : Key, value : Value]
  BY DEF SetGrowing, table
<1>3. count \in Nat /\ capacity \in Nat /\ 4 * count <= 3 * capacity
  BY <1>1, CountFits
<1>4. ncapacity' \in Nat /\ 4 * (count + 1) <= 3 * ncapacity'
  BY <1>2, <1>3, GrowEnough
<1>5. /\ WellFormed(nentries', nindexes', ncapacity', moved')
      /\ Live(nentries', ncapacity') = {}
  BY <1>2, <1>4, FreshArrays
<1>6. 0 .. moved' - 1 = {}
  BY <1>2
<1>7. Moved' = {}
  BY <1>2, <1>3 DEF Moved, Live, Slots
<1>8. Cardinality(Moved') = 0
  BY <1>7, FS_EmptySet
<1>9. RehashInv'
  BY <1>2, <1>3, <1>4, <1>5, <1>6, <1>8 DEF RehashInv
<1>10. TableInv'
  BY <1>1, <1>2 DEF TableInv
<1>11. QED
  BY <1>2, <1>9, <1>10 DEF IInv

\* The rehash is over and the set goes on in the new arrays.
LEMMA FinishKeeps == IInv /\ FinishSet => IInv'
<1> SUFFICES ASSUME IInv, FinishSet
             PROVE  IInv'
  OBVIOUS
<1>1. RehashInv /\ TableInv /\ moved = count
  BY DEF IInv, FinishSet
<1>2. moved \in Nat
  BY <1>1 DEF RehashInv, WellFormed, Typed
<1>3. count = Cardinality(Live(nentries, ncapacity))
  BY <1>1, <1>2, IntervalSize DEF RehashInv
<1>4. /\ WellFormed(nentries, nindexes, ncapacity, count)
      /\ 4 * (count + 1) <= 3 * ncapacity
      /\ pending.key \in Key /\ pending.value \in Value
  BY <1>1 DEF RehashInv
<1>5. Store(nentries, nindexes, ncapacity, count, pending.key, pending.value)
  BY DEF FinishSet
<1>6. TableInv'
  BY <1>3, <1>4, <1>5, StoreKeeps
<1>7. pc' = "idle" /\ AtRest'
  BY DEF FinishSet, AtRest, NoTable, Slots
<1>8. QED
  BY <1>6, <1>7 DEF IInv

LEMMA SetNowKeeps ==
  ASSUME IInv, NEW k \in Key, NEW v \in Value, SetNow(k, v)
  PROVE  IInv'
<1>1. TableInv /\ pc = "idle" /\ AtRest
  BY DEF IInv, SetNow
<1>2. 4 * (used + 1) <= 3 * capacity
  BY <1>1, CountFits DEF SetNow, NeedsGrow
<1>3. TableInv'
  <2>1. /\ WellFormed(entries, indexes, capacity, used)
        /\ count = Cardinality(Live(entries, capacity))
    BY <1>1 DEF TableInv
  <2>2. Store(entries, indexes, capacity, used, k, v)
    BY DEF SetNow
  <2>3. QED
    BY <1>2, <2>1, <2>2, StoreKeeps
<1>4. pc' = "idle" /\ AtRest'
  BY <1>1 DEF SetNow, growing, AtRest
<1>5. QED
  BY <1>3, <1>4 DEF IInv

LEMMA SetIfExistsKeeps ==
  ASSUME IInv, NEW k \in Key, NEW v \in Value, SetIfExists(k, v)
  PROVE  IInv'
<1>1. TableInv /\ pc = "idle" /\ AtRest
  BY DEF IInv, SetIfExists
<1>2. /\ UNCHANGED <<count, capacity, used, indexes>>
      /\ pc' = "idle" /\ AtRest'
  BY <1>1 DEF SetIfExists, growing, AtRest
<1>3. TableInv'
  <2>1. CASE entries' = entries
    BY <1>1, <1>2, <2>1 DEF TableInv
  <2>2. CASE \E s \in Slots(capacity) :
               Found(k, s) /\ entries' = [entries EXCEPT ![indexes[s]].value = v]
    <3>1. PICK s \in Slots(capacity) :
            Found(k, s) /\ entries' = [entries EXCEPT ![indexes[s]].value = v]
      BY <2>2
    <3>2. indexes[s] \in Live(entries, capacity)
      BY <1>1, <3>1, FoundLive
    <3>3. WellFormed(entries, indexes, capacity, used)
      BY <1>1 DEF TableInv
    <3>4. /\ WellFormed([entries EXCEPT ![indexes[s]].value = v], indexes, capacity, used)
          /\ Live([entries EXCEPT ![indexes[s]].value = v], capacity) = Live(entries, capacity)
      BY <3>2, <3>3, OverwritePair
    <3>5. WellFormed(entries', indexes, capacity, used) /\ Live(entries', capacity) = Live(entries, capacity)
      BY <3>1, <3>4
    <3>6. QED
      BY <1>1, <1>2, <3>5 DEF TableInv
  <2>3. QED
    BY <2>1, <2>2 DEF SetIfExists
<1>4. QED
  BY <1>2, <1>3 DEF IInv

LEMMA DeleteKeeps ==
  ASSUME IInv, NEW k \in Key, Delete(k)
  PROVE  IInv'
<1>1. TableInv /\ pc = "idle" /\ AtRest
  BY DEF IInv, Delete
<1>2. /\ UNCHANGED <<capacity, used>>
      /\ pc' = "idle" /\ AtRest'
  BY <1>1 DEF Delete, growing, AtRest
<1>3. TableInv'
  <2>1. CASE UNCHANGED <<count, entries, indexes>>
    BY <1>1, <1>2, <2>1 DEF TableInv
  <2>2. CASE \E s \in Slots(capacity) :
               /\ Found(k, s)
               /\ count' = count - 1
               /\ entries' = [entries EXCEPT ![indexes[s]] = Gap]
               /\ indexes' = [indexes EXCEPT ![s] = Tombstone]
    <3>1. PICK s \in Slots(capacity) :
               /\ Found(k, s)
               /\ count' = count - 1
               /\ entries' = [entries EXCEPT ![indexes[s]] = Gap]
               /\ indexes' = [indexes EXCEPT ![s] = Tombstone]
      BY <2>2
    <3>2. indexes[s] >= 0 /\ WellFormed(entries, indexes, capacity, used)
      BY <1>1, <3>1, FoundLive DEF TableInv
    <3>3. /\ WellFormed([entries EXCEPT ![indexes[s]] = Gap], [indexes EXCEPT ![s] = Tombstone], capacity, used)
          /\ Live([entries EXCEPT ![indexes[s]] = Gap], capacity) = Live(entries, capacity) \ {indexes[s]}
          /\ indexes[s] \in Live(entries, capacity)
      BY <3>2, RemovePair
    <3>4. /\ WellFormed(entries', indexes', capacity, used)
          /\ Live(entries', capacity) = Live(entries, capacity) \ {indexes[s]}
      BY <3>1, <3>3
    <3>5. Cardinality(Live(entries, capacity) \ {indexes[s]}) = Cardinality(Live(entries, capacity)) - 1
      BY <3>2, <3>3, LiveBounded, FS_RemoveElement
    <3>6. QED
      BY <1>1, <1>2, <3>1, <3>4, <3>5 DEF TableInv
  <2>3. QED
    BY <2>1, <2>2 DEF Delete
<1>4. QED
  BY <1>2, <1>3 DEF IInv

LEMMA NextInv == IInv /\ [Next]_vars => IInv'
<1> SUFFICES ASSUME IInv, [Next]_vars
             PROVE  IInv'
  OBVIOUS
<1>1. CASE Rehash
  BY <1>1, RehashKeeps
<1>2. CASE FinishSet
  BY <1>2, FinishKeeps
<1>3. ASSUME NEW k \in Key, Get(k)
      PROVE  IInv'
  <2>1. UNCHANGED <<count, capacity, used, entries, indexes, pc, growing>>
    BY <1>3 DEF Get, table
  <2>2. QED
    BY <2>1 DEF IInv, TableInv, AtRest, RehashInv, Moved, growing
<1>4. ASSUME NEW k \in Key, Delete(k)
      PROVE  IInv'
  BY <1>4, DeleteKeeps
<1>5. ASSUME NEW k \in Key, NEW v \in Value, SetNow(k, v)
      PROVE  IInv'
  BY <1>5, SetNowKeeps
<1>6. ASSUME NEW k \in Key, NEW v \in Value, SetGrowing(k, v)
      PROVE  IInv'
  BY <1>6, GrowKeeps
<1>7. ASSUME NEW k \in Key, NEW v \in Value, SetIfExists(k, v)
      PROVE  IInv'
  BY <1>7, SetIfExistsKeeps
<1>8. CASE UNCHANGED vars
  BY <1>8 DEF vars, table, growing, IInv, TableInv, AtRest, RehashInv, Moved
<1>9. QED
  BY <1>1, <1>2, <1>3, <1>4, <1>5, <1>6, <1>7, <1>8 DEF Next

\* The table is well formed at rest and in the middle of a rehash.
THEOREM Invariance == Spec => []IInv
<1>1. QED
  BY InitInv, NextInv, PTL DEF Spec

-----------------------------------------------------------------------------
(* Consequences.                                                           *)

LEMMA InvTypes == IInv => TypeOK
<1> SUFFICES ASSUME IInv
             PROVE  TypeOK
  OBVIOUS
<1>1. TableInv
  BY DEF IInv
<1>2. /\ count \in Nat /\ capacity \in Nat /\ used \in Nat
      /\ entries \in [Slots(capacity) -> Entry]
      /\ indexes \in [Slots(capacity) -> {Empty, Tombstone} \cup Slots(capacity)]
  BY <1>1, CountFits DEF TableInv, WellFormed, Typed
<1>3. CASE pc = "idle" /\ AtRest
  BY <1>2, <1>3 DEF AtRest, TypeOK, NoTable, Slots
<1>4. CASE pc = "rehash" /\ RehashInv
  BY <1>2, <1>4 DEF RehashInv, TypeOK, WellFormed, Typed
<1>5. QED
  BY <1>3, <1>4 DEF IInv

\* The fields keep their types.
THEOREM TypeSafety == Spec => []TypeOK
<1>1. QED
  BY Invariance, InvTypes, PTL

LEMMA InvProbeEnds == IInv => ProbeEnds
<1> SUFFICES ASSUME IInv
             PROVE  ProbeEnds
  OBVIOUS
<1>1. capacity > 0 => \E s \in Slots(capacity) : indexes[s] = Empty
  BY EmptySlotExists DEF IInv, TableInv
<1>2. ncapacity > 0 => \E s \in Slots(ncapacity) : nindexes[s] = Empty
  BY EmptySlotExists DEF IInv, AtRest, RehashInv
<1>3. QED
  BY <1>1, <1>2 DEF ProbeEnds

\* Every probe terminates: there is always an Empty slot to stop at.
THEOREM ProbesEnd == Spec => []ProbeEnds
<1>1. QED
  BY Invariance, InvProbeEnds, PTL

LEMMA InvEveryPairFound == IInv => EveryPairFound
<1> SUFFICES ASSUME IInv, NEW i \in Slots(capacity), entries[i].key # NoKey
             PROVE  \E s \in Slots(capacity) :
                      /\ IsKeySlot(entries, indexes, capacity, entries[i].key, EqualTo[entries[i].key], s)
                      /\ indexes[s] = i
  BY DEF EveryPairFound
<1>1. i \in Live(entries, capacity) /\ WellFormed(entries, indexes, capacity, used)
  BY DEF Live, IInv, TableInv
<1>2. QED
  BY <1>1, ProbeFindsPair

\* Every pair stored is found by the probe for its key.
THEOREM PairsAreFound == Spec => []EveryPairFound
<1>1. QED
  BY Invariance, InvEveryPairFound, PTL

\* A set that finds room fills position u, or a value, and nothing else.
LEMMA StoreStable ==
  ASSUME NEW k \in Key, NEW v \in Value, WellFormed(entries, indexes, capacity, used),
         Store(entries, indexes, capacity, used, k, v),
         NEW i \in Slots(capacity)
  PROVE  entries'[i].key = entries[i].key \/ i = used
<1>1. /\ entries \in [Slots(capacity) -> Entry]
      /\ indexes \in [Slots(capacity) -> {Empty, Tombstone} \cup Slots(capacity)]
  BY DEF WellFormed, Typed
<1>2. \/ entries' = entries
      \/ entries' = [entries EXCEPT ![used] = [key |-> k, value |-> v]]
      \/ \E s \in Slots(capacity) :
           /\ IsKeySlot(entries, indexes, capacity, k, EqualTo[k], s)
           /\ indexes[s] >= 0
           /\ entries' = [entries EXCEPT ![indexes[s]].value = v]
  BY DEF Store
<1>3. CASE entries' = entries
  BY <1>3
<1>4. CASE entries' = [entries EXCEPT ![used] = [key |-> k, value |-> v]]
  BY <1>1, <1>4
<1>5. CASE \E s \in Slots(capacity) :
             /\ IsKeySlot(entries, indexes, capacity, k, EqualTo[k], s)
             /\ indexes[s] >= 0
             /\ entries' = [entries EXCEPT ![indexes[s]].value = v]
  <2>1. PICK s \in Slots(capacity) :
             /\ IsKeySlot(entries, indexes, capacity, k, EqualTo[k], s)
             /\ indexes[s] >= 0
             /\ entries' = [entries EXCEPT ![indexes[s]].value = v]
    BY <1>5
  <2>2. indexes[s] \in Live(entries, capacity)
    <3>1. capacity > 0
      BY DEF Slots, WellFormed, Typed
    <3>2. QED
      BY <2>1, <3>1, SearchHits
  <2>3. QED
    BY <1>1, <2>1, <2>2, OverwriteKeepsKeys
<1>6. QED
  BY <1>2, <1>3, <1>4, <1>5

\* What a step does to the positions of a table at rest.
LEMMA StepStable ==
  ASSUME IInv, [Next]_vars, pc = "idle", NEW i \in Slots(capacity)
  PROVE  entries'[i].key = entries[i].key \/ entries'[i] = Gap \/ i = used
<1>1. /\ WellFormed(entries, indexes, capacity, used)
      /\ entries \in [Slots(capacity) -> Entry]
  BY DEF IInv, TableInv, WellFormed, Typed
<1>2. ASSUME NEW k \in Key, NEW v \in Value, SetNow(k, v)
      PROVE  entries'[i].key = entries[i].key \/ i = used
  <2>1. Store(entries, indexes, capacity, used, k, v)
    BY <1>2 DEF SetNow
  <2>2. QED
    BY <1>1, <2>1, StoreStable
<1>3. ASSUME NEW k \in Key, NEW v \in Value, SetIfExists(k, v)
      PROVE  entries'[i].key = entries[i].key
  <2>1. CASE entries' = entries
    BY <2>1
  <2>2. CASE \E s \in Slots(capacity) :
               Found(k, s) /\ entries' = [entries EXCEPT ![indexes[s]].value = v]
    <3>1. PICK s \in Slots(capacity) :
            Found(k, s) /\ entries' = [entries EXCEPT ![indexes[s]].value = v]
      BY <2>2
    <3>2. indexes[s] \in Live(entries, capacity)
      BY <3>1, FoundLive DEF IInv
    <3>3. QED
      BY <1>1, <3>1, <3>2, OverwriteKeepsKeys
  <2>3. QED
    BY <1>3, <2>1, <2>2 DEF SetIfExists
<1>4. ASSUME NEW k \in Key, Delete(k)
      PROVE  entries'[i] = entries[i] \/ entries'[i] = Gap
  BY <1>1, <1>4 DEF Delete
<1>5. ASSUME NEW k \in Key, Get(k)
      PROVE  entries' = entries
  BY <1>5 DEF Get, table
<1>6. ASSUME NEW k \in Key, NEW v \in Value, SetGrowing(k, v)
      PROVE  entries' = entries
  BY <1>6 DEF SetGrowing, table
<1>7. ~Rehash /\ ~FinishSet
  BY DEF Rehash, FinishSet
<1>8. CASE UNCHANGED vars
  BY <1>8 DEF vars, table
<1>9. QED
  BY <1>2, <1>3, <1>4, <1>5, <1>6, <1>7, <1>8 DEF Next

\* Positions handed out to iterators stay good until the next rehash.
THEOREM StablePositions == Spec => PositionsStable
<1>1. ASSUME IInv, [Next]_vars
      PROVE  [ pc = "idle" =>
                 \A i \in Slots(capacity) :
                   \/ entries'[i].key = entries[i].key
                   \/ entries'[i] = Gap
                   \/ i = used ]_vars
  BY <1>1, StepStable
<1>2. QED
  BY <1>1, Invariance, PTL DEF Spec, PositionsStable

\* Two pairs of a table never have equal keys, although the rehash compares
\* keys by identity only.
THEOREM KeysDistinct == Spec => []NoEqualKeys(entries, capacity)
<1>1. IInv => NoEqualKeys(entries, capacity)
  BY DEF IInv, TableInv, WellFormed
<1>2. QED
  BY <1>1, Invariance, PTL
-----------------------------------------------------------------------------
(* The pairs as a sequence.  What is said of all n below is shown with the *)
(* least n for which it is not so.                                         *)

LEMMA Least ==
  ASSUME NEW T, T \subseteq Nat, T # {}
  PROVE  \E m \in T : \A n \in T : m <= n
<1>1. PICK m \in T : \A n \in T : ~ (<<n, m>> \in OpToRel(<, Nat))
  BY WFMin, NatLessThanWellFounded
<1>2. \A n \in T : ~ (n < m)
  BY <1>1 DEF OpToRel
<1>3. QED
  BY <1>2

\* p[i] are the pairs among the first i entries, for i up to n.
Lists(ents, n, p) ==
  p = [i \in 0 .. n |-> IF i = 0 THEN <<>>
                        ELSE IF ents[i - 1].key = NoKey THEN p[i - 1]
                        ELSE Append(p[i - 1], ents[i - 1])]

More(ents, i, s) == IF ents[i - 1].key = NoKey THEN s ELSE Append(s, ents[i - 1])

LEMMA ListsStep ==
  ASSUME NEW ents, NEW n \in Nat, NEW p, Lists(ents, n, p)
  PROVE  p[0] = <<>> /\ \A i \in 1 .. n : p[i] = More(ents, i, p[i - 1])
<1> DEFINE q == [i \in 0 .. n |-> IF i = 0 THEN <<>> ELSE More(ents, i, p[i - 1])]
<1>1. p = q
  BY DEF Lists, More
<1>2. 0 \in 0 .. n /\ \A i \in 1 .. n : i \in 0 .. n /\ i # 0
  OBVIOUS
<1>3. q[0] = <<>> /\ \A i \in 1 .. n : q[i] = More(ents, i, p[i - 1])
  BY <1>2
<1> HIDE DEF q
<1>4. QED
  BY <1>1, <1>3

LEMMA Listing ==
  ASSUME NEW ents, NEW n \in Nat
  PROVE  \E p : Lists(ents, n, p)
<1> DEFINE T == {m \in Nat : ~ \E p : Lists(ents, m, p)}
<1>1. SUFFICES ASSUME T # {} PROVE FALSE
  BY <1>1
<1>2. PICK m \in T : \A l \in T : m <= l
  BY <1>1, Least
<1>3. CASE m = 0
  <2>1. Lists(ents, 0, [i \in 0 .. 0 |-> <<>>])
    BY DEF Lists
  <2>2. QED
    BY <1>2, <1>3, <2>1
<1>4. CASE m # 0
  <2>1. m - 1 \in Nat /\ ~ (m <= m - 1)
    BY <1>2, <1>4
  <2>2. PICK p : Lists(ents, m - 1, p)
    BY <1>2, <2>1
  <2> DEFINE q == [i \in 0 .. m |-> IF i = m THEN More(ents, m, p[m - 1]) ELSE p[i]]
  <2>3. p[0] = <<>> /\ \A i \in 1 .. m - 1 : p[i] = More(ents, i, p[i - 1])
    BY <2>1, <2>2, ListsStep
  <2>4. \A i \in 0 .. m : q[i] = IF i = 0 THEN <<>> ELSE More(ents, i, q[i - 1])
    <3>1. SUFFICES ASSUME NEW i \in 0 .. m PROVE q[i] = IF i = 0 THEN <<>> ELSE More(ents, i, q[i - 1])
      OBVIOUS
    <3>2. CASE i = 0
      BY <1>4, <2>3, <3>2
    <3>3. CASE i = m
      <4>1. i # 0 /\ q[i - 1] = p[m - 1] /\ q[i] = More(ents, m, p[m - 1])
        BY <1>4, <2>1, <3>3
      <4>2. QED
        BY <3>3, <4>1
    <3>4. CASE i # 0 /\ i # m
      <4>1. i \in 1 .. m - 1 /\ i - 1 \in 0 .. m /\ i - 1 # m
        BY <2>1, <3>4
      <4>2. q[i] = p[i] /\ q[i - 1] = p[i - 1]
        BY <3>4, <4>1
      <4>3. QED
        BY <2>3, <3>4, <4>1, <4>2
    <3>5. QED
      BY <3>2, <3>3, <3>4
  <2>5. q = [i \in 0 .. m |-> q[i]]
    OBVIOUS
  <2> HIDE DEF q
  <2>6. Lists(ents, m, q)
    BY <2>4, <2>5 DEF Lists, More
  <2>7. QED
    BY <1>2, <2>6
<1>5. QED
  BY <1>3, <1>4

LEMMA ListsSame ==
  ASSUME NEW ents, NEW n \in Nat, NEW p, Lists(ents, n, p), NEW m \in Nat, NEW q, Lists(ents, m, q),
         NEW k \in Nat, k <= n, k <= m
  PROVE  p[k] = q[k]
<1> DEFINE T == {i \in Nat : i <= k /\ p[i] # q[i]}
<1>1. SUFFICES ASSUME T # {} PROVE FALSE
  BY <1>1
<1>2. PICK i \in T : \A r \in T : i <= r
  BY <1>1, Least
<1>3. i # 0
  BY <1>2, ListsStep
<1>4. i - 1 \in Nat /\ i - 1 <= k /\ ~ (i <= i - 1) /\ i \in 1 .. n /\ i \in 1 .. m
  BY <1>2, <1>3
<1>5. p[i - 1] = q[i - 1]
  BY <1>2, <1>4
<1>6. p[i] = More(ents, i, p[i - 1]) /\ q[i] = More(ents, i, q[i - 1])
  BY <1>4, ListsStep
<1>7. QED
  BY <1>2, <1>5, <1>6

LEMMA PairsListed ==
  ASSUME NEW ents, NEW n \in Nat
  PROVE  \E p : Lists(ents, n, p) /\ PairsIn(ents, n) = p[n]
<1> DEFINE p == CHOOSE p : p = [i \in 0 .. n |-> IF i = 0 THEN <<>>
                                                ELSE IF ents[i - 1].key = NoKey THEN p[i - 1]
                                                ELSE Append(p[i - 1], ents[i - 1])]
<1>1. PairsIn(ents, n) = p[n]
  BY DEF PairsIn
<1>2. \E q : q = [i \in 0 .. n |-> IF i = 0 THEN <<>>
                                  ELSE IF ents[i - 1].key = NoKey THEN q[i - 1]
                                  ELSE Append(q[i - 1], ents[i - 1])]
  BY Listing DEF Lists
<1>3. p = [i \in 0 .. n |-> IF i = 0 THEN <<>>
                           ELSE IF ents[i - 1].key = NoKey THEN p[i - 1]
                           ELSE Append(p[i - 1], ents[i - 1])]
  BY <1>2, Zenon
<1> HIDE DEF p
<1>4. QED
  BY <1>1, <1>3 DEF Lists

LEMMA PairsAre ==
  ASSUME NEW ents
  PROVE  /\ PairsIn(ents, 0) = <<>>
         /\ \A n \in Nat : PairsIn(ents, n + 1) =
              IF ents[n].key = NoKey THEN PairsIn(ents, n) ELSE Append(PairsIn(ents, n), ents[n])
<1>1. PairsIn(ents, 0) = <<>>
  BY PairsListed, ListsStep
<1>2. ASSUME NEW n \in Nat
      PROVE  PairsIn(ents, n + 1) =
               IF ents[n].key = NoKey THEN PairsIn(ents, n) ELSE Append(PairsIn(ents, n), ents[n])
  <2>1. n + 1 \in Nat /\ (n + 1) - 1 = n /\ n <= n + 1 /\ n + 1 \in 1 .. n + 1
    OBVIOUS
  <2>2. PICK p : Lists(ents, n, p) /\ PairsIn(ents, n) = p[n]
    BY PairsListed
  <2>3. PICK q : Lists(ents, n + 1, q) /\ PairsIn(ents, n + 1) = q[n + 1]
    BY <2>1, PairsListed
  <2>4. q[n] = p[n]
    BY <2>1, <2>2, <2>3, ListsSame
  <2>5. q[n + 1] = More(ents, n + 1, q[n])
    <3>1. \A i \in 1 .. n + 1 : q[i] = More(ents, i, q[i - 1])
      BY <2>1, <2>3, ListsStep
    <3>2. QED
      BY <2>1, <3>1
  <2>6. QED
    BY <2>1, <2>2, <2>3, <2>4, <2>5 DEF More
<1>3. QED
  BY <1>1, <1>2

\* Only the entries below n count.
LEMMA PairsSame ==
  ASSUME NEW ents, NEW ents2, NEW n \in Nat, \A i \in 0 .. n - 1 : ents2[i] = ents[i]
  PROVE  PairsIn(ents2, n) = PairsIn(ents, n)
<1> DEFINE T == {i \in Nat : i <= n /\ PairsIn(ents2, i) # PairsIn(ents, i)}
<1>1. SUFFICES ASSUME T # {} PROVE FALSE
  BY <1>1
<1>2. PICK i \in T : \A r \in T : i <= r
  BY <1>1, Least
<1>3. i # 0
  BY <1>2, PairsAre
<1>4. i - 1 \in Nat /\ i - 1 <= n /\ ~ (i <= i - 1) /\ i - 1 \in 0 .. n - 1 /\ (i - 1) + 1 = i
  BY <1>2, <1>3
<1>5. PairsIn(ents2, i - 1) = PairsIn(ents, i - 1) /\ ents2[i - 1] = ents[i - 1]
  BY <1>2, <1>4
<1>6. PairsIn(ents2, i) = PairsIn(ents, i)
  BY <1>4, <1>5, PairsAre
<1>7. QED
  BY <1>2, <1>6

\* Gaps do not.
LEMMA PairsOverGaps ==
  ASSUME NEW ents, NEW m \in Nat, NEW n \in Nat, m <= n, \A i \in m .. n - 1 : ents[i].key = NoKey
  PROVE  PairsIn(ents, n) = PairsIn(ents, m)
<1> DEFINE T == {i \in Nat : m <= i /\ i <= n /\ PairsIn(ents, i) # PairsIn(ents, m)}
<1>1. SUFFICES ASSUME T # {} PROVE FALSE
  BY <1>1
<1>2. PICK i \in T : \A r \in T : i <= r
  BY <1>1, Least
<1>3. i # m
  BY <1>2
<1>4. i - 1 \in Nat /\ m <= i - 1 /\ i - 1 <= n /\ ~ (i <= i - 1) /\ i - 1 \in m .. n - 1 /\ (i - 1) + 1 = i
  BY <1>2, <1>3
<1>5. PairsIn(ents, i - 1) = PairsIn(ents, m) /\ ents[i - 1].key = NoKey
  BY <1>2, <1>4
<1>6. PairsIn(ents, i) = PairsIn(ents, i - 1)
  BY <1>4, <1>5, PairsAre
<1>7. QED
  BY <1>2, <1>5, <1>6

Pair == [key : Key, value : Value]

LEMMA PairsTyped ==
  ASSUME NEW cap \in Nat, NEW ents \in [Slots(cap) -> Entry], NEW n \in Nat, n <= cap
  PROVE  PairsIn(ents, n) \in Seq(Pair) /\ Len(PairsIn(ents, n)) \in Nat
<1> DEFINE T == {i \in Nat : i <= n /\ ~ (PairsIn(ents, i) \in Seq(Pair))}
<1>1. SUFFICES ASSUME T # {} PROVE FALSE
  BY <1>1, LenProperties
<1>2. PICK i \in T : \A r \in T : i <= r
  BY <1>1, Least
<1>3. i # 0
  BY <1>2, PairsAre, EmptySeq
<1>4. i - 1 \in Nat /\ i - 1 <= n /\ ~ (i <= i - 1) /\ i - 1 \in Slots(cap) /\ (i - 1) + 1 = i
  BY <1>2, <1>3 DEF Slots
<1>5. PairsIn(ents, i - 1) \in Seq(Pair)
  BY <1>2, <1>4
<1>6. ents[i - 1].key # NoKey => ents[i - 1] \in Pair
  BY <1>4, LiveKey DEF Pair, Live
<1>7. PairsIn(ents, i) \in Seq(Pair)
  <2>1. PairsIn(ents, i) = IF ents[i - 1].key = NoKey THEN PairsIn(ents, i - 1)
                           ELSE Append(PairsIn(ents, i - 1), ents[i - 1])
    BY <1>4, PairsAre
  <2>2. CASE ents[i - 1].key = NoKey
    BY <1>5, <2>1, <2>2
  <2>3. CASE ents[i - 1].key # NoKey
    BY <1>5, <1>6, <2>1, <2>3, AppendProperties
  <2>4. QED
    BY <2>2, <2>3
<1>8. QED
  BY <1>2, <1>7

\* The place among the pairs of entry i, when it is alive.
Position(ents, i) == Len(PairsIn(ents, i)) + 1

AllAt(ents, cap, n) ==
  LET s == PairsIn(ents, n)
  IN /\ \A i \in Live(ents, cap) : i < n => Position(ents, i) \in 1 .. Len(s) /\ s[Position(ents, i)] = ents[i]
     /\ \A k \in 1 .. Len(s) : \E i \in Live(ents, cap) : i < n /\ k = Position(ents, i)

LEMMA PairsAt ==
  ASSUME NEW cap \in Nat, NEW ents \in [Slots(cap) -> Entry], NEW n \in Nat, n <= cap
  PROVE  AllAt(ents, cap, n)
<1> DEFINE T == {m \in Nat : m <= n /\ ~ AllAt(ents, cap, m)}
<1>1. SUFFICES ASSUME T # {} PROVE FALSE
  BY <1>1
<1>2. PICK m \in T : \A r \in T : m <= r
  BY <1>1, Least
<1>3. m # 0
  <2>1. SUFFICES ASSUME m = 0 PROVE FALSE
    OBVIOUS
  <2>2. Len(PairsIn(ents, 0)) = 0
    BY PairsAre, EmptySeq
  <2>3. \A i \in Live(ents, cap) : i \in Nat /\ ~ (i < 0)
    BY DEF Live, Slots
  <2>4. AllAt(ents, cap, 0)
    BY <2>2, <2>3 DEF AllAt
  <2>5. QED
    BY <1>2, <2>1, <2>4
<1>4. m - 1 \in Nat /\ m - 1 <= n /\ m - 1 <= cap /\ m <= cap /\ ~ (m <= m - 1) /\ m - 1 \in Slots(cap) /\ (m - 1) + 1 = m
  BY <1>2, <1>3 DEF Slots
<1> DEFINE s == PairsIn(ents, m - 1)
           t == PairsIn(ents, m)
<1>5. AllAt(ents, cap, m - 1)
  BY <1>2, <1>4
<1>6. s \in Seq(Pair) /\ Len(s) \in Nat
  BY <1>4, PairsTyped
<1>7. t = IF ents[m - 1].key = NoKey THEN s ELSE Append(s, ents[m - 1])
  BY <1>4, PairsAre
<1>8. \A i \in Live(ents, cap) : i \in Slots(cap) /\ (i < m => i < m - 1 \/ i = m - 1) /\ (i < m - 1 => i < m)
  BY <1>4 DEF Live, Slots
<1>9. /\ \A i \in Live(ents, cap) : i < m - 1 => Position(ents, i) \in 1 .. Len(s) /\ s[Position(ents, i)] = ents[i]
      /\ \A k \in 1 .. Len(s) : \E i \in Live(ents, cap) : i < m - 1 /\ k = Position(ents, i)
  BY <1>5 DEF AllAt
<1>10. CASE ents[m - 1].key = NoKey
  <2>1. \A i \in Live(ents, cap) : i < m => i < m - 1
    BY <1>8, <1>10 DEF Live
  <2>2. t = s
    BY <1>7, <1>10
  <2> HIDE DEF s, t
  <2>3. /\ \A i \in Live(ents, cap) : i < m => Position(ents, i) \in 1 .. Len(t) /\ t[Position(ents, i)] = ents[i]
        /\ \A k \in 1 .. Len(t) : \E i \in Live(ents, cap) : i < m /\ k = Position(ents, i)
    BY <1>8, <1>9, <2>1, <2>2
  <2>4. AllAt(ents, cap, m)
    BY <2>3 DEF AllAt, t
  <2>5. QED
    BY <1>2, <2>4
<1>11. CASE ents[m - 1].key # NoKey
  <2>1. m - 1 \in Live(ents, cap) /\ ents[m - 1] \in Pair
    BY <1>4, <1>11, LiveKey DEF Live, Pair
  <2>2. Position(ents, m - 1) = Len(s) + 1
    BY DEF Position
  <2>3. t = Append(s, ents[m - 1])
    BY <1>7, <1>11
  <2> HIDE DEF s, t
  <2>4. Len(t) = Len(s) + 1 /\ (\A k \in 1 .. Len(s) : t[k] = s[k]) /\ t[Len(s) + 1] = ents[m - 1]
    BY <1>6, <2>1, <2>3, AppendProperties
  <2>5. \A k \in 1 .. Len(s) : k \in 1 .. Len(t)
    BY <1>6, <2>4
  <2>6. ASSUME NEW i \in Live(ents, cap), i < m
        PROVE  Position(ents, i) \in 1 .. Len(t) /\ t[Position(ents, i)] = ents[i]
    <3>1. CASE i = m - 1
      BY <1>6, <2>2, <2>4, <3>1
    <3>2. CASE i < m - 1
      <4>1. Position(ents, i) \in 1 .. Len(s) /\ s[Position(ents, i)] = ents[i]
        BY <1>9, <3>2
      <4>2. QED
        BY <2>4, <2>5, <4>1
    <3>3. QED
      BY <1>8, <2>6, <3>1, <3>2
  <2>7. ASSUME NEW k \in 1 .. Len(t)
        PROVE  \E i \in Live(ents, cap) : i < m /\ k = Position(ents, i)
    <3>1. k \in 1 .. Len(s) \/ k = Len(s) + 1
      BY <1>6, <2>4
    <3>2. CASE k = Len(s) + 1
      BY <1>4, <2>1, <2>2, <3>2
    <3>3. CASE k \in 1 .. Len(s)
      BY <1>8, <1>9, <3>3
    <3>4. QED
      BY <3>1, <3>2, <3>3
  <2>8. AllAt(ents, cap, m)
    BY <2>6, <2>7 DEF AllAt, t
  <2>9. QED
    BY <1>2, <2>8
<1>12. QED
  BY <1>10, <1>11

-----------------------------------------------------------------------------
(* What the operations do to the sequence.                                 *)

\* s without its element i.
Without(s, i) == SubSeq(s, 1, i - 1) \o SubSeq(s, i + 1, Len(s))

LEMMA WithoutIs ==
  ASSUME NEW S, NEW s \in Seq(S), NEW i \in 1 .. Len(s)
  PROVE  /\ Without(s, i) \in Seq(S) /\ Len(Without(s, i)) = Len(s) - 1
         /\ \A k \in 1 .. Len(s) - 1 : Without(s, i)[k] = IF k < i THEN s[k] ELSE s[k + 1]
<1> DEFINE a == SubSeq(s, 1, i - 1)
           b == SubSeq(s, i + 1, Len(s))
           n == Len(s)
<1>1. n \in Nat /\ i \in Nat /\ 1 <= i /\ i <= n /\ \A k \in 1 .. n : s[k] \in S
  BY LenProperties
<1>2. 1 \in Int /\ i - 1 \in Int /\ i + 1 \in Int /\ n \in Int
  BY <1>1
<1>3. a \in Seq(S) /\ Len(a) = i - 1 /\ \A k \in 1 .. i - 1 : a[k] = s[k]
  <2>1. \A k \in 1 .. i - 1 : s[k] \in S
    BY <1>1
  <2>2. a \in Seq(S) /\ Len(a) = (IF 1 <= i - 1 THEN i - 1 - 1 + 1 ELSE 0) /\ \A k \in 1 .. i - 1 - 1 + 1 : a[k] = s[1 + k - 1]
    BY <1>2, <2>1, SubSeqProperties
  <2> HIDE DEF a
  <2>3. QED
    BY <1>1, <2>2
<1>4. b \in Seq(S) /\ Len(b) = n - i /\ \A k \in 1 .. n - i : b[k] = s[i + k]
  <2>1. \A k \in i + 1 .. n : s[k] \in S
    BY <1>1
  <2>2. b \in Seq(S) /\ Len(b) = (IF i + 1 <= n THEN n - (i + 1) + 1 ELSE 0) /\ \A k \in 1 .. n - (i + 1) + 1 : b[k] = s[i + 1 + k - 1]
    BY <1>2, <2>1, SubSeqProperties
  <2> HIDE DEF b
  <2>3. QED
    BY <1>1, <2>2
<1> HIDE DEF a, b
<1>5. /\ a \o b \in Seq(S) /\ Len(a \o b) = Len(a) + Len(b)
      /\ \A k \in 1 .. Len(a) + Len(b) : (a \o b)[k] = IF k <= Len(a) THEN a[k] ELSE b[k - Len(a)]
  BY <1>3, <1>4, ConcatProperties
<1>6. Len(a) + Len(b) = n - 1
  BY <1>1, <1>3, <1>4
<1>7. ASSUME NEW k \in 1 .. n - 1
      PROVE  (a \o b)[k] = IF k < i THEN s[k] ELSE s[k + 1]
  <2>1. (a \o b)[k] = IF k <= i - 1 THEN a[k] ELSE b[k - (i - 1)]
    BY <1>3, <1>5, <1>6
  <2>2. CASE k < i
    BY <1>1, <1>3, <2>1, <2>2
  <2>3. CASE ~ (k < i)
    <3>1. k - (i - 1) \in 1 .. n - i /\ i + (k - (i - 1)) = k + 1 /\ ~ (k <= i - 1)
      BY <1>1, <2>3
    <3>2. b[k - (i - 1)] = s[k + 1]
      BY <1>4, <3>1
    <3>3. QED
      BY <2>1, <2>3, <3>1, <3>2
  <2>4. QED
    BY <2>2, <2>3
<1>8. Without(s, i) = a \o b
  BY DEF Without, a, b
<1>9. QED
  BY <1>5, <1>6, <1>7, <1>8

LEMMA WithoutAppended ==
  ASSUME NEW S, NEW s \in Seq(S), NEW e \in S
  PROVE  /\ Without(Append(s, e), Len(s) + 1) = s
         /\ \A i \in 1 .. Len(s) : Without(Append(s, e), i) = Append(Without(s, i), e)
<1> DEFINE t == Append(s, e)
<1>1. Len(s) \in Nat /\ t \in Seq(S) /\ Len(t) = Len(s) + 1 /\ (\A k \in 1 .. Len(s) : t[k] = s[k]) /\ t[Len(s) + 1] = e
  BY AppendProperties, LenProperties
<1> HIDE DEF t
<1>2. Without(t, Len(s) + 1) = s
  <2> DEFINE r == Without(t, Len(s) + 1)
  <2>1. Len(s) + 1 \in 1 .. Len(t)
    BY <1>1
  <2>2. r \in Seq(S) /\ Len(r) = Len(t) - 1 /\ \A k \in 1 .. Len(t) - 1 : r[k] = IF k < Len(s) + 1 THEN t[k] ELSE t[k + 1]
    BY <1>1, <2>1, WithoutIs
  <2> HIDE DEF r
  <2>3. Len(r) = Len(s) /\ \A k \in 1 .. Len(r) : r[k] = s[k]
    BY <1>1, <2>2
  <2>4. r = s
    BY <2>2, <2>3, SeqEqual
  <2>5. QED
    BY <2>4 DEF r
<1>3. ASSUME NEW i \in 1 .. Len(s)
      PROVE  Without(t, i) = Append(Without(s, i), e)
  <2> DEFINE r == Without(t, i)
             w == Without(s, i)
             u == Append(w, e)
  <2>1. i \in 1 .. Len(t) /\ i \in Nat /\ i <= Len(s)
    BY <1>1
  <2>2. r \in Seq(S) /\ Len(r) = Len(t) - 1 /\ \A k \in 1 .. Len(t) - 1 : r[k] = IF k < i THEN t[k] ELSE t[k + 1]
    BY <1>1, <2>1, WithoutIs
  <2>3. w \in Seq(S) /\ Len(w) = Len(s) - 1 /\ \A k \in 1 .. Len(s) - 1 : w[k] = IF k < i THEN s[k] ELSE s[k + 1]
    BY WithoutIs
  <2> HIDE DEF r, w
  <2>4. u \in Seq(S) /\ Len(u) = Len(w) + 1 /\ (\A k \in 1 .. Len(w) : u[k] = w[k]) /\ u[Len(w) + 1] = e
    BY <2>3, AppendProperties
  <2> HIDE DEF u
  <2>5. Len(r) = Len(s) /\ Len(u) = Len(s)
    BY <1>1, <2>2, <2>3, <2>4
  <2>6. ASSUME NEW k \in 1 .. Len(r)
        PROVE  r[k] = u[k]
    <3>1. k \in Nat /\ k <= Len(s) /\ k \in 1 .. Len(t) - 1
      BY <1>1, <2>5
    <3>2. CASE k = Len(s)
      <4>1. r[k] = t[Len(s) + 1]
        BY <1>1, <2>1, <2>2, <3>1, <3>2
      <4>2. u[k] = e
        BY <1>1, <2>3, <2>4, <3>2
      <4>3. QED
        BY <1>1, <4>1, <4>2
    <3>3. CASE k # Len(s)
      <4>1. k \in 1 .. Len(s) - 1 /\ k \in 1 .. Len(w) /\ k + 1 \in 1 .. Len(s) /\ k \in 1 .. Len(s)
        BY <1>1, <2>3, <3>1, <3>3
      <4>2. u[k] = IF k < i THEN s[k] ELSE s[k + 1]
        BY <2>3, <2>4, <4>1
      <4>3. r[k] = IF k < i THEN t[k] ELSE t[k + 1]
        BY <2>2, <3>1
      <4>4. QED
        BY <1>1, <4>1, <4>2, <4>3
    <3>4. QED
      BY <3>2, <3>3
  <2>7. r = u
    BY <2>2, <2>4, <2>5, <2>6, SeqEqual
  <2>8. QED
    BY <2>7 DEF r, u, w
<1>4. QED
  BY <1>2, <1>3 DEF t

Changed(f, i, d) == [f EXCEPT ![i] = d]

LEMMA ExceptAppended ==
  ASSUME NEW S, NEW s \in Seq(S), NEW e \in S, NEW d \in S
  PROVE  /\ [Append(s, e) EXCEPT ![Len(s) + 1] = d] = Append(s, d)
         /\ \A i \in 1 .. Len(s) : [Append(s, e) EXCEPT ![i] = d] = Append([s EXCEPT ![i] = d], e)
<1> DEFINE t == Append(s, e)
           v == Append(s, d)
<1>1. Len(s) \in Nat /\ t \in Seq(S) /\ Len(t) = Len(s) + 1 /\ (\A k \in 1 .. Len(s) : t[k] = s[k]) /\ t[Len(s) + 1] = e
  BY AppendProperties, LenProperties
<1>2. v \in Seq(S) /\ Len(v) = Len(s) + 1 /\ (\A k \in 1 .. Len(s) : v[k] = s[k]) /\ v[Len(s) + 1] = d
  BY AppendProperties
<1> HIDE DEF t, v
<1>3. [t EXCEPT ![Len(s) + 1] = d] = v
  <2> DEFINE r == [t EXCEPT ![Len(s) + 1] = d]
  <2>1. Len(s) + 1 \in 1 .. Len(t)
    BY <1>1
  <2>2. r \in Seq(S) /\ Len(r) = Len(t) /\ \A k \in 1 .. Len(t) : r[k] = IF k = Len(s) + 1 THEN d ELSE t[k]
    BY <1>1, <2>1, ExceptSeq
  <2> HIDE DEF r
  <2>3. Len(r) = Len(v) /\ \A k \in 1 .. Len(r) : r[k] = v[k]
    <3>1. SUFFICES ASSUME NEW k \in 1 .. Len(r) PROVE r[k] = v[k]
      BY <1>1, <1>2, <2>2
    <3>2. k \in 1 .. Len(s) \/ k = Len(s) + 1
      BY <1>1, <2>2
    <3>3. QED
      BY <1>1, <1>2, <2>2, <3>2
  <2>4. r = v
    BY <1>2, <2>2, <2>3, SeqEqual
  <2>5. QED
    BY <2>4 DEF r
<1>4. ASSUME NEW i \in 1 .. Len(s)
      PROVE  [t EXCEPT ![i] = d] = Append([s EXCEPT ![i] = d], e)
  <2> DEFINE r == [t EXCEPT ![i] = d]
             w == [s EXCEPT ![i] = d]
             u == Append(w, e)
  <2>1. i \in 1 .. Len(t) /\ i \in Nat /\ i <= Len(s)
    BY <1>1
  <2>2. r \in Seq(S) /\ Len(r) = Len(t) /\ \A k \in 1 .. Len(t) : r[k] = IF k = i THEN d ELSE t[k]
    BY <1>1, <2>1, ExceptSeq
  <2>3. w \in Seq(S) /\ Len(w) = Len(s) /\ \A k \in 1 .. Len(s) : w[k] = IF k = i THEN d ELSE s[k]
    BY ExceptSeq
  <2> HIDE DEF r, w
  <2>4. u \in Seq(S) /\ Len(u) = Len(w) + 1 /\ (\A k \in 1 .. Len(w) : u[k] = w[k]) /\ u[Len(w) + 1] = e
    BY <2>3, AppendProperties
  <2> HIDE DEF u
  <2>5. Len(r) = Len(u) /\ \A k \in 1 .. Len(r) : r[k] = u[k]
    <3>1. SUFFICES ASSUME NEW k \in 1 .. Len(r) PROVE r[k] = u[k]
      BY <1>1, <2>2, <2>3, <2>4
    <3>2. k \in 1 .. Len(s) \/ k = Len(s) + 1
      BY <1>1, <2>2
    <3>3. QED
      BY <1>1, <2>1, <2>2, <2>3, <2>4, <3>2
  <2>6. r = u
    BY <2>2, <2>4, <2>5, SeqEqual
  <2>7. QED
    BY <2>6 DEF r, u, w
<1>5. QED
  BY <1>3, <1>4 DEF t, v

\* Entry i has another pair, or none: so has the sequence.
LEMMA PairsChanged ==
  ASSUME NEW cap \in Nat, NEW ents \in [Slots(cap) -> Entry], NEW i \in Live(ents, cap), NEW d \in Pair,
         NEW n \in Nat, n <= cap, i < n
  PROVE  PairsIn(Changed(ents, i, d), n) = Changed(PairsIn(ents, n), Position(ents, i), d)
<1> USE DEF Changed
<1> DEFINE ents2 == [ents EXCEPT ![i] = d]
           p == Position(ents, i)
           Differs(m) == i < m /\ m <= n /\ PairsIn(ents2, m) # [PairsIn(ents, m) EXCEPT ![p] = d]
           T == {m \in Nat : Differs(m)}
<1>1. SUFFICES ASSUME T # {} PROVE FALSE
  <2>1. PairsIn(ents2, n) # [PairsIn(ents, n) EXCEPT ![p] = d] => Differs(n)
    OBVIOUS
  <2> HIDE DEF Differs
  <2>2. Differs(n) => T # {}
    OBVIOUS
  <2>3. QED
    BY <1>1, <2>1, <2>2
<1>2. PICK m \in T : \A r \in T : m <= r
  BY <1>1, Least
<1>3. i \in Nat /\ i \in Slots(cap) /\ ents[i] \in Pair /\ ents[i].key # NoKey /\ d.key # NoKey
  <2>1. i \in Slots(cap) /\ ents[i].key # NoKey
    BY DEF Live
  <2>2. i \in Nat
    BY <2>1 DEF Slots
  <2>3. ents[i] \in Pair
    BY LiveKey DEF Pair
  <2>4. d.key # NoKey
    BY KeyAssumption DEF Pair
  <2>5. QED
    BY <2>1, <2>2, <2>3, <2>4
<1>4. /\ m \in Nat /\ m - 1 \in Nat /\ m - 1 <= n /\ m - 1 <= cap /\ ~ (m <= m - 1) /\ m - 1 \in Slots(cap) /\ (m - 1) + 1 = m
      /\ m - 1 = i \/ i < m - 1
  BY <1>2, <1>3 DEF Slots
<1>5. ents2[i] = d /\ \A k \in Slots(cap) : k # i => ents2[k] = ents[k]
  BY <1>3
<1> HIDE DEF ents2
<1> DEFINE s == PairsIn(ents, m - 1)
<1>6. s \in Seq(Pair) /\ Len(s) \in Nat
  BY <1>4, PairsTyped
<1>7. /\ PairsIn(ents, m) = IF ents[m - 1].key = NoKey THEN s ELSE Append(s, ents[m - 1])
      /\ PairsIn(ents2, m) = IF ents2[m - 1].key = NoKey THEN PairsIn(ents2, m - 1)
                             ELSE Append(PairsIn(ents2, m - 1), ents2[m - 1])
  BY <1>4, PairsAre
<1>8. CASE m - 1 = i
  <2>1. p = Len(s) + 1
    BY <1>8 DEF Position
  <2>2. \A k \in 0 .. i - 1 : k \in Slots(cap) /\ k # i
    BY <1>3 DEF Slots
  <2>3. PairsIn(ents2, i) = PairsIn(ents, i)
    BY <1>3, <1>5, <2>2, PairsSame
  <2>4. PairsIn(ents, m) = Append(s, ents[i]) /\ PairsIn(ents2, m) = Append(s, d)
    BY <1>3, <1>5, <1>7, <1>8, <2>3
  <2> HIDE DEF s, p
  <2>5. [Append(s, ents[i]) EXCEPT ![Len(s) + 1] = d] = Append(s, d)
    BY <1>3, <1>6, ExceptAppended
  <2>6. QED
    BY <1>2, <2>1, <2>4, <2>5
<1>9. CASE i < m - 1
  <2>1. PairsIn(ents2, m - 1) = [s EXCEPT ![p] = d]
    BY <1>2, <1>4, <1>9
  <2>2. p \in 1 .. Len(s)
    BY <1>4, <1>9, PairsAt DEF AllAt
  <2>3. ents2[m - 1] = ents[m - 1]
    BY <1>3, <1>4, <1>5, <1>9
  <2> HIDE DEF s, p
  <2>4. CASE ents[m - 1].key = NoKey
    BY <1>2, <1>7, <2>1, <2>3, <2>4
  <2>5. CASE ents[m - 1].key # NoKey
    <3>1. ents[m - 1] \in Pair
      BY <1>4, <2>5, LiveKey DEF Live, Pair
    <3>2. [Append(s, ents[m - 1]) EXCEPT ![p] = d] = Append([s EXCEPT ![p] = d], ents[m - 1])
      BY <1>6, <2>2, <3>1, ExceptAppended
    <3>3. QED
      BY <1>2, <1>7, <2>1, <2>3, <2>5, <3>2
  <2>6. QED
    BY <2>4, <2>5
<1>10. QED
  BY <1>4, <1>8, <1>9

LEMMA PairsRemoved ==
  ASSUME NEW cap \in Nat, NEW ents \in [Slots(cap) -> Entry], NEW i \in Live(ents, cap),
         NEW n \in Nat, n <= cap, i < n
  PROVE  PairsIn([ents EXCEPT ![i] = Gap], n) = Without(PairsIn(ents, n), Position(ents, i))
<1> DEFINE ents2 == [ents EXCEPT ![i] = Gap]
           p == Position(ents, i)
           Differs(m) == i < m /\ m <= n /\ PairsIn(ents2, m) # Without(PairsIn(ents, m), p)
           T == {m \in Nat : Differs(m)}
<1>1. SUFFICES ASSUME T # {} PROVE FALSE
  <2>1. PairsIn(ents2, n) # Without(PairsIn(ents, n), p) => Differs(n)
    OBVIOUS
  <2> HIDE DEF Differs
  <2>2. Differs(n) => T # {}
    OBVIOUS
  <2>3. QED
    BY <1>1, <2>1, <2>2
<1>2. PICK m \in T : \A r \in T : m <= r
  BY <1>1, Least
<1>3. i \in Nat /\ i \in Slots(cap) /\ ents[i] \in Pair /\ ents[i].key # NoKey /\ Gap.key = NoKey
  <2>1. i \in Slots(cap) /\ ents[i].key # NoKey
    BY DEF Live
  <2>2. i \in Nat
    BY <2>1 DEF Slots
  <2>3. ents[i] \in Pair
    BY LiveKey DEF Pair
  <2>4. Gap.key = NoKey
    BY DEF Gap
  <2>5. QED
    BY <2>1, <2>2, <2>3, <2>4
<1>4. /\ m \in Nat /\ m - 1 \in Nat /\ m - 1 <= n /\ m - 1 <= cap /\ ~ (m <= m - 1) /\ m - 1 \in Slots(cap) /\ (m - 1) + 1 = m
      /\ m - 1 = i \/ i < m - 1
  BY <1>2, <1>3 DEF Slots
<1>5. ents2[i] = Gap /\ \A k \in Slots(cap) : k # i => ents2[k] = ents[k]
  BY <1>3
<1> HIDE DEF ents2
<1> DEFINE s == PairsIn(ents, m - 1)
<1>6. s \in Seq(Pair) /\ Len(s) \in Nat
  BY <1>4, PairsTyped
<1>7. /\ PairsIn(ents, m) = IF ents[m - 1].key = NoKey THEN s ELSE Append(s, ents[m - 1])
      /\ PairsIn(ents2, m) = IF ents2[m - 1].key = NoKey THEN PairsIn(ents2, m - 1)
                             ELSE Append(PairsIn(ents2, m - 1), ents2[m - 1])
  BY <1>4, PairsAre
<1>8. CASE m - 1 = i
  <2>1. p = Len(s) + 1
    BY <1>8 DEF Position
  <2>2. \A k \in 0 .. i - 1 : k \in Slots(cap) /\ k # i
    BY <1>3 DEF Slots
  <2>3. PairsIn(ents2, i) = PairsIn(ents, i)
    BY <1>3, <1>5, <2>2, PairsSame
  <2>4. PairsIn(ents, m) = Append(s, ents[i]) /\ PairsIn(ents2, m) = s
    BY <1>3, <1>5, <1>7, <1>8, <2>3
  <2> HIDE DEF s, p
  <2>5. Without(Append(s, ents[i]), Len(s) + 1) = s
    BY <1>3, <1>6, WithoutAppended
  <2>6. QED
    BY <1>2, <2>1, <2>4, <2>5
<1>9. CASE i < m - 1
  <2>1. PairsIn(ents2, m - 1) = Without(s, p)
    BY <1>2, <1>4, <1>9
  <2>2. p \in 1 .. Len(s)
    BY <1>4, <1>9, PairsAt DEF AllAt
  <2>3. ents2[m - 1] = ents[m - 1]
    BY <1>3, <1>4, <1>5, <1>9
  <2> HIDE DEF s, p
  <2>4. CASE ents[m - 1].key = NoKey
    BY <1>2, <1>7, <2>1, <2>3, <2>4
  <2>5. CASE ents[m - 1].key # NoKey
    <3>1. ents[m - 1] \in Pair
      BY <1>4, <2>5, LiveKey DEF Live, Pair
    <3>2. Without(Append(s, ents[m - 1]), p) = Append(Without(s, p), ents[m - 1])
      BY <1>6, <2>2, <3>1, WithoutAppended
    <3>3. QED
      BY <1>2, <1>7, <2>1, <2>3, <2>5, <3>2
  <2>6. QED
    BY <2>4, <2>5
<1>10. QED
  BY <1>4, <1>8, <1>9

-----------------------------------------------------------------------------
(* Each operation is the abstract one.                                     *)

\* While the pairs move, the new arrays have those that are behind the cursor.
Copied == pc = "rehash" => PairsIn(nentries, moved) = PairsIn(entries, cursor)

\* A key has a place in the map if a pair that is alive has an equal one.
LEMMA PlaceOf ==
  ASSUME NEW ents, NEW idx, NEW cap, NEW u, WellFormed(ents, idx, cap, u), PairsIn(ents, u) = Pairs,
         NEW i \in Live(ents, cap), NEW k \in Key, k \notin Unhashable, ents[i].key \in EqualTo[k]
  PROVE  /\ Position(ents, i) \in Abstract!Places(k)
         /\ Pairs[Position(ents, i)] = ents[i]
         /\ i \in Nat /\ i < u
<1>1. cap \in Nat /\ u \in Nat /\ u <= cap /\ ents \in [Slots(cap) -> Entry]
  BY DEF WellFormed, Typed, Loaded
<1>2. i \in Slots(cap) /\ i \in Nat /\ ents[i] # Gap
  BY <1>1 DEF Live, Slots, Gap
<1>3. i < u
  BY <1>1, <1>2 DEF WellFormed, Pointing
<1>4. Position(ents, i) \in 1 .. Len(Pairs) /\ Pairs[Position(ents, i)] = ents[i]
  BY <1>1, <1>3, PairsAt DEF AllAt
<1>5. Pairs \in Seq(Pair)
  BY <1>1, PairsTyped
<1>6. DOMAIN Pairs = 1 .. Len(Pairs)
  BY <1>5, LenProperties
<1>7. QED
  BY <1>2, <1>3, <1>4, <1>6 DEF Abstract!Places

LEMMA NoPlaceOf ==
  ASSUME NEW ents, NEW idx, NEW cap, NEW u, WellFormed(ents, idx, cap, u), PairsIn(ents, u) = Pairs,
         NEW k \in Key, \A i \in Live(ents, cap) : ents[i].key \notin EqualTo[k]
  PROVE  Abstract!Places(k) = {}
<1>1. cap \in Nat /\ u \in Nat /\ u <= cap /\ ents \in [Slots(cap) -> Entry]
  BY DEF WellFormed, Typed, Loaded
<1>2. Pairs \in Seq(Pair)
  BY <1>1, PairsTyped
<1>3. DOMAIN Pairs = 1 .. Len(Pairs)
  BY <1>2, LenProperties
<1>4. ASSUME NEW p \in DOMAIN Pairs
      PROVE  Pairs[p].key \notin EqualTo[k]
  <2>1. AllAt(ents, cap, u)
    BY <1>1, PairsAt
  <2>2. PICK i \in Live(ents, cap) : i < u /\ p = Position(ents, i)
    BY <1>3, <1>4, <2>1 DEF AllAt
  <2>3. Pairs[p] = ents[i]
    BY <2>1, <2>2 DEF AllAt
  <2>4. QED
    BY <2>3
<1>5. QED
  BY <1>4 DEF Abstract!Places

\* Store, on the arrays whose pairs are those of the map, is Set.
LEMMA StoreIsSet ==
  ASSUME NEW ents, NEW idx, NEW cap, NEW u, WellFormed(ents, idx, cap, u), PairsIn(ents, u) = Pairs,
         4 * (u + 1) <= 3 * cap, NEW k \in Key, NEW v \in Value, Store(ents, idx, cap, u, k, v)
  PROVE  Abstract!Set(k, v)
<1>1. /\ cap \in Nat /\ u \in Nat /\ u <= cap /\ u + 1 <= cap /\ cap > 0 /\ ents \in [Slots(cap) -> Entry]
      /\ idx \in [Slots(cap) -> {Empty, Tombstone} \cup Slots(cap)]
  BY DEF WellFormed, Typed, Loaded
<1>2. Pairs' = PairsIn(entries', used')
  BY DEF Pairs
<1>3. CASE k \in Unhashable
  <2>1. entries' = ents /\ used' = u /\ reply' = 0
    BY <1>3 DEF Store
  <2>2. Pairs' = Pairs
    BY <1>2, <2>1
  <2>3. QED
    BY <1>3, <2>1, <2>2 DEF Abstract!Set
<1>4. CASE k \notin Unhashable
  <2>1. PICK s \in Slots(cap) :
          /\ IsKeySlot(ents, idx, cap, k, EqualTo[k], s)
          /\ \/ /\ idx[s] < 0
                /\ entries' = [ents EXCEPT ![u] = [key |-> k, value |-> v]]
                /\ used' = u + 1
                /\ reply' = 1
             \/ /\ idx[s] >= 0
                /\ entries' = [ents EXCEPT ![idx[s]].value = v]
                /\ used' = u
                /\ reply' = 0
    BY <1>4 DEF Store
  <2>2. EqualTo[k] \in SUBSET EqualTo[k]
    OBVIOUS
  <2>3. idx[s] \in Int
    BY <1>1, <2>1 DEF Empty, Tombstone, Slots
  <2>4. CASE idx[s] < 0
    <3>1. entries' = [ents EXCEPT ![u] = [key |-> k, value |-> v]] /\ used' = u + 1 /\ reply' = 1
      BY <2>1, <2>3, <2>4
    <3>2. \A i \in Live(ents, cap) : ents[i].key \notin EqualTo[k]
      BY <1>1, <2>1, <2>2, <2>4, SearchFails
    <3>3. Abstract!Places(k) = {}
      BY <3>2, NoPlaceOf
    <3>4. u \in Slots(cap) /\ [key |-> k, value |-> v].key # NoKey
      BY <1>1, KeyAssumption DEF Slots
    <3> DEFINE d == [key |-> k, value |-> v]
    <3>5. entries'[u] = d /\ \A i \in 0 .. u - 1 : entries'[i] = ents[i]
      <4>1. \A i \in 0 .. u - 1 : i \in Slots(cap) /\ i # u
        BY <1>1 DEF Slots
      <4>2. QED
        BY <1>1, <3>1, <3>4, <4>1
    <3>6. PairsIn(entries', u) = Pairs
      BY <1>1, <3>5, PairsSame
    <3>7. Pairs' = Append(Pairs, d)
      <4>1. PairsIn(entries', u + 1) = IF entries'[u].key = NoKey THEN PairsIn(entries', u)
                                       ELSE Append(PairsIn(entries', u), entries'[u])
        BY <1>1, PairsAre
      <4>2. d.key # NoKey
        BY <3>4
      <4> HIDE DEF d
      <4>3. QED
        BY <1>2, <3>1, <3>5, <3>6, <4>1, <4>2
    <3>8. QED
      BY <1>4, <3>1, <3>3, <3>7 DEF Abstract!Set
  <2>5. CASE idx[s] >= 0
    <3>1. entries' = [ents EXCEPT ![idx[s]].value = v] /\ used' = u /\ reply' = 0
      BY <2>1, <2>3, <2>5
    <3>2. idx[s] \in Live(ents, cap) /\ ents[idx[s]].key \in EqualTo[k]
      BY <1>1, <2>1, <2>5, SearchHits
    <3> DEFINE i == idx[s]
               p == Position(ents, i)
               d == [ents[i] EXCEPT !.value = v]
    <3>3. p \in Abstract!Places(k) /\ Pairs[p] = ents[i] /\ i < u
      BY <1>4, <3>2, PlaceOf
    <3>4. d \in Pair
      BY <1>1, <3>2, LiveKey DEF Pair
    <3>5. entries' = [ents EXCEPT ![i] = d]
      BY <3>1
    <3>6. Pairs' = [Pairs EXCEPT ![p] = d]
      <4> HIDE DEF i, d, p
      <4>1. /\ i \in Live(ents, cap) /\ u \in Nat /\ u <= cap /\ i < u /\ cap \in Nat
            /\ ents \in [Slots(cap) -> Entry] /\ d \in Pair
        BY <1>1, <3>2, <3>3, <3>4 DEF i
      <4>2. PairsIn(Changed(ents, i, d), u) = Changed(PairsIn(ents, u), Position(ents, i), d)
        BY <4>1, PairsChanged
      <4>3. QED
        BY <1>2, <3>1, <3>5, <4>2 DEF p, Changed
    <3>7. Pairs' = [Pairs EXCEPT ![p].value = v]
      BY <3>3, <3>6
    <3>8. QED
      BY <3>1, <3>3, <3>7 DEF Abstract!Set
  <2>6. QED
    BY <2>3, <2>4, <2>5
<1>5. QED
  BY <1>3, <1>4

\* A slot that is found holds the place of the key ...
LEMMA FoundPlace ==
  ASSUME TableInv, NEW k \in Key, NEW s, Found(k, s)
  PROVE  /\ Position(entries, indexes[s]) \in Abstract!Places(k)
         /\ Pairs[Position(entries, indexes[s])] = entries[indexes[s]]
         /\ indexes[s] \in Live(entries, capacity)
         /\ indexes[s] < used
<1>1. WellFormed(entries, indexes, capacity, used) /\ PairsIn(entries, used) = Pairs
  BY DEF TableInv, Pairs
<1>2. capacity \in Nat /\ capacity > 0 /\ k \notin Unhashable
  BY CountFits DEF Found
<1>3. indexes[s] \in Live(entries, capacity) /\ entries[indexes[s]].key \in EqualTo[k]
  BY <1>1, <1>2, SearchHits DEF Found
<1>4. QED
  BY <1>1, <1>2, <1>3, PlaceOf

\* ... and a key that is not found has none.
LEMMA NotFoundNoPlace ==
  ASSUME TableInv, NEW k \in Key, NotFound(k)
  PROVE  Abstract!Places(k) = {}
<1>1. WellFormed(entries, indexes, capacity, used) /\ PairsIn(entries, used) = Pairs
  BY DEF TableInv, Pairs
<1>2. CASE k \in Unhashable
  BY <1>2 DEF Abstract!Places
<1>3. CASE k \notin Unhashable
  <2>1. ASSUME NEW i \in Live(entries, capacity), entries[i].key \in EqualTo[k]
        PROVE  FALSE
    <3> DEFINE j == entries[i].key
    <3>1. EqualTo[j] = EqualTo[k] /\ Hash[j] = Hash[k]
      BY <2>1, KeyAssumption
    <3>2. PICK s \in Slots(capacity) : IsKeySlot(entries, indexes, capacity, j, EqualTo[j], s) /\ indexes[s] = i
      BY <1>1, ProbeFindsPair
    <3>3. IsKeySlot(entries, indexes, capacity, k, EqualTo[k], s)
      <4>1. Home(j, capacity) = Home(k, capacity)
        BY <3>1 DEF Home
      <4> HIDE DEF j
      <4>2. QED
        BY <3>1, <3>2, <4>1 DEF IsKeySlot
    <3>4. i \in Nat
      BY <1>1 DEF Live, Slots, WellFormed, Typed
    <3>5. count > 0
      <4>1. IsFiniteSet(Live(entries, capacity)) /\ Cardinality(Live(entries, capacity)) \in Nat
        BY <1>1, LiveBounded
      <4>2. Cardinality(Live(entries, capacity)) # 0
        BY <4>1, FS_EmptySet
      <4>3. QED
        BY <4>1, <4>2 DEF TableInv
    <3>6. Found(k, s)
      BY <1>3, <3>2, <3>3, <3>4, <3>5 DEF Found
    <3>7. QED
      BY <3>2, <3>6 DEF NotFound
  <2>2. QED
    BY <1>1, <2>1, NoPlaceOf
<1>4. QED
  BY <1>2, <1>3

LEMMA GetIsGet ==
  ASSUME TableInv, NEW k \in Key, Get(k)
  PROVE  Abstract!Get(k)
<1>1. Pairs' = Pairs
  BY DEF Get, table, Pairs
<1>2. CASE NotFound(k) /\ reply' = NoValue
  BY <1>1, <1>2, NotFoundNoPlace DEF Abstract!Get
<1>3. ASSUME NEW s \in Slots(capacity), Found(k, s), reply' = entries[indexes[s]].value
      PROVE  Abstract!Get(k)
  BY <1>1, <1>3, FoundPlace DEF Abstract!Get
<1>4. QED
  BY <1>2, <1>3 DEF Get

LEMMA SetIfExistsIsSetIfExists ==
  ASSUME TableInv, NEW k \in Key, NEW v \in Value, SetIfExists(k, v)
  PROVE  Abstract!SetIfExists(k, v)
<1>1. used' = used
  BY DEF SetIfExists
<1>2. CASE NotFound(k) /\ reply' = 0 /\ entries' = entries
  <2>1. Pairs' = Pairs
    BY <1>1, <1>2 DEF Pairs
  <2>2. QED
    BY <1>2, <2>1, NotFoundNoPlace DEF Abstract!SetIfExists
<1>3. ASSUME NEW s \in Slots(capacity), Found(k, s), reply' = 1, entries' = [entries EXCEPT ![indexes[s]].value = v]
      PROVE  Abstract!SetIfExists(k, v)
  <2> DEFINE i == indexes[s]
             p == Position(entries, i)
             d == [entries[i] EXCEPT !.value = v]
  <2>1. p \in Abstract!Places(k) /\ Pairs[p] = entries[i] /\ i \in Live(entries, capacity) /\ i < used
    BY <1>3, FoundPlace
  <2>2. /\ capacity \in Nat /\ used \in Nat /\ used <= capacity
        /\ entries \in [Slots(capacity) -> Entry]
    BY DEF TableInv, WellFormed, Typed, Loaded
  <2>3. d \in Pair
    BY <2>1, <2>2, LiveKey DEF Pair
  <2>4. entries' = [entries EXCEPT ![i] = d]
    BY <1>3
  <2>5. Pairs' = [Pairs EXCEPT ![p] = d]
    <3> HIDE DEF i, d
    <3>1. PairsIn(Changed(entries, i, d), used) = Changed(PairsIn(entries, used), Position(entries, i), d)
      BY <2>1, <2>2, <2>3, PairsChanged
    <3>2. QED
      BY <1>1, <2>4, <3>1 DEF Changed, Pairs
  <2>6. Pairs' = [Pairs EXCEPT ![p].value = v]
    BY <2>1, <2>5
  <2>7. QED
    BY <1>3, <2>1, <2>6 DEF Abstract!SetIfExists
<1>4. QED
  BY <1>2, <1>3 DEF SetIfExists

LEMMA DeleteIsDelete ==
  ASSUME TableInv, NEW k \in Key, Delete(k)
  PROVE  Abstract!Delete(k)
<1>1. used' = used
  BY DEF Delete
<1>2. CASE NotFound(k) /\ reply' = 0 /\ entries' = entries
  <2>1. Pairs' = Pairs
    BY <1>1, <1>2 DEF Pairs
  <2>2. QED
    BY <1>2, <2>1, NotFoundNoPlace DEF Abstract!Delete
<1>3. ASSUME NEW s \in Slots(capacity), Found(k, s), reply' = 1, entries' = [entries EXCEPT ![indexes[s]] = Gap]
      PROVE  Abstract!Delete(k)
  <2> DEFINE i == indexes[s]
             p == Position(entries, i)
  <2>1. p \in Abstract!Places(k) /\ i \in Live(entries, capacity) /\ i < used
    BY <1>3, FoundPlace
  <2>2. /\ capacity \in Nat /\ used \in Nat /\ used <= capacity
        /\ entries \in [Slots(capacity) -> Entry]
    BY DEF TableInv, WellFormed, Typed, Loaded
  <2>3. Pairs' = Without(Pairs, p)
    <3> HIDE DEF i
    <3>1. PairsIn([entries EXCEPT ![i] = Gap], used) = Without(PairsIn(entries, used), Position(entries, i))
      BY <2>1, <2>2, PairsRemoved
    <3>2. QED
      BY <1>1, <1>3, <3>1 DEF Pairs, i
  <2>4. QED
    BY <1>3, <2>1, <2>3 DEF Abstract!Delete, Abstract!RemoveAt, Without
<1>4. QED
  BY <1>2, <1>3 DEF Delete

LEMMA SetNowIsSet ==
  ASSUME IInv, NEW k \in Key, NEW v \in Value, SetNow(k, v)
  PROVE  Abstract!Set(k, v)
<1>1. TableInv
  BY DEF IInv
<1>2. 4 * (used + 1) <= 3 * capacity
  BY <1>1, CountFits DEF SetNow, NeedsGrow
<1>3. WellFormed(entries, indexes, capacity, used) /\ PairsIn(entries, used) = Pairs
  BY <1>1 DEF TableInv, Pairs
<1>4. QED
  BY <1>2, <1>3, StoreIsSet DEF SetNow

\* When the rehash ends, the new arrays have the pairs of the old ones.
LEMMA FinishIsSet ==
  ASSUME IInv, Copied, FinishSet
  PROVE  Abstract!Set(pending.key, pending.value) /\ pending.key \in Key /\ pending.value \in Value
<1>1. RehashInv /\ TableInv /\ moved = count /\ pc = "rehash"
  BY DEF IInv, FinishSet
<1>2. /\ capacity \in Nat /\ used \in Nat /\ used <= capacity /\ cursor \in Nat /\ cursor <= capacity
      /\ moved \in Nat
      /\ WellFormed(nentries, nindexes, ncapacity, count)
      /\ 4 * (count + 1) <= 3 * ncapacity
      /\ pending.key \in Key /\ pending.value \in Value
  <2>1. capacity \in Nat /\ used \in Nat /\ used <= capacity
    BY <1>1 DEF TableInv, WellFormed, Typed, Loaded
  <2>2. /\ WellFormed(nentries, nindexes, ncapacity, moved) /\ cursor \in 0 .. capacity
        /\ pending \in [key : Key, value : Value] /\ 4 * (count + 1) <= 3 * ncapacity
    BY <1>1 DEF RehashInv
  <2>3. moved \in Nat
    BY <2>2 DEF WellFormed, Typed
  <2>4. cursor \in Nat /\ cursor <= capacity
    BY <2>1, <2>2
  <2>5. QED
    BY <1>1, <2>1, <2>2, <2>3, <2>4
<1>3. Moved = Live(entries, capacity)
  <2>1. IsFiniteSet(Live(entries, capacity))
    BY <1>1, LiveBounded DEF TableInv
  <2>2. Moved \subseteq Live(entries, capacity) /\ Cardinality(Moved) = Cardinality(Live(entries, capacity))
    BY <1>1 DEF RehashInv, TableInv, Moved
  <2>3. QED
    BY <2>1, <2>2, FS_Subset
<1>4. \A i \in Nat : i < capacity /\ i >= cursor => entries[i].key = NoKey
  BY <1>2, <1>3 DEF Moved, Live, Slots
<1>5. \A i \in Nat : i < capacity /\ i >= used => entries[i].key = NoKey
  BY <1>1, <1>2 DEF TableInv, WellFormed, Pointing, Slots, Gap
<1>6. PairsIn(entries, cursor) = Pairs
  <2>1. CASE cursor <= used
    <3>1. \A i \in cursor .. used - 1 : entries[i].key = NoKey
      BY <1>2, <1>4
    <3>2. QED
      BY <1>2, <2>1, <3>1, PairsOverGaps DEF Pairs
  <2>2. CASE used <= cursor
    <3>1. \A i \in used .. cursor - 1 : entries[i].key = NoKey
      BY <1>2, <1>5
    <3>2. QED
      BY <1>2, <2>2, <3>1, PairsOverGaps DEF Pairs
  <2>3. QED
    BY <1>2, <2>1, <2>2
<1>7. PairsIn(nentries, count) = Pairs
  BY <1>1, <1>6 DEF Copied
<1>8. Store(nentries, nindexes, ncapacity, count, pending.key, pending.value)
  BY DEF FinishSet
<1>9. QED
  BY <1>2, <1>7, <1>8, StoreIsSet

\* A turn of the loop copies the next pair and skips only gaps.
LEMMA RehashCopies ==
  ASSUME IInv, Copied, Rehash
  PROVE  Copied'
<1>1. TableInv /\ RehashInv /\ pc = "rehash"
  BY DEF IInv, Rehash
<1>2. UNCHANGED entries /\ moved' = moved + 1 /\ moved < count
  BY DEF Rehash, table
<1>3. PICK e \in cursor .. capacity - 1 :
        /\ entries[e].key # NoKey
        /\ \A j \in cursor .. e - 1 : entries[j].key = NoKey
        /\ nentries' = [nentries EXCEPT ![moved] = entries[e]]
        /\ cursor' = e + 1
  BY DEF Rehash
<1>4. /\ count \in Nat /\ capacity \in Nat /\ ncapacity \in Nat /\ moved \in Nat /\ cursor \in Nat
      /\ nentries \in [Slots(ncapacity) -> Entry]
      /\ 4 * (count + 1) <= 3 * ncapacity
  BY <1>1, CountFits DEF RehashInv, WellFormed, Typed
<1>5. moved \in Slots(ncapacity) /\ e \in Nat /\ cursor <= e
  BY <1>2, <1>3, <1>4 DEF Slots
<1>6. nentries'[moved] = entries[e] /\ \A j \in 0 .. moved - 1 : nentries'[j] = nentries[j]
  <2>1. \A j \in 0 .. moved - 1 : j \in Slots(ncapacity) /\ j # moved
    BY <1>4, <1>5 DEF Slots
  <2>2. QED
    BY <1>3, <1>4, <1>5, <2>1
<1>7. PairsIn(nentries', moved) = PairsIn(nentries, moved)
  BY <1>4, <1>6, PairsSame
<1>8. PairsIn(entries, e) = PairsIn(entries, cursor)
  BY <1>3, <1>4, <1>5, PairsOverGaps
<1>9. PairsIn(entries, e + 1) = Append(PairsIn(entries, e), entries[e])
  BY <1>3, <1>5, PairsAre
<1>10. PairsIn(nentries', moved + 1) = Append(PairsIn(nentries', moved), entries[e])
  <2>1. PairsIn(nentries', moved + 1) = IF nentries'[moved].key = NoKey THEN PairsIn(nentries', moved)
                                        ELSE Append(PairsIn(nentries', moved), nentries'[moved])
    BY <1>4, PairsAre
  <2>2. QED
    BY <1>3, <1>6, <2>1
<1>11. QED
  BY <1>1, <1>2, <1>3, <1>7, <1>8, <1>9, <1>10 DEF Copied

\* Every step keeps Copied and is a step of the map, or leaves it alone.
LEMMA StepsAreMapSteps ==
  ASSUME IInv, Copied, [Next]_vars
  PROVE  Copied' /\ [Abstract!Next]_(Abstract!vars)
<1>1. CASE Rehash
  <2>1. Pairs' = Pairs /\ reply' = reply
    BY <1>1 DEF Rehash, table, Pairs
  <2>2. QED
    BY <1>1, <2>1, RehashCopies DEF Abstract!vars
<1>2. CASE FinishSet
  <2>1. Copied'
    BY <1>2 DEF FinishSet, Copied
  <2>2. QED
    BY <1>2, <2>1, FinishIsSet DEF Abstract!Next
<1>3. ASSUME NEW k \in Key, Get(k)
      PROVE  Copied' /\ Abstract!Next
  <2>1. Copied'
    BY <1>3 DEF Get, growing, Copied
  <2>2. QED
    BY <1>3, <2>1, GetIsGet DEF Abstract!Next, IInv
<1>4. ASSUME NEW k \in Key, Delete(k)
      PROVE  Copied' /\ Abstract!Next
  <2>1. Copied'
    BY <1>4 DEF Delete, Copied
  <2>2. QED
    BY <1>4, <2>1, DeleteIsDelete DEF Abstract!Next, IInv
<1>5. ASSUME NEW k \in Key, NEW v \in Value, SetNow(k, v)
      PROVE  Copied' /\ Abstract!Next
  <2>1. Copied'
    BY <1>5 DEF SetNow, Copied
  <2>2. QED
    BY <1>5, <2>1, SetNowIsSet DEF Abstract!Next
<1>6. ASSUME NEW k \in Key, NEW v \in Value, SetGrowing(k, v)
      PROVE  Copied' /\ UNCHANGED Abstract!vars
  <2>1. Pairs' = Pairs /\ reply' = reply
    BY <1>6 DEF SetGrowing, table, Pairs
  <2>2. moved' = 0 /\ cursor' = 0
    BY <1>6 DEF SetGrowing
  <2>3. Copied'
    BY <2>2, PairsAre DEF Copied
  <2>4. QED
    BY <2>1, <2>3 DEF Abstract!vars
<1>7. ASSUME NEW k \in Key, NEW v \in Value, SetIfExists(k, v)
      PROVE  Copied' /\ Abstract!Next
  <2>1. Copied'
    BY <1>7 DEF SetIfExists, Copied
  <2>2. QED
    BY <1>7, <2>1, SetIfExistsIsSetIfExists DEF Abstract!Next, IInv
<1>8. CASE UNCHANGED vars
  BY <1>8 DEF vars, table, growing, Copied, Pairs, Abstract!vars
<1>9. QED
  BY <1>1, <1>2, <1>3, <1>4, <1>5, <1>6, <1>7, <1>8 DEF Next

\* A hash table is the ordered map it promises to be, whatever the keys, the
\* values and the capacities: an operation answers as the map does and has
\* the effect it has there, and a rehash is not seen.
THEOREM ImplementsMap == Spec => ImplementsOrderedMap
<1>1. Init => Copied /\ Abstract!Init
  BY PairsAre DEF Init, Copied, Pairs, Abstract!Init
<1>2. IInv /\ Copied /\ [Next]_vars => Copied' /\ [Abstract!Next]_(Abstract!vars)
  BY StepsAreMapSteps
<1>3. QED
  BY <1>1, <1>2, Invariance, PTL DEF Spec, ImplementsOrderedMap, Abstract!Spec
=============================================================================
