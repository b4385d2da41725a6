------------------------------ MODULE KrkTable ------------------------------
(***************************************************************************)
(* The hash table of src/src/table.c: the one structure behind dict, set,  *)
(* module globals, instance fields, class method tables, the subclass      *)
(* registry and the string intern table.                                   *)
(*                                                                         *)
(* Two arrays of the same capacity make a table.  "entries" holds the      *)
(* pairs in insertion order; a deleted pair leaves a gap (NoKey, the       *)
(* KWARGS_VAL(0) sentinel of the code).  "indexes" is the hash map proper: *)
(* an open-addressed array whose slot is Empty, a Tombstone, or the        *)
(* position of a pair in "entries".  "used" counts the positions consumed, *)
(* "count" the pairs alive; the difference is the gaps.                    *)
(*                                                                         *)
(* A set that finds the table too full moves every pair into larger        *)
(* arrays.  That loop is one Rehash step per pair; all other operations    *)
(* are one step each.                                                      *)
(***************************************************************************)
EXTENDS Integers, FiniteSets, Sequences

CONSTANTS
  Key,             \* values used as keys
  Unhashable,      \* the keys on which krk_hashValue fails
  Hash,            \* Hash[k]: what krk_hashValue computes
  EqualTo,         \* EqualTo[k]: the keys krk_valuesSameOrEqual accepts for k
  Value,           \* values stored
  NoKey, NoValue,  \* the sentinel in a gap; the reply of a failed lookup
  StartCapacity,   \* capacities a table may be presized to (krk_dict_of)
  MaxCapacity      \* bound of the model on the growth of the arrays

\* Equality is an equivalence and equal keys hash alike, as krk_hashValue
\* and krk_valuesSameOrEqual arrange for the built-in types and as a program
\* must for its own __eq__ and __hash__.
ASSUME KeyAssumption ==
  /\ Unhashable \subseteq Key
  /\ Hash \in [Key -> Nat]
  /\ EqualTo \in [Key -> SUBSET Key]
  /\ \A k \in Key : k \in EqualTo[k]
  /\ \A j, k \in Key : j \in EqualTo[k] => EqualTo[j] = EqualTo[k] /\ Hash[j] = Hash[k]
  /\ NoKey \notin Key

ASSUME CapacityAssumption == StartCapacity \subseteq Nat /\ MaxCapacity \in Nat

VARIABLES
  count, capacity, used, entries, indexes,   \* the fields of KrkTable
  pc,          \* "idle", or "rehash" inside krk_tableAdjustCapacity
  pending,     \* the pair whose krk_tableSet waits for the rehash
  nentries, nindexes, ncapacity,  \* the arrays being filled
  moved,       \* how many pairs are in them (the loop variable i)
  cursor,      \* the position in entries to go on from (the pointer e)
  reply        \* what the last completed call returned

table == <<count, capacity, used, entries, indexes>>
growing == <<pending, nentries, nindexes, ncapacity, moved, cursor>>
vars == <<table, pc, growing, reply>>

Empty == -1
Tombstone == -2
Gap == [key |-> NoKey, value |-> NoValue]
Entry == [key : Key, value : Value] \cup {Gap}
Slots(cap) == 0 .. cap - 1
NoTable == [i \in Slots(0) |-> Gap]
NoPair == [key |-> NoKey, value |-> NoValue]

GrowCapacity(c) == IF c < 8 THEN 8 ELSE 2 * c

\* Mutant: the load limit lets the index fill up.
NeedsGrow_Full == used >= capacity

\* used + 1 > capacity * TABLE_MAX_LOAD, the load limit being 3/4
NeedsGrow == 4 * (used + 1) > 3 * capacity

-----------------------------------------------------------------------------
(* Probing: krk_tableIndexKeyC.                                            *)

\* The slot a probe for k starts from: hash & (capacity - 1).
Home(k, cap) == Hash[k] % cap

\* How many slots after h the probe looks at slot s.
Dist(h, s, cap) == IF s >= h THEN s - h ELSE s - h + cap

Nearest(h, S, cap, s) ==
  /\ s \in S
  /\ \A t \in S : Dist(h, s, cap) <= Dist(h, t, cap)

\* Mutant: the probe takes the first tombstone without looking further.
Stops_AtTombstone(ents, idx, cap, match) ==
  {s \in Slots(cap) : idx[s] < 0 \/ ents[idx[s]].key \in match}

\* The slots at which a probe for one of the keys "match" goes no further.
Stops(ents, idx, cap, match) ==
  {s \in Slots(cap) : \/ idx[s] = Empty
                      \/ idx[s] >= 0 /\ ents[idx[s]].key \in match}

\* The tombstones a probe from h passes before slot s.
Passed(idx, cap, h, s) ==
  {t \in Slots(cap) : idx[t] = Tombstone /\ Dist(h, t, cap) < Dist(h, s, cap)}

\* s is the slot krk_tableIndexKeyC returns for a hashable k: the match if
\* there is one, else the first tombstone on the way to the first empty
\* slot, else that empty slot; when no slot stops the probe, the first
\* tombstone, met a second time.
IsKeySlot(ents, idx, cap, k, match, s) ==
  LET h == Home(k, cap)
      stops == Stops(ents, idx, cap, match)
  IN  \/ \E stop \in stops :
           /\ Nearest(h, stops, cap, stop)
           /\ IF idx[stop] = Empty /\ Passed(idx, cap, h, stop) # {}
              THEN Nearest(h, Passed(idx, cap, h, stop), cap, s)
              ELSE s = stop
      \/ /\ stops = {}
         /\ Nearest(h, {t \in Slots(cap) : idx[t] = Tombstone}, cap, s)

-----------------------------------------------------------------------------
(* Operations.  Besides krk_tableSet, krk_tableDelete and krk_tableGet the  *)
(* code has variants that compare keys by identity (krk_tableSetExact,      *)
(* krk_tableDeleteExact, krk_tableGet_fast, krk_tableFindString); they are  *)
(* used for interned strings and for classes, where EqualTo[k] = {k} and    *)
(* the variant is the same operation.  The rehash compares by identity for  *)
(* every key.                                                               *)

\* A table starts empty, with no arrays or presized ones.
Init ==
  /\ capacity \in StartCapacity
  /\ entries = [i \in Slots(capacity) |-> Gap]
  /\ indexes = [s \in Slots(capacity) |-> Empty]
  /\ count = 0 /\ used = 0
  /\ pc = "idle" /\ pending = NoPair
  /\ nentries = NoTable /\ nindexes = NoTable /\ ncapacity = 0
  /\ moved = 0 /\ cursor = 0
  /\ reply = 0

\* The part of krk_tableSet after the load check, on arrays ents and idx
\* with u positions consumed: an unhashable key changes nothing, a present
\* key gets a new value, a new key takes the next position.
Store(ents, idx, cap, u, k, v) ==
  /\ capacity' = cap
  /\ \/ /\ k \in Unhashable
        /\ entries' = ents /\ indexes' = idx /\ used' = u
        /\ reply' = 0
        /\ UNCHANGED count
     \/ \E s \in Slots(cap) :
          /\ k \notin Unhashable
          /\ IsKeySlot(ents, idx, cap, k, EqualTo[k], s)
          /\ \/ /\ idx[s] < 0
                /\ indexes' = [idx EXCEPT ![s] = u]
                /\ entries' = [ents EXCEPT ![u] = [key |-> k, value |-> v]]
                /\ used' = u + 1
                /\ count' = count + 1
                /\ reply' = 1
             \/ /\ idx[s] >= 0
                /\ entries' = [ents EXCEPT ![idx[s]].value = v]
                /\ indexes' = idx /\ used' = u
                /\ reply' = 0
                /\ UNCHANGED count

\* krk_tableSet or krk_tableSetExact with room for one more pair.
SetNow(k, v) ==
  /\ pc = "idle"
  /\ ~NeedsGrow
  /\ Store(entries, indexes, capacity, used, k, v)
  /\ UNCHANGED <<pc, growing>>

\* krk_tableSet or krk_tableSetExact on a table at its load limit: even for
\* a key that is present or cannot be hashed, the arrays are replaced first.
SetGrowing(k, v) ==
  /\ pc = "idle"
  /\ NeedsGrow
  /\ GrowCapacity(capacity) <= MaxCapacity
  /\ pc' = "rehash"
  /\ pending' = [key |-> k, value |-> v]
  /\ ncapacity' = GrowCapacity(capacity)
  /\ nentries' = [i \in Slots(ncapacity') |-> Gap]
  /\ nindexes' = [s \in Slots(ncapacity') |-> Empty]
  /\ moved' = 0 /\ cursor' = 0
  /\ UNCHANGED <<table, reply>>

\* One turn of the loop of krk_tableAdjustCapacity: skip the gaps, copy the
\* next pair, index it.
Rehash ==
  /\ pc = "rehash"
  /\ moved < count
  /\ \E e \in cursor .. capacity - 1 :
       /\ entries[e].key # NoKey
       /\ \A j \in cursor .. e - 1 : entries[j].key = NoKey
       /\ nentries' = [nentries EXCEPT ![moved] = entries[e]]
       /\ \E s \in Slots(ncapacity) :
            /\ IsKeySlot(nentries', nindexes, ncapacity, entries[e].key, {entries[e].key}, s)
            /\ nindexes' = [nindexes EXCEPT ![s] = moved]
       /\ cursor' = e + 1
  /\ moved' = moved + 1
  /\ UNCHANGED <<table, pc, pending, ncapacity, reply>>

\* The arrays are swapped, the gaps are gone, and the set goes on.
FinishSet ==
  /\ pc = "rehash"
  /\ moved = count
  /\ pc' = "idle"
  /\ Store(nentries, nindexes, ncapacity, count, pending.key, pending.value)
  /\ pending' = NoPair
  /\ nentries' = NoTable /\ nindexes' = NoTable /\ ncapacity' = 0
  /\ moved' = 0 /\ cursor' = 0

\* The slot of a present key, for the operations that do not insert.  They
\* all return early on an empty table, before the key is hashed.
Found(k, s) ==
  /\ count > 0
  /\ k \notin Unhashable
  /\ IsKeySlot(entries, indexes, capacity, k, EqualTo[k], s)
  /\ indexes[s] >= 0

NotFound(k) == \A s \in Slots(capacity) : ~Found(k, s)

\* krk_tableGet, krk_tableGet_fast and krk_tableFindString
Get(k) ==
  /\ pc = "idle"
  /\ \/ \E s \in Slots(capacity) : Found(k, s) /\ reply' = entries[indexes[s]].value
     \/ NotFound(k) /\ reply' = NoValue
  /\ UNCHANGED <<table, pc, growing>>

SetIfExists(k, v) ==
  /\ pc = "idle"
  /\ \/ \E s \in Slots(capacity) :
          /\ Found(k, s)
          /\ entries' = [entries EXCEPT ![indexes[s]].value = v]
          /\ reply' = 1
     \/ /\ NotFound(k)
        /\ reply' = 0
        /\ UNCHANGED entries
  /\ UNCHANGED <<count, capacity, used, indexes, pc, growing>>

\* Mutants: the slot of a deleted pair becomes Empty; the last pair moves
\* into the gap.
Delete_EmptiesSlot(k) ==
  /\ pc = "idle"
  /\ \E s \in Slots(capacity) :
       /\ Found(k, s)
       /\ count' = count - 1
       /\ entries' = [entries EXCEPT ![indexes[s]] = Gap]
       /\ indexes' = [indexes EXCEPT ![s] = Empty]
       /\ reply' = 1
  /\ UNCHANGED <<capacity, used, pc, growing>>

Delete_MovesLast(k) ==
  /\ pc = "idle"
  /\ \E s, t \in Slots(capacity) :
       /\ Found(k, s)
       /\ indexes[t] = used - 1
       /\ count' = count - 1
       /\ entries' = [entries EXCEPT ![indexes[s]] = entries[used - 1], ![used - 1] = Gap]
       /\ indexes' = [indexes EXCEPT ![t] = indexes[s], ![s] = Tombstone]
       /\ reply' = 1
  /\ UNCHANGED <<capacity, used, pc, growing>>

\* krk_tableDelete and krk_tableDeleteExact: the pair becomes a gap, its
\* slot a tombstone; "used" stays.
Delete(k) ==
  /\ pc = "idle"
  /\ \/ \E s \in Slots(capacity) :
          /\ Found(k, s)
          /\ count' = count - 1
          /\ entries' = [entries EXCEPT ![indexes[s]] = Gap]
          /\ indexes' = [indexes EXCEPT ![s] = Tombstone]
          /\ reply' = 1
     \/ /\ NotFound(k)
        /\ reply' = 0
        /\ UNCHANGED <<count, entries, indexes>>
  /\ UNCHANGED <<capacity, used, pc, growing>>

Next ==
  \/ Rehash
  \/ FinishSet
  \/ \E k \in Key :
       \/ Get(k)
       \/ Delete(k)
       \/ \E v \in Value :
            \/ SetNow(k, v)
            \/ SetGrowing(k, v)
            \/ SetIfExists(k, v)

Spec == Init /\ [][Next]_vars

-----------------------------------------------------------------------------
(* Properties.                                                            *)

\* The fields of the table and of the arrays being filled.
TypeOK ==
  /\ capacity \in Nat /\ count \in Nat /\ used \in Nat
  /\ entries \in [Slots(capacity) -> Entry]
  /\ indexes \in [Slots(capacity) -> {Empty, Tombstone} \cup Slots(capacity)]
  /\ pc \in {"idle", "rehash"}
  /\ pending \in [key : Key, value : Value] \cup {NoPair}
  /\ ncapacity \in Nat /\ moved \in Nat /\ cursor \in Nat
  /\ nentries \in [Slots(ncapacity) -> Entry]
  /\ nindexes \in [Slots(ncapacity) -> {Empty, Tombstone} \cup Slots(ncapacity)]

\* A probe ends: whatever was inserted and deleted before, some slot of the
\* arrays a probe may walk is Empty, so that the loop of krk_tableIndexKeyC,
\* which has no other bound, stops for a key that is not there.
ProbeEnds ==
  /\ capacity > 0 => \E s \in Slots(capacity) : indexes[s] = Empty
  /\ ncapacity > 0 => \E s \in Slots(ncapacity) : nindexes[s] = Empty

\* A pair that is in entries is found by the probe for its own key, and
\* there is no second pair with an equal key behind it.
EveryPairFound ==
  \A i \in Slots(capacity) :
    entries[i].key # NoKey =>
      \E s \in Slots(capacity) :
        /\ IsKeySlot(entries, indexes, capacity, entries[i].key, EqualTo[entries[i].key], s)
        /\ indexes[s] = i

\* A position handed out is good until the next rehash: dict and set
\* iterators hold a position in entries between calls.  A step may fill the
\* next position, overwrite a value, make a gap, and nothing else.
PositionsStable ==
  [][ pc = "idle" =>
        \A i \in Slots(capacity) :
          \/ entries'[i].key = entries[i].key
          \/ entries'[i] = Gap
          \/ i = used ]_vars

\* The pairs alive among the first n entries, in insertion order.
PairsIn(ents, n) ==
  LET pairs[i \in 0 .. n] ==
        IF i = 0 THEN <<>>
        ELSE IF ents[i - 1].key = NoKey THEN pairs[i - 1]
        ELSE Append(pairs[i - 1], ents[i - 1])
  IN pairs[n]

\* The map this table stands for.
Pairs == PairsIn(entries, used)

Abstract == INSTANCE OrderedMap WITH map <- Pairs

\* The table implements the ordered map: a rehash is invisible, every other
\* operation is the abstract one, with the abstract reply.
ImplementsOrderedMap == Abstract!Spec
=============================================================================
