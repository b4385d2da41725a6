----------------------------- MODULE OrderedMap -----------------------------
(***************************************************************************)
(* What a Kuroko hash table promises its callers: an insertion-ordered map *)
(* from keys to values.  A key that is already present, or an equal one,   *)
(* keeps its place and its original key object when it is overwritten; a   *)
(* key that was deleted and comes back goes to the end.  Every operation   *)
(* gives a reply.  How the map is stored is the business of KrkTable.      *)
(***************************************************************************)
EXTENDS Integers, Sequences, SequencesExt

CONSTANTS
  Key,         \* what callers use as keys
  Unhashable,  \* the keys that have no hash: no operation accepts them
  EqualTo,     \* EqualTo[k]: the keys that compare equal to k
  Value,       \* what is stored
  NoValue      \* the reply of a lookup that finds nothing

VARIABLES
  map,         \* the sequence of [key, value] pairs, oldest first
  reply        \* what the last completed operation returned

vars == <<map, reply>>

\* The position of k (or of a key equal to it) in the map, as a set of at
\* most one position.
Places(k) ==
  IF k \in Unhashable THEN {}
  ELSE {i \in DOMAIN map : map[i].key \in EqualTo[k]}

Init == map = <<>> /\ reply = 0

Set(k, v) ==
  \/ /\ k \in Unhashable
     /\ reply' = 0
     /\ UNCHANGED map
  \/ \E i \in Places(k) :
       /\ map' = [map EXCEPT ![i].value = v]
       /\ reply' = 0
  \/ /\ k \notin Unhashable
     /\ Places(k) = {}
     /\ map' = Append(map, [key |-> k, value |-> v])
     /\ reply' = 1

SetIfExists(k, v) ==
  \/ \E i \in Places(k) :
       /\ map' = [map EXCEPT ![i].value = v]
       /\ reply' = 1
  \/ /\ Places(k) = {}
     /\ reply' = 0
     /\ UNCHANGED map

Get(k) ==
  /\ \/ \E i \in Places(k) : reply' = map[i].value
     \/ Places(k) = {} /\ reply' = NoValue
  /\ UNCHANGED map

Delete(k) ==
  \/ \E i \in Places(k) :
       /\ map' = RemoveAt(map, i)
       /\ reply' = 1
  \/ /\ Places(k) = {}
     /\ reply' = 0
     /\ UNCHANGED map

Next ==
  \E k \in Key :
    \/ Get(k)
    \/ Delete(k)
    \/ \E v \in Value : Set(k, v) \/ SetIfExists(k, v)

Spec == Init /\ [][Next]_vars
=============================================================================
