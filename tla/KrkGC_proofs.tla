----------------------------- MODULE KrkGC_proofs -----------------------------
(***************************************************************************)
(* Proofs about KrkGC, for any number of objects.  Most are for programs   *)
(* that let no closure capture a local of a suspended generator and never  *)
(* call __subclasses__ (Plain: the two features with which the model       *)
(* checker finds objects freed too early); that garbage goes, for all.     *)
(*                                                                         *)
(* What the program reaches, R, changes only while no collection runs, and *)
(* then within itself and one new object.  Marking ends with a closed set  *)
(* of marked objects around the roots; what native code alone reaches has  *)
(* not been flagged before.  So the sweep finds every object of R marked   *)
(* or unflagged, and spares it.                                            *)
(***************************************************************************)
EXTENDS KrkGC, FiniteSetTheorems, TLAPS

Plain == "cell" \notin Kinds /\ ~Subclasses

R == Reach(Roots \cup held)

\* No cells, no references out of a string, no links but those of classes
\* and instances; an object yet to be allocated refers to nothing.
Shape ==
  /\ last \in 0 .. MaxObj /\ scratch \in 0 .. last
  /\ heap \subseteq 1 .. last
  /\ kind \in [Obj -> Kind]
  /\ link \in [Obj -> Obj \cup {None}] /\ ref \in [Obj -> Obj \cup {None}]
  /\ roots \subseteq Obj /\ held \subseteq Obj
  /\ \A o \in Obj :
       /\ kind[o] # "cell"
       /\ kind[o] \notin {"class", "instance"} => link[o] = None
       /\ kind[o] = "string" => ref[o] = None
       /\ o > last => ref[o] = None /\ link[o] = None

\* While the program is alive: what it reaches is allocated, and the intern
\* table has the one string with the text, with no flag on it.
Alive ==
  /\ R \subseteq heap
  /\ marked \subseteq heap /\ gray \subseteq marked
  /\ second \subseteq heap /\ todo \subseteq heap
  /\ pool \subseteq {o \in heap : kind[o] = "string"}
  /\ \A s, t \in pool : s = t
  /\ pool \cap second = {}
  /\ \A s \in R \ carried : kind[s] = "string" => s \in pool

Marking ==
  /\ Roots \subseteq marked
  /\ marked \subseteq Reach(Roots)
  /\ \A o \in marked \ gray : Marks(o) \subseteq marked
  /\ Reach(held) \cap second \subseteq Reach(Roots)
  /\ Reach(held) \subseteq Reach(Roots) \cup carried

Sweeping ==
  /\ gray = {}
  /\ \A o \in todo \cap R : o \in marked \/ o \notin second
  /\ todo \cap pool \subseteq marked

IInv ==
  /\ Shape
  /\ pc \in {"run", "mark", "sweep", "exit instances", "exit rest"}
  /\ pc \in {"run", "mark", "sweep"} => Alive
  /\ pc = "mark" => Marking
  /\ pc = "sweep" => Sweeping
  /\ pool = {} \/ \E s \in Obj : pool = {s}

-----------------------------------------------------------------------------
(* Reachability, for any successor function.                               *)

SuccFun == [Obj -> SUBSET Obj]

LEMMA ReachContains ==
  ASSUME NEW succ \in SuccFun, NEW S \in SUBSET Obj
  PROVE  /\ S \subseteq ReachBy(succ, S)
         /\ ReachBy(succ, S) \subseteq Obj
BY DEF ReachBy

\* The smallest closed set around S.
LEMMA ReachLeast ==
  ASSUME NEW succ \in SuccFun, NEW S \in SUBSET Obj, NEW T \in SUBSET Obj,
         S \subseteq T, ClosedUnder(succ, T)
  PROVE  ReachBy(succ, S) \subseteq T
BY DEF ReachBy

LEMMA ReachClosed ==
  ASSUME NEW succ \in SuccFun, NEW S \in SUBSET Obj
  PROVE  ClosedUnder(succ, ReachBy(succ, S))
<1> SUFFICES ASSUME NEW o \in ReachBy(succ, S), NEW x \in succ[o],
                    NEW T \in SUBSET Obj, S \subseteq T, ClosedUnder(succ, T)
             PROVE  x \in Obj /\ x \in T
  BY DEF ClosedUnder, ReachBy, SuccFun
<1>1. o \in Obj /\ o \in T
  BY DEF ReachBy
<1>2. QED
  BY <1>1 DEF ClosedUnder, SuccFun

LEMMA ReachUnion ==
  ASSUME NEW succ \in SuccFun, NEW S \in SUBSET Obj, NEW T \in SUBSET Obj
  PROVE  /\ ReachBy(succ, S \cup T) \subseteq ReachBy(succ, S) \cup ReachBy(succ, T)
         /\ ReachBy(succ, S) \subseteq ReachBy(succ, S \cup T)
         /\ ReachBy(succ, T) \subseteq ReachBy(succ, S \cup T)
<1>1. /\ ClosedUnder(succ, ReachBy(succ, S))
      /\ ClosedUnder(succ, ReachBy(succ, T))
      /\ ClosedUnder(succ, ReachBy(succ, S \cup T))
  BY ReachClosed
<1>2. ClosedUnder(succ, ReachBy(succ, S) \cup ReachBy(succ, T))
  BY <1>1 DEF ClosedUnder
<1>3. /\ S \subseteq ReachBy(succ, S) /\ T \subseteq ReachBy(succ, T)
      /\ S \cup T \subseteq ReachBy(succ, S \cup T)
      /\ ReachBy(succ, S) \subseteq Obj /\ ReachBy(succ, T) \subseteq Obj
      /\ ReachBy(succ, S \cup T) \subseteq Obj
  BY ReachContains
<1>4. ReachBy(succ, S \cup T) \subseteq ReachBy(succ, S) \cup ReachBy(succ, T)
  BY <1>2, <1>3, ReachLeast
<1>5. QED
  BY <1>1, <1>3, <1>4, ReachLeast

\* Without cells, what the collector marks from an object is what the
\* program reaches from it.
LEMMA PlainSuccessors ==
  ASSUME Shape
  PROVE  /\ Successors \in SuccFun
         /\ \A o \in Obj : Cells(o) = {}
         /\ \A o \in Obj : Successors[o] = Optional(ref[o]) \cup Optional(link[o])
         /\ \A o \in Obj : Marks(o) = Successors[o]
<1>1. ASSUME NEW o \in Obj
      PROVE  Cells(o) = {}
  BY DEF Shape, Cells
<1>2. ASSUME NEW o \in Obj
      PROVE  Optional(ref[o]) \subseteq Obj /\ Optional(link[o]) \subseteq Obj
  BY DEF Shape, Optional
<1>3. ASSUME NEW o \in Obj
      PROVE  Successors[o] = Optional(ref[o]) \cup Optional(link[o])
  <2>1. CASE kind[o] = "generator"
    <3>1. link[o] = None /\ Cells(o) = {}
      BY <1>1, <2>1 DEF Shape
    <3>2. QED
      BY <2>1, <3>1 DEF Successors, Optional
  <2>2. CASE kind[o] # "generator"
    BY <2>2 DEF Successors, Shape
  <2>3. QED
    BY <2>1, <2>2
<1>4. ASSUME NEW o \in Obj
      PROVE  Marks(o) = Successors[o]
  <2>1. CASE kind[o] \in {"class", "instance"}
    BY <1>3, <2>1 DEF Marks
  <2>2. CASE kind[o] \notin {"class", "instance"}
    <3>1. link[o] = None /\ Cells(o) = {}
      BY <1>1, <2>2 DEF Shape
    <3>2. QED
      BY <1>3, <2>2, <3>1 DEF Marks, Optional
  <2>3. QED
    BY <2>1, <2>2
<1>5. Successors \in SuccFun
  <2>1. Successors = [o \in Obj |-> Successors[o]]
    BY DEF Successors
  <2>2. QED
    BY <1>2, <1>3, <2>1 DEF SuccFun
<1>6. QED
  BY <1>1, <1>3, <1>4, <1>5

LEMMA SuccessorsTyped ==
  Shape => /\ Successors \in SuccFun
           /\ \A o \in Obj : Successors[o] = Optional(ref[o]) \cup Optional(link[o])
BY PlainSuccessors

LEMMA ReachFacts ==
  ASSUME Shape
  PROVE  /\ Roots \subseteq Obj /\ held \subseteq Obj
         /\ Roots \cup held \subseteq R /\ R \subseteq Obj
         /\ \A o \in R : ref[o] \in R \cup {None} /\ link[o] \in R \cup {None}
         /\ Reach(Roots) \subseteq R /\ Reach(held) \subseteq R
         /\ R \subseteq Reach(Roots) \cup Reach(held)
         /\ Roots \subseteq Reach(Roots) /\ Reach(Roots) \subseteq Obj
         /\ ClosedUnder(Successors, Reach(Roots))
<1>1. Successors \in SuccFun
  BY PlainSuccessors
<1>2. Roots \subseteq Obj /\ held \subseteq Obj
  BY BoundAssumption DEF Shape, Roots, Optional, Obj, None
<1>3. (Roots \cup held) \in SUBSET Obj
  BY <1>2
<1>4. Roots \cup held \subseteq R /\ R \subseteq Obj
  BY <1>1, <1>3, ReachContains DEF R, Reach
<1>5. \A o \in R : ref[o] \in R \cup {None} /\ link[o] \in R \cup {None}
  <2>1. ClosedUnder(Successors, R)
    BY <1>1, <1>3, ReachClosed DEF R, Reach
  <2>2. QED
    BY <1>4, <2>1, PlainSuccessors DEF ClosedUnder, Optional
<1>6. /\ Reach(Roots) \subseteq R /\ Reach(held) \subseteq R
      /\ R \subseteq Reach(Roots) \cup Reach(held)
  BY <1>1, <1>2, ReachUnion DEF R, Reach
<1>7. Roots \subseteq Reach(Roots) /\ Reach(Roots) \subseteq Obj
  BY <1>1, <1>2, ReachContains DEF Reach
<1>8. ClosedUnder(Successors, Reach(Roots))
  BY <1>1, <1>2, ReachClosed DEF Reach
<1>9. QED
  BY <1>2, <1>4, <1>5, <1>6, <1>7, <1>8

\* After a step, everything reached is in a set that holds the new roots and
\* is closed under the new references.
LEMMA ReachAfter ==
  ASSUME Shape', NEW T \in SUBSET Obj,
         (Roots \cup held)' \subseteq T,
         \A o \in T : ref'[o] \in T \cup {None} /\ link'[o] \in T \cup {None}
  PROVE  R' \subseteq T
<1>1. /\ (Successors \in SuccFun)'
      /\ (\A o \in Obj : Successors[o] = Optional(ref[o]) \cup Optional(link[o]))'
  BY SuccessorsTyped, PTL
<1>2. (Roots \cup held)' \in SUBSET Obj
  OBVIOUS
<1>3. R' = ReachBy(Successors', (Roots \cup held)')
  BY DEF R, Reach
<1>4. ClosedUnder(Successors', T)
  BY <1>1 DEF ClosedUnder, Optional
<1>5. QED
  BY <1>1, <1>2, <1>3, <1>4, ReachLeast

\* A step of the program that allocates nothing and reaches nothing new,
\* except the string in the intern table.
LEMMA AliveKept ==
  ASSUME Alive, R' \subseteq R \cup pool,
         UNCHANGED <<heap, kind, pool, marked, gray, second, todo, carried>>
  PROVE  Alive'
BY DEF Alive

LEMMA MutatorStep ==
  ASSUME IInv, pc = "run", Shape', R' \subseteq R \cup pool,
         UNCHANGED <<heap, kind, pool, pc, collector, history>>
  PROVE  IInv'
<1>1. Alive /\ (pool = {} \/ \E s \in Obj : pool = {s})
  BY DEF IInv
<1>2. UNCHANGED <<heap, kind, pool, pc, marked, gray, second, todo, carried>>
  BY DEF collector, history
<1>3. Alive'
  BY <1>1, <1>2, AliveKept
<1>4. QED
  BY <1>1, <1>2, <1>3 DEF IInv

LEMMA AllocateKeeps ==
  ASSUME Plain, IInv, NEW k \in Kinds, NEW l \in Obj \cup {None}, Allocate(k, l)
  PROVE  IInv' /\ R' \subseteq R \cup (heap' \ heap)
<1>1. Shape /\ Alive /\ pc = "run"
  BY DEF IInv, Allocate
<1>2. /\ last < MaxObj /\ last' = last + 1 /\ scratch' = last'
      /\ heap' = heap \cup {last'}
      /\ kind' = [kind EXCEPT ![last'] = k]
      /\ link' = [link EXCEPT ![last'] = l]
      /\ held' = held \cup {last'}
      /\ pool' = (IF k = "string" THEN {last'} ELSE pool)
      /\ k = "string" => pool = {}
      /\ l \in LinkChoices(k)
      /\ UNCHANGED <<ref, roots, pc, marked, second, gray, todo, carried>>
  BY DEF Allocate, collector, history
<1>3. last' \in Obj /\ last \in Nat
  BY <1>1, <1>2, BoundAssumption DEF Shape, Obj
<1>4. k \in Kind /\ k # "cell"
  BY FeatureAssumption DEF Plain
<1>5. l \in R \cup {None}
  <2>1. l \in ClassesInHand \cup {None}
    BY <1>2, <1>4 DEF LinkChoices, Kind
  <2>2. QED
    BY <1>1, <2>1, ReachFacts DEF ClassesInHand, InHand
<1>6. k \notin {"class", "instance"} => l = None
  BY <1>2, <1>4 DEF LinkChoices, Kind
<1>7. Shape'
  BY <1>1, <1>2, <1>3, <1>4, <1>6 DEF Shape, Obj, None
<1>8. R' \subseteq R \cup {last'}
  <2>1. Roots' \cup held' \subseteq R \cup {last'}
    BY <1>1, <1>2, ReachFacts DEF Roots, Optional
  <2>2. ASSUME NEW o \in R \cup {last'}
        PROVE  ref'[o] \in R \cup {None} /\ link'[o] \in R \cup {None}
    <3>1. CASE o = last'
      BY <1>1, <1>2, <1>3, <1>5, <3>1 DEF Shape, Obj, None
    <3>2. CASE o # last'
      BY <1>1, <1>2, <3>2, <2>2, ReachFacts DEF Shape
    <3>3. QED
      BY <3>1, <3>2
  <2>3. (R \cup {last'}) \in SUBSET Obj
    BY <1>1, <1>3, ReachFacts
  <2>4. QED
    BY <1>7, <2>1, <2>2, <2>3, ReachAfter
<1>9. last' \notin heap
  BY <1>1, <1>2, <1>3 DEF Shape
<1>10. Alive'
  <2>1. /\ R' \subseteq heap' /\ marked' \subseteq heap' /\ gray' \subseteq marked'
        /\ second' \subseteq heap' /\ todo' \subseteq heap'
    BY <1>1, <1>2, <1>8 DEF Alive
  <2>2. /\ \A o \in heap : kind'[o] = kind[o]
        /\ kind'[last'] = k
    BY <1>1, <1>2, <1>3, <1>9 DEF Shape, Obj
  <2>3. CASE k = "string"
    BY <1>1, <1>2, <1>8, <1>9, <2>1, <2>2, <2>3 DEF Alive
  <2>4. CASE k # "string"
    BY <1>1, <1>2, <1>8, <1>9, <2>1, <2>2, <2>4 DEF Alive
  <2>5. QED
    BY <2>3, <2>4
<1>11. pool' = {} \/ \E s \in Obj : pool' = {s}
  BY <1>2, <1>3 DEF IInv
<1>12. QED
  BY <1>1, <1>2, <1>7, <1>8, <1>9, <1>10, <1>11 DEF IInv

\* A step that changes no object and no root.
LEMMA SameHeap ==
  ASSUME UNCHANGED <<last, heap, kind, link, ref, mutator>>
  PROVE  /\ Roots' = Roots /\ held' = held /\ R' = R
         /\ Reach(Roots)' = Reach(Roots) /\ Reach(held)' = Reach(held)
         /\ \A o \in Obj : Marks(o)' = Marks(o)
         /\ Shape => Shape'
<1>1. UNCHANGED <<last, heap, kind, link, ref, scratch, roots, held>>
  BY DEF mutator
<1>2. ASSUME NEW o \in Obj
      PROVE  Cells(o)' = Cells(o)
  BY <1>1 DEF Cells
<1>3. Successors' = Successors
  BY <1>1, <1>2 DEF Successors
<1>4. Roots' = Roots
  BY <1>1 DEF Roots
<1>5. \A o \in Obj : Marks(o)' = Marks(o)
  BY <1>1, <1>2 DEF Marks
<1>6. Shape => Shape'
  BY <1>1 DEF Shape
<1>7. QED
  BY <1>1, <1>3, <1>4, <1>5, <1>6 DEF R, Reach

-----------------------------------------------------------------------------
(* The initial state and the steps of the program.                         *)

LEMMA InitInv ==
  ASSUME Init
  PROVE  IInv
<1>1. Shape
  BY BoundAssumption DEF Init, Shape, Obj, None, Kind
<1>2. R = {}
  <2>1. Roots \cup held = {}
    BY DEF Init, Roots, Optional
  <2>2. Successors \in SuccFun
    BY <1>1, PlainSuccessors
  <2>3. ClosedUnder(Successors, {})
    BY DEF ClosedUnder
  <2>4. QED
    BY <2>1, <2>2, <2>3, ReachLeast DEF R, Reach
<1>3. Alive
  BY <1>2 DEF Init, Alive
<1>4. QED
  BY <1>1, <1>3 DEF Init, IInv

LEMMA AllocateOtherKeeps ==
  ASSUME IInv, AllocateOther
  PROVE  IInv' /\ R' \subseteq R \cup pool
<1>1. Shape
  BY DEF IInv
<1>2. /\ pc = "run" /\ scratch' = None
      /\ UNCHANGED <<heap, last, kind, link, ref, pool, roots, held, pc, collector, history>>
  BY DEF AllocateOther, heapVars
<1>3. Shape'
  BY <1>1, <1>2 DEF Shape, None
<1>4. R' \subseteq R
  <2>1. (Roots \cup held)' \subseteq R
    BY <1>1, <1>2, ReachFacts DEF Roots, Optional
  <2>2. QED
    BY <1>1, <1>2, <1>3, <2>1, ReachFacts, ReachAfter
<1>5. QED
  BY <1>2, <1>3, <1>4, MutatorStep

LEMMA HoldKeeps ==
  ASSUME IInv, NEW S, S \subseteq R \cup pool, Hold(S)
  PROVE  IInv' /\ R' \subseteq R \cup pool
<1>1. /\ pc = "run" /\ held' = held \cup (S \ roots)
      /\ UNCHANGED <<heap, last, kind, link, ref, pool, scratch, roots, pc, collector, history>>
  BY DEF Hold, heapVars
<1>2. Shape /\ Alive
  BY <1>1 DEF IInv
<1>3. pool \subseteq Obj /\ \A s \in pool : ref[s] = None /\ link[s] = None
  BY <1>2, BoundAssumption DEF Alive, Shape, Obj
<1>4. (R \cup pool) \in SUBSET Obj
  BY <1>2, <1>3, ReachFacts
<1>5. Shape'
  BY <1>1, <1>2, <1>4 DEF Shape
<1>6. (Roots \cup held)' \subseteq R \cup pool
  BY <1>1, <1>2, ReachFacts DEF Roots
<1>7. \A o \in R \cup pool :
        ref'[o] \in R \cup pool \cup {None} /\ link'[o] \in R \cup pool \cup {None}
  BY <1>1, <1>2, <1>3, ReachFacts
<1>8. R' \subseteq R \cup pool
  BY <1>4, <1>5, <1>6, <1>7, ReachAfter
<1>9. QED
  BY <1>1, <1>5, <1>8, MutatorStep

LEMMA LoadKeeps ==
  ASSUME IInv, NEW o \in Obj, Load(o)
  PROVE  IInv' /\ R' \subseteq R \cup pool
<1>1. Shape /\ o \in InHand /\ Hold(Successors[o])
  BY DEF IInv, Load
<1>2. o \in R
  BY <1>1, ReachFacts DEF InHand
<1>3. Successors[o] \subseteq R
  BY <1>1, <1>2, ReachFacts, PlainSuccessors DEF Optional
<1>4. QED
  BY <1>1, <1>3, HoldKeeps

\* Push, pop and return move values between the roots and C variables.
LEMMA MovesKeep ==
  ASSUME IInv, NEW o \in Obj, Push(o) \/ Pop(o) \/ Return
  PROVE  IInv' /\ R' \subseteq R \cup pool
<1>1. /\ pc = "run" /\ roots' \cup held' \subseteq roots \cup held
      /\ UNCHANGED <<heap, last, kind, link, ref, pool, scratch, pc, collector, history>>
  BY DEF Push, Pop, Return, heapVars
<1>2. Shape
  BY DEF IInv
<1>3. Shape'
  BY <1>1, <1>2 DEF Shape
<1>4. R' \subseteq R
  <2>1. (Roots \cup held)' \subseteq R
    BY <1>1, <1>2, ReachFacts DEF Roots
  <2>2. QED
    BY <1>1, <1>2, <1>3, <2>1, ReachFacts, ReachAfter
<1>5. QED
  BY <1>1, <1>3, <1>4, MutatorStep

LEMMA StoreKeeps ==
  ASSUME IInv, NEW p \in Obj, NEW o \in Obj \cup {None}, Store(p, o)
  PROVE  IInv' /\ R' \subseteq R \cup pool
<1>1. Shape
  BY DEF IInv
<1>2. /\ pc = "run" /\ p \in InHand /\ kind[p] # "string" /\ o \in InHand \cup {None}
      /\ ref' = [ref EXCEPT ![p] = o]
      /\ UNCHANGED <<heap, last, kind, link, pool, scratch, roots, held, pc, collector, history>>
  BY <1>1 DEF Store, Shape, mutator
<1>3. p \in R /\ o \in R \cup {None}
  BY <1>1, <1>2, ReachFacts DEF InHand
<1>4. p \in heap
  BY <1>2, <1>3 DEF IInv, Alive
<1>5. Shape'
  BY <1>1, <1>2, <1>4, BoundAssumption DEF Shape, Obj
<1>6. R' \subseteq R
  <2>1. (Roots \cup held)' \subseteq R
    BY <1>1, <1>2, ReachFacts DEF Roots
  <2>2. \A x \in R : ref'[x] \in R \cup {None} /\ link'[x] \in R \cup {None}
    BY <1>1, <1>2, <1>3, ReachFacts DEF Shape
  <2>3. QED
    BY <1>1, <1>5, <2>1, <2>2, ReachFacts, ReachAfter
<1>7. QED
  BY <1>2, <1>5, <1>6, MutatorStep

LEMMA SetClassKeeps ==
  ASSUME IInv, NEW i \in Obj, NEW c \in Obj, SetClass(i, c)
  PROVE  IInv' /\ R' \subseteq R \cup pool
<1>1. Shape
  BY DEF IInv
<1>2. /\ pc = "run" /\ i \in InHand /\ kind[i] = "instance" /\ c \in InHand
      /\ link' = [link EXCEPT ![i] = c]
      /\ UNCHANGED <<heap, last, kind, ref, pool, scratch, roots, held, pc, collector, history>>
  BY DEF SetClass, ClassesInHand, mutator
<1>3. i \in R /\ c \in R
  BY <1>1, <1>2, ReachFacts DEF InHand
<1>4. i \in heap
  BY <1>2, <1>3 DEF IInv, Alive
<1>5. Shape'
  BY <1>1, <1>2, <1>4, BoundAssumption DEF Shape, Obj
<1>6. R' \subseteq R
  <2>1. (Roots \cup held)' \subseteq R
    BY <1>1, <1>2, ReachFacts DEF Roots
  <2>2. \A x \in R : ref'[x] \in R \cup {None} /\ link'[x] \in R \cup {None}
    BY <1>1, <1>2, <1>3, ReachFacts DEF Shape
  <2>3. QED
    BY <1>1, <1>5, <2>1, <2>2, ReachFacts, ReachAfter
<1>7. QED
  BY <1>2, <1>5, <1>6, MutatorStep

LEMMA MutateKeeps ==
  ASSUME Plain, IInv, Mutate
  PROVE  IInv' /\ (pc' = "run" => R' \subseteq R \cup pool \cup (heap' \ heap))
<1> DEFINE Kept == IInv' /\ (pc' = "run" => R' \subseteq R \cup pool \cup (heap' \ heap))
<1>1. ASSUME NEW k \in Kinds, NEW l \in Obj \cup {None}, Allocate(k, l)
      PROVE  Kept
  BY <1>1, AllocateKeeps
<1>2. CASE Intern
  BY <1>2, HoldKeeps DEF Intern
<1>3. CASE Return
  <2>1. CASE Obj = {}
    BY <1>3, <2>1 DEF Return, IInv, Shape
  <2>2. CASE Obj # {}
    BY <1>3, <2>2, MovesKeep
  <2>3. QED
    BY <2>1, <2>2
<1>4. CASE Exit
  <2>1. pc' = "exit instances" /\ UNCHANGED <<last, heap, kind, link, ref, pool>>
    BY <1>4 DEF Exit, heapVars
  <2>2. scratch' = None /\ roots' = {} /\ held' = {}
    BY <1>4 DEF Exit
  <2>3. Shape
    BY DEF IInv
  <2>4. 0 \in 0 .. last
    BY <2>3 DEF Shape
  <2>5. Shape'
    BY <2>1, <2>2, <2>3, <2>4 DEF Shape, None
  <2>6. QED
    BY <2>1, <2>5 DEF IInv
<1>5. ASSUME NEW o \in Obj, FinishGenerator(o)
      PROVE  FALSE
  BY <1>5, PlainSuccessors DEF FinishGenerator, IInv
<1>6. ASSUME NEW o \in Obj, ListSubclasses(o)
      PROVE  FALSE
  BY <1>6 DEF ListSubclasses, Plain
<1>7. ASSUME NEW p \in Obj, NEW o \in Obj \cup {None}, Store(p, o)
      PROVE  Kept
  BY <1>7, StoreKeeps
<1>8. ASSUME NEW i \in Obj, NEW c \in Obj, SetClass(i, c)
      PROVE  Kept
  BY <1>8, SetClassKeeps
<1>9. ASSUME NEW o \in Obj, Load(o) \/ Push(o) \/ Pop(o)
      PROVE  Kept
  BY <1>9, LoadKeeps, MovesKeep
<1>10. QED
  BY <1>1, <1>2, <1>3, <1>4, <1>5, <1>6, <1>7, <1>8, <1>9, AllocateOtherKeeps DEF Mutate

-----------------------------------------------------------------------------
(* The steps of the collector.                                             *)

LEMMA CollectKeeps ==
  ASSUME IInv, Collect
  PROVE  IInv'
<1>1. Shape /\ Alive /\ (pool = {} \/ \E s \in Obj : pool = {s})
  BY DEF IInv, Collect
<1>2. /\ pc' = "mark" /\ marked' = Roots /\ gray' = Roots
      /\ carried' = carried \cup Unrooted /\ HeldOnce
      /\ UNCHANGED <<last, heap, kind, link, ref, mutator, pool, second, todo>>
  BY DEF Collect, heapVars
<1>3. /\ Roots' = Roots /\ R' = R /\ Shape' /\ Reach(Roots)' = Reach(Roots)
      /\ Reach(held)' = Reach(held)
  BY <1>1, <1>2, SameHeap
<1>4. Roots \subseteq R /\ Roots \subseteq Reach(Roots)
  BY <1>1, ReachFacts
<1>5. Alive'
  BY <1>1, <1>2, <1>3, <1>4 DEF Alive
<1>6. Marking'
  BY <1>2, <1>3, <1>4 DEF Marking, HeldOnce, Unrooted
<1>7. QED
  BY <1>1, <1>2, <1>3, <1>5, <1>6 DEF IInv

LEMMA BlackenKeeps ==
  ASSUME IInv, NEW o \in Obj, Blacken(o)
  PROVE  IInv'
<1>1. Shape /\ Alive /\ Marking /\ pc = "mark" /\ (pool = {} \/ \E s \in Obj : pool = {s})
  BY DEF IInv, Blacken
<1>2. /\ o \in gray /\ marked' = marked \cup Marks(o)
      /\ gray' = (gray \ {o}) \cup (Marks(o) \ marked)
      /\ UNCHANGED <<last, heap, kind, link, ref, mutator, pool, pc, second, todo, carried>>
  BY DEF Blacken, heapVars, history
<1>3. /\ Roots' = Roots /\ R' = R /\ Shape' /\ Reach(Roots)' = Reach(Roots)
      /\ Reach(held)' = Reach(held) /\ \A x \in Obj : Marks(x)' = Marks(x)
  BY <1>1, <1>2, SameHeap
<1>4. Marks(o) \subseteq Reach(Roots) /\ Reach(Roots) \subseteq R /\ R \subseteq Obj
  BY <1>1, <1>2, ReachFacts, PlainSuccessors DEF ClosedUnder, Alive, Marking
<1>5. Alive'
  BY <1>1, <1>2, <1>3, <1>4 DEF Alive
<1>6. Marking'
  <2>1. marked' \subseteq Reach(Roots)
    BY <1>1, <1>2, <1>4 DEF Marking
  <2>2. ASSUME NEW x \in marked' \ gray'
        PROVE  Marks(x)' \subseteq marked'
    <3>1. x \in Obj /\ Marks(x)' = Marks(x)
      BY <1>3, <1>4, <2>1, <2>2
    <3>2. x = o \/ x \in marked \ gray
      BY <1>2, <2>2
    <3>3. QED
      BY <1>1, <1>2, <3>1, <3>2 DEF Marking
  <2>3. QED
    BY <1>1, <1>2, <1>3, <2>1, <2>2 DEF Marking
<1>7. QED
  BY <1>1, <1>2, <1>3, <1>5, <1>6 DEF IInv

\* When the gray stack is empty, what is marked is what the roots reach.
LEMMA PruneKeeps ==
  ASSUME IInv, Prune
  PROVE  IInv'
<1>1. Shape /\ Alive /\ Marking /\ gray = {} /\ (pool = {} \/ \E s \in Obj : pool = {s})
  BY DEF IInv, Prune
<1>2. /\ pc' = "sweep" /\ pool' = pool \cap marked /\ todo' = heap
      /\ UNCHANGED <<last, heap, kind, link, ref, mutator, marked, second, gray, carried>>
  BY DEF Prune, StringsKept, history
<1>3. /\ R' = R /\ Shape'
  BY <1>1, <1>2, SameHeap
<1>4. Reach(Roots) \subseteq marked
  <2>1. marked \in SUBSET Obj
    BY <1>1, BoundAssumption DEF Alive, Shape, Obj
  <2>2. ClosedUnder(Successors, marked)
    BY <1>1, <2>1, PlainSuccessors DEF Marking, ClosedUnder
  <2>3. Roots \in SUBSET Obj /\ Successors \in SuccFun
    BY <1>1, ReachFacts, PlainSuccessors
  <2>4. QED
    BY <1>1, <2>1, <2>2, <2>3, ReachLeast DEF Marking, Reach
<1>5. R \subseteq Reach(Roots) \cup Reach(held)
  BY <1>1, ReachFacts
<1>6. Alive'
  BY <1>1, <1>2, <1>3, <1>4, <1>5 DEF Alive, Marking
<1>7. Sweeping'
  BY <1>1, <1>2, <1>3, <1>4, <1>5 DEF Sweeping, Marking
<1>8. QED
  BY <1>1, <1>2, <1>3, <1>6, <1>7 DEF IInv

LEMMA SweepKeepKeeps ==
  ASSUME IInv, NEW o \in Obj, SweepKeep(o)
  PROVE  IInv'
<1>1. Shape /\ Alive /\ Sweeping /\ pc = "sweep" /\ (pool = {} \/ \E s \in Obj : pool = {s})
  BY DEF IInv, SweepKeep
<1>2. /\ o \in todo /\ todo' = todo \ {o} /\ marked' = marked \ {o}
      /\ second' = (IF o \in marked THEN second \ {o} ELSE second \cup {o})
      /\ UNCHANGED <<last, heap, kind, link, ref, mutator, pool, pc, gray, carried>>
  BY DEF SweepKeep, Newest, heapVars, history
<1>3. R' = R /\ Shape'
  BY <1>1, <1>2, SameHeap
<1>4. Alive'
  BY <1>1, <1>2, <1>3 DEF Alive, Sweeping
<1>5. Sweeping'
  BY <1>1, <1>2, <1>3 DEF Sweeping
<1>6. QED
  BY <1>1, <1>2, <1>3, <1>4, <1>5 DEF IInv

\* Freeing an object changes the references of no other.
LEMMA FreeEffect ==
  ASSUME Shape, NEW o \in Obj, Free(o), UNCHANGED mutator
  PROVE  /\ heap' = heap \ {o} /\ last' = last /\ kind' = kind /\ pool' = pool
         /\ Shape'
         /\ \A u \in Obj \ {o} : ref'[u] = ref[u] /\ link'[u] = link[u]
<1>1. /\ heap' = heap \ {o} /\ last' = last /\ kind' = kind /\ pool' = pool
      /\ scratch' = scratch /\ roots' = roots /\ held' = held
      /\ ref' = [u \in Obj |-> IF u = o THEN None ELSE IF u \in Cells(o) THEN ref[o] ELSE ref[u]]
      /\ link' = [u \in Obj |->
                    IF u \in Cells(o) \/ (u = o /\ kind[o] # "cell") THEN None ELSE link[u]]
  BY DEF Free, mutator
<1>2. Cells(o) = {} /\ kind[o] # "cell"
  BY PlainSuccessors DEF Shape
<1>3. /\ ref' = [u \in Obj |-> IF u = o THEN None ELSE ref[u]]
      /\ link' = [u \in Obj |-> IF u = o THEN None ELSE link[u]]
  BY <1>1, <1>2
<1>4. Shape'
  BY <1>1, <1>3 DEF Shape
<1>5. QED
  BY <1>1, <1>3, <1>4

LEMMA SweepFreeKeeps ==
  ASSUME IInv, NEW o \in Obj, SweepFree(o)
  PROVE  IInv'
<1>1. Shape /\ Alive /\ Sweeping /\ pc = "sweep" /\ (pool = {} \/ \E s \in Obj : pool = {s})
  BY DEF IInv, SweepFree
<1>2. /\ o \in todo /\ o \notin marked /\ o \in second
      /\ Free(o) /\ todo' = todo \ {o} /\ second' = second \ {o}
      /\ UNCHANGED <<mutator, pc, marked, gray, carried>>
  BY DEF SweepFree, Newest, Doomed, history
<1>3. o \notin R /\ o \notin pool
  BY <1>1, <1>2 DEF Sweeping
<1>4. /\ heap' = heap \ {o} /\ last' = last /\ kind' = kind /\ pool' = pool
      /\ Shape' /\ \A u \in Obj \ {o} : ref'[u] = ref[u] /\ link'[u] = link[u]
  BY <1>1, <1>2, FreeEffect
<1>5. R' \subseteq R
  <2>1. (Roots \cup held)' \subseteq R
    BY <1>1, <1>2, ReachFacts DEF Roots, mutator
  <2>2. \A u \in R : ref'[u] \in R \cup {None} /\ link'[u] \in R \cup {None}
    BY <1>1, <1>3, <1>4, ReachFacts
  <2>3. QED
    BY <1>1, <1>4, <2>1, <2>2, ReachFacts, ReachAfter
<1>6. Alive'
  BY <1>1, <1>2, <1>3, <1>4, <1>5 DEF Alive
<1>7. Sweeping'
  BY <1>1, <1>2, <1>4, <1>5 DEF Sweeping
<1>8. QED
  BY <1>1, <1>2, <1>4, <1>6, <1>7 DEF IInv

LEMMA EndCollectKeeps ==
  ASSUME IInv, EndCollect
  PROVE  IInv'
<1>1. Shape /\ Alive /\ (pool = {} \/ \E s \in Obj : pool = {s})
  BY DEF IInv, EndCollect
<1>2. /\ pc' = "run"
      /\ UNCHANGED <<last, heap, kind, link, ref, mutator, pool, marked, second, gray, todo, carried>>
  BY DEF EndCollect, heapVars, collector, history
<1>3. R' = R /\ Shape'
  BY <1>1, <1>2, SameHeap
<1>4. Alive'
  BY <1>1, <1>2, <1>3 DEF Alive
<1>5. QED
  BY <1>1, <1>2, <1>3, <1>4 DEF IInv

LEMMA ExitingKeeps ==
  ASSUME IInv, NEW o \in Obj, ExitInstances(o) \/ ExitRest(o)
  PROVE  IInv'
<1>1. Shape /\ (pool = {} \/ \E s \in Obj : pool = {s})
  BY DEF IInv
<1>2. Free(o) /\ UNCHANGED mutator /\ pc' \in {"exit instances", "exit rest"}
  BY DEF ExitInstances, ExitRest
<1>3. Shape' /\ pool' = pool
  BY <1>1, <1>2, FreeEffect
<1>4. QED
  BY <1>1, <1>2, <1>3 DEF IInv

LEMMA StutterKeeps ==
  ASSUME IInv, UNCHANGED vars
  PROVE  IInv'
<1>1. UNCHANGED <<last, heap, kind, link, ref, mutator, pool, pc, marked, second, gray, todo,
                  scratch, roots, held, carried>>
  BY DEF vars, heapVars, mutator, collector, history
<1>2. /\ R' = R /\ Roots' = Roots /\ Reach(Roots)' = Reach(Roots)
      /\ Reach(held)' = Reach(held) /\ \A x \in Obj : Marks(x)' = Marks(x)
      /\ Shape'
  BY <1>1, SameHeap DEF IInv
<1>3. Alive => Alive'
  BY <1>1, <1>2 DEF Alive
<1>4. Shape /\ Alive /\ Marking => Marking'
  <2>1. SUFFICES ASSUME Shape, Alive, Marking
                 PROVE  Marking'
    OBVIOUS
  <2>2. marked \subseteq Obj
    BY <2>1, ReachFacts DEF Marking
  <2>3. \A x \in marked' \ gray' : Marks(x)' \subseteq marked'
    BY <1>1, <1>2, <2>1, <2>2 DEF Marking
  <2>4. QED
    BY <1>1, <1>2, <2>1, <2>3 DEF Marking
<1>5. Sweeping => Sweeping'
  BY <1>1, <1>2 DEF Sweeping
<1>6. QED
  BY <1>1, <1>2, <1>3, <1>4, <1>5 DEF IInv

LEMMA NextInv ==
  ASSUME Plain, IInv, [Next]_vars
  PROVE  IInv'
<1>1. CASE Mutate
  BY <1>1, MutateKeeps
<1>2. CASE Collect
  BY <1>2, CollectKeeps
<1>3. CASE Collecting
  BY <1>3, BlackenKeeps, SweepKeepKeeps, SweepFreeKeeps, PruneKeeps, EndCollectKeeps
  DEF Collecting
<1>4. CASE Exiting
  BY <1>4, ExitingKeeps DEF Exiting
<1>5. CASE UNCHANGED vars
  BY <1>5, StutterKeeps
<1>6. QED
  BY <1>1, <1>2, <1>3, <1>4, <1>5 DEF Next

-----------------------------------------------------------------------------
(* The theorems.                                                           *)

\* The inductive invariant holds in every state of a plain program.
THEOREM Invariance == ASSUME Plain PROVE Spec => []IInv
<1>1. Init => IInv
  BY InitInv
<1>2. IInv /\ [Next]_vars => IInv'
  BY NextInv
<1>3. QED
  BY <1>1, <1>2, PTL DEF Spec

\* Marks, flags, the sweep's list and the intern table are about objects that
\* have been allocated and not freed (memory.c, object.c).
THEOREM TypeSafety == ASSUME Plain PROVE Spec => []TypeOK
<1>1. IInv => TypeOK
  <2>1. SUFFICES ASSUME IInv
                 PROVE  TypeOK
    OBVIOUS
  <2>2. Cardinality(pool) <= 1
    <3>1. CASE pool = {}
      BY <3>1, FS_EmptySet
    <3>2. ASSUME NEW s \in Obj, pool = {s}
          PROVE  Cardinality(pool) <= 1
      <4>1. Cardinality({s}) = 1
        BY FS_Singleton
      <4>2. QED
        BY <3>2, <4>1
    <3>3. QED
      BY <2>1, <3>1, <3>2 DEF IInv
  <2>3. QED
    BY <2>1, <2>2 DEF IInv, Shape, Alive, TypeOK
<1>2. QED
  BY <1>1, Invariance, PTL

\* Whatever the program and its native functions do, nothing that they can
\* still reach has been freed by a collection.
THEOREM NothingReachableIsFreed == ASSUME Plain PROVE Spec => []NoDangling
<1>1. IInv => NoDangling
  BY DEF IInv, Alive, R, NoDangling
<1>2. QED
  BY <1>1, Invariance, PTL

\* A string in the intern table never waits for its second chance to end:
\* tableRemoveWhite takes it out in the collection that flags it.
THEOREM InternedStringsStay == ASSUME Plain PROVE Spec => []InternedIsFresh
<1>1. IInv => InternedIsFresh
  BY DEF IInv, Alive, InternedIsFresh
<1>2. QED
  BY <1>1, Invariance, PTL

\* Comparing strings by identity is right: the program never reaches two
\* objects with one text, except those C variables alone kept through a
\* collection.
THEOREM StringsAreUnique == ASSUME Plain PROVE Spec => []OneObjectPerText
<1>1. IInv => OneObjectPerText
  BY DEF IInv, Alive, R, OneObjectPerText
<1>2. QED
  BY <1>1, Invariance, PTL

-----------------------------------------------------------------------------
(* What is freed, and when.  Neither kind of references nor __subclasses__ *)
(* matters for the first result, only captured locals for the second.      *)

\* Numbers of objects are those given away; what is captured from a suspended
\* generator is not in the cell.
Numbers ==
  /\ last \in 0 .. MaxObj /\ scratch \in 0 .. last
  /\ heap \subseteq 1 .. last
  /\ kind \in [Obj -> Kind]
  /\ link \in [Obj -> 0 .. last] /\ ref \in [Obj -> 0 .. last]
  /\ roots \subseteq 1 .. last /\ held \subseteq 1 .. last /\ pool \subseteq 1 .. last
  /\ \A o \in Obj :
       /\ kind[o] = "cell" /\ link[o] # None => ref[o] = None /\ kind[link[o]] = "generator"
       /\ kind[o] \in {"string", "generator"} => link[o] = None
       /\ o > last => ref[o] = None /\ link[o] = None

Age(o) == IF o \in second THEN 1 ELSE 0

\* An object has the flag if it has lapsed.
Aged ==
  /\ lapses \in [Obj -> Nat]
  /\ \A o \in Obj : o > last => lapses[o] = 0
  /\ pc = "run" => \A o \in heap : lapses[o] <= Age(o)
  /\ pc = "mark" =>
       /\ gray \subseteq marked /\ marked \subseteq Reach(Roots)
       /\ \A o \in heap : lapses[o] <= Age(o) + 1 /\ (o \in Reach(Roots) => lapses[o] = 0)
  /\ pc = "sweep" =>
       /\ \A o \in heap \cap todo : lapses[o] <= Age(o) + 1 /\ (o \in marked => lapses[o] = 0)
       /\ \A o \in heap \ todo : lapses[o] <= Age(o)

\* And it has lapsed if it has the flag.
Due ==
  /\ \A o \in Obj : kind[o] # "cell"
  /\ pc \in {"run", "mark", "sweep"} => second \subseteq heap
  /\ pc = "run" => \A o \in heap : lapses[o] >= Age(o)
  /\ pc = "mark" =>
       /\ Roots \subseteq marked
       /\ \A o \in marked \ gray : Marks(o) \subseteq marked
       /\ \A o \in heap \ Reach(Roots) : lapses[o] >= Age(o) + 1
  /\ pc = "sweep" =>
       /\ todo \subseteq heap
       /\ \A o \in todo \ marked : lapses[o] >= Age(o) + 1
       /\ \A o \in heap \ todo : lapses[o] >= Age(o)

NInv == Numbers /\ Aged

LEMMA NumbersReach ==
  ASSUME Numbers
  PROVE  /\ 1 .. last \subseteq Obj /\ last \in Nat
         /\ Successors \in SuccFun
         /\ \A o \in Obj : Cells(o) \subseteq 1 .. last /\ Successors[o] \subseteq 1 .. last
         /\ \A o \in Obj : Marks(o) \subseteq Successors[o]
         /\ InHand \subseteq 1 .. last
         /\ Roots \subseteq Obj /\ Roots \subseteq Reach(Roots) /\ Reach(Roots) \subseteq Obj
         /\ ClosedUnder(Successors, Reach(Roots))
<1>1. 1 .. last \subseteq Obj /\ last \in Nat
  BY BoundAssumption DEF Numbers, Obj
<1>2. \A o \in Obj : Cells(o) \subseteq 1 .. last
  BY <1>1 DEF Numbers, Cells, None, Obj
<1>3. \A o \in Obj : Optional(ref[o]) \subseteq 1 .. last /\ Optional(link[o]) \subseteq 1 .. last
  BY <1>1 DEF Numbers, Optional, None
<1>4. \A o \in Obj : kind[o] = "cell" /\ link[o] # None =>
         link[o] \in Obj /\ Optional(ref[link[o]]) \subseteq 1 .. last /\ Optional(ref[o]) = {}
  BY <1>1, <1>3 DEF Numbers, Optional, None, Obj
<1>5. ASSUME NEW o \in Obj
      PROVE  Successors[o] \subseteq 1 .. last /\ Marks(o) \subseteq Successors[o]
  <2>1. Successors[o] = CASE kind[o] = "cell" /\ link[o] # None -> Optional(ref[link[o]])
                          [] kind[o] = "generator" -> Optional(ref[o]) \cup Cells(o)
                          [] OTHER -> Optional(ref[o]) \cup Optional(link[o])
    BY DEF Successors
  <2>2. CASE kind[o] = "cell" /\ link[o] # None
    BY <2>1, <2>2, <1>4 DEF Marks
  <2>3. CASE kind[o] = "generator"
    BY <2>1, <2>3, <1>2, <1>3 DEF Marks
  <2>4. CASE ~(kind[o] = "cell" /\ link[o] # None) /\ kind[o] # "generator"
    BY <2>1, <2>4, <1>3 DEF Marks
  <2>5. QED
    BY <2>2, <2>3, <2>4
<1>6. Successors \in SuccFun
  <2>1. Successors = [o \in Obj |-> Successors[o]]
    BY DEF Successors
  <2>2. QED
    BY <1>1, <1>5, <2>1 DEF SuccFun
<1>7. Roots \subseteq 1 .. last /\ InHand \subseteq 1 .. last
  BY <1>1 DEF Numbers, Roots, InHand, Optional, None
<1>8. Roots \subseteq Reach(Roots) /\ Reach(Roots) \subseteq Obj
  BY <1>1, <1>6, <1>7, ReachContains DEF Reach
<1>9. ClosedUnder(Successors, Reach(Roots))
  BY <1>1, <1>6, <1>7, ReachClosed DEF Reach
<1>10. QED
  BY <1>1, <1>2, <1>5, <1>6, <1>7, <1>8, <1>9

\* A step of the program that allocates nothing changes no object's number.
LEMMA NumbersMutate ==
  ASSUME Numbers, Mutate
  PROVE  Numbers'
<1> USE NumbersReach
<1>1. ASSUME NEW k \in Kinds, NEW l \in Obj \cup {None}, Allocate(k, l)
      PROVE  Numbers'
  <2>1. /\ last < MaxObj /\ last' = last + 1 /\ scratch' = last'
        /\ heap' = heap \cup {last'}
        /\ kind' = [kind EXCEPT ![last'] = k]
        /\ link' = [link EXCEPT ![last'] = l]
        /\ held' = held \cup {last'}
        /\ pool' = (IF k = "string" THEN {last'} ELSE pool)
        /\ l \in LinkChoices(k)
        /\ UNCHANGED <<ref, roots>>
    BY <1>1 DEF Allocate
  <2>2. last' \in 1 .. last' /\ last' \in Obj /\ last' \in 0 .. MaxObj /\ last \in Nat
    BY <2>1, BoundAssumption DEF Numbers, Obj
  <2>3. \A n \in 0 .. last : n \in 0 .. last' /\ n # last' /\ (n \in 1 .. last => n \in 1 .. last')
    BY <2>1, <2>2
  <2>4. k \in Kind
    BY FeatureAssumption
  <2>5. /\ l \in 0 .. last /\ (k = "cell" => l \in 1 .. last /\ kind[l] = "generator")
        /\ k \in {"string", "generator"} => l = None
    BY <2>1, <2>2, <2>4 DEF LinkChoices, Kind, ClassesInHand, GeneratorsInHand, None
  <2>6. /\ kind' \in [Obj -> Kind] /\ link' \in [Obj -> 0 .. last'] /\ ref' \in [Obj -> 0 .. last']
        /\ \A o \in Obj \ {last'} : kind'[o] = kind[o] /\ link'[o] = link[o]
        /\ kind'[last'] = k /\ link'[last'] = l /\ ref'[last'] = None
    BY <2>1, <2>2, <2>3, <2>4, <2>5 DEF Numbers
  <2>7. ASSUME NEW o \in Obj
        PROVE  /\ kind'[o] = "cell" /\ link'[o] # None => ref'[o] = None /\ kind'[link'[o]] = "generator"
               /\ kind'[o] \in {"string", "generator"} => link'[o] = None
               /\ o > last' => ref'[o] = None /\ link'[o] = None
    <3>1. CASE o = last'
      BY <2>1, <2>2, <2>3, <2>5, <2>6, <3>1
    <3>2. CASE o # last'
      <4>1. link[o] \in 0 .. last /\ link[o] # last' /\ (o > last' => o > last)
        BY <2>1, <2>2, <2>3 DEF Numbers, Obj
      <4>2. link[o] # None => link[o] \in Obj \ {last'}
        BY <2>2, <4>1 DEF None
      <4>3. QED
        BY <2>1, <2>6, <3>2, <4>1, <4>2 DEF Numbers
    <3>3. QED
      BY <3>1, <3>2
  <2>8. /\ heap' \subseteq 1 .. last' /\ roots' \subseteq 1 .. last' /\ held' \subseteq 1 .. last'
        /\ pool' \subseteq 1 .. last' /\ scratch' \in 0 .. last'
    BY <2>1, <2>2, <2>3 DEF Numbers
  <2>9. QED
    BY <2>2, <2>6, <2>7, <2>8 DEF Numbers
<1>2. CASE AllocateOther
  BY <1>2 DEF AllocateOther, heapVars, Numbers, None
<1>3. ASSUME NEW S \in SUBSET (1 .. last), Hold(S)
      PROVE  Numbers'
  BY <1>3 DEF Hold, heapVars, Numbers
<1>4. CASE Intern
  BY <1>3, <1>4 DEF Intern, Numbers
<1>5. CASE Return
  BY <1>5 DEF Return, heapVars, Numbers
<1>6. CASE Exit
  <2>1. 0 \in 0 .. last
    OBVIOUS
  <2>2. /\ UNCHANGED <<last, heap, kind, link, ref, pool>>
        /\ scratch' = 0 /\ roots' = {} /\ held' = {}
    BY <1>6 DEF Exit, heapVars, None
  <2>3. QED
    BY <2>1, <2>2 DEF Numbers
<1>7. ASSUME NEW o \in Obj, Load(o)
      PROVE  Numbers'
  BY <1>3, <1>7 DEF Load
<1>8. ASSUME NEW o \in Obj, ListSubclasses(o)
      PROVE  Numbers'
  <2>1. {s \in heap : kind[s] = "class" /\ link[s] = o} \subseteq 1 .. last
    BY DEF Numbers
  <2>2. QED
    BY <1>3, <1>8, <2>1 DEF ListSubclasses
<1>9. ASSUME NEW o \in Obj, Push(o) \/ Pop(o)
      PROVE  Numbers'
  BY <1>9 DEF Push, Pop, heapVars, Numbers
<1>10. ASSUME NEW g \in Obj, FinishGenerator(g)
       PROVE  Numbers'
  <2>1. /\ ref' = [u \in Obj |-> IF u \in Cells(g) THEN ref[g] ELSE ref[u]]
        /\ link' = [u \in Obj |-> IF u \in Cells(g) THEN None ELSE link[u]]
        /\ UNCHANGED <<heap, last, kind, pool, scratch, roots, held>>
    BY <1>10 DEF FinishGenerator, mutator
  <2>2. ref' \in [Obj -> 0 .. last] /\ link' \in [Obj -> 0 .. last]
    BY <2>1 DEF Numbers, None
  <2>3. \A o \in Obj : o > last => o \notin Cells(g)
    OBVIOUS
  <2>4. QED
    BY <2>1, <2>2, <2>3 DEF Numbers
<1>11. ASSUME NEW p \in Obj, NEW o \in Obj \cup {None}, Store(p, o)
       PROVE  Numbers'
  <2> DEFINE q == IF kind[p] = "cell" /\ link[p] # None THEN link[p] ELSE p
  <2>1. /\ p \in InHand /\ o \in InHand \cup {None} /\ ref' = [ref EXCEPT ![q] = o]
        /\ UNCHANGED <<heap, last, kind, link, pool, scratch, roots, held>>
    BY <1>11 DEF Store, mutator
  <2>2. o \in 0 .. last /\ q \in 1 .. last /\ ~(kind[q] = "cell" /\ link[q] # None)
    BY <2>1 DEF Numbers, None
  <2> HIDE DEF q
  <2>3. ref' \in [Obj -> 0 .. last] /\ \A u \in Obj \ {q} : ref'[u] = ref[u]
    BY <2>1, <2>2 DEF Numbers
  <2>4. \A u \in Obj : u > last => u # q
    BY <2>2 DEF Obj
  <2>5. QED
    BY <2>1, <2>2, <2>3, <2>4 DEF Numbers
<1>12. ASSUME NEW i \in Obj, NEW c \in Obj, SetClass(i, c)
       PROVE  Numbers'
  <2>1. /\ i \in InHand /\ kind[i] = "instance" /\ c \in InHand /\ link' = [link EXCEPT ![i] = c]
        /\ UNCHANGED <<heap, last, kind, ref, pool, scratch, roots, held>>
    BY <1>12 DEF SetClass, ClassesInHand, mutator
  <2>2. link' \in [Obj -> 0 .. last] /\ (\A u \in Obj \ {i} : link'[u] = link[u]) /\ i \in 1 .. last
    BY <2>1 DEF Numbers
  <2>3. \A u \in Obj : u > last => u # i
    BY <2>2 DEF Obj
  <2>4. QED
    BY <2>1, <2>2, <2>3 DEF Numbers
<1>13. QED
  BY <1>1, <1>2, <1>4, <1>5, <1>6, <1>7, <1>8, <1>9, <1>10, <1>11, <1>12 DEF Mutate

LEMMA NumbersFree ==
  ASSUME Numbers, NEW o \in Obj, Free(o), UNCHANGED mutator
  PROVE  Numbers'
<1>1. /\ heap' = heap \ {o} /\ UNCHANGED <<last, kind, pool, scratch, roots, held>>
      /\ ref' = [u \in Obj |-> IF u = o THEN None ELSE IF u \in Cells(o) THEN ref[o] ELSE ref[u]]
      /\ link' = [u \in Obj |-> IF u \in Cells(o) \/ (u = o /\ kind[o] # "cell") THEN None ELSE link[u]]
  BY DEF Free, mutator
<1>2. ref' \in [Obj -> 0 .. last] /\ link' \in [Obj -> 0 .. last]
  BY <1>1 DEF Numbers, None
<1>3. \A u \in Obj : u > last => u \notin Cells(o)
  BY NumbersReach
<1>4. QED
  BY <1>1, <1>2, <1>3 DEF Numbers

LEMMA NumbersNext == Numbers /\ [Next]_vars => Numbers'
<1> SUFFICES ASSUME Numbers, [Next]_vars
             PROVE  Numbers'
  OBVIOUS
<1>1. CASE UNCHANGED <<heapVars, mutator>>
  BY <1>1 DEF heapVars, mutator, Numbers
<1>2. CASE Prune
  BY <1>2 DEF Prune, StringsKept, mutator, Numbers
<1>3. CASE Collect \/ EndCollect \/ (\E o \in Obj : Blacken(o) \/ SweepKeep(o)) \/ UNCHANGED vars
  <2>1. UNCHANGED <<heapVars, mutator>>
    BY <1>3 DEF Collect, EndCollect, Blacken, SweepKeep, vars
  <2>2. QED
    BY <1>1, <2>1
<1>4. ASSUME NEW o \in Obj, SweepFree(o) \/ ExitInstances(o) \/ ExitRest(o)
      PROVE  Numbers'
  BY <1>4, NumbersFree DEF SweepFree, ExitInstances, ExitRest
<1>5. QED
  BY <1>2, <1>3, <1>4, NumbersMutate DEF Next, Collecting, Exiting

\* What the program does leaves the flags and counts of all objects alone.
LEMMA MutateAges ==
  ASSUME Mutate
  PROVE  /\ pc = "run" /\ pc' \in {"run", "exit instances"}
         /\ UNCHANGED <<marked, second, gray, todo, lapses>>
         /\ (heap' = heap /\ last' = last)
            \/ (heap' = heap \cup {last'} /\ last' = last + 1 /\ \E k \in Kinds, l \in Obj \cup {None} : Allocate(k, l))
<1>1. ASSUME NEW k \in Kinds, NEW l \in Obj \cup {None}, Allocate(k, l)
      PROVE  pc = "run" /\ pc' = "run" /\ UNCHANGED <<marked, second, gray, todo, lapses>>
             /\ heap' = heap \cup {last'} /\ last' = last + 1
  BY <1>1 DEF Allocate, collector, history
<1>2. ASSUME NEW S, Hold(S)
      PROVE  pc = "run" /\ pc' = "run" /\ UNCHANGED <<marked, second, gray, todo, lapses, heap, last>>
  BY <1>2 DEF Hold, collector, history, heapVars
<1>3. CASE Intern \/ \E o \in Obj : Load(o) \/ ListSubclasses(o)
  BY <1>2, <1>3 DEF Intern, Load, ListSubclasses
<1>4. CASE AllocateOther \/ Return \/ Exit \/ \E o \in Obj : Push(o) \/ Pop(o) \/ FinishGenerator(o)
  BY <1>4 DEF AllocateOther, Return, Exit, Push, Pop, FinishGenerator, collector, history, heapVars
<1>5. CASE \E o \in Obj : (\E p \in Obj \cup {None} : Store(o, p)) \/ \E c \in Obj : SetClass(o, c)
  BY <1>5 DEF Store, SetClass, collector, history
<1>6. QED
  BY <1>1, <1>3, <1>4, <1>5 DEF Mutate

LEMMA AgedNext == NInv /\ [Next]_vars => NInv'
<1> SUFFICES ASSUME Numbers, Aged, [Next]_vars
             PROVE  Aged'
  BY NumbersNext DEF NInv
<1>1. lapses \in [Obj -> Nat] /\ last \in Nat /\ heap \subseteq Obj /\ \A o \in Obj : Age(o) \in {0, 1}
  BY NumbersReach DEF Aged, Age, Numbers
<1>2. CASE Mutate
  <2>1. /\ pc = "run" /\ pc' \in {"run", "exit instances"}
        /\ UNCHANGED <<marked, second, gray, todo, lapses>>
    BY <1>2, MutateAges
  <2>2. CASE heap' = heap /\ last' = last
    BY <1>1, <2>1, <2>2 DEF Aged, Age
  <2>3. CASE heap' = heap \cup {last'} /\ last' = last + 1 /\ \E k \in Kinds, l \in Obj \cup {None} : Allocate(k, l)
    <3>1. last < MaxObj
      BY <2>3 DEF Allocate
    <3>2. last' \in Obj /\ last' > last /\ lapses[last'] = 0
      BY <1>1, <2>3, <3>1, BoundAssumption DEF Obj, Aged
    <3>3. \A o \in Obj : o > last' => o > last
      BY <1>1, <2>3, <3>2 DEF Obj
    <3>4. ASSUME NEW o \in heap'
          PROVE  lapses'[o] <= Age(o)'
      <4>1. Age(o)' = Age(o) /\ lapses'[o] = lapses[o]
        BY <2>1 DEF Age
      <4>2. CASE o = last'
        BY <3>2, <4>1, <4>2 DEF Age
      <4>3. CASE o \in heap
        BY <2>1, <4>1, <4>3 DEF Aged
      <4>4. QED
        BY <2>3, <4>2, <4>3
    <3>5. QED
      BY <1>1, <2>1, <3>3, <3>4 DEF Aged
  <2>4. QED
    BY <1>2, <2>2, <2>3, MutateAges
<1>3. CASE Collect
  <2>1. /\ pc = "run" /\ pc' = "mark" /\ marked' = Roots /\ gray' = Roots
        /\ lapses' = [o \in Obj |-> IF o \in Reach(Roots) \/ o \notin heap THEN 0 ELSE lapses[o] + 1]
        /\ UNCHANGED <<heap, last, kind, link, ref, pool, mutator, second>>
    BY <1>3 DEF Collect, heapVars
  <2>2. Reach(Roots)' = Reach(Roots)
    BY <2>1, SameHeap
  <2>3. marked' \subseteq Reach(Roots)
    BY <2>1, NumbersReach
  <2>4. lapses' \in [Obj -> Nat] /\ \A o \in Obj : o > last => o \notin heap
    BY <1>1, <2>1 DEF Numbers
  <2>5. \A o \in heap : lapses'[o] <= Age(o) + 1 /\ (o \in Reach(Roots) => lapses'[o] = 0)
    BY <1>1, <2>1 DEF Aged
  <2>6. QED
    BY <2>1, <2>2, <2>3, <2>4, <2>5 DEF Aged, Age
<1>4. ASSUME NEW o \in Obj, Blacken(o)
      PROVE  Aged'
  <2>1. /\ pc = "mark" /\ o \in gray /\ marked' = marked \cup Marks(o)
        /\ gray' \subseteq gray \cup Marks(o)
        /\ UNCHANGED <<heap, last, kind, link, ref, mutator, pc, second, lapses>>
    BY <1>4 DEF Blacken, heapVars, history
  <2>2. Reach(Roots)' = Reach(Roots)
    BY <2>1, SameHeap
  <2>3. Marks(o) \subseteq Reach(Roots)
    BY <2>1, NumbersReach DEF Aged, ClosedUnder
  <2>4. QED
    BY <2>1, <2>2, <2>3 DEF Aged, Age
<1>5. CASE Prune
  BY <1>1, <1>5 DEF Prune, Aged, Age, history
<1>6. ASSUME NEW o \in Obj, SweepKeep(o) \/ SweepFree(o)
      PROVE  Aged'
  <2>1. /\ pc = "sweep" /\ pc' = pc /\ o \in todo /\ todo' = todo \ {o}
        /\ last' = last /\ lapses' = lapses /\ marked' \subseteq marked
        /\ \A u \in Obj \ {o} : u \in second' <=> u \in second
        /\ heap' = heap \ {o} \/ (heap' = heap /\ ~Doomed(o) /\ (o \in second' <=> o \notin marked))
    BY <1>6 DEF SweepKeep, SweepFree, Newest, Free, heapVars, history
  <2>2. \A u \in heap' \cap todo' : lapses[u] <= Age(u)' + 1 /\ (u \in marked' => lapses[u] = 0)
    BY <1>1, <2>1 DEF Aged, Age
  <2>3. ASSUME NEW u \in heap' \ todo'
        PROVE  lapses[u] <= Age(u)'
    <3>1. CASE u # o
      BY <1>1, <2>1, <2>3, <3>1 DEF Aged, Age
    <3>2. CASE u = o
      BY <1>1, <2>1, <2>3, <3>2 DEF Aged, Age, Doomed
    <3>3. QED
      BY <3>1, <3>2
  <2>4. QED
    BY <2>1, <2>2, <2>3 DEF Aged
<1>7. CASE EndCollect
  BY <1>7 DEF EndCollect, Aged, Age, heapVars, collector, history
<1>8. ASSUME NEW o \in Obj, ExitInstances(o) \/ ExitRest(o)
      PROVE  Aged'
  <2>1. /\ pc' \in {"exit instances", "exit rest"} /\ last' = last /\ lapses' = lapses
    BY <1>8 DEF ExitInstances, ExitRest, Free, history
  <2>2. QED
    BY <2>1 DEF Aged
<1>9. CASE UNCHANGED vars
  <2>1. UNCHANGED <<heap, last, kind, link, ref, pool, mutator, pc, marked, gray, second, todo, lapses>>
    BY <1>9 DEF vars, heapVars, collector, history
  <2>2. Reach(Roots)' = Reach(Roots)
    BY <2>1, SameHeap
  <2>3. QED
    BY <2>1, <2>2 DEF Aged, Age
<1>10. QED
  BY <1>2, <1>3, <1>4, <1>5, <1>6, <1>7, <1>8, <1>9 DEF Next, Collecting, Exiting

\* A program without cells has none after a step.
LEMMA NoCells ==
  ASSUME Numbers, "cell" \notin Kinds, \A o \in Obj : kind[o] # "cell", [Next]_vars
  PROVE  \A o \in Obj : kind'[o] # "cell"
<1>1. CASE kind' = kind
  BY <1>1
<1>2. ASSUME NEW k \in Kinds, NEW l \in Obj \cup {None}, Allocate(k, l)
      PROVE  \A o \in Obj : kind'[o] # "cell"
  BY <1>2 DEF Allocate, Numbers
<1>3. ASSUME Mutate, \A k \in Kinds, l \in Obj \cup {None} : ~Allocate(k, l)
      PROVE  kind' = kind
  BY <1>3 DEF Mutate, AllocateOther, Intern, Load, ListSubclasses, Hold, Return, Exit, Push, Pop,
              FinishGenerator, Store, SetClass, heapVars
<1>4. CASE Collect \/ Prune \/ EndCollect \/ (\E o \in Obj : Blacken(o) \/ SweepKeep(o)) \/ UNCHANGED vars
  BY <1>1, <1>4 DEF Collect, Prune, EndCollect, Blacken, SweepKeep, vars, heapVars
<1>5. CASE \E o \in Obj : SweepFree(o) \/ ExitInstances(o) \/ ExitRest(o)
  BY <1>1, <1>5 DEF SweepFree, ExitInstances, ExitRest, Free
<1>6. QED
  BY <1>1, <1>2, <1>3, <1>4, <1>5 DEF Next, Collecting, Exiting

LEMMA DueNext ==
  ASSUME "cell" \notin Kinds, NInv, Due, [Next]_vars
  PROVE  Due'
<1> USE DEF NInv
<1>1. lapses \in [Obj -> Nat] /\ last \in Nat /\ heap \subseteq Obj /\ \A o \in Obj : Age(o) \in {0, 1}
  BY NumbersReach DEF Aged, Age, Numbers
<1>2. \A o \in Obj : kind'[o] # "cell"
  BY NoCells DEF Due
<1>3. lapses' \in [Obj -> Nat]
  BY AgedNext DEF Aged
<1>4. CASE Mutate
  <2>1. /\ pc = "run" /\ pc' \in {"run", "exit instances"}
        /\ UNCHANGED <<marked, second, gray, todo, lapses>>
        /\ heap' = heap \/ (heap' = heap \cup {last'} /\ last' \notin second)
    <3>1. CASE heap' = heap
      BY <1>4, <3>1, MutateAges
    <3>2. ASSUME heap' = heap \cup {last'}, last' = last + 1
          PROVE  last' \notin second
      <4>1. \A n \in Nat : n + 1 \notin 1 .. n
        OBVIOUS
      <4>2. last' \notin 1 .. last
        BY <1>1, <3>2, <4>1
      <4>3. pc = "run"
        BY <1>4, MutateAges
      <4>4. QED
        BY <4>2, <4>3 DEF Due, Numbers
    <3>3. QED
      BY <1>4, <3>1, <3>2, MutateAges
  <2>2. ASSUME NEW o \in heap'
        PROVE  lapses'[o] >= Age(o)'
    <3>1. Age(o)' = Age(o) /\ lapses'[o] = lapses[o]
      BY <2>1 DEF Age
    <3>2. CASE o \in heap
      BY <2>1, <3>1, <3>2 DEF Due
    <3>3. CASE o \notin heap
      <4>1. o \in Obj /\ lapses[o] \in Nat
        <5>1. Numbers'
          BY NumbersNext
        <5>2. heap' \subseteq 1 .. last' /\ last' \in 0 .. MaxObj
          BY <5>1 DEF Numbers
        <5>3. o \in Obj
          BY <2>2, <5>2, BoundAssumption DEF Obj
        <5>4. QED
          BY <1>1, <5>3
      <4>2. Age(o) = 0
        BY <2>1, <2>2, <3>3 DEF Age, Due
      <4>3. QED
        BY <3>1, <4>1, <4>2
    <3>4. QED
      BY <3>2, <3>3
  <2>3. QED
    BY <1>2, <2>1, <2>2 DEF Due
<1>5. CASE Collect
  <2>1. /\ pc = "run" /\ pc' = "mark" /\ marked' = Roots /\ gray' = Roots
        /\ lapses' = [o \in Obj |-> IF o \in Reach(Roots) \/ o \notin heap THEN 0 ELSE lapses[o] + 1]
        /\ UNCHANGED <<heap, last, kind, link, ref, pool, mutator, second>>
    BY <1>5 DEF Collect, heapVars
  <2>2. Reach(Roots)' = Reach(Roots) /\ Roots' = Roots
    BY <2>1, SameHeap
  <2>3. \A o \in heap \ Reach(Roots) : lapses'[o] >= Age(o) + 1
    BY <1>1, <2>1 DEF Due
  <2>4. QED
    BY <1>2, <2>1, <2>2, <2>3 DEF Due, Age
<1>6. ASSUME NEW o \in Obj, Blacken(o)
      PROVE  Due'
  <2>1. /\ pc = "mark" /\ o \in gray /\ marked' = marked \cup Marks(o)
        /\ gray' = (gray \ {o}) \cup (Marks(o) \ marked)
        /\ UNCHANGED <<heap, last, kind, link, ref, mutator, pc, second, lapses>>
    BY <1>6 DEF Blacken, heapVars, history
  <2>2. Reach(Roots)' = Reach(Roots) /\ Roots' = Roots /\ \A x \in Obj : Marks(x)' = Marks(x)
    BY <2>1, SameHeap
  <2>3. marked' \subseteq Obj
    BY <2>1, NumbersReach DEF Aged, ClosedUnder
  <2>4. \A x \in marked' \ gray' : Marks(x)' \subseteq marked'
    BY <2>1, <2>2, <2>3 DEF Due
  <2>5. QED
    BY <1>2, <2>1, <2>2, <2>4 DEF Due, Age
<1>7. CASE Prune
  <2>1. /\ pc = "mark" /\ pc' = "sweep" /\ todo' = heap /\ gray = {}
        /\ UNCHANGED <<heap, second, marked, lapses>>
    BY <1>7 DEF Prune, history
  <2>2. Reach(Roots) \subseteq marked
    <3>1. marked \in SUBSET Obj
      BY <2>1, NumbersReach DEF Aged
    <3>2. \A o \in Obj : Marks(o) = Successors[o]
      <4>1. SUFFICES ASSUME NEW o \in Obj
                     PROVE  Marks(o) = Successors[o]
        OBVIOUS
      <4>2. kind[o] # "cell"
        BY DEF Due
      <4>3. kind[o] = "string" => link[o] = None
        BY DEF Numbers
      <4>4. Successors[o] = IF kind[o] = "generator" THEN Optional(ref[o]) \cup Cells(o)
                            ELSE Optional(ref[o]) \cup Optional(link[o])
        BY <4>2 DEF Successors
      <4>5. kind[o] \in {"string", "class", "instance", "generator"}
        BY <4>2 DEF Numbers, Kind
      <4>6. QED
        BY <4>3, <4>4, <4>5 DEF Marks, Optional
    <3>3. ClosedUnder(Successors, marked)
      BY <2>1, <3>1, <3>2 DEF Due, ClosedUnder
    <3>4. QED
      BY <2>1, <3>1, <3>3, NumbersReach, ReachLeast DEF Due, Reach
  <2>3. QED
    BY <1>1, <1>2, <2>1, <2>2 DEF Due, Age
<1>8. ASSUME NEW o \in Obj, SweepKeep(o) \/ SweepFree(o)
      PROVE  Due'
  <2>1. /\ pc = "sweep" /\ pc' = pc /\ o \in todo /\ todo' = todo \ {o}
        /\ lapses' = lapses /\ (\A u \in Obj \ {o} : (u \in second' <=> u \in second) /\ (u \in marked' <=> u \in marked))
        /\ (heap' = heap \ {o} /\ o \notin second') \/ (heap' = heap /\ ~Doomed(o) /\ (o \in second' <=> o \notin marked))
    BY <1>8 DEF SweepKeep, SweepFree, Newest, Free, heapVars, history
  <2>2. \A u \in todo' \ marked' : lapses[u] >= Age(u)' + 1
    BY <1>1, <2>1 DEF Due, Age
  <2>3. ASSUME NEW u \in heap' \ todo'
        PROVE  lapses[u] >= Age(u)'
    <3>1. CASE u # o
      BY <1>1, <2>1, <2>3, <3>1 DEF Due, Age
    <3>2. CASE u = o
      BY <1>1, <2>1, <2>3, <3>2 DEF Due, Age, Doomed
    <3>3. QED
      BY <3>1, <3>2
  <2>4. second' \subseteq heap' /\ todo' \subseteq heap'
    <3>1. second \subseteq heap /\ todo \subseteq heap
      BY <2>1 DEF Due
    <3>2. \A u \in second' : u \in second \/ u = o
      <4>1. second' \subseteq second \cup {o}
        BY <1>8 DEF SweepKeep, SweepFree
      <4>2. QED
        BY <4>1
    <3>3. QED
      BY <2>1, <3>1, <3>2
  <2>5. pc' = "sweep"
    BY <2>1
  <2>6. QED
    BY <1>2, <2>1, <2>2, <2>3, <2>4, <2>5 DEF Due
<1>9. CASE EndCollect
  BY <1>2, <1>9 DEF EndCollect, Due, Age, heapVars, collector, history
<1>10. ASSUME NEW o \in Obj, ExitInstances(o) \/ ExitRest(o)
       PROVE  Due'
  BY <1>2, <1>10 DEF ExitInstances, ExitRest, Due
<1>11. CASE UNCHANGED vars
  <2>1. UNCHANGED <<heap, last, kind, link, ref, pool, mutator, pc, marked, gray, second, todo, lapses>>
    BY <1>11 DEF vars, heapVars, collector, history
  <2>2. Reach(Roots)' = Reach(Roots) /\ Roots' = Roots /\ \A x \in Obj : Marks(x)' = Marks(x)
    BY <2>1, SameHeap
  <2>3. pc = "mark" => \A x \in marked \ gray : Marks(x)' \subseteq marked
    BY <2>2, NumbersReach DEF Aged, Due
  <2>4. QED
    BY <2>1, <2>2, <2>3 DEF Due, Age
<1>12. QED
  BY <1>4, <1>5, <1>6, <1>7, <1>8, <1>9, <1>10, <1>11 DEF Next, Collecting, Exiting

LEMMA NInit == Init => NInv
<1> SUFFICES ASSUME Init
             PROVE  NInv
  OBVIOUS
<1>1. 0 \in 0 .. MaxObj /\ 0 \in 0 .. 0
  BY BoundAssumption
<1>2. Numbers
  BY <1>1 DEF Init, Numbers, None, Kind
<1>3. Aged
  BY DEF Init, Aged
<1>4. QED
  BY <1>2, <1>3 DEF NInv

LEMMA AlwaysAged == Spec => []NInv
  BY NInit, AgedNext, PTL DEF Spec

\* No object is left on the list when two collections have found it dead,
\* whatever the program does, closures over suspended generators and
\* __subclasses__ included.
THEOREM NoGarbageStays == Spec => []GarbageGoes
<1>1. NInv => GarbageGoes
  <2> SUFFICES ASSUME NInv, pc = "run", NEW o \in heap
               PROVE  lapses[o] < 2
    BY DEF GarbageGoes
  <2>1. lapses[o] \in Nat /\ lapses[o] <= Age(o) /\ Age(o) \in {0, 1}
    BY NumbersReach DEF NInv, Numbers, Aged, Age
  <2>2. QED
    BY <2>1
<1>2. QED
  BY <1>1, AlwaysAged, PTL

\* The sweep frees nothing that two collections in a row have not found dead,
\* in programs that capture no local of a suspended generator.
THEOREM FreedTwiceDead == ASSUME "cell" \notin Kinds PROVE Spec => FreedWhenDead
<1>1. Init => Due
  BY DEF Init, Due, Age
<1>2. NInv /\ Due /\ [Next]_vars => Due'
  BY DueNext
<1>3. ASSUME NInv, Due, [Next]_vars
      PROVE  [ pc = "sweep" => \A o \in heap \ heap' : lapses[o] >= 2 ]_vars
  <2> SUFFICES ASSUME pc = "sweep", NEW o \in heap, o \notin heap'
               PROVE  lapses[o] >= 2
    OBVIOUS
  <2>1. heap' # heap
    OBVIOUS
  <2>2. PICK u \in Obj : SweepFree(u)
    BY <1>3, <2>1, MutateAges
    DEF Next, Collect, Collecting, Exiting, Blacken, SweepKeep, Prune, EndCollect, ExitInstances, ExitRest, vars, heapVars
  <2>3. u \in todo /\ u \notin marked /\ u \in second /\ o = u
    BY <2>2 DEF SweepFree, Newest, Doomed, Free
  <2>4. lapses[o] \in Nat /\ lapses[o] >= Age(o) + 1 /\ Age(o) = 1
    BY <1>3, <2>3 DEF NInv, Due, Age, Aged
  <2>5. QED
    BY <2>4
<1>4. QED
  BY <1>1, <1>2, <1>3, AlwaysAged, PTL DEF Spec, FreedWhenDead

-----------------------------------------------------------------------------
(* What freeing an object reads.  A class is older than what refers to it, *)
(* so it is flagged no earlier and visited later.                          *)

Linked == \A i \in Obj :
  kind[i] \in {"class", "instance"} /\ link[i] # None => kind[link[i]] = "class" /\ link[i] < i

\* What the program reaches has a flag only if native code carried it over a
\* collection.
Fresh ==
  /\ pc \in {"run", "mark", "sweep"} => R \cap second \subseteq carried
  /\ pc = "sweep" => R \cap todo \subseteq marked \cup carried

\* c is not freed before i, which refers to it.
Outlives(c, i) ==
  /\ pc \in {"run", "mark", "sweep"} => c \in heap
  /\ pc \in {"run", "mark"} => (c \in second => i \in second)
  /\ pc = "sweep" =>
       /\ i \in todo => c \in todo /\ (c \in second => i \in second) /\ (i \in marked => c \in marked)
       /\ i \notin todo /\ c \in todo => c \in marked \/ (c \notin second /\ i \in second)
       /\ i \notin todo /\ c \notin todo => (c \in second => i \in second)
  /\ pc = "exit instances" /\ kind[i] = "instance" => c \in heap

Bases == \A i \in heap :
  kind[i] \in {"class", "instance"} /\ link[i] \notin carried \cup {None} => Outlives(link[i], i)

LInv == IInv /\ Linked /\ Fresh /\ Bases

LEMMA LinkedMutate ==
  ASSUME Plain, ~Reclassing, LInv, Mutate
  PROVE  (Linked /\ Fresh /\ Bases)'
<1>1. Shape /\ Alive /\ pc = "run" /\ IInv
  BY MutateAges DEF LInv, IInv
<1>2. IInv' /\ (pc' = "run" => R' \subseteq R \cup pool \cup (heap' \ heap))
  BY <1>1, MutateKeeps
<1>3. /\ pc' \in {"run", "exit instances"} /\ UNCHANGED <<marked, second, gray, todo>>
  BY MutateAges
<1>4. carried' = carried
  BY DEF Mutate, Allocate, AllocateOther, Intern, Load, ListSubclasses, Hold, Return, Exit, Push, Pop,
         FinishGenerator, Store, SetClass, history
<1>5. Fresh'
  BY <1>1, <1>2, <1>3, <1>4 DEF Fresh, Alive, LInv
<1>6. CASE kind' = kind /\ link' = link /\ heap' = heap
  <2>1. Linked'
    BY <1>6 DEF Linked, LInv
  <2>2. ASSUME NEW i \in heap, kind[i] \in {"class", "instance"}, link[i] \notin carried \cup {None}
        PROVE  Outlives(link[i], i)'
    <3>1. Outlives(link[i], i)
      BY <2>2 DEF LInv, Bases
    <3>2. QED
      BY <1>1, <1>3, <1>6, <3>1 DEF Outlives
  <2>3. QED
    BY <1>4, <1>5, <1>6, <2>1, <2>2 DEF Bases
<1>7. ASSUME NEW k \in Kinds, NEW l \in Obj \cup {None}, Allocate(k, l)
      PROVE  Linked' /\ Bases'
  <2>1. /\ last' = last + 1 /\ last < MaxObj /\ pc' = "run" /\ heap' = heap \cup {last'}
        /\ kind' = [kind EXCEPT ![last'] = k] /\ link' = [link EXCEPT ![last'] = l]
        /\ l \in LinkChoices(k) /\ heap \subseteq 1 .. last
    BY <1>1, <1>7 DEF Allocate, Shape
  <2>2. last' \in Obj /\ last \in Nat /\ last' \notin heap /\ heap \subseteq Obj
    BY <1>1, <2>1, BoundAssumption DEF Shape, Obj
  <2>3. l # None => l \in R /\ l \in heap /\ kind[l] = "class"
    <3>1. k \in Kind /\ k # "cell"
      BY FeatureAssumption DEF Plain
    <3>2. l # None => l \in ClassesInHand
      BY <2>1, <3>1 DEF LinkChoices, Kind
    <3>3. QED
      BY <1>1, <3>2, ReachFacts DEF ClassesInHand, InHand, Alive
  <2>4. l # None => l < last' /\ kind'[l] = "class" /\ l # last'
    BY <1>1, <2>1, <2>2, <2>3 DEF Shape
  <2>5. \A i \in Obj : i # last' => kind'[i] = kind[i] /\ link'[i] = link[i]
    BY <1>1, <2>1 DEF Shape
  <2>6. kind'[last'] = k /\ link'[last'] = l
    BY <1>1, <2>1, <2>2 DEF Shape
  <2>7. Linked'
    <3>1. SUFFICES ASSUME NEW i \in Obj, kind'[i] \in {"class", "instance"}, link'[i] # None
                   PROVE  kind'[link'[i]] = "class" /\ link'[i] < i
      BY DEF Linked
    <3>2. CASE i = last'
      BY <2>4, <2>6, <3>1, <3>2
    <3>3. CASE i # last'
      <4>1. link[i] # None /\ kind[link[i]] = "class" /\ link[i] < i /\ link[i] \in Obj
        BY <1>1, <2>5, <3>1, <3>3 DEF Linked, LInv, Shape
      <4>2. i <= last
        BY <1>1, <2>2, <3>3, <4>1 DEF Shape, Obj
      <4>3. link[i] # last'
        BY <2>1, <2>2, <4>1, <4>2 DEF Obj
      <4>4. QED
        BY <2>5, <3>3, <4>1, <4>3
    <3>4. QED
      BY <3>2, <3>3
  <2>8. Bases'
    <3>1. SUFFICES ASSUME NEW i \in heap', kind'[i] \in {"class", "instance"},
                          link'[i] \notin carried \cup {None}
                   PROVE  Outlives(link[i], i)'
      BY <1>4 DEF Bases
    <3>2. CASE i = last'
      <4>1. l \in heap' /\ l \notin second
        BY <1>1, <2>1, <2>3, <2>6, <3>1, <3>2 DEF Fresh, LInv
      <4>2. QED
        BY <1>3, <2>1, <2>6, <3>2, <4>1 DEF Outlives
    <3>3. CASE i # last'
      <4>1. i \in heap /\ kind'[i] = kind[i] /\ link'[i] = link[i]
        BY <2>1, <2>2, <2>5, <3>1, <3>3
      <4>2. Outlives(link[i], i)
        BY <3>1, <4>1 DEF LInv, Bases
      <4>3. QED
        BY <1>1, <1>3, <2>1, <4>1, <4>2 DEF Outlives
    <3>4. QED
      BY <3>2, <3>3
  <2>9. QED
    BY <2>7, <2>8
<1>8. CASE \E o \in Obj : FinishGenerator(o)
  BY <1>1, <1>8, PlainSuccessors DEF FinishGenerator
<1>9. CASE \A k \in Kinds, l \in Obj \cup {None} : ~Allocate(k, l)
  <2>1. kind' = kind /\ link' = link /\ heap' = heap
    BY <1>8, <1>9, <1>1, PlainSuccessors
    DEF Mutate, AllocateOther, Intern, Load, ListSubclasses, Hold, Return, Exit, Push, Pop,
        FinishGenerator, Store, SetClass, heapVars
  <2>2. QED
    BY <1>6, <2>1
<1>10. QED
  BY <1>5, <1>7, <1>9

\* An object freed in a sweep that something else on the list refers to has
\* been carried over a collection.
LEMMA LinkedSweep ==
  ASSUME Plain, LInv, NEW o \in Obj, SweepKeep(o) \/ SweepFree(o)
  PROVE  (Linked /\ Fresh /\ Bases)'
<1>1. Shape /\ Alive /\ Sweeping /\ IInv /\ pc = "sweep"
  BY DEF LInv, IInv, SweepKeep, SweepFree
<1>2. /\ o \in todo /\ (\A x \in todo : x <= o) /\ todo' = todo \ {o} /\ pc' = pc
      /\ kind' = kind /\ carried' = carried
      /\ \A u \in Obj \ {o} : (u \in second' <=> u \in second) /\ (u \in marked' <=> u \in marked)
  BY DEF SweepKeep, SweepFree, Newest, Free, heapVars, history
<1>3. \/ /\ heap' = heap /\ link' = link /\ R' = R
         /\ o \in marked \/ o \notin second
         /\ o \in second' <=> o \notin marked
      \/ /\ heap' = heap \ {o} /\ \A u \in Obj \ {o} : link'[u] = link[u]
         /\ link'[o] = None
         /\ o \notin second' /\ o \notin marked /\ o \in second
  <2>1. CASE SweepKeep(o)
    BY <2>1, SameHeap DEF SweepKeep, Doomed, heapVars
  <2>2. CASE SweepFree(o)
    <3>1. Cells(o) = {} /\ kind[o] # "cell"
      BY <1>1, PlainSuccessors DEF Shape
    <3>2. \A u \in Obj \ {o} : link'[u] = link[u]
      BY <2>2, <3>1 DEF SweepFree, Free
    <3>3. QED
      BY <2>2, <3>1, <3>2 DEF SweepFree, Doomed, Free
  <2>3. QED
    BY <2>1, <2>2
<1>4. R' \subseteq R
  <2>1. CASE SweepKeep(o)
    BY <2>1, SameHeap DEF SweepKeep, heapVars
  <2>2. CASE SweepFree(o)
    <3>1. o \notin R
      BY <1>1, <2>2 DEF Sweeping, SweepFree, Newest, Doomed
    <3>2. Shape' /\ \A u \in Obj \ {o} : ref'[u] = ref[u] /\ link'[u] = link[u]
      BY <1>1, <2>2, FreeEffect DEF SweepFree
    <3>3. (Roots \cup held)' \subseteq R
      BY <1>1, <2>2, ReachFacts DEF SweepFree, Roots, mutator
    <3>4. \A u \in R : ref'[u] \in R \cup {None} /\ link'[u] \in R \cup {None}
      BY <1>1, <3>1, <3>2, ReachFacts
    <3>5. QED
      BY <1>1, <3>2, <3>3, <3>4, ReachFacts, ReachAfter
  <2>3. QED
    BY <2>1, <2>2
<1>5. heap \subseteq Obj /\ R \subseteq Obj /\ second \subseteq heap
  BY <1>1, ReachFacts, BoundAssumption DEF Shape, Obj, Alive
<1>6. Linked'
  <2>1. SUFFICES ASSUME NEW i \in Obj, kind'[i] \in {"class", "instance"}, link'[i] # None
                 PROVE  kind'[link'[i]] = "class" /\ link'[i] < i
    BY DEF Linked
  <2>2. link'[i] = link[i]
    BY <1>3, <2>1
  <2>3. QED
    BY <1>2, <2>1, <2>2 DEF LInv, Linked
<1>7. Fresh'
  <2>1. R' \cap second' \subseteq carried
    BY <1>1, <1>2, <1>3, <1>4, <1>5 DEF LInv, Fresh
  <2>2. R' \cap todo' \subseteq marked' \cup carried
    BY <1>1, <1>2, <1>4, <1>5 DEF LInv, Fresh
  <2>3. QED
    BY <1>1, <1>2, <2>1, <2>2 DEF Fresh
<1>8. Bases'
  <2>1. SUFFICES ASSUME NEW i \in heap', kind'[i] \in {"class", "instance"},
                        link'[i] \notin carried \cup {None}
                 PROVE  Outlives(link[i], i)'
    BY <1>2 DEF Bases
  <2>2. i \in heap /\ kind[i] \in {"class", "instance"} /\ link'[i] = link[i] /\ i \in Obj
    BY <1>2, <1>3, <1>5, <2>1
  <2> DEFINE c == link[i]
  <2>3. Outlives(c, i)
    BY <2>1, <2>2 DEF LInv, Bases
  <2>4. c \in heap /\ c \in Obj /\ c < i
    BY <1>1, <1>5, <2>1, <2>2, <2>3 DEF Outlives, LInv, Linked
  <2>5. /\ i \in todo => c \in todo /\ (c \in second => i \in second) /\ (i \in marked => c \in marked)
        /\ i \notin todo /\ c \in todo => c \in marked \/ (c \notin second /\ i \in second)
        /\ i \notin todo /\ c \notin todo => (c \in second => i \in second)
    BY <1>1, <2>3 DEF Outlives
  <2>6. c # i /\ (c = o => i \notin todo)
    BY <1>2, <2>2, <2>4 DEF Obj
  <2> HIDE DEF c
  <2>7. /\ i \in todo' => c \in todo' /\ (c \in second' => i \in second') /\ (i \in marked' => c \in marked')
        /\ i \notin todo' /\ c \in todo' => c \in marked' \/ (c \notin second' /\ i \in second')
        /\ i \notin todo' /\ c \notin todo' => (c \in second' => i \in second')
        /\ c \in heap'
    <3>1. CASE i = o
      BY <1>2, <1>3, <2>1, <2>2, <2>4, <2>5, <2>6, <3>1
    <3>2. CASE c = o
      BY <1>2, <1>3, <2>1, <2>2, <2>4, <2>5, <2>6, <3>2
    <3>3. CASE i # o /\ c # o
      BY <1>2, <1>3, <2>1, <2>2, <2>4, <2>5, <2>6, <3>3
    <3>4. QED
      BY <3>1, <3>2, <3>3
  <2>8. QED
    BY <1>1, <1>2, <2>2, <2>7 DEF Outlives, c
<1>9. QED
  BY <1>6, <1>7, <1>8

LEMMA LinkedNext ==
  ASSUME Plain, ~Reclassing, LInv, [Next]_vars
  PROVE  LInv'
<1> SUFFICES (Linked /\ Fresh /\ Bases)'
  BY NextInv DEF LInv
<1>1. Shape /\ IInv
  BY DEF LInv, IInv
<1>2. CASE Collect
  <2>1. /\ pc = "run" /\ pc' = "mark" /\ carried \subseteq carried' /\ UNCHANGED second
        /\ UNCHANGED <<last, heap, kind, link, ref, mutator>>
    BY <1>2 DEF Collect, heapVars
  <2>2. R' = R
    BY <2>1, SameHeap
  <2>3. Linked' /\ Fresh'
    BY <2>1, <2>2 DEF LInv, Linked, Fresh
  <2>4. ASSUME NEW i \in heap, kind[i] \in {"class", "instance"}, link[i] \notin carried' \cup {None}
        PROVE  Outlives(link[i], i)'
    <3>1. Outlives(link[i], i)
      BY <2>1, <2>4 DEF LInv, Bases
    <3>2. QED
      BY <2>1, <3>1 DEF Outlives
  <2>5. Bases'
    BY <2>1, <2>4 DEF Bases
  <2>6. QED
    BY <2>3, <2>5
<1>3. CASE Prune
  <2>1. /\ pc = "mark" /\ pc' = "sweep" /\ todo' = heap /\ gray = {} /\ IInv'
        /\ UNCHANGED <<last, heap, kind, link, ref, mutator, marked, second, carried>>
    BY <1>1, <1>3, PruneKeeps DEF Prune, history
  <2>2. R' = R
    BY <2>1, SameHeap
  <2>3. R \subseteq marked \cup carried
    <3>1. Marking /\ Alive /\ marked \in SUBSET Obj
      <4>1. Marking /\ Alive
        BY <1>1, <2>1 DEF IInv
      <4>2. QED
        BY <1>1, <4>1, BoundAssumption DEF Alive, Shape, Obj
    <3>2. ClosedUnder(Successors, marked)
      BY <1>1, <2>1, <3>1, PlainSuccessors DEF Marking, ClosedUnder
    <3>3. Roots \in SUBSET Obj /\ Successors \in SuccFun
      BY <1>1, ReachFacts, PlainSuccessors
    <3>4. Reach(Roots) \subseteq marked
      BY <3>1, <3>2, <3>3, ReachLeast DEF Marking, Reach
    <3>5. QED
      BY <1>1, <3>1, <3>4, ReachFacts DEF Marking
  <2>4. Linked' /\ Fresh'
    BY <2>1, <2>2, <2>3 DEF LInv, Linked, Fresh
  <2>5. ASSUME NEW i \in heap, kind[i] \in {"class", "instance"}, link[i] \notin carried \cup {None}
        PROVE  Outlives(link[i], i)'
    <3>1. Outlives(link[i], i)
      BY <2>5 DEF LInv, Bases
    <3>2. i \in marked => link[i] \in marked
      <4>1. i \in marked => Marks(i) \subseteq marked
        BY <1>1, <2>1 DEF IInv, Marking
      <4>2. link[i] \in Marks(i)
        BY <2>5 DEF Marks, Optional
      <4>3. QED
        BY <4>1, <4>2
    <3>3. QED
      BY <2>1, <2>5, <3>1, <3>2 DEF Outlives
  <2>6. Bases'
    BY <2>1, <2>5 DEF Bases
  <2>7. QED
    BY <2>4, <2>6
<1>4. CASE EndCollect \/ (\E o \in Obj : Blacken(o)) \/ UNCHANGED vars
  <2>1. /\ UNCHANGED <<last, heap, kind, link, ref, mutator, carried, second, todo>>
        /\ UNCHANGED <<pc, marked>> \/ (pc = "mark" /\ pc' = "mark")
           \/ (pc = "sweep" /\ pc' = "run" /\ todo = {})
    BY <1>4 DEF EndCollect, Blacken, vars, heapVars, mutator, collector, history
  <2>2. R' = R
    BY <2>1, SameHeap
  <2>3. Linked' /\ Fresh'
    BY <2>1, <2>2 DEF LInv, Linked, Fresh
  <2>4. ASSUME NEW i \in heap, kind[i] \in {"class", "instance"}, link[i] \notin carried \cup {None}
        PROVE  Outlives(link[i], i)'
    <3>1. Outlives(link[i], i)
      BY <2>4 DEF LInv, Bases
    <3>2. QED
      BY <2>1, <3>1 DEF Outlives
  <2>5. Bases'
    BY <2>1, <2>4 DEF Bases
  <2>6. QED
    BY <2>3, <2>5
<1>5. ASSUME NEW o \in Obj, ExitInstances(o) \/ ExitRest(o)
      PROVE  (Linked /\ Fresh /\ Bases)'
  <2>1. /\ pc' \in {"exit instances", "exit rest"} /\ o \in heap
        /\ pc' = "exit instances" => pc = "exit instances" /\ kind[o] \in {"instance", "generator"}
        /\ Free(o) /\ UNCHANGED mutator /\ carried' = carried
    BY <1>5 DEF ExitInstances, ExitRest, Newest, Oldest, InstancesLeft, history
  <2>2. /\ heap' = heap \ {o} /\ kind' = kind
        /\ \A u \in Obj \ {o} : link'[u] = link[u]
    BY <1>1, <2>1, FreeEffect
  <2>3. link'[o] = None /\ heap \subseteq Obj
    <3>1. kind[o] # "cell"
      BY <1>1 DEF Shape
    <3>2. link'[o] = None
      BY <2>1, <3>1 DEF Free
    <3>3. QED
      BY <1>1, <3>2, BoundAssumption DEF Shape, Obj
  <2>4. Linked'
    <3>1. SUFFICES ASSUME NEW i \in Obj, kind'[i] \in {"class", "instance"}, link'[i] # None
                   PROVE  kind'[link'[i]] = "class" /\ link'[i] < i
      BY DEF Linked
    <3>2. link'[i] = link[i]
      BY <2>2, <2>3, <3>1
    <3>3. QED
      BY <2>2, <3>1, <3>2 DEF LInv, Linked
  <2>5. ASSUME NEW i \in heap', kind'[i] \in {"class", "instance"}, link'[i] \notin carried \cup {None},
               pc' = "exit instances", kind'[i] = "instance"
        PROVE  link'[i] \in heap'
    <3>1. i \in heap /\ i \in Obj /\ link'[i] = link[i] /\ kind[i] = "instance" /\ pc = "exit instances"
      BY <2>1, <2>2, <2>3, <2>5
    <3>2. link[i] \in heap /\ kind[link[i]] = "class"
      BY <2>5, <3>1 DEF LInv, Bases, Outlives, Linked
    <3>3. link[i] # o
      BY <2>1, <2>5, <3>2
    <3>4. QED
      BY <2>2, <3>1, <3>2, <3>3
  <2>6. Fresh' /\ Bases'
    BY <2>1, <2>5 DEF Fresh, Bases, Outlives
  <2>7. QED
    BY <2>4, <2>6
<1>6. QED
  BY <1>2, <1>3, <1>4, <1>5, LinkedMutate, LinkedSweep DEF Next, Collecting, Exiting

\* Freeing an object reads its class or its base, which is still there, in a
\* sweep (newest first) and at the end of the program, unless native code has
\* kept that class over a collection in a C variable.  For programs that
\* assign no __class__, call no __subclasses__ and capture no local of a
\* suspended generator.
THEOREM FreeReadsLive == ASSUME Plain, ~Reclassing PROVE Spec => SweepReadsLive
<1>1. Init => LInv
  <2> SUFFICES ASSUME Init
               PROVE  LInv
    OBVIOUS
  <2>1. IInv
    BY InitInv
  <2>2. Linked /\ Fresh /\ Bases
    BY DEF Init, Linked, Fresh, Bases
  <2>3. QED
    BY <2>1, <2>2 DEF LInv
<1>2. LInv /\ [Next]_vars => LInv'
  BY LinkedNext
<1>3. ASSUME LInv, [Next]_vars
      PROVE  [ \A o \in heap \ heap' : Touched(o) \subseteq heap \cup carried ]_vars
  <2> SUFFICES ASSUME NEW o \in heap, o \notin heap'
               PROVE  Touched(o) \subseteq heap \cup carried
    OBVIOUS
  <2>1. Shape
    BY <1>3 DEF LInv, IInv
  <2>2. PICK u \in Obj : SweepFree(u) \/ ExitInstances(u) \/ ExitRest(u)
    <3>1. heap' # heap
      OBVIOUS
    <3>2. CASE Mutate
      BY <3>2, MutateAges
    <3>3. CASE ~Mutate
      BY <1>3, <3>1, <3>3
      DEF Next, Collect, Collecting, Exiting, Blacken, SweepKeep, Prune, EndCollect, vars, heapVars
    <3>4. QED
      BY <3>2, <3>3
  <2>3. o = u
    BY <2>2 DEF SweepFree, ExitInstances, ExitRest, Free
  <2>4. Cells(o) = {} /\ o \in Obj
    BY <2>1, <2>3, PlainSuccessors
  <2>5. ASSUME kind[o] \in {"class", "instance"}, link[o] \notin carried \cup {None},
               pc = "sweep" \/ (pc = "exit instances" /\ kind[o] = "instance")
        PROVE  link[o] \in heap
    BY <1>3, <2>5 DEF LInv, Bases, Outlives
  <2>6. CASE ExitRest(u)
    <3>1. kind[o] # "instance" /\ pc # "sweep"
      BY <2>3, <2>6 DEF ExitRest, InstancesLeft
    <3>2. QED
      BY <2>4, <3>1 DEF Touched
  <2>7. CASE SweepFree(u) \/ ExitInstances(u)
    <3>1. pc = "sweep" \/ pc = "exit instances"
      BY <2>7 DEF SweepFree, ExitInstances
    <3>2. CASE kind[o] = "instance"
      BY <2>5, <3>1, <3>2 DEF Touched, Optional
    <3>3. CASE kind[o] = "class" /\ pc = "sweep"
      BY <2>5, <3>3 DEF Touched, Optional
    <3>4. CASE kind[o] # "instance" /\ ~(kind[o] = "class" /\ pc = "sweep")
      BY <2>4, <3>4 DEF Touched
    <3>5. QED
      BY <3>2, <3>3, <3>4
  <2>8. QED
    BY <2>2, <2>6, <2>7
<1>4. QED
  BY <1>1, <1>2, <1>3, PTL DEF Spec, SweepReadsLive
=============================================================================
