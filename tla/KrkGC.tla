-------------------------------- MODULE KrkGC --------------------------------
(***************************************************************************)
(* The heap and its collector: src/src/memory.c, with what object.c,       *)
(* obj_gen.c, obj_base.c and builtins.c do to objects that matters to it.  *)
(*                                                                         *)
(* Objects are numbered in the order they are allocated, so the list       *)
(* vm.objects, which new objects are pushed onto, is the heap from the     *)
(* largest number down.  A collection marks what the roots reach, takes    *)
(* the other strings out of the intern table, and sweeps the list: an      *)
(* unmarked object is freed if it already has the SECOND_CHANCE flag and   *)
(* gets the flag otherwise.  The grace is for native code, which keeps     *)
(* objects in C variables ("held") where no root sees them.                *)
(*                                                                         *)
(* Collections start from allocations on the main thread; while one runs   *)
(* that thread does nothing else.  Other threads are not modelled here.    *)
(***************************************************************************)
EXTENDS Integers, FiniteSets

CONSTANTS
  MaxObj,        \* bound of the model: how many objects are ever allocated
  Kinds,         \* the kinds of objects the program uses
  Reclassing,    \* does it assign to __class__ of an instance?
  Subclasses     \* does it call __subclasses__?

\* "cell" is a KrkUpvalue that captures a local of a suspended generator;
\* "instance" stands for every object that refers to a class and to values.
Kind == {"string", "class", "instance", "generator", "cell"}

ASSUME BoundAssumption == MaxObj \in Nat
ASSUME FeatureAssumption == Kinds \subseteq Kind /\ {Reclassing, Subclasses} \subseteq BOOLEAN

Obj == 1 .. MaxObj
None == 0

VARIABLES
  heap,      \* the objects on the list vm.objects
  last,      \* the newest object ever
  scratch,   \* scratchSpace[2]: the newest object, which this makes a root
  kind,
  link,      \* instance: its class, None standing for a built-in one; class:
             \* its base; cell: the suspended generator whose local it is
  ref,       \* one more reference: a field, a closed-over value, a saved local
  roots,     \* objects on the stacks, in the modules and the VM's own tables
  held,      \* other objects in C variables of native code that is running
  pool,      \* the string in vm.strings; all strings here have one text
  pc,        \* "run", "mark", "sweep", "exit instances", "exit rest"
  marked, second,  \* the flags IS_MARKED and SECOND_CHANCE
  gray,      \* vm.grayStack
  todo,      \* the part of the list the sweep has not visited
  lapses,    \* history: how many collections in a row found it unreachable
  carried    \* history: objects only C variables kept over a collection

heapVars == <<heap, last, kind, link, ref, pool>>
mutator == <<scratch, roots, held>>
collector == <<marked, second, gray, todo>>
history == <<lapses, carried>>
vars == <<heapVars, mutator, pc, collector, history>>

Optional(o) == {o} \ {None}
Cells(g) == {u \in Obj : kind[u] = "cell" /\ link[u] = g}

-----------------------------------------------------------------------------
(* What the program can reach.                                             *)

\* What a program gets at from o in one step.  The value of a captured local
\* is read through its cell, wherever it is stored; a generator that goes on
\* may capture the local once more, in the same cell.
Successors ==
  [o \in Obj |->
     CASE kind[o] = "cell" /\ link[o] # None -> Optional(ref[link[o]])
       [] kind[o] = "generator" -> Optional(ref[o]) \cup Cells(o)
       [] OTHER -> Optional(ref[o]) \cup Optional(link[o])]

ClosedUnder(succ, S) == \A o \in S : succ[o] \subseteq S

\* What is in every closed set that S is in.
ReachBy(succ, S) ==
  {o \in Obj : \A T \in SUBSET Obj : S \subseteq T /\ ClosedUnder(succ, T) => o \in T}

Reach(S) == ReachBy(Successors, S)

\* markRoots: stacks, modules, the VM's tables, and the scratch slot.
Roots == roots \cup Optional(scratch)

-----------------------------------------------------------------------------
(* The program.                                                            *)

Init ==
  /\ heap = {} /\ last = 0 /\ scratch = None
  /\ kind = [o \in Obj |-> "instance"]
  /\ link = [o \in Obj |-> None]
  /\ ref = [o \in Obj |-> None]
  /\ roots = {} /\ held = {} /\ pool = {}
  /\ pc = "run"
  /\ marked = {} /\ second = {} /\ gray = {} /\ todo = {}
  /\ lapses = [o \in Obj |-> 0]
  /\ carried = {}

\* Native code works on what the stack and its own variables hold.
InHand == Roots \cup held
ClassesInHand == {c \in InHand : kind[c] = "class"}
GeneratorsInHand == {g \in InHand : kind[g] = "generator"}

\* What a new object of kind k may be linked to.
LinkChoices(k) ==
  CASE k = "class" -> ClassesInHand \cup {None}
    [] k = "instance" -> ClassesInHand \cup {None}
    [] k = "cell" -> GeneratorsInHand
    [] OTHER -> {None}

\* allocateObject, for krk_newClass, krk_newInstance, krk_buildGenerator,
\* krk_newUpvalue and, when the text is not interned, allocateString.
Allocate(k, l) ==
  /\ pc = "run"
  /\ last < MaxObj
  /\ k = "string" => pool = {}
  /\ l \in LinkChoices(k)
  /\ last' = last + 1 /\ scratch' = last'
  /\ heap' = heap \cup {last'}
  /\ kind' = [kind EXCEPT ![last'] = k]
  /\ link' = [link EXCEPT ![last'] = l]
  /\ held' = held \cup {last'}
  /\ pool' = IF k = "string" THEN {last'} ELSE pool
  /\ UNCHANGED <<ref, roots, pc, collector, history>>

\* An allocation outside the MaxObj objects that are told apart.
AllocateOther ==
  /\ pc = "run"
  /\ scratch # None
  /\ scratch' = None
  /\ UNCHANGED <<heapVars, roots, held, pc, collector, history>>

Hold(S) ==
  /\ pc = "run"
  /\ held' = held \cup (S \ roots)
  /\ UNCHANGED <<heapVars, scratch, roots, pc, collector, history>>

\* krk_takeString and krk_copyString for a text that is interned.
Intern == pool # {} /\ Hold(pool)

\* Any way to follow a reference.
Load(o) == o \in InHand /\ Hold(Successors[o])

\* type.__subclasses__: the registry does not keep a subclass alive, but
\* hands it out as long as it has not been freed.
ListSubclasses(c) ==
  /\ Subclasses
  /\ c \in ClassesInHand
  /\ Hold({s \in heap : kind[s] = "class" /\ link[s] = c})

\* A value in a C variable goes to the stack, or into a module.
Push(o) ==
  /\ pc = "run"
  /\ o \in held
  /\ roots' = roots \cup {o}
  /\ held' = held \ {o}
  /\ UNCHANGED <<heapVars, scratch, pc, collector, history>>

\* krk_pop: the value is in a C variable now.
Pop(o) ==
  /\ pc = "run"
  /\ o \in roots
  /\ roots' = roots \ {o}
  /\ held' = held \cup {o}
  /\ UNCHANGED <<heapVars, scratch, pc, collector, history>>

\* The native function returns; its C variables are gone.
Return ==
  /\ pc = "run"
  /\ held # {}
  /\ held' = {}
  /\ UNCHANGED <<heapVars, scratch, roots, pc, collector, history>>

\* An assignment to a field, a method table, or a captured variable; one to
\* a local that lives in a suspended generator is made there.
Store(p, o) ==
  /\ pc = "run"
  /\ p \in InHand /\ kind[p] # "string"
  /\ o \in InHand \cup {None}
  /\ ref' = [ref EXCEPT ![IF kind[p] = "cell" /\ link[p] # None THEN link[p] ELSE p] = o]
  /\ UNCHANGED <<heap, last, kind, link, pool, mutator, pc, collector, history>>

\* object.__class__ with an argument
SetClass(i, c) ==
  /\ pc = "run"
  /\ Reclassing
  /\ i \in InHand /\ kind[i] = "instance"
  /\ c \in ClassesInHand
  /\ link' = [link EXCEPT ![i] = c]
  /\ UNCHANGED <<heap, last, kind, ref, pool, mutator, pc, collector, history>>

\* _set_generator_done: the generator ran to its end; every captured local
\* moves into its cell.
FinishGenerator(g) ==
  /\ pc = "run"
  /\ g \in GeneratorsInHand
  /\ Cells(g) # {}
  /\ ref' = [u \in Obj |-> IF u \in Cells(g) THEN ref[g] ELSE ref[u]]
  /\ link' = [u \in Obj |-> IF u \in Cells(g) THEN None ELSE link[u]]
  /\ UNCHANGED <<heap, last, kind, pool, mutator, pc, collector, history>>
-----------------------------------------------------------------------------
(* The collector.                                                          *)

\* blackenObject, with the _ongcscan of generators: instances mark their
\* class, classes their base, generators their saved locals and the cells
\* captured from them, cells only the value moved into them.
Marks(o) ==
  CASE kind[o] \in {"class", "instance"} -> Optional(ref[o]) \cup Optional(link[o])
    [] kind[o] = "generator" -> Optional(ref[o]) \cup Cells(o)
    [] OTHER -> Optional(ref[o])

\* Objects that live in C variables only.
Unrooted == Reach(held) \ Reach(Roots)

\* The discipline native code must keep: what only a C variable holds has
\* not been through a collection yet.
HeldOnce == Unrooted \cap second = {}

\* krk_collectGarbage starts, from krk_reallocate or gc.collect.
Collect ==
  /\ pc = "run"
  /\ HeldOnce
  /\ pc' = "mark"
  /\ marked' = Roots
  /\ gray' = Roots
  /\ lapses' = [o \in Obj |-> IF o \in Reach(Roots) \/ o \notin heap THEN 0 ELSE lapses[o] + 1]
  /\ carried' = carried \cup Unrooted
  /\ UNCHANGED <<heapVars, mutator, second, todo>>

\* Mutants: krk_markObject does not push the object on the gray stack; it
\* does not look at the mark.
Blacken_Shallow(o) ==
  /\ pc = "mark"
  /\ o \in gray
  /\ marked' = marked \cup Marks(o)
  /\ gray' = gray \ {o}
  /\ UNCHANGED <<heapVars, mutator, pc, second, todo, history>>

Blacken_Again(o) ==
  /\ pc = "mark"
  /\ o \in gray
  /\ marked' = marked \cup Marks(o)
  /\ gray' = (gray \ {o}) \cup Marks(o)
  /\ UNCHANGED <<heapVars, mutator, pc, second, todo, history>>

\* One turn of traceReferences.
Blacken(o) ==
  /\ pc = "mark"
  /\ o \in gray
  /\ marked' = marked \cup Marks(o)
  /\ gray' = (gray \ {o}) \cup (Marks(o) \ marked)
  /\ UNCHANGED <<heapVars, mutator, pc, second, todo, history>>

\* Mutants: every string leaves the table; no string does.
StringsKept_None == {}
StringsKept_All == pool

\* tableRemoveWhite: strings nobody marked leave the intern table.
StringsKept == pool \cap marked

Prune ==
  /\ pc = "mark"
  /\ gray = {}
  /\ pc' = "sweep"
  /\ pool' = StringsKept
  /\ todo' = heap
  /\ UNCHANGED <<heap, last, kind, link, ref, mutator, marked, second, gray, history>>

Oldest(o, S) == o \in S /\ \A x \in S : o <= x

\* Mutant: the sweep starts from the oldest object.
Newest_Oldest(o, S) == Oldest(o, S)

\* The list vm.objects has the newest object first.
Newest(o, S) == o \in S /\ \A x \in S : x <= o

\* Mutant: no second chance.
Doomed_AtOnce(o) == o \notin marked

Doomed(o) == o \notin marked /\ o \in second

\* Mutant: an unmarked object is left on the list without the flag.
SweepKeep_NoFlag(o) ==
  /\ pc = "sweep"
  /\ Newest(o, todo)
  /\ ~Doomed(o)
  /\ todo' = todo \ {o}
  /\ marked' = marked \ {o}
  /\ second' = second \ {o}
  /\ UNCHANGED <<heapVars, mutator, pc, gray, history>>

\* The sweep leaves an object on the list: a marked one without its flags,
\* an unmarked one with a second chance.
SweepKeep(o) ==
  /\ pc = "sweep"
  /\ Newest(o, todo)
  /\ ~Doomed(o)
  /\ todo' = todo \ {o}
  /\ marked' = marked \ {o}
  /\ second' = IF o \in marked THEN second \ {o} ELSE second \cup {o}
  /\ UNCHANGED <<heapVars, mutator, pc, gray, history>>

\* freeObject, with the _ongcsweep of generators, which moves the captured
\* locals into their cells.  What a freed object referred to is forgotten; a
\* freed cell is still on the list of the generator it was captured from.
Free(o) ==
  /\ heap' = heap \ {o}
  /\ ref' = [u \in Obj |-> IF u = o THEN None ELSE IF u \in Cells(o) THEN ref[o] ELSE ref[u]]
  /\ link' = [u \in Obj |-> IF u \in Cells(o) \/ (u = o /\ kind[o] # "cell") THEN None ELSE link[u]]
  /\ UNCHANGED <<last, kind, pool>>

SweepFree(o) ==
  /\ pc = "sweep"
  /\ Newest(o, todo)
  /\ Doomed(o)
  /\ Free(o)
  /\ todo' = todo \ {o}
  /\ second' = second \ {o}
  /\ UNCHANGED <<mutator, pc, marked, gray, history>>

EndCollect ==
  /\ pc = "sweep"
  /\ todo = {}
  /\ pc' = "run"
  /\ UNCHANGED <<heapVars, mutator, collector, history>>

-----------------------------------------------------------------------------
(* krk_freeVM: krk_freeObjects frees the instances, newest first, then     *)
(* everything else, oldest first.                                          *)

InstancesLeft == {o \in heap : kind[o] \in {"instance", "generator"}}

Exit ==
  /\ pc = "run"
  /\ pc' = "exit instances"
  /\ scratch' = None /\ roots' = {} /\ held' = {}
  /\ UNCHANGED <<heapVars, collector, history>>

ExitInstances(o) ==
  /\ pc = "exit instances"
  /\ Newest(o, InstancesLeft)
  /\ Free(o)
  /\ UNCHANGED <<mutator, pc, collector, history>>

ExitRest(o) ==
  /\ InstancesLeft = {}
  /\ \/ pc = "exit instances"
     \/ pc = "exit rest"
  /\ pc' = "exit rest"
  /\ Oldest(o, heap)
  /\ Free(o)
  /\ UNCHANGED <<mutator, collector, history>>

-----------------------------------------------------------------------------
Mutate ==
  \/ \E k \in Kinds, l \in Obj \cup {None} : Allocate(k, l)
  \/ AllocateOther
  \/ Intern
  \/ Return
  \/ Exit
  \/ \E o \in Obj :
       \/ Load(o)
       \/ ListSubclasses(o)
       \/ Push(o)
       \/ Pop(o)
       \/ FinishGenerator(o)
       \/ \E p \in Obj \cup {None} : Store(o, p)
       \/ \E c \in Obj : SetClass(o, c)

Collecting ==
  \/ \E o \in Obj : Blacken(o) \/ SweepKeep(o) \/ SweepFree(o)
  \/ Prune
  \/ EndCollect

Exiting == \E o \in Obj : ExitInstances(o) \/ ExitRest(o)

Next == Mutate \/ Collect \/ Collecting \/ Exiting

Spec == Init /\ [][Next]_vars

\* A thread that is in the collector goes on with it.
FairSpec == Spec /\ WF_vars(Collecting)

-----------------------------------------------------------------------------
(* Properties.                                                             *)

\* Marks, flags and lists are about objects that have been allocated and
\* not freed, the intern table included.
TypeOK ==
  /\ heap \subseteq 1 .. last /\ last \in 0 .. MaxObj /\ scratch \in 0 .. last
  /\ kind \in [Obj -> Kind]
  /\ link \in [Obj -> Obj \cup {None}] /\ ref \in [Obj -> Obj \cup {None}]
  /\ roots \subseteq Obj /\ held \subseteq Obj
  /\ pc \in {"run", "mark", "sweep", "exit instances", "exit rest"}
  /\ pc \in {"run", "mark", "sweep"} =>
       /\ gray \subseteq marked /\ marked \subseteq heap
       /\ second \subseteq heap /\ todo \subseteq heap
       /\ pool \subseteq {o \in heap : kind[o] = "string"}
  /\ Cardinality(pool) <= 1

\* The program never reaches an object that has been freed.
NoDangling ==
  pc \in {"run", "mark", "sweep"} => Reach(Roots \cup held) \subseteq heap

\* What freeObject reads besides the object itself: the class of an
\* instance, the cells of a generator, and the base of a class, which
\* krk_freeObjects clears before it frees classes.
Touched(o) ==
  CASE kind[o] = "instance" -> Optional(link[o])
    [] kind[o] = "generator" -> Cells(o)
    [] kind[o] = "class" /\ pc = "sweep" -> Optional(link[o])
    [] OTHER -> {}

\* freeObject reads nothing that has been freed before, in a sweep or at the
\* end of the program.  (An object that only C variables kept over a
\* collection has used its second chance, and new objects that refer to it
\* outlive it; native code must not do that.)
SweepReadsLive ==
  [][ \A o \in heap \ heap' : Touched(o) \subseteq heap \cup carried ]_vars

\* An object is freed only when two collections in a row have found it
\* unreachable, however often the program dropped and regained it.
FreedWhenDead ==
  [][ pc = "sweep" => \A o \in heap \ heap' : lapses[o] >= 2 ]_vars

\* And the second one does free it: no garbage survives two collections.
GarbageGoes == pc = "run" => \A o \in heap : lapses[o] < 2

\* The intern table never hands out a string that the next collection might
\* free, whatever the program does with it.
InternedIsFresh == pc = "run" => pool \cap second = {}

\* Strings are compared by identity: there are no two objects with the same
\* text, unless native code carried one over a collection in a C variable.
OneObjectPerText ==
  pc \in {"run", "mark", "sweep"} =>
    \A s, t \in Reach(Roots \cup held) \ carried :
      kind[s] = "string" /\ kind[t] = "string" => s = t

\* A collection that starts comes to its end, on cyclic structures too.
CollectionEnds == pc = "mark" ~> pc = "run"
=============================================================================
