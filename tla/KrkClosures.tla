----------------------------- MODULE KrkClosures ------------------------------
(***************************************************************************)
(* The variables of functions, closures and generators: vm.c captureUpvalue,*)
(* closeUpvalues, OP_CLOSURE, OP_RETURN, OP_YIELD and handleException, and *)
(* obj_gen.c.                                                              *)
(*                                                                         *)
(* A local lives in a slot of the stack.  A closure that captures it gets  *)
(* an upvalue that points to the slot and is on the thread's list of open  *)
(* upvalues; when the slot is left, the value moves into the upvalue.  The *)
(* slots of a suspended generator are in its own array, where its upvalues *)
(* then point, and go back onto the stack, perhaps to another place, when  *)
(* it is resumed.                                                          *)
(*                                                                         *)
(* The program is any that the compiler could have compiled: the running   *)
(* frame takes any step it may take next.  "names" and "cell" are history: *)
(* which variable of the program each slot is for, and what the variable   *)
(* has been given.                                                         *)
(***************************************************************************)
EXTENDS Integers, SequencesExt

\* The sizes of the programs: bounds of the model on the variables, closures,
\* generators and stack a program ever has, the call depth (which is the size
\* of thread.frames), and whether it has try blocks.
CONSTANT Programs

ASSUME ProgramAssumption ==
  Programs \subseteq [variables : Nat, closures : Nat, generators : Nat, stack : Nat, depth : Nat, trying : BOOLEAN]

VARIABLES
  size,      \* the program
  stack,     \* the slots; location l of the code is entry l + 1 here
  frames,    \* [slots, closure, gen]: gen is the generator it runs, or 0
  open,      \* thread.openUpvalues, as a sequence of upvalues
  upvalues,  \* [location, closed, owner]: owner is a suspended generator or 0
  closures,  \* [upvalues, names]
  gens,      \* [status, args, captured, closure, names]
  raising,   \* KRK_THREAD_HAS_EXCEPTION
  names,     \* history: the variable each entry of the stack is for, or 0
  cell       \* history: the value of each variable

vars == <<size, stack, frames, open, upvalues, closures, gens, raising, names, cell>>

Value == {0, 1}
First == {0}     \* what variables start with
Handler == 2     \* OP_PUSH_TRY
Spent == 3       \* a handler that is running
Other == 4       \* a value that is not a variable's
Closed == -1

Main == [slots |-> 0, closure |-> 1, gen |-> 0]

Init == /\ size \in Programs /\ stack = <<>> /\ names = <<>> /\ frames = <<Main>>
        /\ open = <<>> /\ upvalues = <<>> /\ gens = <<>>
        /\ closures = [c \in 1 .. 2 |-> [upvalues |-> <<>>, names |-> <<>>]]  \* the main program and a function
        /\ raising = FALSE /\ cell = <<>>

Frame == frames[Len(frames)]
Slots == Frame.slots + 1 .. Len(stack)
Locals == {k \in Slots : names[k] # 0}
Captures == closures[Frame.closure]

\* *UPVALUE_LOCATION.
Read(u) == LET up == upvalues[u] IN
  IF up.location = Closed THEN up.closed
  ELSE IF up.owner = 0 THEN stack[up.location + 1] ELSE gens[up.owner].args[up.location + 1]

(***************************************************************************)
(* Upvalues.                                                               *)
(***************************************************************************)
\* The walk down the list, which goes from the newest slot to the oldest: how
\* many upvalues it passes before one below a location.
StopsAfter(n, location) ==
  /\ \A j \in 1 .. n : upvalues[open[j]].location >= location
  /\ n < Len(open) => upvalues[open[n + 1]].location < location
Passed(location) == CHOOSE n \in 0 .. Len(open) : StopsAfter(n, location)

\* Mutant: the list is not searched for the slot.
MutCapture(index) ==
  LET n == Passed(index + 1)
      new == Len(upvalues) + 1
  IN [upvalue |-> new, open |-> SubSeq(open, 1, n) \o <<new>> \o SubSeq(open, n + 1, Len(open)),
      upvalues |-> Append(upvalues, [location |-> index, closed |-> Other, owner |-> 0])]

\* captureUpvalue: the open upvalue for the slot, or a new one in its place
\* on the list.
Capture(index) ==
  LET n == Passed(index + 1)
      new == Len(upvalues) + 1
  IN IF n < Len(open) /\ upvalues[open[n + 1]].location = index
     THEN [upvalue |-> open[n + 1], open |-> open, upvalues |-> upvalues]
     ELSE [upvalue |-> new, open |-> SubSeq(open, 1, n) \o <<new>> \o SubSeq(open, n + 1, Len(open)),
           upvalues |-> Append(upvalues, [location |-> index, closed |-> Other, owner |-> 0])]

\* closeUpvalues: those on the front of the list, down to a location.
Closing(from) == SubSeq(open, 1, Passed(from))
Close(us, value(_)) == [u \in DOMAIN upvalues |->
  IF u \in us THEN [upvalues[u] EXCEPT !.closed = value(upvalues[u].location), !.location = Closed] ELSE upvalues[u]]

CloseUpvalues(last) ==
  /\ upvalues' = Close(ToSet(Closing(last)), LAMBDA l : stack[l + 1])
  /\ open' = SubSeq(open, Passed(last) + 1, Len(open))

\* The stack is cut off after n entries, and what it loses is closed.
Cut(n) == stack' = SubSeq(stack, 1, n) /\ names' = SubSeq(names, 1, n) /\ CloseUpvalues(n)

(***************************************************************************)
(* Locals and closures.                                                    *)
(***************************************************************************)
Named(value) == cell' = Append(cell, value)
Fresh == Len(cell) + 1
Room == Len(stack) < size.stack /\ Len(cell) < size.variables

Let(value) ==
  /\ Room /\ Named(value)
  /\ stack' = Append(stack, value) /\ names' = Append(names, Fresh)
  /\ UNCHANGED <<frames, open, upvalues, closures, gens, raising>>

Try ==
  /\ size.trying /\ Len(stack) < size.stack /\ \A k \in Slots : stack[k] # Handler
  /\ stack' = Append(stack, Handler) /\ names' = Append(names, 0)
  /\ UNCHANGED <<frames, open, upvalues, closures, gens, raising, cell>>

\* The end of a scope, or of a try: OP_POP, or OP_CLOSE_UPVALUE, OP_CLOSE_MANY
\* or OP_EXIT_LOOP for entries that a closure has captured.
Leave(n) ==
  /\ n \in Frame.slots .. Len(stack) - 1 /\ \A k \in n + 2 .. Len(stack) : stack[k] # Handler
  /\ Cut(n)
  /\ UNCHANGED <<frames, closures, gens, raising, cell>>

SetLocal(k, value) ==
  /\ k \in Locals /\ stack[k] # value
  /\ stack' = [stack EXCEPT ![k] = value] /\ cell' = [cell EXCEPT ![names[k]] = value]
  /\ UNCHANGED <<frames, open, upvalues, closures, gens, raising, names>>

SetUpvalue(j, value) ==
  LET u == Captures.upvalues[j]
      up == upvalues[u]
  IN /\ Read(u) # value
     /\ cell' = [cell EXCEPT ![Captures.names[j]] = value]
     /\ \/ /\ up.location = Closed
           /\ upvalues' = [upvalues EXCEPT ![u].closed = value] /\ UNCHANGED <<stack, gens>>
        \/ /\ up.location # Closed /\ up.owner = 0
           /\ stack' = [stack EXCEPT ![up.location + 1] = value] /\ UNCHANGED <<upvalues, gens>>
        \/ /\ up.location # Closed /\ up.owner # 0
           /\ gens' = [gens EXCEPT ![up.owner].args[up.location + 1] = value] /\ UNCHANGED <<stack, upvalues>>
     /\ UNCHANGED <<frames, open, closures, raising, names>>

\* OP_CLOSURE, for a function that uses a local of the function it is in or
\* a variable that one has captured itself.
Closure(k) ==
  LET c == Capture(k - 1)
  IN /\ k \in Locals /\ Len(closures) < size.closures
     /\ closures' = Append(closures, [upvalues |-> <<c.upvalue>> \o Captures.upvalues, names |-> <<names[k]>> \o Captures.names])
     /\ open' = c.open /\ upvalues' = c.upvalues
     /\ UNCHANGED <<stack, frames, gens, raising, names, cell>>

(***************************************************************************)
(* Calls and generators.  A call has one argument.                         *)
(***************************************************************************)
\* _callManaged.
Call(c, value) ==
  /\ Room /\ c # 1
  /\ IF Len(frames) = size.depth THEN /\ raising' = TRUE
                                             /\ UNCHANGED <<stack, names, frames, cell>>
     ELSE /\ frames' = Append(frames, [slots |-> Len(stack), closure |-> c, gen |-> 0])
          /\ stack' = Append(stack, value) /\ names' = Append(names, Fresh) /\ Named(value)
          /\ UNCHANGED raising
  /\ UNCHANGED <<open, upvalues, closures, gens>>

\* krk_buildGenerator.
BuildGenerator(c, value) ==
  /\ c # 1 /\ Len(gens) < size.generators /\ Len(cell) < size.variables /\ Named(value)
  /\ gens' = Append(gens, [status |-> "new", args |-> <<value>>, captured |-> <<>>, closure |-> c, names |-> <<Fresh>>])
  /\ UNCHANGED <<stack, frames, open, upvalues, closures, raising, names>>

\* generator.__call__, up to krk_runNext.  The list of captured upvalues is
\* pushed onto the open ones one by one, which puts it in the order it had.
\* The frame is taken without looking at the call depth.  What is sent is the
\* value of the yield, which the program gives to a new variable.
Resumed(g, slots) == [u \in DOMAIN upvalues |->
  IF Contains(gens[g].captured, u) THEN [upvalues[u] EXCEPT !.location = @ + slots, !.owner = 0] ELSE upvalues[u]]
Reopened(g) == Reverse(gens[g].captured) \o open

Resume(g, value) ==
  LET gen == gens[g]
      n == Len(gen.args) - 1
  IN /\ gen.status \in {"new", "suspended"} /\ Len(stack) + Len(gen.args) <= size.stack
     /\ frames' = Append(frames, [slots |-> Len(stack), closure |-> gen.closure, gen |-> g])
     /\ upvalues' = Resumed(g, Len(stack)) /\ open' = Reopened(g)
     /\ gens' = [gens EXCEPT ![g].status = "running", ![g].captured = <<>>]
     /\ IF gen.status = "new" THEN /\ stack' = stack \o gen.args /\ names' = names \o gen.names
                                   /\ UNCHANGED cell
        ELSE /\ Len(cell) < size.variables /\ Named(value)
             /\ stack' = stack \o SubSeq(gen.args, 1, n) \o <<value>>
             /\ names' = names \o SubSeq(gen.names, 1, n) \o <<Fresh>>
     /\ UNCHANGED <<closures, raising>>

\* "generator already executing".
Refuse(g) == /\ gens[g].status = "running" /\ raising' = TRUE
             /\ UNCHANGED <<stack, frames, open, upvalues, closures, gens, names, cell>>

\* OP_YIELD, and the rest of generator.__call__: the upvalues of the frame
\* are pushed onto the generator's list one by one, and the entries of the
\* frame are saved, the value that is yielded on top of them.
Suspended(g, us) == [u \in DOMAIN upvalues |->
  IF Contains(us, u) THEN [upvalues[u] EXCEPT !.location = @ - Frame.slots, !.owner = g] ELSE upvalues[u]]

Yield ==
  LET g == Frame.gen
      us == Closing(Frame.slots)
      kept == SubSeq(stack, Frame.slots + 1, Len(stack))
  IN /\ g # 0 /\ Len(stack) < size.stack
     /\ gens' = [gens EXCEPT ![g] = [@ EXCEPT !.status = "suspended", !.captured = Reverse(us), !.args = Append(kept, Other),
                                     !.names = Append(SubSeq(names, Frame.slots + 1, Len(stack)), 0)]]
     /\ upvalues' = Suspended(g, us) /\ open' = SubSeq(open, Passed(Frame.slots) + 1, Len(open))
     /\ stack' = SubSeq(stack, 1, Frame.slots) /\ names' = SubSeq(names, 1, Frame.slots)
     /\ frames' = Front(frames)
     /\ UNCHANGED <<closures, raising, cell>>

\* A handler between two places on the stack, the nearest to its top.
Handlers(from) == {k \in from + 1 .. Len(stack) : stack[k] = Handler}
Nearest(from) == IF Handlers(from) = {} THEN 0 ELSE CHOOSE k \in Handlers(from) : \A j \in Handlers(from) : j <= k
ToHandler(k) == /\ CloseUpvalues(k - 1)
                /\ stack' = Append(SubSeq(stack, 1, k - 1), Spent) /\ names' = SubSeq(names, 1, k)

Finished(g) == IF g = 0 THEN gens ELSE [gens EXCEPT ![g].status = "done"]

\* OP_RETURN: a handler of the frame runs first, as its finally.
Return ==
  LET k == Nearest(Frame.slots)
  IN IF k # 0 THEN ToHandler(k) /\ UNCHANGED <<frames, closures, gens, raising, cell>>
     ELSE /\ Len(frames) > 1
          /\ Cut(Frame.slots) /\ frames' = Front(frames) /\ gens' = Finished(Frame.gen)
          /\ UNCHANGED <<closures, raising, cell>>

Raise == /\ raising' = TRUE
         /\ UNCHANGED <<stack, frames, open, upvalues, closures, gens, names, cell>>

\* handleException.  A run of the interpreter ends at the frame it started
\* with: that of a generator, after which the exception goes on in the run
\* that resumed it, or that of the main program.
ExitFrames == {k \in DOMAIN frames : k = 1 \/ frames[k].gen # 0}
ExitOnFrame == CHOOSE k \in ExitFrames : \A j \in ExitFrames : j <= k

\* The frame that owns a slot.
FramesBelow(k) == {n \in DOMAIN frames : frames[n].slots < k}
Owner(k) == CHOOSE n \in FramesBelow(k) : \A j \in FramesBelow(k) : j <= n

HandleException ==
  LET exit == frames[ExitOnFrame]
      k == Nearest(exit.slots)
  IN IF k # 0
     THEN /\ ToHandler(k) /\ raising' = FALSE
          /\ frames' = SubSeq(frames, 1, Owner(k))
          /\ UNCHANGED <<closures, gens, cell>>
     ELSE /\ Cut(exit.slots) /\ gens' = Finished(exit.gen)
          /\ frames' = IF exit.gen = 0 THEN <<Main>> ELSE SubSeq(frames, 1, ExitOnFrame - 1)
          /\ raising' = (exit.gen # 0)
          /\ UNCHANGED <<closures, cell>>

\* _generator_gcsweep, for one that is suspended and not used again.
Free(g) ==
  /\ gens[g].status \in {"new", "suspended", "done"}
  /\ upvalues' = Close(ToSet(gens[g].captured), LAMBDA l : gens[g].args[l + 1])
  /\ gens' = [gens EXCEPT ![g] = [@ EXCEPT !.status = "freed", !.args = <<>>, !.captured = <<>>, !.names = <<>>]]
  /\ UNCHANGED <<stack, frames, open, closures, raising, names, cell>>

Run ==
  \/ \E v \in Value, k \in Slots : SetLocal(k, v)
  \/ \E v \in Value, j \in DOMAIN Captures.upvalues : SetUpvalue(j, v)
  \/ \E v \in First : Let(v)
  \/ \E v \in First, c \in DOMAIN closures : Call(c, v) \/ BuildGenerator(c, v)
  \/ \E v \in First, g \in DOMAIN gens : Resume(g, v)
  \/ \E g \in DOMAIN gens : Refuse(g) \/ Free(g)
  \/ \E k \in Slots : Leave(k - 1) \/ Closure(k)
  \/ Try \/ Yield \/ Return \/ Raise

Next == UNCHANGED size /\ IF raising THEN HandleException ELSE Run
Spec == Init /\ [][Next]_vars

(***************************************************************************)
(* What must hold.                                                         *)
(***************************************************************************)
\* Whoever uses a variable sees what was last given to it: the function whose
\* local it is, while it runs and when it is resumed, and every closure that
\* has captured it, whether its function runs, is suspended or has ended.
OneVariable ==
  /\ \A k \in DOMAIN stack : names[k] # 0 => stack[k] = cell[names[k]]
  /\ \A g \in DOMAIN gens : gens[g].status # "running" =>
       \A k \in DOMAIN gens[g].args : gens[g].names[k] # 0 /\ gens[g].status # "done" => gens[g].args[k] = cell[gens[g].names[k]]
  /\ \A c \in DOMAIN closures : \A j \in DOMAIN closures[c].upvalues :
       Read(closures[c].upvalues[j]) = cell[closures[c].names[j]]

\* An upvalue that points into the stack is on the thread's list, one that
\* points into a suspended generator is on the generator's, no list has two
\* for one slot, and the open ones are in the order in which they are closed.
UpvaluesListed ==
  /\ \A u \in DOMAIN upvalues : upvalues[u].location # Closed =>
       IF upvalues[u].owner = 0 THEN Contains(open, u) /\ upvalues[u].location < Len(stack)
       ELSE Contains(gens[upvalues[u].owner].captured, u) /\ gens[upvalues[u].owner].status = "suspended"
  /\ \A j, k \in DOMAIN open : j < k => upvalues[open[j]].location > upvalues[open[k]].location

\* A generator that is running has one frame, and no other has any.
OneFrame ==
  \A g \in DOMAIN gens :
    LET of == {i \in DOMAIN frames : frames[i].gen = g}
    IN (gens[g].status = "running" <=> of # {}) /\ \A i, j \in of : i = j

\* Every function sees the variables it was compiled to see, wherever they are
\* kept; the lists of upvalues say where; and a generator has a frame exactly
\* while it runs (captureUpvalue, closeUpvalues, generator.__call__).
VariablesRight == OneVariable /\ UpvaluesListed /\ OneFrame

\* The frames fit in the array that was allocated for them (vm.h:155).
FramesFit == Len(frames) <= size.depth
===============================================================================
