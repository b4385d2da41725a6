----------------------------- MODULE KrkBlocks ------------------------------
(***************************************************************************)
(* Control flow: the code src/src/compiler.c lays out for try, with, while *)
(* and for, and what the interpreter in src/src/vm.c does with it: the     *)
(* value stack with its handlers, call frames, exceptions, return, break   *)
(* and continue, nested interpreters, open upvalues.                       *)
(*                                                                         *)
(* A program is not data here: at every statement it may do any of the     *)
(* things a statement can do.  A place in the code is written as the       *)
(* sequence of the constructs around it, each with the part the place is   *)
(* in; the compiler knows the number of locals from it.                    *)
(*                                                                         *)
(* Stack positions count from 1; the offsets of frames and handlers, which *)
(* count from 0 in C, are the number of slots below.                       *)
(***************************************************************************)
EXTENDS Naturals, SequencesExt

CONSTANTS
  Exceptions,    \* exceptions
  Results,       \* values functions return
  MaxNest,       \* bound: constructs the program is in, all frames together
  MaxFrames,     \* bound: call frames
  MaxBlocks,     \* bound: local variables at a time
  Tries,         \* the parts that try statements may have
  LoopForms,     \* the loops: while or for, with or without else
  Unsound        \* which of these a program may do:
                 \*   "jump"      break in the else part of a loop
                 \*   "manager"   raise in __enter__, or in __exit__ after a normal end
                 \*   "capture"   capture the variable of an except in a closure
                 \*   "module"    return from inside a statement of a module

Loops == {"while", "for"}

ASSUME FormAssumption ==
  /\ Tries \subseteq [exc : BOOLEAN, els : BOOLEAN, fin : BOOLEAN]
  /\ LoopForms \subseteq [k : Loops, els : BOOLEAN]
ASSUME BoundAssumption == MaxNest \in Nat /\ MaxFrames \in Nat /\ MaxBlocks \in Nat

VARIABLES
  active,        \* call frames: code, slots, out (outSlots) and who called
  valueStack,    \* the value stack
  captured,      \* stack positions open upvalues refer to
  exception,     \* currentException, None unless KRK_THREAD_HAS_EXCEPTION
  back           \* the native caller that an inner run() has returned to, or "none"

blockVars == <<active, valueStack, captured, exception, back>>

(***************************************************************************)
(* Values and places.                                                      *)
(***************************************************************************)
None == [op |-> "none"]
Local == [op |-> "local"]
Callee == [op |-> "callee"]
Manager == [op |-> "manager"]
Exception(e) == [op |-> "exception", e |-> e]
Result(v) == [op |-> "result", v |-> v]
Count(n) == [op |-> "count", n |-> n]
NewHandler(op, to) == [op |-> op, to |-> to]

Construct(kind, exc, els, fin, part) ==
  [k |-> kind, exc |-> exc, els |-> els, fin |-> fin, part |-> part]

(* The place in part p of the last construct of code.                      *)
At(code, p) == [code EXCEPT ![Len(code)].part = p]

(* Locals of a construct: a context manager with the slots of its handler, *)
(* an exception with its handler, the variable and iterator of a for.      *)
Width(c) ==
  CASE c.k = "try" -> 2
    [] c.k = "with" -> IF c.part = "enter" THEN 1 ELSE 3
    [] c.k = "for" -> 2
    [] c.k = "while" -> 0
    [] c.k = "block" -> 1

Widths(code) ==
  LET w[n \in 0 .. Len(code)] == IF n = 0 THEN 0 ELSE w[n - 1] + Width(code[n])
  IN w[Len(code)]

(* What the callers of a function pass to it; where its first local is.    *)
ArgumentsOf(by) == CASE by = "enter" -> 1 [] by = "exit" -> 4 [] OTHER -> 0
LocalCount(f) == ArgumentsOf(f.by) + Widths(f.code)

Top == active[Len(active)]
Code == Top.code
Inner == Code[Len(Code)]
Running == active # <<>> /\ back = "none"
In(k, parts) == Running /\ Code # <<>> /\ Inner.k = k /\ Inner.part \in parts

(* Where a statement can be.                                               *)
AtStatement ==
  /\ Running
  /\ Code # <<>> => Inner.part \in {"body", "except", "else", "finally"}

Nested == UNION {{<<j, i>> : i \in DOMAIN active[j].code} : j \in DOMAIN active}
RoomToNest == Cardinality(Nested) < MaxNest

Goto(code) == active' = [active EXCEPT ![Len(active)].code = code]
SetTop(s, v) == [s EXCEPT ![Len(s)] = v]

(* closeUpvalues(n): the upvalues that stay open.                          *)
Open(n) == {p \in captured : p <= n}

(***************************************************************************)
(* The compiler: where the parts of a try statement lead.                  *)
(***************************************************************************)
(* After the parts: the finally part, or the BEGIN_FINALLY END_FINALLY     *)
(* that closes the except parts, or just the end.                          *)
TryExit(c) == IF c.exc \/ c.fin THEN "begin" ELSE "out"

(* The target of PUSH_TRY is ENTER_EXCEPT, moved to the finally part when  *)
(* there is an else and no except.                                         *)
TryTarget(c) == IF c.els /\ ~c.exc THEN TryExit(c) ELSE "enter"

(* What follows ENTER_EXCEPT.                                              *)
AfterEnterExcept(c) ==
  IF c.exc THEN "filter" ELSE IF c.els THEN "else" ELSE TryExit(c)

Bodies(code) == {i \in DOMAIN code : code[i].k \in Loops /\ code[i].part = "body"}

\* Mutant: the variable and the iterator of a for are not counted.
MutLoopLocalCount(f) ==
  IF Bodies(f.code) = {} THEN 0
  ELSE LocalCount([f EXCEPT !.code = SubSeq(f.code, 1, Max(Bodies(f.code)) - 1)])

(* loopLocalCount: the locals outside the body of the innermost loop.      *)
LoopLocalCount(f) ==
  IF Bodies(f.code) = {} THEN 0
  ELSE LocalCount([f EXCEPT !.code = SubSeq(f.code, 1, Max(Bodies(f.code)))])

(* patchBreaks runs after the else part, emitLoop before it.               *)
Breakable(code) == {i \in DOMAIN code : code[i].k \in Loops /\ code[i].part \in {"body", "else"}}

(***************************************************************************)
(* The interpreter: exceptions, return, leaving a loop.                    *)
(***************************************************************************)
Interrupting == {"PUSH_TRY", "PUSH_WITH", "FILTER_EXCEPT"}
Catching == Interrupting \cup {"RAISE", "END_FINALLY"}

\* Mutant: the upvalues above the handler are not closed.
MutRedirect(s, h, j, op, v) ==
  /\ valueStack' = [SubSeq(s, 1, h) EXCEPT ![h] = NewHandler(op, s[h].to), ![h - 1] = v]
  /\ active' = [SubSeq(active, 1, j) EXCEPT ![j].code = s[h].to]
  /\ captured' = captured
  /\ back' = "none"

(* Cut the stack s above the handler at h, put value v in the slot below   *)
(* it, make the handler one of type op and go to its target in frame j.    *)
Redirect(s, h, j, op, v) ==
  /\ valueStack' = [SubSeq(s, 1, h) EXCEPT ![h] = NewHandler(op, s[h].to), ![h - 1] = v]
  /\ active' = [SubSeq(active, 1, j) EXCEPT ![j].code = s[h].to]
  /\ captured' = Open(h - 1)
  /\ back' = "none"

\* Mutant: an exception in an except part is as good as one in the body.
MutRethrown(op) ==
  CASE op = "RAISE" -> "END_FINALLY"
    [] op = "END_FINALLY" -> "RAISE_FROM"
    [] OTHER -> "RAISE"

(* What a handler of type op becomes when it has caught an exception.      *)
Rethrown(op) ==
  CASE op \in {"RAISE", "FILTER_EXCEPT"} -> "END_FINALLY"
    [] op = "END_FINALLY" -> "RAISE_FROM"
    [] OTHER -> "RAISE"

(* _finishException with handleException: the newest handler of this run() *)
(* gets exception e, or run() returns to the native code that called it.   *)
Throw(s, e) ==
  LET exit == Max({j \in DOMAIN active : active[j].by # "run"})
      found == {i \in active[exit].out + 1 .. Len(s) : s[i].op \in Catching}
      h == Max(found)
      owner == Max({j \in DOMAIN active : active[j].slots < h})
  IN IF found = {}
     THEN /\ valueStack' = SubSeq(s, 1, active[exit].out)
          /\ active' = SubSeq(active, 1, exit - 1)
          /\ captured' = Open(active[exit].out)
          /\ exception' = e
          /\ back' = active[exit].by
     ELSE Redirect(s, h, owner, Rethrown(s[h].op), e) /\ exception' = None

(* _finishReturn: result v of the top frame, s without it.  A call is an   *)
(* expression statement here: the caller pops the result at once.          *)
Finish(s, v) ==
  LET found == {i \in Top.slots + 1 .. Len(s) : s[i].op \in Interrupting}
  IN /\ exception' = exception
     /\ IF found # {} THEN Redirect(s, Max(found), Len(active), "RETURN", v)
        ELSE /\ captured' = Open(Top.slots)
             /\ active' = Front(active)
             /\ valueStack' = IF Len(active) = 1 THEN Front(s) ELSE SubSeq(s, 1, Top.out)
             /\ back' = IF Top.by = "run" THEN "none" ELSE Top.by

(* _finishPopBlock, down to n locals; then the jump to the place dest.     *)
ExitLoop(s, n, dest) ==
  LET base == Top.slots + n
      found == {i \in base + 1 .. Len(s) : s[i].op \in Interrupting}
      h == Max(found)
  IN /\ exception' = exception
     /\ IF found # {}
        THEN /\ valueStack' = [SubSeq(s, 1, h) EXCEPT ![h] = NewHandler("EXIT_LOOP", dest), ![h - 1] = Count(n)]
             /\ captured' = Open(h - 1)
             /\ Goto(s[h].to)
             /\ back' = "none"
        ELSE /\ valueStack' = SubSeq(s, 1, IF base < Len(s) THEN base ELSE Len(s))
             /\ captured' = Open(base)
             /\ Goto(dest)
             /\ back' = "none"

(***************************************************************************)
(* Calls.                                                                  *)
(***************************************************************************)
(* A frame for a function whose arguments are on top of s, of which depth  *)
(* slots below the arguments go when it returns.                           *)
NewFrame(s, by, depth) ==
  LET slots == Len(s) - ArgumentsOf(by)
  IN [code |-> <<>>, slots |-> slots, out |-> slots - depth, by |-> by]

Enter(caller, s, by, depth) ==
  /\ Len(active) < MaxFrames
  /\ valueStack' = s
  /\ active' = Append([active EXCEPT ![Len(active)].code = caller], NewFrame(s, by, depth))
  /\ UNCHANGED <<captured, exception>>
  /\ back' = "none"

(* krk_interpret: the code of a module.                                    *)
Interpret ==
  /\ active = <<>> /\ back = "none"
  /\ valueStack' = Append(valueStack, Callee)
  /\ active' = <<NewFrame(valueStack', "host", 1)>>
  /\ UNCHANGED <<captured, exception, back>>

(* The embedding program after an exception: krk_resetStack.               *)
BackInHost ==
  /\ back = "host"
  /\ IF exception = None THEN UNCHANGED <<valueStack, captured>> ELSE valueStack' = <<>> /\ captured' = {}
  /\ exception' = None
  /\ back' = "none"
  /\ UNCHANGED active

(* A call of a function, and of a native function that calls one.          *)
CallFunction == AtStatement /\ Enter(Code, Append(valueStack, Callee), "run", 1)
CallOfNative == AtStatement /\ Enter(Code, valueStack \o <<Callee, Callee>>, "native", 1)

BackInNative ==
  /\ back = "native"
  /\ IF exception # None THEN Throw(Front(valueStack), exception)
     ELSE /\ valueStack' = Front(valueStack)
          /\ back' = "none"
          /\ UNCHANGED <<active, captured, exception>>

(***************************************************************************)
(* Statements.                                                             *)
(***************************************************************************)
Step(s, code) == valueStack' = s /\ Goto(code) /\ UNCHANGED <<captured, exception, back>>

(* A scope with one local variable.                                        *)
Block ==
  /\ AtStatement /\ RoomToNest
  /\ Cardinality({o \in Nested : active[o[1]].code[o[2]].k = "block"}) < MaxBlocks
  /\ Step(Append(valueStack, Local), Append(Code, Construct("block", FALSE, FALSE, FALSE, "body")))

(* A closure captures a local variable of the function, captureUpvalue:    *)
(* that of a block, or that of an except, in the slot below its handler.   *)
Capturable(c) == c.k = "block" \/ ("capture" \in Unsound /\ c.k = "try" /\ c.part = "except")
CaptureLocal ==
  /\ AtStatement
  /\ \E i \in DOMAIN Code :
       LET last == Top.slots + LocalCount([Top EXCEPT !.code = SubSeq(Code, 1, i)])
       IN /\ Capturable(Code[i])
          /\ captured' = captured \cup {IF Code[i].k = "block" THEN last ELSE last - 1}
  /\ UNCHANGED <<active, valueStack, exception, back>>

TryStatement ==
  /\ AtStatement /\ RoomToNest
  /\ \E t \in Tries :
       LET c == Construct("try", t.exc, t.els, t.fin, "body")
       IN Step(valueStack \o <<None, NewHandler("PUSH_TRY", Append(Code, [c EXCEPT !.part = TryTarget(c)]))>>,
               Append(Code, c))

(* with: the context manager is pushed, its __enter__ called.              *)
With ==
  /\ AtStatement /\ RoomToNest
  /\ Enter(Append(Code, Construct("with", FALSE, FALSE, FALSE, "enter")), valueStack \o <<Manager, Manager>>, "enter", 0)

(* The rest of PUSH_WITH, whether __enter__ has raised or not.             *)
BackInEnter ==
  /\ back = "enter"
  /\ LET s == valueStack \o <<None, NewHandler("PUSH_WITH", At(Code, "cleanup"))>>
     IN IF exception # None THEN Throw(s, exception)
        ELSE valueStack' = s /\ Goto(At(Code, "body")) /\ back' = "none" /\ UNCHANGED <<captured, exception>>

(* while and for; a for has its variable and its iterator on the stack.    *)
Loop ==
  /\ AtStatement /\ RoomToNest
  /\ \E l \in LoopForms :
       Step(IF l.k = "for" THEN valueStack \o <<Local, Local>> ELSE valueStack,
            Append(Code, Construct(l.k, FALSE, l.els, FALSE, "cond")))

(* A manager that has to work: __enter__, or __exit__ after a normal end.  *)
Managing(j) ==
  \/ active[j].by = "enter"
  \/ active[j].by = "exit" /\ valueStack[active[j].slots].op = "PUSH_WITH"
MayRaise == "manager" \in Unsound \/ \A j \in DOMAIN active : ~Managing(j)

RaiseStatement == AtStatement /\ MayRaise /\ \E e \in Exceptions : Throw(valueStack, Exception(e))
ReturnStatement ==
  /\ AtStatement
  /\ Len(active) > 1 \/ Code = <<>> \/ "module" \in Unsound
  /\ \E v \in Results : Finish(valueStack, Result(v))

Break ==
  /\ AtStatement /\ Breakable(Code) # {}
  /\ LET loop == Max(Breakable(Code))
         dest == At(SubSeq(Code, 1, loop), "out")
     IN /\ Code[loop].part = "body" \/ "jump" \in Unsound
        /\ IF LoopLocalCount(Top) # LocalCount(Top) THEN ExitLoop(valueStack, LoopLocalCount(Top), dest)
           ELSE Step(valueStack, dest)

Continue ==
  /\ AtStatement /\ Bodies(Code) # {}
  /\ LET dest == At(SubSeq(Code, 1, Max(Bodies(Code))), "cond")
     IN IF LoopLocalCount(Top) # LocalCount(Top) THEN ExitLoop(valueStack, LoopLocalCount(Top), dest)
        ELSE Step(valueStack, dest)

(***************************************************************************)
(* The code of the constructs.                                             *)
(***************************************************************************)
(* The end of the try part, with TRY_ELSE; of an except or else part.      *)
TryBodyEnds ==
  \/ /\ In("try", {"body"})
     /\ IF Inner.els THEN Step(SetTop(valueStack, NewHandler("FILTER_EXCEPT", Last(valueStack).to)), At(Code, "else"))
        ELSE Step(valueStack, At(Code, TryExit(Inner)))
  \/ In("try", {"except", "else"}) /\ Step(valueStack, At(Code, TryExit(Inner)))

(* The exception in the slot below the handler is the current one again.   *)
ThrowPending(s) == Throw(SubSeq(s, 1, Len(s) - 2), s[Len(s) - 1])

EnterExcept ==
  /\ In("try", {"enter"})
  /\ CASE Last(valueStack).op \in {"RETURN", "END_FINALLY", "EXIT_LOOP"} -> Step(valueStack, At(Code, TryExit(Inner)))
       [] Last(valueStack).op = "RAISE_FROM" -> ThrowPending(valueStack)
       [] OTHER -> Step(valueStack, At(Code, AfterEnterExcept(Inner)))

(* The except clauses: one matches, none does, or an expression fails.     *)
FilterExcept ==
  /\ In("try", {"filter"})
  /\ \/ Step(SetTop(valueStack, NewHandler("FILTER_EXCEPT", Last(valueStack).to)), At(Code, "except"))
     \/ Step(valueStack, At(Code, "begin"))
     \/ MayRaise /\ \E e \in Exceptions : Throw(valueStack, Exception(e))

BeginFinally ==
  /\ In("try", {"begin"})
  /\ LET h == Last(valueStack)
         op == CASE h.op \in {"PUSH_TRY", "FILTER_EXCEPT"} -> "BEGIN_FINALLY"
                 [] h.op = "RAISE" -> "END_FINALLY"
                 [] OTHER -> h.op
     IN Step(SetTop(valueStack, NewHandler(op, h.to)), At(Code, IF Inner.fin THEN "finally" ELSE "end"))

FinallyEnds == In("try", {"finally"}) /\ Step(valueStack, At(Code, "end"))

EndFinally ==
  /\ In("try", {"end"})
  /\ LET h == Last(valueStack)
         pending == valueStack[Len(valueStack) - 1]
     IN CASE h.op \in {"RAISE", "END_FINALLY"} -> ThrowPending(valueStack)
          [] h.op = "EXIT_LOOP" -> ExitLoop(valueStack, pending.n, h.to)
          [] h.op = "RETURN" -> Finish(valueStack, pending)
          [] OTHER -> Step(valueStack, At(Code, "out"))

WithBodyEnds == In("with", {"body"}) /\ Step(valueStack, At(Code, "cleanup"))

(* CLEANUP_WITH calls __exit__ with the exception or with three Nones.     *)
CleanupWith ==
  /\ In("with", {"cleanup"})
  /\ LET h == Last(valueStack)
         s == IF h.op = "RAISE" THEN SetTop(valueStack, NewHandler("CLEANUP_WITH", h.to)) ELSE valueStack
     IN Enter(Code, s \o <<Manager, Local, Local, Local>>, "exit", 0)

BackInExit ==
  /\ back = "exit"
  /\ LET h == Last(valueStack)
         pending == valueStack[Len(valueStack) - 1]
     IN IF exception # None THEN Throw(valueStack, exception)
        ELSE CASE h.op = "CLEANUP_WITH" -> ThrowPending(valueStack)
               [] h.op = "EXIT_LOOP" -> ExitLoop(valueStack, pending.n, h.to)
               [] h.op = "RETURN" -> Finish(SubSeq(valueStack, 1, Len(valueStack) - 2), pending)
               [] OTHER -> /\ Goto(At(Code, "out")) /\ back' = "none"
                           /\ UNCHANGED <<valueStack, captured, exception>>

(* The condition of a loop, or its iterator.                               *)
LoopTest ==
  /\ \E k \in Loops : In(k, {"cond"})
  /\ \/ Step(valueStack, At(Code, "body"))
     \/ Step(valueStack, At(Code, IF Inner.els THEN "else" ELSE "out"))
     \/ MayRaise /\ \E e \in Exceptions : Throw(valueStack, Exception(e))

LoopBodyEnds ==
  \E k \in Loops : \/ In(k, {"body"}) /\ Step(valueStack, At(Code, "cond"))
                   \/ In(k, {"else"}) /\ Step(valueStack, At(Code, "out"))

BlockEnds == In("block", {"body"}) /\ Step(valueStack, At(Code, "out"))

(* endScope: the locals of the construct are popped, the captured closed.  *)
EndScope ==
  /\ Running /\ Code # <<>> /\ Inner.part = "out"
  /\ LET left == Len(valueStack) - Width(Inner)
     IN valueStack' = SubSeq(valueStack, 1, left) /\ captured' = Open(left)
  /\ Goto(Front(Code))
  /\ UNCHANGED <<exception, back>>

BlocksInit ==
  /\ active = <<>> /\ valueStack = <<>>
  /\ captured = {}
  /\ exception = None
  /\ back = "none"

BlocksNext ==
  \/ Interpret \/ BackInHost \/ CallFunction \/ CallOfNative \/ BackInNative
  \/ Block \/ CaptureLocal \/ TryStatement \/ With \/ BackInEnter \/ Loop
  \/ RaiseStatement \/ ReturnStatement \/ Break \/ Continue
  \/ TryBodyEnds \/ EnterExcept \/ FilterExcept \/ BeginFinally \/ FinallyEnds \/ EndFinally
  \/ WithBodyEnds \/ CleanupWith \/ BackInExit
  \/ LoopTest \/ LoopBodyEnds \/ BlockEnds \/ EndScope

BlocksSpec == BlocksInit /\ [][BlocksNext]_blockVars

(***************************************************************************)
(* Properties.                                                             *)
(***************************************************************************)
HandlerOps == Catching \cup {"RETURN", "EXIT_LOOP", "RAISE_FROM", "BEGIN_FINALLY", "CLEANUP_WITH"}
Parts(k) ==
  CASE k = "try" -> {"body", "enter", "filter", "except", "else", "begin", "finally", "end", "out"}
    [] k = "with" -> {"enter", "body", "cleanup", "out"}
    [] k \in Loops -> {"cond", "body", "else", "out"}
    [] k = "block" -> {"body", "out"}

(* Frames lie on the stack in order, exceptions are current only while     *)
(* native code looks at them, upvalues refer to the stack, and a construct *)
(* has others inside it only where statements and calls can be.            *)
TypeOK ==
  /\ \A j \in DOMAIN active :
       LET f == active[j]
       IN /\ f.by \in {"host", "run", "native", "enter", "exit"}
          /\ (f.by = "host") = (j = 1)
          /\ f.out <= f.slots /\ f.slots + ArgumentsOf(f.by) <= Len(valueStack)
          /\ \A i \in DOMAIN f.code :
               /\ f.code[i].part \in Parts(f.code[i].k)
               /\ i < Len(f.code) => f.code[i].part \in {"body", "except", "else", "finally"}
  /\ \A p \in DOMAIN valueStack : valueStack[p].op \in HandlerOps \cup {"none", "local", "callee", "manager", "exception", "result", "count"}
  /\ captured \subseteq DOMAIN valueStack
  /\ back \in {"none", "host", "native", "enter", "exit"}
  /\ exception # None => back # "none" /\ exception.op = "exception"

(* Where the locals of frame j end when it is in the first i constructs of *)
(* its code.                                                               *)
EndOfLocals(j, i) ==
  active[j].slots + LocalCount([active[j] EXCEPT !.code = SubSeq(@, 1, i)])

(* At every statement, call and return the stack is as high as the         *)
(* compiler counts, however the program got there: the code refers to      *)
(* locals by number, and one slot more or less shifts them all.            *)
HeightsAsCompiled ==
  \A j \in DOMAIN active :
    LET inner == j = Len(active)
        by == IF inner THEN back ELSE active[j + 1].by
    IN (IF inner THEN Len(valueStack) ELSE active[j + 1].out)
         = EndOfLocals(j, Len(active[j].code)) + (IF by = "native" THEN 1 ELSE 0)

(* The handlers on the stack are those of the try and with statements the  *)
(* program is in, each in its place and with a target in its statement:    *)
(* none is left over to catch what is not its own.                         *)
Handled(code) == {i \in DOMAIN code : code[i].k = "try" \/ (code[i].k = "with" /\ code[i].part # "enter")}
HandlersInPlace ==
  LET own == {o \in Nested : o[2] \in Handled(active[o[1]].code)}
  IN /\ {p \in DOMAIN valueStack : valueStack[p].op \in HandlerOps} = {EndOfLocals(o[1], o[2]) : o \in own}
     /\ \A o \in own :
          LET code == active[o[1]].code
              to == valueStack[EndOfLocals(o[1], o[2])].to
          IN valueStack[EndOfLocals(o[1], o[2])].op # "EXIT_LOOP" =>
               /\ Front(to) = SubSeq(code, 1, o[2] - 1)
               /\ [Last(to) EXCEPT !.part = code[o[2]].part] = code[o[2]]

(* When the embedding program has control again, nothing of a program that *)
(* has ended, normally or not, is left on the stack.                       *)
IdleIsClean == active = <<>> => valueStack = <<>> /\ captured = {}

(* All this is what the compiler reckons with.                             *)
StackAsCompiled == HeightsAsCompiled /\ HandlersInPlace /\ IdleIsClean

(* A variable that a closure has captured keeps its slot and its value     *)
(* until its upvalue is closed, which is before the slot is given up.      *)
CapturedKept ==
  [][\A p \in captured \cap captured' : p \in DOMAIN valueStack' /\ valueStack'[p] = valueStack[p]]_blockVars
=============================================================================
