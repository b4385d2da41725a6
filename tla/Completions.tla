---------------------------- MODULE Completions ----------------------------
(***************************************************************************)
(* What the statements of Kuroko promise, without stack, handlers or       *)
(* jumps.  A program is inside a nest of constructs: calls, loops, blocks, *)
(* try and with statements.  Statements end normally or with a completion: *)
(* an exception, a return, a break, a continue.  A completion travels      *)
(* outwards and is seen by every try and with statement it leaves: the     *)
(* finally part or the context manager's exit runs once, and then the      *)
(* completion goes on, unless that code produced one of its own.           *)
(*                                                                         *)
(* A step is given by its outcomes, pairs of a nest and of what native     *)
(* code is told.  KrkBlocks, the compiled form, implements this.           *)
(***************************************************************************)
EXTENDS Naturals, SequencesExt

CONSTANTS
  Exceptions,      \* exceptions
  Results          \* values functions return

VARIABLES
  nest,            \* the constructs the program is in, outermost first
  way              \* what native code that called a function is told

vars == <<nest, way>>

Normal == [t |-> "normal"]
Broke == [t |-> "break"]
Continued == [t |-> "continue"]
Raised(e) == [t |-> "raise", e |-> e]
Returned(v) == [t |-> "return", v |-> v]
Answered == [t |-> "answer"]         \* native code has its result

(* Who called a function: the embedding program, the interpreter's loop,   *)
(* a with statement (twice), or a native function.                         *)
Callers == {"host", "run", "enter", "exit", "native"}
Loops == {"while", "for"}

(* A construct: the parts a try statement has, the part the program is in, *)
(* and for a finally part or an exit the completion it interrupted.        *)
Construct(kind, exc, els, fin, part) ==
  [k |-> kind, exc |-> exc, els |-> els, fin |-> fin, part |-> part, then |-> Normal]
Call(by) == Construct(by, FALSE, FALSE, FALSE, "body")

Simple(kind, part) == Construct(kind, FALSE, FALSE, FALSE, part)
Moved(n, part, then) == [n EXCEPT !.part = part, !.then = then]

(* An ordinary outcome: the nest becomes s.                                *)
To(s) == <<s, Normal>>

(***************************************************************************)
(* Where completions arrive.                                               *)
(***************************************************************************)
Catches(n, c) ==
  \/ n.k = "try" /\ n.part \in {"body", "catch", "except", "else"}
  \/ n.k = "with" /\ n.part = "body"
  \/ n.k \in Loops /\ n.part = "body" /\ c.t \in {"break", "continue"}
  \/ n.k \in Callers \ {"run"} /\ c.t = "raise"
  \/ n.k \in Callers /\ c.t = "return"

(* What the construct n around the nest s does with c.                     *)
Arrival(s, n, c) ==
  CASE n.k \in Callers ->
         <<s, IF n.k = "run" THEN Normal ELSE IF c.t = "return" THEN Answered ELSE c>>
    [] n.k \in Loops -> To(IF c.t = "break" THEN s ELSE Append(s, Moved(n, "test", Normal)))
    [] n.k = "with" -> To(Append(s, Moved(n, "leave", c)))
    [] n.k = "try" ->
         To(Append(s, Moved(n, IF n.part = "body" /\ n.exc /\ c.t = "raise" THEN "catch" ELSE "finally", c)))

(* Completion c leaves the nest s.  A finally part it leaves may have      *)
(* something to tidy up ("close") before an exception goes on.             *)
Travel(s, c) ==
  LET at == Max({i \in DOMAIN s : Catches(s[i], c)})
  IN {Arrival(SubSeq(s, 1, at - 1), s[at], c)}
     \cup {To(Append(SubSeq(s, 1, i - 1), Moved(s[i], "close", c))) :
             i \in {j \in at + 1 .. Len(s) : s[j].k = "try" /\ s[j].part = "finally" /\ c.t = "raise"}}

(* What a part interrupted goes on, from the nest s around it.             *)
Resume(s, c) == IF c = Normal THEN {To(s)} ELSE Travel(s, c)

Raise(s) == UNION {Travel(s, Raised(e)) : e \in Exceptions}
Return(s) == UNION {Travel(s, Returned(v)) : v \in Results}

(* break and continue belong to the loop whose body they are in.           *)
Jump(s) ==
  IF \E i \in DOMAIN s : /\ s[i].k \in Loops /\ s[i].part = "body"
                         /\ \A j \in i + 1 .. Len(s) : s[j].k \notin Callers
  THEN Travel(s, Broke) \cup Travel(s, Continued)
  ELSE {}

(***************************************************************************)
(* Steps from the nest s.                                                  *)
(***************************************************************************)
Opened(s) ==
  {To(Append(s, n)) : n \in {Simple("block", "body"), Call("run"), Call("native")}}
  \cup {To(Append(s, Construct("try", exc, els, fin, "body"))) : exc, els, fin \in BOOLEAN}
  \cup {To(Append(s, Construct(k, FALSE, els, FALSE, "test"))) : k \in Loops, els \in BOOLEAN}
  \cup {To(s \o <<Simple("with", "enter"), Call("enter")>>)}

IsStatement(n) == n.part \in {"body", "except", "else"} \/ (n.part = "finally" /\ n.fin)

(* The end of the part of n, the innermost construct, inside the nest s.   *)
EndOfPart(s, n) ==
  LET Go(part) == {To(Append(s, Moved(n, part, n.then)))}
  IN CASE n.k = "try" /\ n.part = "body" -> Go(IF n.els THEN "else" ELSE "finally")
       [] n.k = "try" /\ n.part \in {"except", "else"} -> Go("finally")
       [] n.part = "catch" ->
            {To(Append(s, Moved(n, "except", Normal)))} \cup Go("finally") \cup Raise(Append(s, n))
       [] n.part \in {"finally", "close"} -> Resume(s, n.then)
       [] n.k = "with" /\ n.part = "body" -> Go("leave")
       [] n.part = "leave" -> {To(s \o <<Moved(n, "exiting", n.then), Call("exit")>>)}
       [] n.part = "test" ->
            Go("body") \cup (IF n.els THEN Go("else") ELSE {To(s)}) \cup Raise(Append(s, n))
       [] n.k \in Loops /\ n.part = "body" -> Go("test")
       [] n.k \in Loops /\ n.part = "else" -> {To(s)}
       [] n.k = "block" -> {To(s)}
       [] OTHER -> {}

(* Native code is told w; n is the construct it works for, inside s.       *)
NativeGoesOn(s, n, w) ==
  CASE n.part = "enter" -> IF w = Answered THEN {To(Append(s, Moved(n, "body", Normal)))} ELSE Travel(s, w)
    [] n.part = "exiting" -> Resume(s, IF w = Answered THEN n.then ELSE w)
    [] OTHER -> IF w = Answered THEN {To(Append(s, n))} ELSE Travel(Append(s, n), w)

(* o is an outcome of a step from the nest s, native code being told w.    *)
Outcome(s, w, o) ==
  IF s = <<>> THEN o = IF w = Normal THEN To(<<Call("host")>>) ELSE To(s)
  ELSE IF w # Normal THEN o \in NativeGoesOn(Front(s), Last(s), w)
  ELSE \/ o \in EndOfPart(Front(s), Last(s))
       \/ IsStatement(Last(s)) /\ \/ o \in Raise(s) \/ o \in Return(s) \/ o \in Jump(s)
                                  \/ o \in Opened(s)

Init == nest = <<>> /\ way = Normal

Next == \E s \in {nest}, o \in {<<nest', way'>>} : Outcome(s, way, o)

Spec == Init /\ [][Next]_vars
=============================================================================
