------------------------------ MODULE MCFunctions ------------------------------
(***************************************************************************)
(* Model checking how code runs: KrkClosures, KrkStack, KrkCalls and       *)
(* KrkBlocks.  Each behaviour is about one of them: a program with         *)
(* closures and generators, the memory of the stack, the calls of a        *)
(* function with the parameters "ps", or statements that transfer control. *)
(***************************************************************************)
EXTENDS KrkClosures, KrkCalls, KrkStack, KrkBlocks, FiniteSets, TLC

VARIABLES part, ps

Meaning == INSTANCE Calls
ASSUME StackAssumption

Symmetry == Permutations(Exceptions)
MCTries == [exc : {TRUE}, els : {FALSE}, fin : {FALSE}] \cup [exc : {FALSE}, els : {FALSE}, fin : {TRUE}]
             \cup [exc : {TRUE}, els : {TRUE}, fin : {TRUE}]
MCLoops == {[k |-> "while", els |-> FALSE], [k |-> "for", els |-> TRUE]}

MCPrograms ==
  {[variables |-> 3, closures |-> 4, generators |-> 1, stack |-> 4, depth |-> 2, trying |-> FALSE],
   [variables |-> 3, closures |-> 3, generators |-> 2, stack |-> 4, depth |-> 3, trying |-> FALSE],
   [variables |-> 3, closures |-> 3, generators |-> 1, stack |-> 3, depth |-> 2, trying |-> TRUE]}
OnlyGenerators == {[variables |-> 3, closures |-> 2, generators |-> 2, stack |-> 4, depth |-> 2, trying |-> FALSE]}

\* Lists of up to four parameters; their names tell where they are, but for
\* some that have a name twice.
Kind == {"plain", "default", "slash", "bare", "args", "kws"}
Letter == <<"a", "b", "c", "d">>
MCNotNames == {"7"}
Lists == {[k \in DOMAIN kinds |-> <<kinds[k], Letter[k]>>] : kinds \in UNION {[1 .. n -> Kind] : n \in 0 .. 4}}
           \cup {<<<<k, "a">>, <<l, "a">>>> : k, l \in {"plain", "default", "args", "kws"}}

\* Calls with up to three arguments.
Written == {<<"value", "u">>, <<"name", "v">>, <<"key", "a", "w">>, <<"key", "b", "x">>, <<"key", "z", "y">>,
            <<"star", <<"p", "q">>, FALSE>>, <<"star", <<>>, TRUE>>,
            <<"dict", <<<<"b", "r">>, <<"c", "s">>>>>>, <<"dict", <<<<"7", "t">>>>>>}
MCCalls == UNION {[1 .. n -> Written] : n \in 0 .. 3}

Idle == UNCHANGED <<part, ps>>
MCInit ==
  /\ Init /\ SInit /\ BlocksInit
  /\ \/ part = "variables" /\ ps = <<>>
     \/ part \in {"memory", "control"} /\ ps = <<>> /\ size = CHOOSE p \in Programs : TRUE
     \/ part = "calls" /\ ps \in Lists /\ size = CHOOSE p \in Programs : TRUE
MCNext ==
  \/ part = "variables" /\ Next /\ UNCHANGED <<svars, blockVars>> /\ Idle
  \/ part = "memory" /\ SNext /\ UNCHANGED <<vars, blockVars>> /\ Idle
  \/ part = "control" /\ BlocksNext /\ UNCHANGED <<vars, svars>> /\ Idle
MCSpec == MCInit /\ [][MCNext]_<<vars, svars, blockVars, part, ps>>

Calls == {as \in MCCalls : Arguments(as).ok}
Broken(as) == \E k \in DOMAIN as : as[k] \in {<<"star", <<>>, TRUE>>, <<"dict", <<<<"7", "t">>>>>>}

\* A call binds each parameter to what the language says, or fails when the
\* arguments do not fit, whichever way the arguments are written; and only
\* the lists of parameters that mean something are accepted.
CallsBindRight ==
  part = "calls" =>
    LET f == Parameters(ps) IN
    /\ f.ok = Meaning!LegalParameters(ps)
    /\ f.ok => \A as \in Calls :
         LET bound == CallManaged(f, Arguments(as))
             values == Meaning!Values(as)
             keywords == Meaning!Keywords(as)
         IN IF ~Broken(as) /\ Meaning!Fits(ps, values, keywords)
            THEN bound = [slots |-> Meaning!Bindings(ps, values, keywords)]
            ELSE "error" \in DOMAIN bound

\* A native function with the same parameters, as far as the format of its
\* arguments can express them.
Format(list) == FlattenSeq([k \in DOMAIN list |->
  CASE list[k][1] = "default" -> IF \E j \in 1 .. k - 1 : list[j][1] # "plain" THEN <<"O">> ELSE <<"|", "O">>
    [] list[k][1] = "plain" -> <<"O">>
    [] list[k][1] = "args" -> <<"*">>
    [] list[k][1] = "bare" -> IF \E j \in 1 .. k - 1 : list[j][1] = "default" THEN <<"$">> ELSE <<"|", "$">>
    [] list[k][1] = "kws" -> <<"~">>])
Expressible(list) ==
  /\ \A k \in DOMAIN list : list[k][1] # "slash"
  /\ \A j, k \in DOMAIN list : list[j][1] \in {"bare", "args"} /\ list[k][1] = "plain" => k < j
Twice(values, keywords) ==
  \E n \in DOMAIN keywords, k \in Meaning!Positional(ps) :
     ps[k][2] = keywords[n][1] /\ Meaning!Rank(ps, k) <= Len(values)

\* The same of the arguments of native functions.  Those that accept any
\* keyword do not notice that one is also given by position.
NativesBindRight ==
  part = "calls" /\ Meaning!LegalParameters(ps) /\ Expressible(ps) =>
    LET taken == LET all == SelectSeq(ps, LAMBDA p : p[1] \in {"plain", "default"}) IN [k \in DOMAIN all |-> all[k][2]] \o <<"">>
    IN \A as \in Calls :
         LET bound == CallNative(Format(ps), taken, Arguments(as))
             values == Meaning!Values(as)
             keywords == Meaning!Keywords(as)
             expected == Meaning!Bindings(ps, values, keywords)
         IN CASE Meaning!Kinds(ps, {"kws"}) # {} /\ Twice(values, keywords) -> TRUE
              [] ~Broken(as) /\ Meaning!Fits(ps, values, keywords) ->
                   bound = [slots |-> [k \in DOMAIN expected |-> IF Len(expected[k]) = 2 /\ expected[k][1] = "default" THEN Unset ELSE expected[k]]]
              [] OTHER -> "error" \in DOMAIN bound

\* Everything callable: functions, and up to two bound methods and instances
\* with a __call__ around one.
Callables == LET in[n \in 0 .. 2] == IF n = 0 THEN {<<"function", "f">>}
                                  ELSE {<<"bound", <<"self", n>>, c>> : c \in in[n - 1]} \cup {<<"instance", n, <<"function", "f">>>>}
          IN in[0] \cup in[1] \cup in[2]
Receivers(c) == CASE c[1] = "function" -> <<>>
                  [] c[1] = "bound" -> (IF c[3][1] = "bound" THEN <<c[3][2]>> ELSE IF c[3][1] = "instance" THEN <<c[3]>> ELSE <<>>) \o <<c[2]>>
                  [] OTHER -> <<c>>

\* Whatever is called, from bytecode or from native code, the function gets
\* its receivers and the arguments, and the call leaves the stack as it was
\* with the result in the place of all that belonged to the call.
CalleesRight ==
  part = "calls" =>
    \A c \in Callables, below \in {<<>>, <<<<"below">>>>}, args \in {<<>>, <<<<"x">>>>, <<<<"x">>, <<"y">>>>} :
      LET n == Len(args)
          self == <<"self", 0>>
          right(call, more) == /\ call.callee = <<"function", "f">> /\ call.receives = Receivers(c) \o more \o args
                               /\ call.after = below \o <<<<"result">>>>
      IN /\ right(OpCall(below \o <<c>> \o args, n), <<>>)
         /\ right(OpCallMethod(below \o <<c, self>> \o args, n), <<self>>)
         /\ right(OpCallMethod(below \o <<<<"none">>, c>> \o args, n), <<>>)
         /\ right(CallDirect(c, below \o args, n), <<>>)

\* Calls by bytecode and by native code bind arguments and leave the stack
\* as the language and the interpreter have it (KRK_PARSE_ARGS, krk_callValue,
\* krk_processComplexArguments).
CallsRight == CallsBindRight /\ NativesBindRight /\ CalleesRight

(* The abstract nest is read off the frames and the stack: a construct of  *)
(* the code, with the completion its handler stands for.                   *)
Pending(h, slot) ==
  CASE h.op \in {"RAISE", "END_FINALLY", "RAISE_FROM", "CLEANUP_WITH"} /\ slot.op = "exception" ->
         [t |-> "raise", e |-> slot.e]
    [] h.op = "RETURN" /\ slot.op = "result" -> [t |-> "return", v |-> slot.v]
    [] h.op = "EXIT_LOOP" /\ slot.op = "count" ->
         [t |-> IF Last(h.to).part = "out" THEN "break" ELSE "continue"]
    [] OTHER -> [t |-> "normal"]

Part(c, h, busy) ==
  CASE c.part = "enter" /\ c.k = "try" ->
         IF h.op = "RAISE_FROM" THEN "close" ELSE IF h.op = "RAISE" /\ c.exc THEN "catch" ELSE "finally"
    [] c.part = "filter" -> "catch"
    [] c.part \in {"begin", "end"} -> "finally"
    [] c.part = "cleanup" -> IF busy THEN "exiting" ELSE "leave"
    [] c.part = "cond" -> "test"
    [] OTHER -> c.part

Seen(j, i) ==
  LET f == active[j]
      c == f.code[i]
      last == f.slots + LocalCount([f EXCEPT !.code = SubSeq(f.code, 1, i)])
      handled == (c.k = "try" \/ (c.k = "with" /\ c.part # "enter")) /\ last <= Len(valueStack)
      h == IF handled THEN valueStack[last] ELSE None
      slot == IF handled THEN valueStack[last - 1] ELSE None
  IN [k |-> c.k, exc |-> c.exc, els |-> c.els, fin |-> c.fin,
      part |-> Part(c, h, j < Len(active) \/ back # "none"), then |-> Pending(h, slot)]

(* A construct whose part is "out" has been left.                          *)
SeenFrame(j) ==
  LET code == active[j].code
      inside == IF code # <<>> /\ Last(code).part = "out" THEN Len(code) - 1 ELSE Len(code)
  IN <<[k |-> active[j].by, exc |-> FALSE, els |-> FALSE, fin |-> FALSE, part |-> "body",
        then |-> [t |-> "normal"]]>>
     \o [i \in 1 .. inside |-> Seen(j, i)]

SeenNest ==
  LET upto[j \in 0 .. Len(active)] == IF j = 0 THEN <<>> ELSE upto[j - 1] \o SeenFrame(j)
  IN upto[Len(active)]

Promise == INSTANCE Completions WITH
  nest <- SeenNest,
  way <- IF back = "none" THEN [t |-> "normal"]
         ELSE IF exception = None THEN [t |-> "answer"] ELSE [t |-> "raise", e |-> exception.e]

(* try, with, loops, calls and returns do what Completions says: every     *)
(* finally part and every __exit__ runs once, in order, and what they      *)
(* interrupted goes on; none is lost, none catches what is not its own.    *)
ImplementsCompletions == Promise!Spec
================================================================================
