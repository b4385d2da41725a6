------------------------------- MODULE KrkCalls -------------------------------
(***************************************************************************)
(* Calls and their arguments: the parameter list of a function (compiler.c *)
(* argumentList), the argument list of a call (call), how the virtual      *)
(* machine puts the arguments in the slots of the parameters (vm.c         *)
(* _callManaged), how a native function takes them (parseargs.c), and what *)
(* a call of something that is not a function calls (krk_callValue).       *)
(*                                                                         *)
(* A name, a value and a default are strings.  A slot holds <<>> when it   *)
(* is unset (the code's KWARGS_VAL(0)), <<v>> for a value v, <<"list", s>> *)
(* and <<"dict", s>> for what *args and **kwargs collect, with the entries *)
(* of a dict in their order, and <<"default", x>> once the function has    *)
(* evaluated the default of x.                                             *)
(***************************************************************************)
EXTENDS Naturals, SequencesExt

CONSTANTS
  NotNames,   \* the keys of dicts that are not strings
  MaxChain    \* bound of the model: how deep bound methods are nested

Unset == <<>>
Error(what) == [error |-> what]

(***************************************************************************)
(* Parameters: <<"plain", x>>, <<"default", x>>, <<"slash">>, <<"bare">>   *)
(* (a star alone), <<"args", x>> and <<"kws", x>>.                         *)
(***************************************************************************)
NoParameters == [locals |-> <<>>, required |-> 0, potential |-> 0, unnamed |-> 0, keyword |-> 0,
                 optional |-> {}, args |-> FALSE, kws |-> FALSE, collectors |-> 0, bare |-> FALSE, ok |-> TRUE]

\* argumentDefinition, for a parameter that has been declared.
Defined(f, p) ==
  LET optional == IF p[1] = "default" THEN {p[2]} ELSE {}
  IN IF f.collectors > 0 THEN [f EXCEPT !.keyword = @ + 1, !.optional = @ \cup optional]
     ELSE IF p[1] = "default" THEN [f EXCEPT !.potential = @ + 1, !.optional = @ \cup optional]
     ELSE [f EXCEPT !.potential = @ + 1, !.required = @ + 1, !.ok = f.potential = f.required]

Declared(f, p) == [f EXCEPT !.locals = Append(@, p[2]), !.bare = FALSE, !.ok = ~Contains(f.locals, p[2])]

\* One turn of the loop of argumentList.  A star alone must be followed by a
\* comma, so it is not the last one.
Parameter(f, p) ==
  CASE ~f.ok -> f
    [] p[1] = "slash" ->
         [f EXCEPT !.unnamed = f.potential, !.ok = f.collectors = 0 /\ f.unnamed = 0 /\ f.potential > 0]
    [] p[1] = "bare" -> [f EXCEPT !.collectors = 1, !.bare = TRUE, !.ok = f.collectors = 0]
    [] p[1] = "args" -> [Declared(f, p) EXCEPT !.collectors = 1, !.args = TRUE, !.ok = @ /\ f.collectors = 0]
    [] p[1] = "kws" -> [Declared(f, p) EXCEPT !.collectors = 2, !.kws = TRUE, !.ok = @ /\ f.collectors < 2]
    [] OTHER -> LET d == Declared(f, p)
                IN IF d.ok /\ f.collectors < 2 THEN Defined(d, p) ELSE [f EXCEPT !.ok = FALSE]

Parameters(ps) ==
  LET f == FoldLeft(Parameter, NoParameters, ps)
  IN [f EXCEPT !.ok = @ /\ ~f.bare]

\* What endCompiler records: the names by which arguments may be given.
PositionalArgNames(f) == [k \in 1 .. f.potential |-> IF k <= f.unnamed THEN Unset ELSE <<f.locals[k]>>]
MutFirstKeyword(f) == f.potential
FirstKeyword(f) == f.potential + (IF f.args THEN 1 ELSE 0)
KeywordArgNames(f) == [k \in 1 .. f.keyword |-> <<f.locals[FirstKeyword(f) + k]>>]
TotalArguments(f) == Len(f.locals)

(***************************************************************************)
(* Arguments: <<"value", v>>, <<"name", v>> (a value whose expression      *)
(* starts with an identifier), <<"key", x, v>>, <<"star", values, fails>>  *)
(* (an iterable that gives values and then may raise) and <<"dict", e>>    *)
(* with the entries e as pairs.                                            *)
(***************************************************************************)
NoArguments == [plain |-> <<>>, special |-> <<>>, keyword |-> FALSE, unpacked |-> FALSE, ok |-> TRUE]

\* One turn of the loop of call: values before the first special argument
\* are pushed as they are, after it each is marked KWARGS_SINGLE.  That no
\* value follows a keyword is only checked of those that do not start with
\* an identifier.
Argument(c, a) ==
  CASE ~c.ok -> c
    [] a[1] = "dict" -> [c EXCEPT !.special = Append(@, a), !.unpacked = TRUE]
    [] a[1] = "star" -> [c EXCEPT !.special = Append(@, a), !.ok = ~c.unpacked]
    [] a[1] = "key" -> [c EXCEPT !.special = Append(@, a), !.keyword = TRUE]
    [] a[1] = "value" /\ (c.unpacked \/ c.keyword) -> [c EXCEPT !.ok = FALSE]
    [] OTHER -> IF c.special # <<>> THEN [c EXCEPT !.special = Append(@, <<"single", a[2]>>)]
                ELSE [c EXCEPT !.plain = Append(@, a[2])]

Arguments(as) == FoldLeft(Argument, NoArguments, as)

\* krk_tableSet into the keywords, where a name that is there is an error.
Keyword(r, x, v) ==
  IF \E k \in DOMAIN r.keywords : r.keywords[k][1] = x THEN [r EXCEPT !.error = "multiple values"]
  ELSE [r EXCEPT !.keywords = Append(@, <<x, v>>)]

Entry(r, e) == CASE r.error # "" -> r
                 [] e[1] \in NotNames -> [r EXCEPT !.error = "non-string key"]
                 [] OTHER -> Keyword(r, e[1], e[2])

Special(r, a) ==
  CASE r.error # "" -> r
    [] a[1] = "star" -> [r EXCEPT !.positionals = @ \o a[2], !.error = IF a[3] THEN "raised" ELSE ""]
    [] a[1] = "dict" -> FoldLeft(Entry, r, a[2])
    [] a[1] = "single" -> [r EXCEPT !.positionals = Append(@, a[2])]
    [] a[1] = "key" -> Keyword(r, a[2], a[3])

ProcessComplexArguments(c) ==
  FoldLeft(Special, [positionals |-> c.plain, keywords |-> <<>>, error |-> ""], c.special)

(***************************************************************************)
(* The slots of a managed function.                                        *)
(***************************************************************************)
\* One keyword is put in its slot: the first positional parameter or, after
\* them, keyword parameter with its name; else **kwargs has it.
Place(f, r, e) ==
  LET positional == {k \in 1 .. f.potential : PositionalArgNames(f)[k] = <<e[1]>>}
      keyword == {FirstKeyword(f) + k : k \in {j \in 1 .. f.keyword : KeywordArgNames(f)[j] = <<e[1]>>}}
      place == positional \cup keyword
  IN IF r.error # "" THEN r
     ELSE IF place # {} THEN
       LET k == CHOOSE j \in place : TRUE
       IN IF r.slots[k] # Unset THEN [r EXCEPT !.error = "multiple values"]
          ELSE [r EXCEPT !.slots[k] = <<e[2]>>]
     ELSE IF f.kws THEN [r EXCEPT !.rest = Append(@, e)] ELSE [r EXCEPT !.error = "unexpected"]

\* The path for calls with a KWARGS sentinel.  Too many positionals fail
\* before any keyword is looked at.
Complex(f, c) ==
  LET given == ProcessComplexArguments(c)
      n == Len(given.positionals)
      positional == [k \in 1 .. f.potential |-> IF k <= n THEN <<given.positionals[k]>> ELSE Unset]
      extra == IF f.args THEN <<<<"list", SubSeq(given.positionals, f.potential + 1, n)>>>> ELSE <<>>
      placed == FoldLeft(LAMBDA r, e : Place(f, r, e),
                         [slots |-> positional \o extra \o [k \in 1 .. f.keyword |-> Unset], rest |-> <<>>, error |-> ""],
                         given.keywords)
  IN CASE given.error # "" -> Error(given.error)
       [] n > f.potential /\ ~f.args -> Error("too many")
       [] placed.error # "" -> Error(placed.error)
       [] \E k \in 1 .. f.required : placed.slots[k] = Unset -> Error("missing")
       [] OTHER -> [slots |-> placed.slots \o (IF f.kws THEN <<<<"dict", placed.rest>>>> ELSE <<>>)]

\* The path for plain calls: the values are where the parameters are, those
\* in excess go to *args, and the slots that are left are unset.
Simple(f, plain) ==
  LET n == Len(plain)
      extra == n > f.potential /\ f.args
      slots == [k \in 1 .. (IF extra THEN f.potential ELSE n) |-> <<plain[k]>>]
                 \o (IF extra THEN <<<<"list", SubSeq(plain, f.potential + 1, n)>>>> ELSE <<>>)
      count == IF extra THEN f.potential ELSE n
  IN CASE count < f.required -> Error("too few")
       [] count > f.potential -> Error("too many")
       [] OTHER -> [slots |-> slots \o [k \in 1 .. TotalArguments(f) - Len(slots) |-> Unset]]

\* The code at the top of a function fills what is unset: a default, an
\* empty list or dict, or OP_MISSING_KW.
Prologue(f, slots) ==
  LET filled == [k \in DOMAIN slots |->
                   CASE slots[k] # Unset -> slots[k]
                     [] f.locals[k] \in f.optional -> <<"default", f.locals[k]>>
                     [] f.args /\ k = f.potential + 1 -> <<"list", <<>>>>
                     [] f.kws /\ k = TotalArguments(f) -> <<"dict", <<>>>>
                     [] OTHER -> Unset]
  IN IF \E k \in DOMAIN filled : filled[k] = Unset THEN Error("missing keyword")
     ELSE [slots |-> filled]

CallManaged(f, c) ==
  LET called == IF c.special # <<>> THEN Complex(f, c) ELSE Simple(f, c.plain)
  IN IF "error" \in DOMAIN called THEN called ELSE Prologue(f, called.slots)

(***************************************************************************)
(* A native function: krk_parseVArgs.  Its format is a sequence of "O" (an *)
(* argument of any type, the next of names), "|", "*", "$" and "~".        *)
(***************************************************************************)
Extract(r, x) == LET at == {k \in DOMAIN r.keywords : r.keywords[k][1] = x} IN
  IF at = {} THEN [found |-> Unset, left |-> r.keywords]
  ELSE LET k == CHOOSE j \in at : TRUE IN [found |-> <<r.keywords[k][2]>>, left |-> RemoveAt(r.keywords, k)]

Directive(names, argv, r, d) ==
  LET x == names[r.oarg + 1]
      taken == Extract(r, x)
  IN CASE r.error # "" \/ r.broken -> r
       [] d = "|" -> [r EXCEPT !.required = FALSE]
       [] d = "*" -> [r EXCEPT !.out = Append(@, <<"list", SubSeq(argv, r.iarg + 1, Len(argv))>>),
                               !.iarg = Len(argv), !.required = FALSE]
       [] d = "$" -> [r EXCEPT !.broken = r.iarg < Len(argv)]
       [] d = "~" -> [r EXCEPT !.accept = TRUE]
       [] r.iarg < Len(argv) ->
            [r EXCEPT !.out = Append(@, <<argv[r.iarg + 1]>>), !.iarg = @ + 1, !.oarg = @ + 1]
       [] taken.found = Unset /\ r.required -> [r EXCEPT !.error = "missing"]
       [] OTHER -> [r EXCEPT !.out = Append(@, taken.found), !.keywords = taken.left, !.oarg = @ + 1]

ParseArgs(format, names, argv, keywords) ==
  LET r == FoldLeft(LAMBDA s, d : Directive(names, argv, s, d),
                    [out |-> <<>>, iarg |-> 0, oarg |-> 0, required |-> TRUE, accept |-> FALSE,
                     keywords |-> keywords, broken |-> FALSE, error |-> ""], format)
  IN CASE r.error # "" -> Error(r.error)
       [] r.iarg < Len(argv) -> Error("too many")
       [] ~r.accept /\ r.keywords # <<>> -> Error("unexpected")
       [] OTHER -> [slots |-> r.out \o (IF r.accept THEN <<<<"dict", r.keywords>>>> ELSE <<>>)]

CallNative(format, names, c) ==
  IF c.special = <<>> THEN ParseArgs(format, names, c.plain, <<>>)
  ELSE LET given == ProcessComplexArguments(c)
       IN IF given.error # "" THEN Error(given.error)
          ELSE ParseArgs(format, names, given.positionals, given.keywords)

(***************************************************************************)
(* What is called.  A callee is <<"function", x>>, <<"bound", receiver,    *)
(* callee>> or <<"instance", x, call>>, where call is <<>> or the __call__ *)
(* of its class, and the stack is a sequence of values.                    *)
(***************************************************************************)
Put(stack, argCount, x) == [stack EXCEPT ![Len(stack) - argCount] = x]

\* _rotate: room for a receiver before the arguments.
Rotate(stack, argCount) == InsertAt(stack, Len(stack) - argCount + 1, <<"none">>)

\* One turn of krk_callValue, for what is not a function: its receiver goes
\* before the arguments, into an entry that belongs to the call if there is
\* one ("returnDepth" is how many there are).
Unwrap(call) ==
  IF call.callee[1] = "function" THEN call
  ELSE LET stack == IF call.returnDepth = 0 THEN Rotate(call.stack, call.argCount) ELSE call.stack
           receiver == IF call.callee[1] = "bound" THEN call.callee[2] ELSE call.callee
       IN [callee |-> call.callee[3], stack |-> Put(stack, call.argCount, receiver), argCount |-> call.argCount + 1,
           returnDepth |-> IF call.returnDepth = 0 THEN 0 ELSE call.returnDepth - 1]

\* krk_callValue: what is called in the end, what it receives, and the stack
\* when it has returned.  A bound method's method may be anything callable.
CallValue(callee, stack, argCount, returnDepth) ==
  LET Turns[n \in Nat] == IF n = 0 THEN [callee |-> callee, stack |-> stack, argCount |-> argCount, returnDepth |-> returnDepth]
                          ELSE Unwrap(Turns[n - 1])
      call == Turns[MaxChain]
      slots == Len(call.stack) - call.argCount
  IN [callee |-> call.callee, receives |-> SubSeq(call.stack, slots + 1, Len(call.stack)),
      after |-> Append(SubSeq(call.stack, 1, slots - call.returnDepth), <<"result">>)]

\* OP_CALL: the callee is under the arguments.
OpCall(stack, n) == CallValue(stack[Len(stack) - n], stack, n, 1)

\* OP_CALL_METHOD, with what OP_GET_METHOD left under the arguments: a method
\* and its receiver, or None and something to be called without one.
OpCallMethod(stack, n) ==
  LET m == stack[Len(stack) - n - 1]
  IN IF m = <<"none">> THEN CallValue(stack[Len(stack) - n], stack, n, 2) ELSE CallValue(m, stack, n + 1, 1)

\* krk_callDirect: only the arguments are on the stack.
CallDirect(callee, stack, n) == CallValue(callee, stack, n, 0)
===============================================================================
