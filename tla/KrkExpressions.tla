---------------------------- MODULE KrkExpressions ----------------------------
(***************************************************************************)
(* Expressions, assignments and del: the parser of compiler.c from         *)
(* parsePrecedence down, the code that it emits as it goes, and the        *)
(* instructions of vm.c that this code is made of.                         *)
(*                                                                         *)
(* There is no tree: a handler emits code as it meets tokens, and when it  *)
(* finds out too late what it has been reading (a conditional expression,  *)
(* several targets) it drops the code, goes back and reads again.  The     *)
(* scanner and the parser are the place of the current token (KrkScanner). *)
(***************************************************************************)
EXTENDS Expressions

\* The trees to write, compile and run; the most values that one tests.
CONSTANTS Trees, MaxTests

\* Where the model leaves out a tree for which the code is known to be wrong:
\* "last" allows that the last of several targets is none, "bases" allows
\* parentheses in the parameters of a class.
CONSTANT Unsound

ASSUME MaxTests \in Nat

Start(toks) == [toks |-> toks, at |-> 1, code |-> <<>>, err |-> FALSE, deleted |-> FALSE]

Cur(s) == s.toks[s.at]
Prev(s) == IF s.at = 1 THEN "" ELSE s.toks[s.at - 1]
Is(s, t) == Cur(s) = t
Adv(s) == IF Is(s, "end") THEN s ELSE [s EXCEPT !.at = @ + 1]
Fail(s) == [s EXCEPT !.err = TRUE]
Consume(s, t) == IF Is(s, t) THEN Adv(s) ELSE Fail(s)

\* emitByte, EMIT_OPERAND_OP.
Put(s, op, name, k, j) == [s EXCEPT !.code = Append(@, [op |-> op, name |-> name, k |-> k, j |-> j])]
Emit(s, op) == Put(s, op, "", 0, 0)
EmitN(s, op, k) == Put(s, op, "", k, 0)
EmitName(s, op, name) == Put(s, op, name, 0, 0)

\* emitJump is Emit; patchJump of the instruction i.
PatchJump(s, i) == [s EXCEPT !.code[i].k = Len(s.code) - i]

(***************************************************************************)
(* Precedences and rules: krk_parseRules.                                  *)
(***************************************************************************)
Ladder == <<"ASSIGNMENT", "COMMA", "MUST_ASSIGN", "CAN_ASSIGN", "DEL_TARGET", "TERNARY", "OR", "AND", "NOT",
            "COMPARISON", "BITOR", "BITXOR", "BITAND", "SHIFT", "SUM", "TERM", "FACTOR", "EXPONENT", "PRIMARY">>
Prec == [p \in ToSet(Ladder) |-> CHOOSE i \in DOMAIN Ladder : Ladder[i] = p]

Comparisons == {"<", "==", "!=", "in", "is", "not"}
Binary == [t \in {"+", "*", "**", "|"} |-> CASE t = "+" -> "SUM" [] t = "*" -> "TERM" [] t = "|" -> "BITOR" [] t = "**" -> "EXPONENT"]

RulePrecedence(t) ==
  CASE t \in {".", "(", "["} -> Prec["PRIMARY"]
    [] t \in DOMAIN Binary -> Prec[Binary[t]]
    [] t \in Comparisons -> Prec["COMPARISON"]
    [] t = "and" -> Prec["AND"]
    [] t = "or" -> Prec["OR"]
    [] t = "if" -> Prec["TERNARY"]
    [] t = "," -> Prec["COMMA"]
    [] OTHER -> 0

Symbols == {".", "(", ")", "[", "]", "{", "}", ":", ",", "=", "+=", "++", "+", "*", "**", "|", "-", "<", "==", "!=", "in", "is",
            "not", "and", "or", "if", "else", "del", "class", "end"}
IsName(t) == t \notin Symbols
HasPrefix(t) == IsName(t) \/ t \in {"(", "[", "{", "*", "-", "not"}

\* matchAssignment, checkEndOfDel, matchComplexEnd: what they look for.
IsAssignment(s) == Cur(s) \in {"=", "+=", "++"}
EndOfDel(s) == Cur(s) \in {",", "end"}
ComplexEnd(s) == Cur(s) \in {",", "=", ")"}

InvalidTarget(s, e) == IF (e = "assign" /\ IsAssignment(s)) \/ (e = "del" /\ EndOfDel(s)) THEN Fail(s) ELSE s

(***************************************************************************)
(* parsePrecedence.                                                        *)
(***************************************************************************)
RECURSIVE Parse(_, _), Infixes(_, _, _, _), Prefix(_, _, _), Infix(_, _, _), Items(_, _, _), StarItems(_, _), StarComma(_, _),
          ParenItems(_, _), CommaItems(_, _), Entries(_, _), Arguments(_, _), CompareChained(_, _), NextTarget(_, _, _, _, _)

ExprType(p) ==
  CASE p <= Prec["ASSIGNMENT"] \/ p = Prec["CAN_ASSIGN"] -> "assign"
    [] p = Prec["MUST_ASSIGN"] -> "target"
    [] p = Prec["DEL_TARGET"] -> "del"
    [] OTHER -> "normal"

\* The state to go back to: the code and the place before the expression.
Rewind(s) == [code |-> s.code, at |-> s.at]

Parse(s, p) ==
  IF s.err THEN s
  ELSE IF ~HasPrefix(Cur(s)) \/ (Is(s, "*") /\ p > Prec["COMMA"]) THEN Fail(s)
  ELSE Infixes(Prefix(Adv(s), ExprType(p), Rewind(s)), p, ExprType(p), Rewind(s))

Infixes(s, p, e, rewind) ==
  IF s.err THEN s
  ELSE IF p <= RulePrecedence(Cur(s)) /\ ~(e = "target" /\ Prev(s) \in {",", "="})
  THEN Infixes(Infix(Adv(s), e, rewind), p, e, rewind)
  ELSE IF e = "assign" /\ IsAssignment(s) THEN Fail(s) ELSE s

ParseFor(s, name) == Parse(s, Prec[name])
\* expression.
Expression(s) == ParseFor(s, "CAN_ASSIGN")

(***************************************************************************)
(* Variables, attributes and items, read, assigned, changed or deleted:    *)
(* DO_VARIABLE, dot and getitem.  "ops" are the instructions of each kind, *)
(* "of" is on how many values they work.                                   *)
(***************************************************************************)
\* assignmentValue, after its token.
AssignmentValue(s) ==
  IF Prev(s) = "++" THEN Emit(EmitN(s, "CONSTANT", 1), "INPLACE_ADD") ELSE Emit(ParseFor(s, "COMMA"), "INPLACE_ADD")

Copies(s, of) == IF of = 2 THEN EmitN(EmitN(s, "DUP", 1), "DUP", 1) ELSE IF of = 1 THEN EmitN(s, "DUP", 0) ELSE s

Reference(s, e, ops, name, of) ==
  CASE e = "target" /\ ComplexEnd(s) ->
         IF of = 0 THEN EmitName(Adv(s), ops.set, name) ELSE Emit(EmitName(EmitN(Adv(s), "DUP", of), ops.set, name), "POP")
    [] e = "assign" /\ Is(s, "=") -> EmitName(ParseFor(Adv(s), "ASSIGNMENT"), ops.set, name)
    [] e = "assign" /\ IsAssignment(s) /\ ~Is(s, "=") ->
         EmitName(AssignmentValue(EmitName(Copies(Adv(s), of), ops.get, name)), ops.set, name)
    [] e = "del" /\ EndOfDel(s) -> EmitName([s EXCEPT !.deleted = TRUE], ops.delete, name)
    [] OTHER -> EmitName(s, ops.get, name)

VariableOps == [get |-> "GET_GLOBAL", set |-> "SET_GLOBAL", delete |-> "DEL_GLOBAL"]
PropertyOps == [get |-> "GET_PROPERTY", set |-> "SET_PROPERTY", delete |-> "DEL_PROPERTY"]
ItemOps == [get |-> "INVOKE_GETTER", set |-> "INVOKE_SETTER", delete |-> "INVOKE_DELETE"]

\* sliceExpression.
SliceEnd(s) == Cur(s) \in {"]", ","}
SliceRest(s) ==
  IF SliceEnd(s) THEN EmitN(Emit(s, "NONE"), "SLICE", 2)
  ELSE LET Stop == IF Is(s, ":") THEN Emit(s, "NONE") ELSE Expression(s)
           Step(t) == IF Is(t, ":") /\ ~Is(Adv(t), "]") /\ ~Is(Adv(t), ",") THEN EmitN(Expression(Adv(t)), "SLICE", 3)
                      ELSE EmitN(IF Is(t, ":") THEN Adv(t) ELSE t, "SLICE", 2)
       IN Step(Stop)
SliceExpression(s) ==
  LET After(t) == IF Is(t, ":") THEN SliceRest(Adv(t)) ELSE t
  IN IF Is(s, ":") THEN SliceRest(Adv(Emit(s, "NONE"))) ELSE After(Expression(s))

RECURSIVE Indices(_, _)
Indices(s, n) ==
  IF ~s.err /\ Is(s, ",") /\ ~Is(Adv(s), "]") THEN Indices(SliceExpression(Adv(s)), n + 1)
  ELSE IF Is(s, ",") THEN EmitN(Adv(s), "TUPLE", n) ELSE IF n > 1 THEN EmitN(s, "TUPLE", n) ELSE s
GetItem(s, e) == Reference(Consume(Indices(SliceExpression(s), 1), "]"), e, ItemOps, "", 2)

\* attributeUnpack: the names, then the values of an assignment.
RECURSIVE NamesOf(_, _), Values(_, _)
NamesOf(s, names) ==
  IF ~IsName(Cur(s)) THEN [s |-> Fail(s), names |-> names]
  ELSE IF Is(Adv(s), ",") THEN NamesOf(Adv(Adv(s)), Append(names, Cur(s)))
  ELSE [s |-> Consume(Adv(s), ")"), names |-> Append(names, Cur(s))]
Values(s, n) ==
  LET More(t) == IF ~t.err /\ Is(t, ",") THEN Values(Adv(t), n + 1) ELSE [s |-> t, n |-> n] IN More(Expression(s))
SetAll(s, names) ==
  LET Set(i, t) == IF i = 1 THEN EmitName(t, "SET_PROPERTY", names[1])
                   ELSE Emit(EmitName(Emit(EmitN(t, "DUP", i), "SWAP"), "SET_PROPERTY", names[i]), "POP")
  IN FoldRightDomain(Set, names, s)
GetAll(s, names) ==
  LET Get(t, name) == Emit(EmitName(EmitN(t, "DUP", 0), "GET_PROPERTY", name), "SWAP")
  IN EmitN(Emit(FoldLeft(Get, s, names), "POP"), "TUPLE", Len(names))
AttributeUnpack(s, e) ==
  LET Assigned(r, names) ==
        CASE r.n = 1 /\ Len(names) > 1 -> SetAll(EmitN(r.s, "UNPACK", Len(names)), names)
          [] r.n > 1 /\ Len(names) = 1 -> SetAll(EmitN(r.s, "TUPLE", r.n), names)
          [] r.n # Len(names) /\ r.n > 1 /\ Len(names) > 1 -> Fail(r.s)
          [] OTHER -> SetAll(r.s, names)
      Of(r) == CASE e = "target" -> Fail(r.s)
                 [] e = "assign" /\ Is(r.s, "=") -> Assigned(Values(Adv(r.s), 1), r.names)
                 [] OTHER -> GetAll(r.s, r.names)
  IN Of(NamesOf(s, <<>>))

\* call, with arguments that are given by position.
Arguments(s, n) == IF s.err THEN s ELSE IF Is(s, ",") THEN Arguments(Expression(Adv(s)), n + 1) ELSE EmitN(Consume(s, ")"), "CALL", n)
Call(s, e) == InvalidTarget(IF Is(s, ")") THEN EmitN(Adv(s), "CALL", 0) ELSE Arguments(Expression(s), 1), e)

Dot(s, e) ==
  CASE Is(s, "(") -> AttributeUnpack(Adv(s), e)
    [] ~Is(s, "(") /\ ~IsName(Cur(s)) -> Fail(s)
    [] IsName(Cur(s)) /\ Is(Adv(s), "(") -> Call(EmitName(Adv(Adv(s)), "GET_METHOD", Cur(s)), "method")
    [] OTHER -> Reference(Adv(s), e, PropertyOps, Cur(s), 1)

(***************************************************************************)
(* Operators.                                                              *)
(***************************************************************************)
\* binary.
BinaryOp(s, e) ==
  LET op == Prev(s)
      p == RulePrecedence(op)
  IN EmitName(InvalidTarget(Parse(s, IF op = "**" THEN p ELSE p + 1), e), "BINARY", op)

\* unary, unot_.
Unary(s, e) == Emit(InvalidTarget(ParseFor(s, "FACTOR"), e), "NEGATE")
Unot(s, e) == InvalidTarget(Emit(ParseFor(s, "NOT"), "NOT"), e)

\* and_ and or_.
Either(s, e, jump, precedence) ==
  LET j == Len(s.code) + 1 IN InvalidTarget(PatchJump(ParseFor(Emit(s, jump), precedence), j), e)

\* compareChained: an operand between two operators is kept under the result.
\* Mutant: it is not dropped when the chain is left.
MutLeave(s, inner) == s
Leave(s, inner) == IF inner THEN s ELSE Emit(Emit(s, "SWAP"), "POP")
Chained(s) == RulePrecedence(Cur(s)) = Prec["COMPARISON"]
CompareChained(s, inner) ==
  LET op == Prev(s)
      s1 == IF op = "not" THEN Consume(s, "in") ELSE s
      invert == op \in {"not", "!="} \/ (op = "is" /\ Is(s1, "not"))
      s2 == IF op = "is" /\ Is(s1, "not") THEN Adv(s1) ELSE s1
      Kept(t) == IF Chained(t) THEN EmitN(Emit(t, "SWAP"), "DUP", 1) ELSE t
      Compared(t) == EmitName(t, IF op \in {"in", "not"} THEN "INVOKE_CONTAINS" ELSE "COMPARE", IF op = "!=" THEN "==" ELSE op)
      Inverted(t) == IF invert THEN Emit(t, "NOT") ELSE t
      More(t, j) == Leave(PatchJump(CompareChained(Adv(Emit(t, "JUMP_IF_FALSE_OR_POP")), TRUE), j), inner)
      Rest(t) == CASE t.err -> t
                   [] ~t.err /\ Chained(t) -> More(t, Len(t.code) + 1)
                   [] OTHER -> IF inner THEN EmitN(t, "JUMP", 2) ELSE t
  IN Rest(Inverted(Compared(Kept(Parse(s2, Prec["COMPARISON"] + 1)))))

\* ternary: the branch that was read as an expression is dropped, and read
\* again behind the condition and the other branch.
Ternary(s, rewind) ==
  LET Condition == Emit(ParseFor([s EXCEPT !.code = rewind.code], "OR"), "JUMP_IF_TRUE_OR_POP")
      Else(t) == Emit(ParseFor(Consume(t, "else"), "TERNARY"), "JUMP")
      Then(t, j) == PatchJump(ParseFor([Emit(PatchJump(t, j), "POP") EXCEPT !.at = rewind.at], "OR"), Len(t.code))
      Out(t, u) == [IF Is(t, "if") THEN t ELSE Fail(t) EXCEPT !.at = u.at]
      Both(t, j) == Out(Then(t, j), t)
      Branches(c) == Both(Else(c), Len(c.code))
  IN Branches(Condition)

(***************************************************************************)
(* Collections.                                                            *)
(***************************************************************************)
ListOf == [make |-> "MAKE_LIST", extend |-> "LIST_EXTEND_TOP", append |-> "LIST_APPEND_TOP", close |-> "]"]
SetOf == [make |-> "MAKE_SET", extend |-> "SET_UPDATE_TOP", append |-> "SET_ADD_TOP", close |-> "}"]

\* finishStarList and finishStarSet.
StarItems(s, of) ==
  IF s.err THEN s
  ELSE IF Is(s, ",") /\ ~Is(Adv(s), of.close)
  THEN StarItems(IF Is(Adv(s), "*") THEN Emit(ParseFor(Adv(Adv(s)), "BITOR"), of.extend) ELSE Emit(Expression(Adv(s)), of.append), of)
  ELSE Consume(IF Is(s, ",") THEN Adv(s) ELSE s, of.close)
FinishStar(s, n, of) == StarItems(Emit(ParseFor(EmitN(s, of.make, n), "BITOR"), of.extend), of)

\* The rest of list, and of dict for a set, after n items.
Items(s, n, of) ==
  IF s.err THEN s
  ELSE IF Is(s, ",") /\ ~Is(Adv(s), of.close)
  THEN IF Is(Adv(s), "*") THEN FinishStar(Adv(Adv(s)), n, of) ELSE Items(Expression(Adv(s)), n + 1, of)
  ELSE Consume(EmitN(IF Is(s, ",") THEN Adv(s) ELSE s, of.make, n), of.close)
List(s) == CASE Is(s, "]") -> EmitN(Adv(s), "MAKE_LIST", 0)
             [] Is(s, "*") -> FinishStar(Adv(s), 0, ListOf)
             [] OTHER -> Items(Expression(s), 1, ListOf)

\* The rest of dict for a dict, after n values, and finishStarDict when n is
\* -1: the dict is there already.
Entry(s) == Expression(Consume(Expression(s), ":"))
Update(s) == Emit(ParseFor(s, "BITOR"), "DICT_UPDATE_TOP")
Entries(s, n) ==
  IF s.err THEN s
  ELSE IF Is(s, ",") /\ ~Is(Adv(s), "}")
  THEN IF Is(Adv(s), "**") THEN Entries(Update(IF n = -1 THEN Adv(Adv(s)) ELSE EmitN(Adv(Adv(s)), "MAKE_DICT", n)), -1)
       ELSE IF n = -1 THEN Entries(Emit(Entry(Adv(s)), "DICT_SET_TOP"), -1) ELSE Entries(Entry(Adv(s)), n + 2)
  ELSE Consume(IF n = -1 THEN IF Is(s, ",") THEN Adv(s) ELSE s ELSE EmitN(IF Is(s, ",") THEN Adv(s) ELSE s, "MAKE_DICT", n), "}")
Dict(s) ==
  LET Rest(t) == IF Cur(t) \in {",", "}"} THEN Items(t, 1, SetOf) ELSE Entries(Expression(Consume(t, ":")), 2)
  IN CASE Is(s, "}") -> EmitN(Adv(s), "MAKE_DICT", 0)
       [] Is(s, "*") -> FinishStar(Adv(s), 0, SetOf)
       [] Is(s, "**") -> Entries(Update(EmitN(Adv(s), "MAKE_DICT", 0)), -1)
       [] OTHER -> Rest(Expression(s))

\* What was read as a tuple: the state, how many items it had, and, when one
\* was starred, how many came before it and from it on.
Read(s, n, before, after) == [s |-> s, n |-> n, before |-> before, after |-> after]

\* finishStarComma, after n items.
RECURSIVE StarCommaItems(_, _, _, _)
StarCommaItems(s, n, before, after) ==
  IF s.err \/ ~Is(s, ",") THEN Read(Emit(s, "TUPLE_FROM_LIST"), n, before, after)
  ELSE IF ~HasPrefix(Cur(Adv(s))) THEN Read(Emit(Adv(s), "TUPLE_FROM_LIST"), n, before, after)
  ELSE IF Is(Adv(s), "*") THEN StarCommaItems(Emit(ParseFor(Adv(Adv(s)), "BITOR"), "LIST_EXTEND_TOP"), n + 1, before, after)
  ELSE StarCommaItems(Emit(ParseFor(Adv(s), "TERNARY"), "LIST_APPEND_TOP"), n + 1, before, after + 1)
StarComma(s, n) ==
  LET Checked(t) == IF n = 0 /\ ~Is(t, ",") THEN Fail(t) ELSE t
  IN StarCommaItems(Checked(Emit(ParseFor(EmitN(s, "MAKE_LIST", n), "BITOR"), "LIST_EXTEND_TOP")), n + 1, n, 1)

\* comma after n items, and parens after its first.
CommaItems(s, n) ==
  CASE s.err \/ ~Is(s, ",") -> Read(EmitN(s, "TUPLE", n), n, 0, 0)
    [] ~s.err /\ Is(s, ",") /\ ~HasPrefix(Cur(Adv(s))) -> Read(EmitN(Adv(s), "TUPLE", n), n, 0, 0)
    [] OTHER -> IF Is(Adv(s), "*") THEN StarComma(Adv(Adv(s)), n) ELSE CommaItems(ParseFor(Adv(s), "TERNARY"), n + 1)
ParenItems(s, n) ==
  IF s.err \/ ~Is(s, ",") THEN Read(IF n = 1 THEN s ELSE EmitN(s, "TUPLE", n), n, 0, 0)
  ELSE IF Is(Adv(s), ")") THEN Read(EmitN(Adv(s), "TUPLE", n), n, 0, 0)
  ELSE IF Is(Adv(s), "*") THEN StarComma(Adv(Adv(s)), n)
  ELSE ParenItems(Expression(Adv(s)), n + 1)

(***************************************************************************)
(* Several targets: complexAssignmentTargets and complexAssignment.        *)
(***************************************************************************)
TwoStars(s, star) == Is(s, "*") /\ star

\* The target after i of n; "nested" is 0, 1 or 2 as "parenthesized" is.
NextTarget(s, i, n, nested, star) ==
  LET close == IF nested = 0 THEN "=" ELSE ")"
      Comma(t) == IF Prev(t) = "," THEN Consume(t, close) ELSE t
      Paren(t) == IF nested > 0 /\ Prev(t) # ")" THEN Fail(t) ELSE t
      Equal(t) == IF nested = 1 THEN Consume(t, "=") ELSE t
      More(t) == CASE t.err -> t
                   [] ~t.err /\ i + 1 = n -> Equal(Paren(Comma(t)))
                   [] OTHER -> IF Cur(t) \in {",", "=", ")"} \/ Prev(t) = "=" THEN Fail(t)
                               ELSE NextTarget(t, i + 1, n, nested, star \/ Is(s, "*"))
  IN IF TwoStars(s, star) THEN Fail(s)
     ELSE More(Emit(ParseFor(IF Is(s, "*") THEN Adv(s) ELSE s, "MUST_ASSIGN"), "POP"))

Unpacked(s, read) ==
  EmitN(IF read.after > 0 THEN Put(EmitN(s, "DUP", 0), "UNPACK_EX", "", read.before, read.after - 1)
        ELSE EmitN(EmitN(s, "DUP", 0), "UNPACK", read.n), "REVERSE", read.n)

Targets(s, at, read, nested) == IF s.err THEN s ELSE NextTarget([Unpacked(s, read) EXCEPT !.at = at], 0, read.n, nested, FALSE)

\* The value is read first, then the targets again.
ComplexAssignment(s, rewind, read, nested) ==
  LET Back(t) == [Targets(t, rewind.at, read, nested) EXCEPT !.at = t.at]
  IN Back(ParseFor([s EXCEPT !.code = rewind.code], "ASSIGNMENT"))

\* parens, behind its parenthesis.
Parens(s, e) ==
  LET Inner == CASE Is(s, ")") -> Read(EmitN(s, "TUPLE", 0), 0, 0, 0)
                 [] Is(s, "*") -> StarComma(Adv(s), 0)
                 [] OTHER -> ParenItems(Expression(s), 1)
      Nested(t) == IF ComplexEnd(t) THEN Adv(t) ELSE Fail(t)
      Closed(t, read) ==
        CASE e = "assign" /\ Is(t, "=") -> IF read.n = 0 THEN Fail(t) ELSE ComplexAssignment(Adv(t), Rewind(s), read, 1)
          [] e = "target" /\ ComplexEnd(t) ->
               IF read.n = 0 THEN Fail(t) ELSE Nested(Targets([t EXCEPT !.code = s.code], s.at, read, 2))
          [] OTHER -> t
      Checked(read) == Closed(Consume(read.s, ")"), read)
  IN Checked(Inner)

\* comma, and pstar.
Several(read, e, rewind) == IF e = "assign" /\ Is(read.s, "=") THEN ComplexAssignment(Adv(read.s), rewind, read, 0) ELSE read.s
Comma(s, e, rewind) ==
  LET First == IF ~HasPrefix(Cur(s)) THEN Read(EmitN(s, "TUPLE", 1), 1, 0, 0)
               ELSE IF Is(s, "*") THEN StarComma(Adv(s), 1) ELSE CommaItems(ParseFor(s, "TERNARY"), 2)
  IN Several(First, e, rewind)
Pstar(s, e, rewind) == Several(StarComma(s, 0), e, rewind)

(***************************************************************************)
(* The rules.                                                              *)
(***************************************************************************)
Prefix(s, e, rewind) ==
  LET t == Prev(s)
  IN CASE IsName(t) -> Reference(s, e, VariableOps, t, 0)
       [] t = "(" -> Parens(s, e)
       [] t = "[" -> List(s)
       [] t = "{" -> Dict(s)
       [] t = "*" -> Pstar(s, e, rewind)
       [] t = "-" -> Unary(s, e)
       [] t = "not" -> Unot(s, e)

Infix(s, e, rewind) ==
  LET t == Prev(s)
  IN CASE t = "." -> Dot(s, e)
       [] t = "(" -> Call(s, e)
       [] t = "[" -> GetItem(s, e)
       [] t \in DOMAIN Binary -> BinaryOp(s, e)
       [] t \in Comparisons -> InvalidTarget(CompareChained(s, FALSE), e)
       [] t = "and" -> Either(s, e, "JUMP_IF_FALSE_OR_POP", "AND")
       [] t = "or" -> Either(s, e, "JUMP_IF_TRUE_OR_POP", "OR")
       [] t = "if" -> Ternary(s, rewind)
       [] t = "," -> Comma(s, e, rewind)

\* delStatement, classDeclaration, and expressionStatement without its OP_POP; then nothing
\* may follow (simpleStatement).
RECURSIVE DelStatement(_)
DelStatement(s) ==
  LET After(t) == IF t.err \/ ~t.deleted THEN Fail(t) ELSE IF Is(t, ",") THEN DelStatement(Adv(t)) ELSE t
  IN After(ParseFor([s EXCEPT !.deleted = FALSE], "DEL_TARGET"))

\* classDeclaration: the parameters are skipped, for the body comes first, and
\* then read again as the arguments of a call.
RECURSIVE Skipped(_, _)
Skipped(s, depth) ==
  CASE Is(s, "end") -> s
    [] Is(s, ")") /\ depth = 0 -> Adv(s)
    [] OTHER -> Skipped(Adv(s), depth + (CASE Is(s, "{") -> 1 [] Is(s, "}") -> -1 [] OTHER -> 0))
ClassDeclaration(s) ==
  LET Made == EmitName(Emit(Emit(s, "PUSH_BUILD_CLASS"), "CLOSURE"), "NAME", Cur(s))
      after == Consume(IF Is(Adv(s), "(") THEN Skipped(Adv(Adv(s)), 0) ELSE Adv(s), ":")
      Called == IF Is(Adv(s), "(") THEN Call([Made EXCEPT !.at = s.at + 2], "class") ELSE EmitN(Made, "CALL", 0)
      Three(t) == [t EXCEPT !.code[Len(t.code)].k = @ + 2, !.at = after.at, !.err = @ \/ after.err]
  IN IF after.err THEN after ELSE Three(Called)

Compile(text) ==
  LET Ended(s) == IF ~s.err /\ Is(s, "end") THEN s ELSE Fail(s)
      From(s) == Ended(CASE Is(s, "del") -> DelStatement(Adv(s))
                         [] Is(s, "class") -> ClassDeclaration(Adv(s))
                         [] OTHER -> ParseFor(s, "ASSIGNMENT"))
  IN From(Start(Append(text, "end")))

(***************************************************************************)
(* The instructions.                                                       *)
(***************************************************************************)
Machine(world) == [m |-> Memory(world), stack |-> <<>>, pc |-> 1]

Top(x, k) == x.stack[Len(x.stack) - k]
\* The last k values, and the stack without them.
Operands(x, k) == SubSeq(x.stack, Len(x.stack) - k + 1, Len(x.stack))
Drop(x, k) == [x EXCEPT !.stack = SubSeq(@, 1, Len(@) - k)]
Push(x, v) == [x EXCEPT !.stack = Append(@, v)]
PushAll(x, vs) == [x EXCEPT !.stack = @ \o vs]

\* An operation on the last k values, and its value in their place.
Operate(x, op, name, k) ==
  LET Done(r) == [Push(Drop(x, k), r.v) EXCEPT !.m = r.m] IN Done(Act(x.m, op, name, Operands(x, k)))
Noted(x, op, name, of) == [x EXCEPT !.m = Did(@, op, name, of)]

\* The collection under the last k values has one item more.
Added(x, k, item) ==
  LET Grown(c) == Value(c.kind, c.i, Append(c.of, item)) IN Push(Drop(x, k + 1), Grown(Top(x, k)))
Pairs(vs) == [i \in 1 .. Len(vs) \div 2 |-> Value("entry", 0, <<vs[2 * i - 1], vs[2 * i]>>)]

Reversed(x, k) == [x EXCEPT !.stack = SubSeq(@, 1, Len(@) - k) \o Reverse(Operands(x, k))]

\* Variables and attributes.
Accessing(x, ins) ==
  CASE ins.op = "GET_GLOBAL" -> Operate(x, "get", ins.name, 0)
    [] ins.op = "SET_GLOBAL" -> Noted(x, "set", ins.name, <<Top(x, 0)>>)
    [] ins.op = "DEL_GLOBAL" -> Noted(x, "del", ins.name, <<>>)
WithAttribute(x, ins) ==
  CASE ins.op \in {"GET_PROPERTY", "GET_METHOD"} -> Operate(x, "attr", ins.name, 1)
    [] ins.op = "SET_PROPERTY" -> Operate(x, "set attr", ins.name, 2)
    [] ins.op = "DEL_PROPERTY" -> Drop(Noted(x, "del attr", ins.name, Operands(x, 1)), 1)

\* Instructions without an operand.
Computed(x, ins) ==
  CASE ins.op = "INVOKE_GETTER" -> Operate(x, "item", "", 2)
    [] ins.op = "INVOKE_SETTER" -> Operate(x, "set item", "", 3)
    [] ins.op = "INVOKE_DELETE" -> Drop(Noted(x, "del item", "", Operands(x, 2)), 2)
    [] ins.op = "INVOKE_CONTAINS" -> Operate(x, "in", "", 2)
    [] ins.op \in {"BINARY", "COMPARE"} -> Operate(x, ins.name, "", 2)
    [] ins.op = "INPLACE_ADD" -> Operate(x, "+=", "", 2)
    [] ins.op = "NEGATE" -> Operate(x, "negative", "", 1)
    [] ins.op = "NOT" -> Operate(x, "not", "", 1)
    [] ins.op = "NONE" -> Push(x, None)
    [] ins.op = "POP" -> Drop(x, 1)
    [] ins.op = "SWAP" -> Reversed(x, 2)

\* Collections of the last values, and items for one below them.
Makers == [TUPLE |-> "tuple", MAKE_LIST |-> "list", MAKE_SET |-> "set", SLICE |-> "slice", MAKE_DICT |-> "dict"]
Collect(x, ins) ==
  Push(Drop(x, ins.k), Value(Makers[ins.op], 0, IF ins.op = "MAKE_DICT" THEN Pairs(Operands(x, ins.k)) ELSE Operands(x, ins.k)))
Grow(x, ins) ==
  CASE ins.op \in {"LIST_EXTEND_TOP", "SET_UPDATE_TOP", "DICT_UPDATE_TOP"} ->
         Added(Noted(x, "iter", "", Operands(x, 1)), 1, Starred(Top(x, 0)))
    [] ins.op \in {"LIST_APPEND_TOP", "SET_ADD_TOP"} -> Added(x, 1, Top(x, 0))
    [] ins.op = "DICT_SET_TOP" -> Added(x, 2, Pairs(Operands(x, 2))[1])
    [] ins.op = "TUPLE_FROM_LIST" -> Push(Drop(x, 1), [Top(x, 0) EXCEPT !.kind = "tuple"])

Unpack(x, items) == PushAll(Drop(Noted(x, "iter", "", Operands(x, 1)), 1), items)
Parts(v, n) == [i \in 1 .. n |-> Part(v, i)]
LastParts(v, n) == [i \in 1 .. n |-> Part(v, i - n - 1)]
UnpackEx(x, v, before, after) == Unpack(x, Parts(v, before) \o <<Remaining(v, before, after)>> \o LastParts(v, after))

Jump(x, ins) ==
  IF ins.op = "JUMP" THEN [x EXCEPT !.pc = @ + ins.k]
  ELSE [(IF True(x.m, Top(x, 0)) = (ins.op = "JUMP_IF_TRUE_OR_POP") THEN [x EXCEPT !.pc = @ + ins.k] ELSE Drop(x, 1))
          EXCEPT !.m = Tested(@, Top(x, 0))]

\* An instruction, without going on to the next.
Do(x, ins) ==
  CASE ins.op \in {VariableOps.get, VariableOps.set, VariableOps.delete} -> Accessing(x, ins)
    [] ins.op \in {PropertyOps.get, "GET_METHOD", PropertyOps.set, PropertyOps.delete} -> WithAttribute(x, ins)
    [] ins.op \in DOMAIN Makers -> Collect(x, ins)
    [] ins.op \in {"LIST_EXTEND_TOP", "SET_UPDATE_TOP", "DICT_UPDATE_TOP", "LIST_APPEND_TOP", "SET_ADD_TOP", "DICT_SET_TOP", "TUPLE_FROM_LIST"} ->
         Grow(x, ins)
    [] ins.op \in {"JUMP", "JUMP_IF_FALSE_OR_POP", "JUMP_IF_TRUE_OR_POP"} -> Jump(x, ins)
    [] ins.op = "UNPACK" -> Unpack(x, Parts(Top(x, 0), ins.k))
    [] ins.op = "UNPACK_EX" -> UnpackEx(x, Top(x, 0), ins.k, ins.j)
    [] ins.op = "CALL" -> Operate(x, "call", "", ins.k + 1)
    [] ins.op = "CONSTANT" -> Push(x, Value("one", 0, <<>>))
    [] ins.op = "PUSH_BUILD_CLASS" -> Push(x, ClassParts("")[1])
    [] ins.op = "CLOSURE" -> Push(x, ClassParts("")[2])
    [] ins.op = "NAME" -> Push(x, ClassParts(ins.name)[3])
    [] ins.op = "DUP" -> Push(x, Top(x, ins.k))
    [] ins.op = "REVERSE" -> Reversed(x, ins.k)
    [] OTHER -> Computed(x, ins)

RECURSIVE Execute(_, _)
Execute(x, code) ==
  LET Moved(y) == [y EXCEPT !.pc = @ + 1]
  IN IF x.pc > Len(code) THEN x ELSE Execute(Moved(Do(x, code[x.pc])), code)

(***************************************************************************)
(* The model: a tree is written, compiled, and run.                        *)
(***************************************************************************)
VARIABLES
  tree,
  phase,     \* "written", "compiled" or "run"
  extra,     \* whether operands are in parentheses where they need not be
  compiled,  \* the state of the compiler at its end
  world,     \* the values that are true, of those that are tested
  machine    \* the machine at its end

vars == <<tree, phase, extra, compiled, world, machine>>

NoMachine == Machine({})
Init == /\ tree \in Trees /\ extra \in BOOLEAN
        /\ BadLast(tree) => "last" \in Unsound
        /\ Bracketed(tree, extra) => "bases" \in Unsound
        /\ phase = "written" /\ compiled = Start(<<"end">>) /\ world = {} /\ machine = NoMachine

WriteAndCompile ==
  /\ phase = "written" /\ phase' = "compiled"
  /\ compiled' = Compile(Inside(tree, extra))
  /\ UNCHANGED <<tree, extra, world, machine>>

Run == /\ phase = "compiled" /\ ~compiled.err /\ phase' = "run"
       /\ world' \in SUBSET (1 .. MaxTests)
       /\ machine' = Execute(Machine(world'), compiled.code)
       /\ UNCHANGED <<tree, extra, compiled>>

Next == WriteAndCompile \/ Run

Spec == Init /\ [][Next]_vars

(***************************************************************************)
(* Properties.                                                             *)
(***************************************************************************)
\* Whatever is true, the code does the operations of the expression in the
\* order of the language, each once and with the values it is for, and leaves
\* its value and nothing else on the stack: a chain of comparisons, a
\* conditional expression and a list of targets work although their code was
\* thrown away and written again, with the parentheses of the text or without.
CodeMeans ==
  phase = "run" =>
    LET meant == Meaning(tree, world)
    IN /\ machine.m.log = meant.m.log
       /\ machine.stack = IF tree.kind = "del" THEN <<>> ELSE <<meant.v>>

\* The compiler refuses an assignment, a change or a deletion exactly when a
\* target is none.
RefusedRight == phase = "compiled" => compiled.err = ~Valid(tree)
===============================================================================
