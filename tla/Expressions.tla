----------------------------- MODULE Expressions ------------------------------
(***************************************************************************)
(* Expressions as trees: how one is written, and what its evaluation does. *)
(*                                                                         *)
(* A node has a kind, names or operators, and children.  What evaluation   *)
(* does is a log of operations in their order, each with the values it is  *)
(* given; the value of an operation is its place in the log, so any two    *)
(* operations are told apart and nothing is supposed of what they do.      *)
(* Whether a value that is tested is true is decided by the world: the set *)
(* of the numbers of the tested values that are.                           *)
(***************************************************************************)
EXTENDS Integers, SequencesExt

Node(kind, names, children) == [kind |-> kind, names |-> names, children |-> children]
Variable(name) == Node("name", <<name>>, <<>>)

(***************************************************************************)
(* Writing.  The levels are those of the grammar: an operand that binds    *)
(* less tightly than its place needs is in parentheses.                    *)
(***************************************************************************)
\* A tuple that has items, and so may do without parentheses.
Listed(e) == e.kind = "tuple" /\ e.children # <<>>
Level(e) ==
  CASE e.kind \in {"assign", "augment", "increment", "del", "class"} -> 1
    [] Listed(e) -> 2
    [] e.kind = "if" -> 6
    [] e.kind = "or" -> 7
    [] e.kind = "and" -> 8
    [] e.kind = "not" -> 9
    [] e.kind = "compare" -> 10
    [] e.kind = "binary" -> (CASE e.names[1] = "|" -> 11 [] e.names[1] = "+" -> 15 [] e.names[1] = "*" -> 16 [] OTHER -> 18)
    [] e.kind = "negative" -> 17
    [] e.kind \in {"attr", "attrs", "item", "call"} -> 19
    [] OTHER -> 20

Commas(texts) == FlattenSeq([i \in DOMAIN texts |-> IF i = 1 THEN texts[i] ELSE <<",">> \o texts[i]])

RECURSIVE Text(_, _, _), Inside(_, _), Target(_, _, _)

\* The text of e where "level" is needed; "extra" puts every operand in
\* parentheses that may be.
Text(e, level, extra) ==
  IF Level(e) < (IF extra THEN 20 ELSE level) THEN <<"(">> \o Inside(e, TRUE) \o <<")">> ELSE Inside(e, extra)

\* The text of the node itself.
Inside(e, extra) ==
  LET c == e.children
      Child(i, level) == Text(c[i], level, extra)
      Item(i) == CASE c[i].kind = "star" -> <<"*">> \o Text(c[i].children[1], 11, extra)
                   [] c[i].kind = "update" -> <<"**">> \o Text(c[i].children[1], 11, extra)
                   [] c[i].kind = "entry" -> Text(c[i].children[1], 6, extra) \o <<":">> \o Text(c[i].children[2], 6, extra)
                   [] OTHER -> Child(i, 6)
      Items == Commas([i \in DOMAIN c |-> Item(i)])
      Slice(s) == IF s.kind # "slice" THEN Text(s, 6, extra)
                  ELSE FlattenSeq([i \in DOMAIN s.children |->
                         (IF i = 1 THEN <<>> ELSE <<":">>) \o (IF s.children[i].kind = "none" THEN <<>> ELSE Text(s.children[i], 6, extra))])
  IN CASE e.kind = "name" -> e.names
       [] e.kind \in {"or", "and"} -> Child(1, Level(e) + 1) \o <<e.kind>> \o Child(2, Level(e))
       [] e.kind = "not" -> <<"not">> \o Child(1, 9)
       [] e.kind = "compare" -> Child(1, 11) \o FlattenSeq([i \in DOMAIN e.names |->
            (CASE e.names[i] = "not in" -> <<"not", "in">> [] e.names[i] = "is not" -> <<"is", "not">> [] OTHER -> <<e.names[i]>>) \o Child(i + 1, 11)])
       [] e.kind = "binary" /\ e.names[1] # "**" -> Child(1, Level(e)) \o e.names \o Child(2, Level(e) + 1)
       [] e.kind = "binary" /\ e.names[1] = "**" -> Child(1, 19) \o e.names \o Child(2, 17)
       [] e.kind = "negative" -> <<"-">> \o Child(1, 17)
       [] e.kind = "if" -> Child(1, 7) \o <<"if">> \o Child(2, 7) \o <<"else">> \o Child(3, 6)
       [] e.kind = "tuple" /\ c = <<>> -> <<"(", ")">>
       [] Listed(e) -> Items \o (IF Len(c) = 1 THEN <<",">> ELSE <<>>)
       [] e.kind = "list" -> <<"[">> \o Items \o <<"]">>
       [] e.kind \in {"set", "dict"} -> <<"{">> \o Items \o <<"}">>
       [] e.kind = "attr" -> Child(1, 19) \o <<".">> \o e.names
       [] e.kind = "attrs" -> Child(1, 19) \o <<".", "(">> \o Commas([i \in DOMAIN e.names |-> <<e.names[i]>>]) \o <<")">>
       [] e.kind = "item" -> Child(1, 19) \o <<"[">> \o Commas([i \in 1 .. Len(c) - 1 |-> Slice(c[i + 1])]) \o <<"]">>
       [] e.kind = "call" -> Child(1, 19) \o <<"(">> \o Commas([i \in 1 .. Len(c) - 1 |-> Child(i + 1, 6)]) \o <<")">>
       [] e.kind = "assign" -> Target(c[1], 6, extra) \o <<"=">> \o
            (IF c[1].kind = "attrs" /\ Listed(c[2]) THEN Inside(c[2], extra)
             ELSE Text(c[2], IF c[1].kind = "attrs" THEN 6 ELSE 1, extra /\ ~Listed(c[2]) /\ c[2].kind # "assign"))
       [] e.kind = "augment" -> Target(c[1], 6, extra) \o e.names \o Child(2, 2)
       [] e.kind = "increment" -> Target(c[1], 6, extra) \o e.names
       [] e.kind = "class" -> <<"class">> \o e.names \o <<"(">> \o Items \o <<")", ":">>
       [] e.kind = "del" -> <<"del">> \o Commas([i \in DOMAIN c |-> Target(c[i], 6, TRUE)])

\* The text of a target, which is written at the level where it is none.
Target(t, level, extra) ==
  IF ~Listed(t) THEN Text(t, IF t.kind \in {"name", "attr", "attrs", "item"} THEN 19 ELSE level, FALSE)
  ELSE LET items == Commas([i \in DOMAIN t.children |->
                              IF t.children[i].kind = "star" THEN <<"*">> \o Target(t.children[i].children[1], 11, TRUE)
                              ELSE Target(t.children[i], 6, TRUE)])
                    \o (IF Len(t.children) = 1 THEN <<",">> ELSE <<>>)
       IN IF extra THEN <<"(">> \o items \o <<")">> ELSE items

(***************************************************************************)
(* What may be written.                                                    *)
(***************************************************************************)
Unstarred(t) == IF t.kind = "star" THEN t.children[1] ELSE t
RECURSIVE Valid(_), Assignable(_, _), LastIsNone(_), BadLast(_)
Stars(t) == Cardinality({i \in DOMAIN t.children : t.children[i].kind = "star"})
Assignable(t, kinds) ==
  \/ t.kind \in kinds
  \/ Listed(t) /\ Stars(t) <= 1
     /\ \A i \in DOMAIN t.children :
          Assignable(Unstarred(t.children[i]), {"name", "attr", "item"})
\* Of several targets the last is none, somewhere in the expression.
LastIsNone(t) ==
  /\ Listed(t)
  /\ \/ ~Assignable(Unstarred(Last(t.children)), {"name", "attr", "item"})
     \/ \E i \in DOMAIN t.children : LastIsNone(Unstarred(t.children[i]))
BadLast(e) == (e.kind = "assign" /\ LastIsNone(e.children[1])) \/ \E i \in DOMAIN e.children : BadLast(e.children[i])
Valid(e) ==
  /\ \A i \in DOMAIN e.children : Valid(e.children[i])
  /\ e.kind = "assign" => /\ Assignable(e.children[1], {"name", "attr", "attrs", "item"})
                          /\ e.children[1].kind = "attrs" /\ Listed(e.children[2]) =>
                               Stars(e.children[2]) = 0 /\ Len(e.children[1].names) \in {1, Len(e.children[2].children)}
  /\ e.kind \in {"augment", "increment"} => e.children[1].kind \in {"name", "attr", "item"}
  /\ e.kind = "del" => \A i \in DOMAIN e.children : e.children[i].kind \in {"name", "attr", "item"}

\* A class with parentheses among its parameters.
Bracketed(e, extra) == e.kind = "class" /\ Len(SelectSeq(Inside(e, extra), LAMBDA t : t = ")")) > 1

(***************************************************************************)
(* Evaluation.                                                             *)
(***************************************************************************)
\* Values: the value of operation i, a collection, a part of what a value
\* gives when it is iterated over.
Value(kind, i, of) == [kind |-> kind, i |-> i, of |-> of]
None == Value("none", 0, <<>>)
Part(v, i) == Value("part", i, <<v>>)           \* from the end, when i < 0
Remaining(v, before, after) == Value("rest", before, <<v, Value("after", after, <<>>)>>)
Starred(v) == Value("star", 0, <<v>>)

Memory(world) == [log |-> <<>>, tests |-> <<>>, world |-> world]
Did(m, op, name, of) == [m EXCEPT !.log = Append(@, [op |-> op, name |-> name, of |-> of])]

Result(m, v) == [m |-> m, v |-> v]
\* An operation, and its value.
Act(m, op, name, of) == Result(Did(m, op, name, of), Value("op", Len(m.log) + 1, <<>>))

\* What a class statement calls, and with what before the bases.
ClassParts(name) == <<Value("build class", 0, <<>>), Value("body", 0, <<>>), Value("name", 0, <<name>>)>>

\* The number of a tested value, whether it is true, and the test.
Number(m, v) == IF Contains(m.tests, v) THEN CHOOSE i \in DOMAIN m.tests : m.tests[i] = v ELSE Len(m.tests) + 1
True(m, v) == Number(m, v) \in m.world
Tested(m, v) == Did([m EXCEPT !.tests = IF Contains(@, v) THEN @ ELSE Append(@, v)], "test", "", <<v>>)

RECURSIVE Eval(_, _), Chain(_, _, _, _), Store(_, _, _), Spread(_, _, _, _)

\* The children from i on, one after the other; what is spread is iterated
\* over as soon as it has its value.
Spread(m, c, i, vs) ==
  IF i > Len(c) THEN Result(m, vs)
  ELSE LET Next(r) == Spread(r.m, c, i + 1, Append(vs, r.v))
           Iterated(r) == Result(Did(r.m, "iter", "", <<r.v>>), Starred(r.v))
           Entry(k, r) == Result(r.m, Value("entry", 0, <<k.v, r.v>>))
           Entered(k) == Entry(k, Eval(k.m, c[i].children[2]))
       IN CASE c[i].kind \in {"star", "update"} -> Next(Iterated(Eval(m, c[i].children[1])))
            [] c[i].kind = "entry" -> Next(Entered(Eval(m, c[i].children[1])))
            [] OTHER -> Next(Eval(m, c[i]))

\* Comparison i and those after it, with the value of its left operand.
Chain(m, e, i, left) ==
  LET Decided(r) == IF i = Len(e.names) THEN Result(r.a.m, r.a.v)
                    ELSE IF True(r.a.m, r.a.v) THEN Chain(Tested(r.a.m, r.a.v), e, i + 1, r.right)
                    ELSE Result(Tested(r.a.m, r.a.v), r.a.v)
      op == e.names[i]
      Negated(a) == IF op \in {"not in", "is not", "!="} THEN Act(a.m, "not", "", <<a.v>>) ELSE a
      Base == CASE op = "not in" -> "in" [] op = "is not" -> "is" [] op = "!=" -> "==" [] OTHER -> op
      Compared(r) == [a |-> Negated(Act(r.m, Base, "", <<left, r.v>>)), right |-> r.v]
  IN Decided(Compared(Eval(m, e.children[i + 1])))

\* The value goes to the target: what the target is of is evaluated first,
\* and several targets take the parts of the value from left to right.
Store(m, t, v) ==
  LET Parts == LET c == t.children
                   star == {i \in DOMAIN c : c[i].kind = "star"}
                   s == CHOOSE i \in star : TRUE
                   Given(i) == CASE star = {} \/ (star # {} /\ i < s) -> Part(v, i)
                                 [] star # {} /\ i = s -> Remaining(v, s - 1, Len(c) - s)
                                 [] OTHER -> Part(v, i - Len(c) - 1)
                   One(memory, i) == Store(memory, IF i \in star THEN c[i].children[1] ELSE c[i], Given(i)).m
               IN FoldLeftDomain(One, Did(m, "iter", "", <<v>>), c)
      Put(r, op, names) == Act(r.m, op, names[1], Append(r.v, v))
  IN CASE t.kind = "name" -> Result(Did(m, "set", t.names[1], <<v>>), v)
       [] t.kind = "attr" -> Put(Spread(m, t.children, 1, <<>>), "set attr", t.names)
       [] t.kind = "item" -> Put(Eval(m, [t EXCEPT !.kind = "place"]), "set item", <<"">>)
       [] t.kind = "tuple" -> Result(Parts, v)

Logical == {"or", "and"}
Eval(m, e) ==
  LET c == e.children
      All == Spread(m, c, 1, <<>>)
      Made(r, kind) == Result(r.m, Value(kind, 0, r.v))
      Do(r, op, name) == Act(r.m, op, name, r.v)
      Either(r) == IF True(r.m, r.v) = (e.kind = "or") THEN Result(Tested(r.m, r.v), r.v) ELSE Eval(Tested(r.m, r.v), c[2])
      Chosen(r) == Eval(Tested(r.m, r.v), IF True(r.m, r.v) THEN c[1] ELSE c[3])
      Compare(r) == Chain(r.m, e, 1, r.v)
      Index(r) == Result(r.m, <<r.v[1], IF Len(r.v) = 2 THEN r.v[2] ELSE Value("tuple", 0, Tail(r.v))>>)
      Getting(m_, o, name) == Act(m_, "attr", name, <<o>>)
      Attrs(r) == LET Each(acc, name) == LET One(g) == Result(g.m, Append(acc.v, g.v)) IN One(Getting(acc.m, r.v, name))
                  IN Made(FoldLeft(Each, Result(r.m, <<>>), e.names), "tuple")
      \* The object and the values, and then the attributes from the last.
      Pack(r) == LET names == c[1].names
                     vs == Tail(r.v)
                     spread == Len(vs) = 1 /\ Len(names) > 1
                     Of(i) == IF spread THEN Part(vs[1], i) ELSE IF Len(names) = 1 /\ Len(vs) > 1 THEN Value("tuple", 0, vs) ELSE vs[i]
                     Each(i, acc) == Act(acc.m, "set attr", names[i], <<r.v[1], Of(i)>>)
                 IN FoldRightDomain(Each, names, Result(IF spread THEN Did(r.m, "iter", "", vs) ELSE r.m, None))
      Assigned(r) == Store(r.m, c[1], r.v)
      \* An attribute or an item that is assigned: its object first.
      Placed(place, r) == IF c[1].kind = "attr" THEN Act(r.m, "set attr", c[1].names[1], Append(place.v, r.v))
                          ELSE Act(r.m, "set item", "", Append(place.v, r.v))
      Place == IF c[1].kind = "attr" THEN Spread(m, c[1].children, 1, <<>>) ELSE Eval(m, [c[1] EXCEPT !.kind = "place"])
      PlaceFirst(place) == Placed(place, Eval(place.m, c[2]))
      \* An augmented assignment: the object and the index once.
      Amount(r) == IF e.kind = "increment" THEN Result(r.m, Value("one", 0, <<>>)) ELSE Eval(r.m, c[2])
      Sum(old, r) == Act(r.m, IF e.names[1] \in {"+=", "++"} THEN "+=" ELSE "-=", "", <<old.v, r.v>>)
      Summed(old) == Sum(old, Amount(old))
      Named(r) == Result(Did(r.m, "set", c[1].names[1], <<r.v>>), r.v)
      Changed(place) == LET old == IF c[1].kind = "attr" THEN Act(place.m, "attr", c[1].names[1], place.v)
                                   ELSE Act(place.m, "item", "", place.v)
                        IN Placed(place, Summed(old))
      Deleted(acc, t) ==
        CASE t.kind = "name" -> Result(Did(acc.m, "del", t.names[1], <<>>), None)
          [] t.kind = "attr" -> LET One(r) == Result(Did(r.m, "del attr", t.names[1], r.v), None) IN One(Spread(acc.m, t.children, 1, <<>>))
          [] OTHER -> LET One(r) == Result(Did(r.m, "del item", "", r.v), None) IN One(Eval(acc.m, [t EXCEPT !.kind = "place"]))
  IN CASE e.kind = "name" -> Act(m, "get", e.names[1], <<>>)
       [] e.kind = "none" -> Result(m, None)
       [] e.kind \in Logical -> Either(Eval(m, c[1]))
       [] e.kind = "not" -> Do(All, "not", "")
       [] e.kind = "compare" -> Compare(Eval(m, c[1]))
       [] e.kind = "binary" -> Do(All, e.names[1], "")
       [] e.kind = "negative" -> Do(All, "negative", "")
       [] e.kind = "if" -> Chosen(Eval(m, c[2]))
       [] e.kind \in {"tuple", "list", "set", "dict", "slice"} -> Made(All, e.kind)
       [] e.kind = "attr" -> Do(All, "attr", e.names[1])
       [] e.kind = "attrs" -> Attrs(Eval(m, c[1]))
       [] e.kind = "place" -> Index(All)
       [] e.kind = "item" -> Do(Index(All), "item", "")
       [] e.kind = "call" -> Do(All, "call", "")
       [] e.kind = "assign" /\ c[1].kind = "attrs" ->
            Pack(IF Listed(c[2]) THEN Spread(m, <<c[1].children[1]>> \o c[2].children, 1, <<>>)
                 ELSE Spread(m, <<c[1].children[1], c[2]>>, 1, <<>>))
       [] e.kind = "assign" /\ c[1].kind \in {"attr", "item"} -> PlaceFirst(Place)
       [] e.kind = "assign" /\ c[1].kind \in {"name", "tuple"} -> Assigned(Eval(m, c[2]))
       [] e.kind \in {"augment", "increment"} /\ c[1].kind = "name" -> Named(Summed(Eval(m, c[1])))
       [] e.kind \in {"augment", "increment"} /\ c[1].kind # "name" -> Changed(Place)
       [] e.kind = "class" -> Act(All.m, "call", "", ClassParts(e.names[1]) \o All.v)
       [] e.kind = "del" -> FoldLeft(Deleted, Result(m, None), c)

Meaning(e, world) == Eval(Memory(world), e)
===============================================================================
