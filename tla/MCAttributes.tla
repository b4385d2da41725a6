---------------------------- MODULE MCAttributes ----------------------------
(* An instance of KrkAttributes for TLC, and mutants.                        *)
EXTENDS KrkAttributes

CONSTANTS A, B, x, eq, hash, init, function, classmethod, static, data, reader, plain, none

MCClasses == {Object, Type, A, B}
MCSpecials == {"__eq__", "__hash__", "__add__", "__radd__", "__iadd__", "__getattr__",
               "__setattr__", "__init__", "__bool__", "__len__", "__new__"}
MCDunders == MCSpecials \union {"__init_subclass__"}
MCNames == MCDunders \union {"m", "n"}
MCAddresses == MCNames \union {"elsewhere"}
MCKind ==
  [v \in {eq, hash, init, function} |-> "function"] @@
  (classmethod :> "classmethod" @@ static :> "static" @@ data :> "data" @@
   reader :> "reader" @@ plain :> "plain" @@ none :> "plain")
MCValues == DOMAIN MCKind
MCObjectTable == "__eq__" :> eq @@ "__hash__" :> hash @@ "__init__" :> init

\* One line, for which all lookups compete.
MCLine(c, n) == 1

Pair(n, v) == [name |-> n, value |-> v]
Program(assigns, reads, begins, bases, instances) ==
  [assigns |-> assigns, reads |-> reads, instances |-> instances,
   begins |-> [c \in MCClasses |-> IF c \in DOMAIN begins THEN begins[c] ELSE Null],
   bases |-> [c \in MCClasses |-> IF c \in DOMAIN bases THEN bases[c] ELSE {}]]
Chain == A :> Object @@ B :> A
Flat == A :> Object @@ B :> Object

MCPrograms ==
  { Program({Pair("m", function)}, {"m", "n"}, Chain, <<>>, {}),
    Program({Pair("m", function)}, {"m"}, <<>>, A :> {Object}, {x}),
    Program({Pair("m", data), Pair("m", plain)}, {"m"}, A :> Object, <<>>, {x}),
    Program({Pair("m", reader), Pair("m", classmethod)}, {"m"}, A :> Object, <<>>, {x}),
    Program({Pair("m", static), Pair("__getattr__", function)}, {"m"}, A :> Object, <<>>, {x}),
    Program({Pair("m", plain), Pair("__setattr__", function)}, {"m"}, A :> Object, <<>>, {x}),
    Program({Pair("__init_subclass__", classmethod)}, {}, A :> Object, B :> {A}, {}),
    Program({Pair("__eq__", function), Pair("__hash__", function)}, {}, Chain, <<>>, {}),
    Program({Pair("__add__", function), Pair("__radd__", function), Pair("__iadd__", static),
             Pair("__iadd__", function)}, {}, Flat, <<>>, {}),
    Program({Pair("__bool__", function), Pair("__len__", function), Pair("__len__", plain)}, {},
            Chain, <<>>, {}),
    Program({Pair("__new__", static), Pair("__init__", function)}, {}, Chain, <<>>, {}) }
=============================================================================
