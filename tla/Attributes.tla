------------------------------ MODULE Attributes -----------------------------
(***************************************************************************)
(* What attribute lookup promises, without slots and without a cache: an   *)
(* attribute of a class is its nearest definition, whenever it was made    *)
(* and whoever looked before.                                              *)
(***************************************************************************)
EXTENDS Naturals, Sequences, FiniteSets, TLC

CONSTANTS Classes, Object, Type, Instances, Names, Specials, Values, Kind,
          NoHash, Null

VARIABLES
  base,     \* the base of each class
  dict,     \* the attributes each class defines
  class,    \* the class of each instance
  fields    \* the attributes of each instance

vars == <<base, dict, class, fields>>

\* A table with n set to v, and without n.
With(f, n, v) == [x \in DOMAIN f \union {n} |-> IF x = n THEN v ELSE f[x]]
Without(f, n) == [x \in DOMAIN f \ {n} |-> f[x]]

Exists == {c \in Classes : c = Object \/ base[c] # Null}

\* A class and those above it.
Ancestors(c) ==
  LET from[d \in Classes] == {d} \union (IF base[d] = Null THEN {} ELSE from[base[d]])
  IN from[c]
Descendants(c) == {d \in Exists : c \in Ancestors(d)}

\* The lowest class at or above c, bases and tables given, that defines n.
Nearest(up, m, c, n) ==
  LET find[d \in Classes] ==
        IF n \in DOMAIN m[d] THEN d ELSE IF up[d] = Null THEN Null ELSE find[up[d]]
  IN find[c]
Entry(m, d, n) == IF d = Null THEN Null ELSE m[d][n]
Lookup(up, m, c, n) == Entry(m, Nearest(up, m, c, n), n)
Attribute(c, n) == Lookup(base, dict, c, n)

Callable(v) == Kind[v] \in {"function", "classmethod", "static"}
Getter(v) == Kind[v] \in {"data", "reader"}

\* A special method is looked up on the class, and must be a function; a static
\* one counts only as __new__.
SpecialOf(up, m, c, s) ==
  LET v == Lookup(up, m, c, s)
  IN IF v # Null /\ Callable(v) /\ (Kind[v] # "static" \/ s = "__new__") THEN v ELSE Null
Special(c, s) == SpecialOf(base, dict, c, s)

\* Tables m, where each class of S, in which definitions have changed, that has
\* another __eq__ than its base and no __hash__ gets the __hash__ None.
Hashing(up, m, S) ==
  [d \in Classes |->
     IF /\ d \in S /\ up[d] # Null
        /\ SpecialOf(up, m, d, "__eq__") # SpecialOf(up, m, up[d], "__eq__")
        /\ "__hash__" \notin DOMAIN m[d]
     THEN With(m[d], "__hash__", NoHash) ELSE m[d]]

Answer(how, what, on) == [how |-> how, what |-> what, on |-> on]

\* A definition found for an attribute of x, whose class is c.
Attached(v, x, c) ==
  CASE Kind[v] = "classmethod" -> Answer("bound", v, c)
    [] Kind[v] = "function" /\ x # Null -> Answer("bound", v, x)
    [] Getter(v) -> Answer("get", v, x)
    [] OTHER -> Answer("value", v, Null)

\* x.n where own is what the instance's or class's own tables say.
Answered(x, c, n, own) ==
  LET v == Attribute(c, n)
  IN IF v # Null /\ Kind[v] = "data" THEN Answer("get", v, x)
     ELSE IF own # {} THEN CHOOSE a \in own : TRUE
     ELSE IF v # Null THEN Attached(v, x, c)
     ELSE IF Special(c, "__getattr__") # Null
     THEN Answer("getattr", Special(c, "__getattr__"), x)
     ELSE Answer("missing", Null, x)

OfInstance(i, n) ==
  Answered(i, class[i], n,
           IF n \in DOMAIN fields[i] THEN {Answer("value", fields[i][n], Null)} ELSE {})
OfClass(c, n) ==
  LET v == Attribute(c, n)
  IN Answered(c, Type, n,
              IF v = Null THEN {}
              ELSE IF Kind[v] = "classmethod" THEN {Answer("bound", v, c)}
              ELSE IF Getter(v) THEN {Answer("get", v, Null)}
              ELSE {Answer("value", v, Null)})
\* super(): the definition above c.
OfSuper(c, n, x, of) ==
  LET v == Attribute(IF base[c] = Null THEN Object ELSE base[c], n)
  IN IF v = Null THEN Answer("missing", Null, IF x = Null THEN of ELSE x)
     ELSE Attached(v, x, of)

----------------------------------------------------------------------------
(* Operators call special methods of the operands' classes.                *)

\* The calls an operator makes, by their places among the methods it may try in
\* order: the first that answers ends it.
Trials(attempts, answer) ==
  LET from[i \in 1 .. Len(attempts) + 1] ==
        IF i > Len(attempts) THEN [calls |-> <<>>, result |-> "unsupported"]
        ELSE IF attempts[i].method = Null THEN from[i + 1]
        ELSE IF answer[attempts[i].on] # "NotImplemented"
        THEN [calls |-> With(<<>>, i, attempts[i]), result |-> answer[attempts[i].on]]
        ELSE [from[i + 1] EXCEPT !.calls = With(@, i, attempts[i])]
  IN from[1]

Left(c, s) == <<[method |-> Special(c, s), on |-> "left"]>>
Right(c, s) == <<[method |-> Special(c, s), on |-> "right"]>>
Add(c, d, inplace, answer) ==
  Trials((IF inplace THEN Left(c, "__iadd__") ELSE <<>>)
           \o Left(c, "__add__") \o Right(d, "__radd__"), answer)
Equal(c, d, answer) ==
  LET tried == Trials(Left(c, "__eq__") \o Right(d, "__eq__"), answer)
  IN [tried EXCEPT !.result = IF @ = "unsupported" THEN "differ" ELSE @]
\* The method that tells the truth of an instance; all others are true.
Truth(c) ==
  IF Special(c, "__bool__") # Null THEN Special(c, "__bool__") ELSE Special(c, "__len__")
\* What is called for a new instance of c, and for a new class c under b.
Initialiser(c) ==
  IF Special(c, "__init__") = Special(Object, "__init__") THEN Null
  ELSE Special(c, "__init__")
SubclassHook(c, b) ==
  LET v == Attribute(b, "__init_subclass__")
  IN IF v = Null THEN Answer("missing", Null, c) ELSE Attached(v, Null, c)

----------------------------------------------------------------------------
(* Changes.                                                                *)

\* Where class c lets values be kept under n: nowhere if it has __setattr__ or a
\* descriptor of that name.
Keeps(c, n) ==
  /\ Special(c, "__setattr__") = Null
  /\ Attribute(c, n) = Null \/ Kind[Attribute(c, n)] # "data"

Changed(m, c) == dict' = Hashing(base, m, Descendants(c))

SetInstance(i, n, v) ==
  /\ class[i] # Null /\ Keeps(class[i], n)
  /\ fields' = [fields EXCEPT ![i] = With(@, n, v)]
\* (The first conjunct follows from the last, and finds n and v.)
SetClass(c, n, v) ==
  /\ n \in DOMAIN dict'[c] /\ dict'[c][n] = v
  /\ Keeps(Type, n)
  /\ Changed([dict EXCEPT ![c] = With(@, n, v)], c)

DeleteInstance(i, n) ==
  n \in DOMAIN fields[i] /\ fields' = [fields EXCEPT ![i] = Without(@, n)]
DeleteClass(c, n) ==
  n \in DOMAIN dict[c] /\ Changed([dict EXCEPT ![c] = Without(@, n)], c)

\* A new class defines one attribute or none.
Bodies == {<<>>} \union {With(<<>>, n, v) : n \in Names, v \in Values}
NewClass(c, b, ns) ==
  /\ c \notin Exists
  /\ base' = [base EXCEPT ![c] = b]
  /\ dict' = Hashing(base', [dict EXCEPT ![c] = ns], {c})

\* A class without subclasses and instances may go.
Forget(c) ==
  /\ c \in Exists \ {Object, Type}
  /\ Descendants(c) = {c} /\ \A i \in Instances : class[i] # c
  /\ base' = [base EXCEPT ![c] = Null]
  /\ dict' = [dict EXCEPT ![c] = <<>>]

Classify(i, c) == class' = [class EXCEPT ![i] = c]

ForgetInstance(i) ==
  /\ class' = [class EXCEPT ![i] = Null]
  /\ fields' = [fields EXCEPT ![i] = <<>>]

Init ==
  /\ base \in [Classes -> Classes \union {Null}]
  /\ \A c \in Classes : DOMAIN dict[c] \subseteq Names
  /\ class = [i \in Instances |-> Null]
  /\ fields = [i \in Instances |-> <<>>]

Next ==
  \/ /\ UNCHANGED <<base, dict, class>>
     /\ \E i \in Instances, n \in Names :
          DeleteInstance(i, n) \/ \E v \in Values : SetInstance(i, n, v)
  \/ /\ UNCHANGED <<base, class, fields>>
     /\ \E c \in Exists, n \in Names :
          DeleteClass(c, n) \/ \E v \in Values : SetClass(c, n, v)
  \/ /\ UNCHANGED <<class, fields>>
     /\ \E c \in Classes : Forget(c) \/ \E b \in Exists, ns \in Bodies : NewClass(c, b, ns)
  \/ /\ UNCHANGED <<base, dict, fields>>
     /\ \E i \in Instances, c \in Exists : Classify(i, c)
  \/ /\ UNCHANGED <<base, dict>>
     /\ \E i \in Instances : ForgetInstance(i)

Spec == Init /\ [][Next]_vars

=============================================================================
