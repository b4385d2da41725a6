---------------------------- MODULE KrkAttributes ----------------------------
(***************************************************************************)
(* Attribute lookup: src/vm.c, with the parts of src/obj_base.c and        *)
(* src/builtins.c that make and change classes.                            *)
(*                                                                         *)
(* A class has a table of methods, one base, and a slot for each special   *)
(* method, filled in by krk_finalizeClass so that operators need no        *)
(* lookup.  Other lookups go through one global cache, whose lines name a  *)
(* string by its address and a class by a number the class gives up when   *)
(* it changes (cacheIndex).  The cache keeps neither strings nor classes   *)
(* alive: both may be freed and their memory reused.                       *)
(***************************************************************************)
EXTENDS Naturals, Sequences, FiniteSets, TLC

CONSTANTS
  Classes,      \* class objects that may exist
  Object, Type, \* the classes object and type, in Classes
  Instances,    \* instance objects that may exist
  Names,        \* attribute names
  Dunders,      \* those that begin with two underscores
  Specials,     \* those that have a slot in each class
  Values,       \* values of attributes
  Kind,         \* what sort of value each is
  NoHash,       \* the value None, as __hash__
  Addresses,    \* addresses of strings; a name is also its first address
  Line(_, _),   \* the cache line for a class and a name
  Lines,
  ObjectTable,  \* what matters here of the methods of object
  Programs,     \* what programs may do: the names and values they assign, the names
                \* they read, the bases of the classes they begin with and of those they
                \* make later, the instances they make
  Growth,       \* how many attributes a program may define
  Unsound,      \* uses the code is known to answer otherwise than Attributes
  Null

\* "data" and "reader" are instances of classes with __get__ and __set__, or
\* __get__ only; "function" and the next two are functions by their flags.
Kinds == {"function", "classmethod", "static", "data", "reader", "plain"}

ASSUME KindAssumption ==
  /\ Kind \in [Values -> Kinds]
  /\ NoHash \in Values /\ Kind[NoHash] = "plain"
ASSUME NameAssumption ==
  /\ {"__eq__", "__hash__", "__add__", "__radd__", "__iadd__", "__getattr__", "__setattr__",
      "__init__", "__bool__", "__len__"} \subseteq Specials
  /\ Specials \subseteq Dunders /\ "__init_subclass__" \in Dunders \ Specials
  /\ Dunders \subseteq Names /\ Names \subseteq Addresses
ASSUME ClassAssumption == {Object, Type} \subseteq Classes /\ Object # Type
ASSUME LineAssumption ==
  /\ IsFiniteSet(Lines)
  /\ \A c \in Classes, n \in Names : Line(c, n) \in Lines
ASSUME ObjectAssumption ==
  DOMAIN ObjectTable \subseteq Names /\ \A n \in DOMAIN ObjectTable : ObjectTable[n] \in Values
ASSUME NullAssumption == Null \notin Classes \union Values \union Addresses

\* Bases that exist, and no class is above itself: every set of classes has one
\* whose base is not among them.
Hierarchy(up) ==
  /\ up \in [Classes -> Classes \union {Null}]
  /\ up[Object] = Null
  /\ \A c \in Classes : up[c] # Null => up[c] = Object \/ up[up[c]] # Null
  /\ \A S \in (SUBSET Classes) \ {{}} : \E c \in S : up[c] \notin S

\* The bases a program begins with.
Begun(p) == [c \in Classes |-> IF c = Type THEN Object ELSE p.begins[c]]

ASSUME ProgramAssumption ==
  \A p \in Programs : /\ Hierarchy(Begun(p))
                      /\ p.reads \subseteq Names /\ p.instances \subseteq Instances
                      /\ p.assigns \subseteq [name : Names, value : Values]

VARIABLES
  base,        \* the base of each class; Null for object and for no class
  methods,     \* the table of each class
  slots,       \* the special methods of each class
  cacheIndex,  \* the number under which the cache knows a class, or None
  cache,       \* the lines of the cache
  address,     \* where the string of each name is
  class,       \* the class of each instance; Null before it exists
  fields,      \* the table of each instance
  program       \* what this program may do

vars == <<base, methods, slots, cacheIndex, cache, address, class,
          fields, program>>
classVars == <<base, methods, slots>>
cacheVars == <<cacheIndex, cache>>
instanceVars == <<class, fields>>

----------------------------------------------------------------------------
(* Tables with n set to v, and without n.                                  *)

With(f, n, v) == [x \in DOMAIN f \union {n} |-> IF x = n THEN v ELSE f[x]]
Without(f, n) == [x \in DOMAIN f \ {n} |-> f[x]]

----------------------------------------------------------------------------
(* Classes.                                                                *)

Live == {c \in Classes : c = Object \/ base[c] # Null}

\* A class and the classes above it; and those below it.
Above(c) ==
  LET up[d \in Classes] == IF base[d] = Null THEN {d} ELSE {d} \union up[base[d]]
  IN up[c]
Below(c) == {d \in Live : c \in Above(d)}

\* The nearest class that has n, in tables m, and what it has.
Owner(m, c, n) ==
  LET find[d \in Classes] ==
        IF n \in DOMAIN m[d] THEN d ELSE IF base[d] = Null THEN Null ELSE find[base[d]]
  IN find[c]
Valued(m, owner, n) == IF owner = Null THEN Null ELSE m[owner][n]
Definition(m, c, n) == Valued(m, Owner(m, c, n), n)

IsFunction(v) == v # Null /\ Kind[v] \in {"function", "classmethod", "static"}
HasGet(v) == Kind[v] \in {"data", "reader"}
\* Mutant: A descriptor without __set__ goes before the instance.
MutHasSet(v) == HasGet(v)

HasSet(v) == Kind[v] = "data"

\* What krk_finalizeClass accepts in a slot.
Fits(s, v) == IsFunction(v) /\ (Kind[v] # "static" \/ s = "__new__")

\* Mutant: A class with another __eq__ keeps its __hash__.
MutLoses(filled, above) == FALSE

\* A class with another __eq__ than its base and the same __hash__ loses its
\* __hash__.
Loses(filled, above) ==
  filled["__eq__"] # above["__eq__"] /\ filled["__hash__"] = above["__hash__"]

\* krk_finalizeClass of c, where up are the bases, m the tables, and S the class c
\* and those below it: for each of S the new table and slots.
Finalized(up, m, S, c) ==
  LET new[d \in S] ==
        LET above == IF up[d] = Null
                     THEN [found |-> [s \in Specials |-> Null],
                           slots |-> [s \in Specials |-> Null]]
                     ELSE IF d # c THEN new[up[d]]
                     ELSE [found |-> [s \in Specials |-> Definition(m, up[d], s)],
                           slots |-> slots[up[d]]]
            found == [s \in Specials |->
                        IF s \in DOMAIN m[d] THEN m[d][s] ELSE above.found[s]]
            filled == [s \in Specials |-> IF Fits(s, found[s]) THEN found[s] ELSE Null]
            loses == up[d] # Null /\ Loses(filled, above.slots)
            dropped == loses /\ "__hash__" \notin DOMAIN m[d]
        IN [found |-> IF dropped THEN [found EXCEPT !["__hash__"] = NoHash] ELSE found,
            slots |-> IF loses THEN [filled EXCEPT !["__hash__"] = Null] ELSE filled,
            methods |-> IF dropped THEN With(m[d], "__hash__", NoHash) ELSE m[d]]
  IN new

\* The state after that, where new is what Finalized returned for S.
Finalize(m, S, new) ==
  /\ methods' = [d \in Classes |-> IF d \in S THEN new[d].methods ELSE m[d]]
  /\ slots' = [d \in Classes |-> IF d \in S THEN new[d].slots ELSE slots[d]]

----------------------------------------------------------------------------
(* The cache.                                                              *)

\* The numbers by which lines know classes, and what a class without one has.
Numbers == Classes \X (0 .. Cardinality(Lines) + 1)
None == <<Object, 0>>

Hit(c, n) ==
  /\ cache[Line(c, n)].name = address[n]
  /\ cache[Line(c, n)].index = cacheIndex[c]

\* What checkCache returns: the owner, Null if there is none, and the value.
Cached(c, n) ==
  LET check[d \in Classes] ==
        IF Hit(d, n)
        THEN [owner |-> cache[Line(d, n)].owner, value |-> cache[Line(d, n)].value]
        ELSE IF n \in DOMAIN methods[d] THEN [owner |-> d, value |-> methods[d][n]]
        ELSE IF base[d] = Null THEN [owner |-> Null, value |-> Null]
        ELSE check[base[d]]
  IN check[c]

\* The classes whose lines do not answer it.
Missed(c, n) ==
  LET miss[d \in Classes] ==
        IF Hit(d, n) THEN {}
        ELSE IF n \in DOMAIN methods[d] \/ base[d] = Null THEN {d}
        ELSE {d} \union miss[base[d]]
  IN miss[c]

\* A number no class and no line has, as nextCount++ gives one; those class d may
\* get are <<d, 1>>, <<d, 2>>, ... of which the lines hold all but one.
NewNumber(d) ==
  LET free == {k \in 1 .. Cardinality(Lines) + 1 : \A l \in Lines : cache[l].index # <<d, k>>}
  IN <<d, CHOOSE k \in free : \A j \in free : k <= j>>

\* The numbers of classes when those that missed have one.
Numbered(missed) ==
  [d \in Classes |->
     IF d \in missed /\ cacheIndex[d] = None THEN NewNumber(d) ELSE cacheIndex[d]]

\* The lines when the classes that missed have put what was found, and their
\* numbers, there; of two that share a line, the lower one comes last.
Filled(n, missed, found, index) ==
  [l \in Lines |->
     LET here == {d \in missed : Line(d, n) = l}
         last == CHOOSE d \in here : here \subseteq Above(d)
     IN IF here = {} THEN cache[l]
        ELSE [name |-> address[n], owner |-> found.owner, value |-> found.value,
              index |-> index[last]]]

\* checkCache, for an operation that changes nothing about the cache besides.
CheckCache(c, n) ==
  /\ cache' = Filled(n, Missed(c, n), Cached(c, n), Numbered(Missed(c, n)))
  /\ cacheIndex' = Numbered(Missed(c, n))

\* Mutant: Only the class itself gives up its number.
MutCleared(index, c) == [index EXCEPT ![c] = None]

\* The numbers after clearCache of c, given those before: it goes down from a
\* class to its subclasses only if the class has a number.
Cleared(index, c) ==
  [d \in Classes |->
     IF /\ d \in Below(c)
        /\ \A e \in Above(d) \intersect Below(c) : index[e] # None
     THEN None ELSE index[d]]

----------------------------------------------------------------------------
(* Looking up attributes.                                                  *)

Reply(how, what, on) == [how |-> how, what |-> what, on |-> on]

\* What krk_bindMethodSuper makes of a definition v for a receiver; a call
\* through a class has none.
Bound(v, receiver, real) ==
  IF Kind[v] = "classmethod" THEN Reply("bound", v, real)
  ELSE IF IsFunction(v)
  THEN IF receiver = Null \/ Kind[v] = "static" THEN Reply("value", v, Null)
       ELSE Reply("bound", v, receiver)
  ELSE IF HasGet(v) THEN Reply("get", v, receiver)
  ELSE Reply("value", v, Null)

\* The last three steps of valueGetMethod: what the class of x has under the name
\* as found by checkCache, then __getattr__, then nothing.
FromClass(x, of, found) ==
  IF found.owner # Null
  THEN Bound(found.value, x, of)
  ELSE IF slots[of]["__getattr__"] # Null
  THEN Reply("getattr", slots[of]["__getattr__"], x)
  ELSE Reply("missing", Null, x)

\* What reading n of an instance gives: valueGetMethod, valueGetProperty.
OfInstance(i, n) ==
  LET of == class[i]
      found == Cached(of, n)
  IN IF found.owner # Null /\ HasSet(found.value) THEN Reply("get", found.value, i)
     ELSE IF n \in DOMAIN fields[i] THEN Reply("value", fields[i][n], Null)
     ELSE FromClass(i, of, found)

\* Reading n of a class: its own class first, for descriptors, then its table
\* and those above, then its own class.
OfClass(c, n) ==
  LET found == Cached(Type, n)
      own == Definition(methods, c, n)
  IN IF found.owner # Null /\ HasSet(found.value) THEN Reply("get", found.value, c)
     ELSE IF own = Null THEN FromClass(c, Type, found)
     ELSE IF Kind[own] = "classmethod" THEN Reply("bound", own, c)
     ELSE IF HasGet(own) THEN Reply("get", own, Null)
     ELSE Reply("value", own, Null)

\* Reading n of super(c, x), where x has class of; for super(c, d) where d is a
\* class, x is Null and of is d.
From(c) == IF base[c] = Null THEN Object ELSE base[c]
OfSuper(c, n, x, of) ==
  LET found == Cached(From(c), n)
  IN IF found.owner = Null THEN Reply("missing", Null, IF x = Null THEN of ELSE x)
     ELSE Bound(found.value, x, of)

\* All of these fill the cache, for the class of the instance, for type, and for
\* the class above the one of super.
Get(c, n) == CheckCache(c, n) /\ UNCHANGED <<classVars, address, instanceVars, program>>
GetAttribute(i, n) == class[i] # Null /\ Get(class[i], n)
GetClassAttribute(n) == Get(Type, n)
GetSuper(c, n) == c \in Live /\ Get(From(c), n)

----------------------------------------------------------------------------
(* Setting and deleting attributes.                                        *)

\* The bound on definitions: Growth besides those of ObjectTable.
Room ==
  Cardinality(UNION {{<<c, n>> : n \in DOMAIN methods[c]} : c \in Classes}
              \union UNION {{<<i, n>> : n \in DOMAIN fields[i]} : i \in Instances})
    < Cardinality(DOMAIN ObjectTable) + Growth

\* valueSetProperty of an instance: __setattr__, a descriptor's __set__, or the
\* instance's own table.
SetAttribute(i, n, v) ==
  LET of == class[i]
      found == Cached(of, n)
  IN /\ of # Null
     /\ slots[of]["__setattr__"] = Null
     /\ CheckCache(of, n)
     /\ IF found.owner # Null /\ HasSet(found.value) THEN UNCHANGED fields
        ELSE Room /\ fields' = [fields EXCEPT ![i] = With(@, n, v)]
     /\ UNCHANGED <<classVars, address, class, program>>

DelAttribute(i, n) ==
  /\ class[i] # Null
  /\ n \in DOMAIN fields[i]
  /\ fields' = [fields EXCEPT ![i] = Without(@, n)]
  /\ UNCHANGED <<classVars, cacheVars, address, class, program>>

\* What follows a change of the table of c: special names rebuild the slots,
\* others clear the cache.  index is cacheIndex as left by lookups before.
TableChanged(c, n, m, index) ==
  IF n \in Dunders
  THEN /\ Finalize(m, Below(c), Finalized(base, m, Below(c), c))
       /\ cacheIndex' = [d \in Classes |-> IF d \in Below(c) THEN None ELSE index[d]]
  ELSE /\ methods' = m
       /\ cacheIndex' = Cleared(index, c)
       /\ UNCHANGED slots

\* Mutant: __setattr__ of type is passed over.
MutSetClassAttribute(c, n, v) ==
  LET found == Cached(Type, n)
      descriptor == found.owner # Null /\ HasSet(found.value)
  IN /\ c \in Live
     /\ descriptor \/ Room
     /\ cache' = Filled(n, Missed(Type, n), found, Numbered(Missed(Type, n)))
     /\ TableChanged(c, n,
          IF descriptor THEN methods ELSE [methods EXCEPT ![c] = With(@, n, v)],
          Numbered(Missed(Type, n)))
     /\ UNCHANGED <<base, address, instanceVars, program>>

\* valueSetProperty of a class: __setattr__ of type, a descriptor of type, or
\* the class's table.
SetClassAttribute(c, n, v) ==
  LET found == Cached(Type, n)
      descriptor == found.owner # Null /\ HasSet(found.value)
  IN /\ c \in Live
     /\ slots[Type]["__setattr__"] = Null
     /\ descriptor \/ Room
     /\ cache' = Filled(n, Missed(Type, n), found, Numbered(Missed(Type, n)))
     /\ TableChanged(c, n,
          IF descriptor THEN methods ELSE [methods EXCEPT ![c] = With(@, n, v)],
          Numbered(Missed(Type, n)))
     /\ UNCHANGED <<base, address, instanceVars, program>>

DelClassAttribute(c, n) ==
  /\ c \in Live
  /\ n \in DOMAIN methods[c]
  /\ TableChanged(c, n, [methods EXCEPT ![c] = Without(@, n)], cacheIndex)
  /\ UNCHANGED <<base, cache, address, instanceVars, program>>

----------------------------------------------------------------------------
(* Making and freeing classes, instances and strings.                      *)

\* type.__new__: the namespace ns becomes the table of the new class c, and
\* __init_subclass__ of the base is looked up and called.
NewClass(c, b, ns) ==
  /\ c \notin Live /\ b \in Live
  /\ base' = [base EXCEPT ![c] = b]
  /\ LET m == [methods EXCEPT ![c] = ns]
     IN Finalize(m, {c}, Finalized(base', m, {c}, c))
  /\ CheckCache(b, "__init_subclass__")
  /\ UNCHANGED <<address, instanceVars, program>>

\* The collector frees a class that nothing refers to, and takes it off the
\* subclasses of its base.
FreeClass(c) ==
  /\ c \in Live \ {Object, Type}
  /\ Below(c) = {c}
  /\ \A i \in Instances : class[i] # c
  /\ base' = [base EXCEPT ![c] = Null]
  /\ methods' = [methods EXCEPT ![c] = <<>>]
  /\ slots' = [slots EXCEPT ![c] = [s \in Specials |-> Null]]
  /\ cacheIndex' = [cacheIndex EXCEPT ![c] = None]
  /\ UNCHANGED <<cache, address, instanceVars, program>>

\* It frees an instance.
FreeInstance(i) ==
  /\ class[i] # Null
  /\ class' = [class EXCEPT ![i] = Null]
  /\ fields' = [fields EXCEPT ![i] = <<>>]
  /\ UNCHANGED <<classVars, cacheVars, address, program>>

\* A string that is no key of a table is freed; if its text is used again, the
\* string may be elsewhere, where another was before.
MoveName(n, a) ==
  /\ n \notin Dunders
  /\ \A c \in Classes : n \notin DOMAIN methods[c]
  /\ \A i \in Instances : n \notin DOMAIN fields[i]
  /\ \A x \in Names : address[x] # a
  /\ address' = [address EXCEPT ![n] = a]
  /\ UNCHANGED <<classVars, cacheVars, instanceVars, program>>

\* type.__call__ with object.__new__, and what it then calls: __init__ if it is
\* not object's.
Instantiate(i, c) ==
  /\ class[i] = Null
  /\ c \in Live \ {Object, Type}
  /\ class' = [class EXCEPT ![i] = c]
  /\ UNCHANGED <<classVars, cacheVars, address, fields, program>>
Initialiser(c) ==
  IF slots[c]["__init__"] = slots[Object]["__init__"] THEN Null ELSE slots[c]["__init__"]

\* Assigning __class__.
SetClass(i, c) ==
  /\ class[i] # Null
  /\ c \in Live \ {Object, Type, class[i]}
  /\ class' = [class EXCEPT ![i] = c]
  /\ UNCHANGED <<classVars, cacheVars, address, fields, program>>

\* What type.__new__ calls for a class made under b.
SubclassHook(c, b) ==
  LET found == Cached(b, "__init_subclass__")
  IN IF found.owner = Null THEN Reply("missing", Null, c) ELSE Bound(found.value, Null, c)

----------------------------------------------------------------------------
(* Operators.                                                              *)

\* How a function may answer when an operator calls it; raising is a result.
Answers == {"result", "NotImplemented"}

\* The calls that are made when the methods in attempts are tried in turn, each
\* with its receiver, and the answers are as given, by their places: up to the first
\* answer that is not NotImplemented.  An empty slot is passed over.
Tried(attempts, answer) ==
  LET full == {i \in DOMAIN attempts : attempts[i].method # Null}
      ends == {i \in full : answer[attempts[i].on] # "NotImplemented"}
      last == CHOOSE i \in ends : \A j \in ends : i <= j
  IN [calls |-> [i \in {i \in full : \A j \in ends : i <= j} |-> attempts[i]],
      result |-> IF ends = {} THEN "unsupported" ELSE answer[attempts[last].on]]

Attempt(s, c, on) == [method |-> slots[c][s], on |-> on]

\* a + b where a has class c and b class d: _bin_op, after _try_op of __iadd__
\* for a += b.
Add(c, d, inplace, answer) ==
  LET operands == <<Attempt("__add__", c, "left"), Attempt("__radd__", d, "right")>>
  IN Tried(IF inplace THEN <<Attempt("__iadd__", c, "left")>> \o operands ELSE operands,
           answer)

\* a == b: __eq__ of a, then of b, then they differ.
Equal(c, d, answer) ==
  LET tried == Tried(<<Attempt("__eq__", c, "left"), Attempt("__eq__", d, "right")>>, answer)
  IN IF tried.result = "unsupported" THEN [tried EXCEPT !.result = "differ"] ELSE tried

\* The truth of an instance of c: __bool__, else __len__, else true; and what the
\* operators with one method do: they call it or refuse.
Truth(c) ==
  IF slots[c]["__bool__"] # Null THEN slots[c]["__bool__"] ELSE slots[c]["__len__"]
Invoke(c, s) == slots[c][s]

----------------------------------------------------------------------------

\* The classes object and type as krk_initVM leaves them, and empty classes.
Init ==
  /\ program \in Programs
  /\ base = Begun(program)
  /\ methods = [c \in Classes |-> IF c = Object THEN ObjectTable ELSE <<>>]
  /\ slots = [c \in Classes |-> [s \in Specials |->
                IF c \in Live /\ s \in DOMAIN ObjectTable /\ Fits(s, ObjectTable[s])
                THEN ObjectTable[s] ELSE Null]]
  /\ cacheIndex = [c \in Classes |-> None]
  /\ cache = [l \in Lines |-> [name |-> Null, owner |-> Null, value |-> Null, index |-> None]]
  /\ address = [n \in Names |-> n]
  /\ class = [i \in Instances |-> Null]
  /\ fields = [i \in Instances |-> <<>>]

\* A program that gives two classes the same __hash__: when one is below the other
\* and has another __eq__, the slot of the lower one is emptied although its table
\* has the function, and a class below it may be hashable again.
SharesHash(p) ==
  p.name = "__hash__" /\ \E c \in Live : p \in {[name |-> n, value |-> methods[c][n]] :
                                                n \in DOMAIN methods[c]}
Assigned == {p \in program.assigns : "shared" \in Unsound \/ ~SharesHash(p)}
Known == {p.name : p \in program.assigns}

Next ==
  \/ \E n \in program.reads :
       \/ GetClassAttribute(n)
       \/ \E i \in program.instances : GetAttribute(i, n) \/ DelAttribute(i, n)
       \/ \E c \in Live : GetSuper(c, n)
       \/ \E a \in Addresses : MoveName(n, a)
  \/ \E p \in Assigned :
       \/ \E i \in program.instances : SetAttribute(i, p.name, p.value)
       \/ \E c \in Live : SetClassAttribute(c, p.name, p.value)
  \/ \E c \in Live, n \in Known : DelClassAttribute(c, n)
  \/ \E c \in Classes : \E b \in Live \intersect program.bases[c] :
       \/ NewClass(c, b, <<>>)
       \/ \E p \in Assigned : Room /\ NewClass(c, b, With(<<>>, p.name, p.value))
  \/ \E c \in Classes : program.bases[c] # {} /\ FreeClass(c)
  \/ \E i \in program.instances :
       FreeInstance(i) \/ \E c \in Live : Instantiate(i, c) \/ SetClass(i, c)

Spec == Init /\ [][Next]_vars

----------------------------------------------------------------------------
(* Properties.                                                             *)

\* Every variable has its type; only numbered classes have lines in use.
TypeOK ==
  /\ base \in [Classes -> Classes \union {Null}]
  /\ \A c \in Classes : /\ DOMAIN methods[c] \subseteq Names
                        /\ \A n \in DOMAIN methods[c] : methods[c][n] \in Values
  /\ slots \in [Classes -> [Specials -> Values \union {Null}]]
  /\ cacheIndex \in [Classes -> Numbers]
  /\ \A c \in Classes : cacheIndex[c] # None => c \in Live
  /\ \A l \in Lines : /\ cache[l].name \in Addresses \union {Null}
                      /\ cache[l].owner \in Classes \union {Null}
                      /\ cache[l].value \in Values \union {Null}
                      /\ cache[l].index \in Numbers
  /\ address \in [Names -> Addresses]
  /\ class \in [Instances -> Classes \union {Null}]
  /\ \A i \in Instances : class[i] # Null => class[i] \in Live

\* The cache tells the truth: a line that answers for a class and a name gives the
\* nearest definition above the class, whatever was assigned, deleted, made or
\* freed since the line was filled, and whichever string or class has taken an
\* address over.  checkCache and clearCache.
CacheTruthful ==
  \A c \in Live, n \in Names :
    Hit(c, n) => /\ cache[Line(c, n)].owner = Owner(methods, c, n)
                 /\ cache[Line(c, n)].value = Definition(methods, c, n)

\* A hashable class compares equal objects by the __eq__ that its __hash__ was made
\* for: between a class and the one that defines its __hash__, no class changes
\* __eq__, in whatever order the two were assigned and deleted along the
\* hierarchy.  krk_finalizeClass.
EqualNeedsHash ==
  \A c \in Live :
    slots[c]["__hash__"] # Null =>
      slots[c]["__eq__"] = slots[Owner(methods, c, "__hash__")]["__eq__"]

Reference == INSTANCE Attributes WITH dict <- methods

\* Whatever the slots and the cache hold, whatever was looked up before: every read
\* of what programs assign, by instance, class or super, gives what plain lookup along
\* the bases gives.  valueGetMethod, krk_bindMethodSuper.
ReadsRight ==
  \A n \in program.reads, c \in Live :
    /\ OfClass(c, n) = Reference!OfClass(c, n)
    /\ \A d \in Below(c) : OfSuper(c, n, Null, d) = Reference!OfSuper(c, n, Null, d)
    /\ \A i \in {i \in Instances : class[i] \in Below(c)} :
         /\ OfSuper(c, n, i, class[i]) = Reference!OfSuper(c, n, i, class[i])
         /\ OfInstance(i, n) = Reference!OfInstance(i, n)

\* Operators, truth, construction and the hook for subclasses call the methods
\* that lookup on the classes of the operands gives, in the order the language
\* promises, up to the first that answers.  _bin_op, krk_valuesEqual,
\* krk_isFalsey, commonMethodInvoke, type.__call__.
OperatorsRight ==
  /\ \A c, d \in Live \ {Type}, answer \in [{"left", "right"} -> Answers] :
       /\ Equal(c, d, answer) = Reference!Equal(c, d, answer)
       /\ \A inplace \in BOOLEAN :
            Add(c, d, inplace, answer) = Reference!Add(c, d, inplace, answer)
  /\ \A c \in Live :
       /\ Truth(c) = Reference!Truth(c)
       /\ Initialiser(c) = Reference!Initialiser(c)
       /\ \A s \in Specials : Invoke(c, s) = Reference!Special(c, s)
       /\ \A b \in Live : SubclassHook(c, b) = Reference!SubclassHook(c, b)

\* Reads of attributes, and the operators, calls and hooks that go through
\* special methods, give what lookup along the bases gives, whatever the slots
\* and the cache hold (valueGetMethod, _bin_op, krk_valuesEqual, type.__call__).
RepliesRight == ReadsRight /\ OperatorsRight

\* Assignments take effect where a program that knows nothing of slots and caches
\* expects them: a refinement of Attributes.
ImplementsAttributes == Reference!Spec

=============================================================================
