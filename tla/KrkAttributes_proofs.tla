-------------------------- MODULE KrkAttributes_proofs --------------------------
(***************************************************************************)
(* The cache of attribute lookups tells the truth and slots are what       *)
(* lookup gives, for any classes, names, programs and lines, so that reads *)
(* and operators answer as plain lookup along the bases does.              *)
(*                                                                         *)
(* A line remembers a class, a name and what was found.  It goes wrong if  *)
(* a table on the way from the class to the definition changes and the     *)
(* class keeps its number.  clearCache goes down from the class that has   *)
(* changed to those that have a number only, so that what matters is: a    *)
(* class whose number is in a line has numbers all the way up to the       *)
(* definition (Trusted).  Names move to other addresses, but only those no *)
(* table has; a line for an address no name is at says that there is       *)
(* nothing, and all classes above have numbers.                            *)
(*                                                                         *)
(* krk_finalizeClass goes down from the class that has changed, and takes  *)
(* the slots of the base and what lookup found there for each class in     *)
(* turn.  What it leaves is right because slots elsewhere were (SlotsFit), *)
(* because a class above, which it does not visit, has already the None    *)
(* its __eq__ calls for (HashesSettled), and because two classes with the  *)
(* same __hash__ have it from one table (HashesDistinct).                  *)
(***************************************************************************)
EXTENDS KrkAttributes, FiniteSetTheorems, SequenceTheorems, WellFoundedInduction, TLAPS

-----------------------------------------------------------------------------
(* The classes above a class, and lookup along them, for any bases.        *)

Ups(up, c) ==
  LET f[d \in Classes] == IF up[d] = Null THEN {d} ELSE {d} \union f[up[d]]
  IN f[c]

OwnerIn(up, m, c, n) ==
  LET find[d \in Classes] ==
        IF n \in DOMAIN m[d] THEN d ELSE IF up[d] = Null THEN Null ELSE find[up[d]]
  IN find[c]

\* Lookup of n from d comes to e: no class before e has it.
OnPath(up, m, d, n, e) ==
  /\ e \in Ups(up, d)
  /\ \A f \in Ups(up, d) : e \in Ups(up, f) /\ f # e => n \notin DOMAIN m[f]

-----------------------------------------------------------------------------
(* The inductive invariant.                                                *)

\* Line l is trusted for class d: under the name at its address it has what lookup
\* finds, and all classes on the way there have numbers.
Trusted(up, m, idx, lines, addr, l, d) ==
  /\ \A n \in Names : lines[l].name = addr[n] =>
       /\ lines[l].owner = OwnerIn(up, m, d, n)
       /\ lines[l].value = Valued(m, OwnerIn(up, m, d, n), n)
       /\ \A e \in Classes : OnPath(up, m, d, n, e) => idx[e] # None
  /\ (\A n \in Names : lines[l].name # addr[n]) =>
       /\ lines[l].owner = Null /\ lines[l].value = Null
       /\ \A e \in Ups(up, d) : idx[e] # None

AllTrusted(up, m, idx, lines, addr) ==
  \A l \in Lines, d \in Classes :
    lines[l].index = idx[d] /\ idx[d] # None => Trusted(up, m, idx, lines, addr, l, d)

\* A number is that of one class, which exists.
NumbersOwn(up, idx) ==
  /\ idx \in [Classes -> Numbers]
  /\ \A c \in Classes : idx[c] # None => /\ c = Object \/ up[c] # Null
                                        /\ \E k \in 1 .. Cardinality(Lines) + 1 : idx[c] = <<c, k>>

LinesUsed(lines) ==
  \A l \in Lines : lines[l].index = None => lines[l].name = Null

Addressed(addr) ==
  /\ addr \in [Names -> Addresses]
  /\ \A n, p \in Names : addr[n] = addr[p] => n = p

IInv ==
  /\ program \in Programs
  /\ Hierarchy(base) /\ base[Type] # Null
  /\ methods = [c \in Classes |-> methods[c]]
  /\ class \in [Instances -> Classes \union {Null}]
  /\ \A i \in Instances : class[i] # Null => class[i] = Object \/ base[class[i]] # Null
  /\ NumbersOwn(base, cacheIndex)
  /\ LinesUsed(cache)
  /\ Addressed(address)
  /\ AllTrusted(base, methods, cacheIndex, cache, address)

-----------------------------------------------------------------------------
(* Recursion along the bases.                                              *)

LEMMA Lowest ==
  ASSUME NEW up, Hierarchy(up), NEW T, T \subseteq Classes, T # {}
  PROVE  \E c \in T : up[c] \notin T
<1>1. T \in SUBSET Classes /\ T \notin {{}}
  OBVIOUS
<1>2. QED
  BY <1>1 DEF Hierarchy

\* g is the function on S, a set with the bases of its elements, that starts at
\* the classes in Stop and goes on from there.
Solves(up, Stop, start, step, S, g) ==
  /\ S \subseteq Classes
  /\ DOMAIN g = S
  /\ \A c \in S : c \in Stop \/ up[c] \in S
  /\ \A c \in S : g[c] = IF c \in Stop THEN start[c] ELSE step[c][g[up[c]]]

LEMMA SolutionsAgree ==
  ASSUME NEW up, Hierarchy(up), NEW Stop, NEW start, NEW step, NEW S, NEW g, NEW R, NEW h,
         Solves(up, Stop, start, step, S, g), Solves(up, Stop, start, step, R, h), NEW c \in S \cap R
  PROVE  g[c] = h[c]
<1> DEFINE T == {d \in S \cap R : g[d] # h[d]}
<1>1. SUFFICES ASSUME T # {} PROVE FALSE
  BY <1>1
<1>2. T \subseteq Classes
  BY DEF Solves
<1>3. PICK d \in T : up[d] \notin T
  BY <1>1, <1>2, Lowest
<1>4. CASE d \in Stop
  BY <1>3, <1>4 DEF Solves
<1>5. CASE d \notin Stop
  BY <1>3, <1>5 DEF Solves
<1>6. QED
  BY <1>4, <1>5

LEMMA SolutionAt ==
  ASSUME NEW up, Hierarchy(up), NEW Stop, \A c \in Classes : up[c] = Null => c \in Stop,
         NEW start, NEW step, NEW c \in Classes
  PROVE  \E S, g : Solves(up, Stop, start, step, S, g) /\ c \in S
<1> DEFINE Done(d) == \E S, g : Solves(up, Stop, start, step, S, g) /\ d \in S
           T == {d \in Classes : ~ Done(d)}
<1>1. SUFFICES ASSUME T # {} PROVE FALSE
  <2> HIDE DEF Done
  <2>1. ~ Done(c) => T # {}
    OBVIOUS
  <2>2. QED
    BY <1>1, <2>1 DEF Done
<1>2. PICK d \in T : up[d] \notin T
  <2>1. T \subseteq Classes
    OBVIOUS
  <2> HIDE DEF T
  <2>2. QED
    BY <1>1, <2>1, Lowest
<1>3. CASE d \in Stop
  <2> DEFINE g == [x \in {d} |-> start[x]]
  <2>1. Solves(up, Stop, start, step, {d}, g)
    BY <1>2, <1>3 DEF Solves
  <2>2. QED
    BY <1>2, <2>1
<1>4. CASE d \notin Stop
  <2>1. up[d] \in Classes
    BY <1>2, <1>4 DEF Hierarchy
  <2>2. PICK S, g : Solves(up, Stop, start, step, S, g) /\ up[d] \in S
    BY <1>2, <2>1
  <2> DEFINE h == [x \in S \union {d} |-> IF x \in S THEN g[x] ELSE step[d][g[up[d]]]]
  <2>3. Solves(up, Stop, start, step, S \union {d}, h)
    <3>1. S \union {d} \subseteq Classes /\ DOMAIN h = S \union {d}
      BY <1>2, <2>2 DEF Solves
    <3>2. \A x \in S \union {d} : x \in Stop \/ up[x] \in S \union {d}
      BY <2>2 DEF Solves
    <3>3. ASSUME NEW x \in S \union {d}
          PROVE  h[x] = IF x \in Stop THEN start[x] ELSE step[x][h[up[x]]]
      <4>1. CASE x \in S
        <5>1. h[x] = g[x] /\ (x \notin Stop => up[x] \in S /\ h[up[x]] = g[up[x]])
          BY <2>2, <4>1 DEF Solves
        <5>2. g[x] = IF x \in Stop THEN start[x] ELSE step[x][g[up[x]]]
          BY <2>2, <4>1 DEF Solves
        <5> HIDE DEF h
        <5>3. QED
          BY <5>1, <5>2
      <4>2. CASE x \notin S
        <5>1. x = d /\ h[d] = step[d][g[up[d]]] /\ h[up[d]] = g[up[d]]
          BY <2>2, <3>3, <4>2
        <5> HIDE DEF h
        <5>2. QED
          BY <1>4, <5>1
      <4>3. QED
        BY <4>1, <4>2
    <3> HIDE DEF h
    <3>4. QED
      BY <3>1, <3>2, <3>3 DEF Solves
  <2>4. QED
    BY <1>2, <2>3
<1>5. QED
  BY <1>3, <1>4

Follows(up, Stop, start, step, f) ==
  \A c \in Classes : f[c] = IF c \in Stop THEN start[c] ELSE step[c][f[up[c]]]

LEMMA Recursion ==
  ASSUME NEW up, Hierarchy(up), NEW Stop, \A c \in Classes : up[c] = Null => c \in Stop,
         NEW V, NEW start \in [Classes -> V], NEW step \in [Classes -> [V -> V]]
  PROVE  \E f \in [Classes -> V] : Follows(up, Stop, start, step, f)
<1> DEFINE Is(c, v) == \E S, g : Solves(up, Stop, start, step, S, g) /\ c \in S /\ v = g[c]
           f == [c \in Classes |-> CHOOSE v : Is(c, v)]
<1>1. ASSUME NEW S, NEW g, Solves(up, Stop, start, step, S, g), NEW c \in S
      PROVE  f[c] = g[c]
  <2>1. Is(c, g[c])
    BY <1>1
  <2>2. Is(c, CHOOSE v : Is(c, v))
    <3> HIDE DEF Is
    <3> QED
      BY <2>1
  <2>3. c \in Classes
    BY <1>1 DEF Solves
  <2>4. Is(c, f[c])
    <3> HIDE DEF Is
    <3> QED
      BY <2>2, <2>3
  <2> HIDE DEF f
  <2>5. PICK R, h : Solves(up, Stop, start, step, R, h) /\ c \in R /\ f[c] = h[c]
    BY <2>4
  <2>6. QED
    BY <1>1, <2>5, SolutionsAgree
<1>2. ASSUME NEW c \in Classes
      PROVE  f[c] = IF c \in Stop THEN start[c] ELSE step[c][f[up[c]]]
  <2>1. PICK S, g : Solves(up, Stop, start, step, S, g) /\ c \in S
    BY SolutionAt
  <2>2. f[c] = g[c]
    BY <1>1, <2>1
  <2>3. c \notin Stop => up[c] \in S
    BY <2>1 DEF Solves
  <2>4. c \notin Stop => f[up[c]] = g[up[c]]
    <3> HIDE DEF f
    <3> QED
      BY <1>1, <2>1, <2>3
  <2>5. g[c] = IF c \in Stop THEN start[c] ELSE step[c][g[up[c]]]
    BY <2>1 DEF Solves
  <2> HIDE DEF f
  <2>6. QED
    BY <2>2, <2>4, <2>5
<1>3. f = [c \in Classes |-> f[c]]
  OBVIOUS
<1> HIDE DEF f
<1>4. f \in [Classes -> V]
  <2> DEFINE T == {c \in Classes : f[c] \notin V}
  <2>1. SUFFICES ASSUME T # {} PROVE FALSE
    BY <1>3, <2>1
  <2>2. PICK c \in T : up[c] \notin T
    BY <2>1, Lowest
  <2>3. CASE c \in Stop
    BY <1>2, <2>2, <2>3
  <2>4. CASE c \notin Stop
    <3>1. f[up[c]] \in V
      BY <2>2, <2>4 DEF Hierarchy
    <3>2. QED
      BY <1>2, <2>2, <2>4, <3>1
  <2>5. QED
    BY <2>3, <2>4
<1>5. QED
  BY <1>2, <1>4 DEF Follows

LEMMA UpsFunction ==
  ASSUME NEW up, Hierarchy(up)
  PROVE  \E f : f = [d \in Classes |-> IF up[d] = Null THEN {d} ELSE {d} \union f[up[d]]]
                /\ \A d \in Classes : f[d] \subseteq Classes /\ Ups(up, d) = f[d]
<1> DEFINE Stop == {d \in Classes : up[d] = Null}
           start == [d \in Classes |-> {d}]
           step == [d \in Classes |-> [x \in SUBSET Classes |-> {d} \union x]]
           Is(f) == f = [d \in Classes |-> IF up[d] = Null THEN {d} ELSE {d} \union f[up[d]]]
<1>1. start \in [Classes -> SUBSET Classes] /\ step \in [Classes -> [SUBSET Classes -> SUBSET Classes]]
  OBVIOUS
<1>2. PICK f : /\ f \in [Classes -> SUBSET Classes]
               /\ \A c \in Classes : f[c] = IF c \in Stop THEN start[c] ELSE step[c][f[up[c]]]
  <2>1. \A c \in Classes : up[c] = Null => c \in Stop
    OBVIOUS
  <2> DEFINE V == SUBSET Classes
  <2>2. start \in [Classes -> V] /\ step \in [Classes -> [V -> V]]
    BY <1>1
  <2> HIDE DEF Stop, start, step, V
  <2>3. \E f \in [Classes -> V] : Follows(up, Stop, start, step, f)
    BY <2>1, <2>2, Recursion
  <2>4. QED
    BY <2>3 DEF V, Follows
<1>3. Is(f)
  <2>1. \A d \in Classes : f[d] = IF up[d] = Null THEN {d} ELSE {d} \union f[up[d]]
    <3>1. SUFFICES ASSUME NEW d \in Classes PROVE f[d] = IF up[d] = Null THEN {d} ELSE {d} \union f[up[d]]
      OBVIOUS
    <3>2. CASE up[d] = Null
      BY <1>2, <3>2
    <3>3. CASE up[d] # Null
      <4>1. f[up[d]] \in SUBSET Classes
        BY <1>2, <3>3 DEF Hierarchy
      <4>2. QED
        BY <1>2, <3>3, <4>1
    <3>4. QED
      BY <3>2, <3>3
  <2>2. f = [c \in Classes |-> f[c]]
    BY <1>2
  <2> QED
    BY <2>1, <2>2
<1> DEFINE g == CHOOSE f0 : f0 = [d \in Classes |-> IF up[d] = Null THEN {d} ELSE {d} \union f0[up[d]]]
<1>4. Is(g)
  BY <1>3, Zenon
<1>5. \A d \in Classes : Ups(up, d) = g[d]
  BY DEF Ups
<1> HIDE DEF g
<1>6. \A d \in Classes : g[d] \subseteq Classes
  <2> DEFINE T == {d \in Classes : ~ (g[d] \subseteq Classes)}
  <2>1. SUFFICES ASSUME T # {} PROVE FALSE
    BY <2>1
  <2>2. PICK d \in T : up[d] \notin T
    BY <2>1, Lowest
  <2>3. g[d] = IF up[d] = Null THEN {d} ELSE {d} \union g[up[d]]
    BY <1>4, <2>2
  <2>4. up[d] # Null => g[up[d]] \subseteq Classes
    BY <2>2 DEF Hierarchy
  <2>5. QED
    BY <2>2, <2>3, <2>4
<1>7. QED
  BY <1>4, <1>5, <1>6

LEMMA UpsAre ==
  ASSUME NEW up, Hierarchy(up), NEW d \in Classes
  PROVE  /\ Ups(up, d) \subseteq Classes
         /\ up[d] = Null => Ups(up, d) = {d}
         /\ up[d] # Null => up[d] \in Classes /\ Ups(up, d) = {d} \union Ups(up, up[d])
<1>1. PICK f : /\ f = [e \in Classes |-> IF up[e] = Null THEN {e} ELSE {e} \union f[up[e]]]
               /\ \A e \in Classes : f[e] \subseteq Classes /\ Ups(up, e) = f[e]
  BY UpsFunction
<1>2. f[d] = IF up[d] = Null THEN {d} ELSE {d} \union f[up[d]]
  BY <1>1
<1>3. up[d] # Null => up[d] \in Classes
  BY DEF Hierarchy
<1>4. QED
  BY <1>1, <1>2, <1>3

\* The first class in Stop on the way up.
LEMMA First ==
  ASSUME NEW up, Hierarchy(up), NEW Stop, \A c \in Classes : up[c] = Null => c \in Stop
  PROVE  \E f \in [Classes -> Classes] : \A c \in Classes : f[c] = IF c \in Stop THEN c ELSE f[up[c]]
<1> DEFINE start == [c \in Classes |-> c]
           step == [c \in Classes |-> [x \in Classes |-> x]]
<1>1. start \in [Classes -> Classes] /\ step \in [Classes -> [Classes -> Classes]]
  OBVIOUS
<1>2. PICK f \in [Classes -> Classes] : Follows(up, Stop, start, step, f)
  <2> HIDE DEF start, step
  <2>1. QED
    BY <1>1, Recursion
<1>3. \A c \in Classes : f[c] = IF c \in Stop THEN start[c] ELSE step[c][f[up[c]]]
  BY <1>2 DEF Follows
<1>4. \A c \in Classes : up[c] # Null => f[up[c]] \in Classes
  BY DEF Hierarchy
<1>5. \A c \in Classes : f[c] = IF c \in Stop THEN c ELSE f[up[c]]
  BY <1>3, <1>4
<1>6. QED
  BY <1>5

LEMMA OwnerAre ==
  ASSUME NEW up, Hierarchy(up), NEW m, NEW n, NEW d \in Classes
  PROVE  /\ n \in DOMAIN m[d] => OwnerIn(up, m, d, n) = d
         /\ n \notin DOMAIN m[d] => OwnerIn(up, m, d, n) = IF up[d] = Null THEN Null ELSE OwnerIn(up, m, up[d], n)
<1> DEFINE Stop == {c \in Classes : n \in DOMAIN m[c] \/ up[c] = Null}
           Is(f) == f = [c \in Classes |->
                           IF n \in DOMAIN m[c] THEN c ELSE IF up[c] = Null THEN Null ELSE f[up[c]]]
<1>1. PICK f \in [Classes -> Classes] : \A c \in Classes : f[c] = IF c \in Stop THEN c ELSE f[up[c]]
  <2>1. \A c \in Classes : up[c] = Null => c \in Stop
    OBVIOUS
  <2> HIDE DEF Stop
  <2>2. QED
    BY <2>1, First
<1> DEFINE g == [c \in Classes |-> IF n \in DOMAIN m[f[c]] THEN f[c] ELSE Null]
<1>2. Is(g)
  <2>1. ASSUME NEW c \in Classes
        PROVE  g[c] = IF n \in DOMAIN m[c] THEN c ELSE IF up[c] = Null THEN Null ELSE g[up[c]]
    <3>1. CASE c \in Stop
      BY <1>1, <3>1
    <3>2. CASE c \notin Stop
      <4>1. f[c] = f[up[c]] /\ up[c] \in Classes
        BY <1>1, <3>2 DEF Hierarchy
      <4>2. QED
        BY <3>2, <4>1
    <3>3. QED
      BY <3>1, <3>2
  <2>2. g = [c \in Classes |-> g[c]]
    OBVIOUS
  <2> HIDE DEF g
  <2>3. QED
    BY <2>1, <2>2
<1> DEFINE h == CHOOSE f0 : f0 = [c \in Classes |->
                              IF n \in DOMAIN m[c] THEN c ELSE IF up[c] = Null THEN Null ELSE f0[up[c]]]
<1>3. Is(h)
  <2> HIDE DEF g
  <2> QED
    BY <1>2, Zenon
<1>4. \A c \in Classes : OwnerIn(up, m, c, n) = h[c]
  BY DEF OwnerIn
<1> HIDE DEF h
<1>5. h[d] = IF n \in DOMAIN m[d] THEN d ELSE IF up[d] = Null THEN Null ELSE h[up[d]]
  BY <1>3
<1>6. up[d] # Null => up[d] \in Classes
  BY DEF Hierarchy
<1>7. QED
  BY <1>4, <1>5, <1>6

\* What checkCache answers for a class, by what it does there.
LEMMA CachedIs ==
  ASSUME Hierarchy(base), NEW n, NEW d \in Classes
  PROVE  /\ Hit(d, n) => Cached(d, n) = [owner |-> cache[Line(d, n)].owner, value |-> cache[Line(d, n)].value]
         /\ ~ Hit(d, n) /\ n \in DOMAIN methods[d] => Cached(d, n) = [owner |-> d, value |-> methods[d][n]]
         /\ ~ Hit(d, n) /\ n \notin DOMAIN methods[d] =>
              Cached(d, n) = IF base[d] = Null THEN [owner |-> Null, value |-> Null] ELSE Cached(base[d], n)
<1> DEFINE Stop == {c \in Classes : Hit(c, n) \/ n \in DOMAIN methods[c] \/ base[c] = Null}
           There(c) == IF Hit(c, n)
                       THEN [owner |-> cache[Line(c, n)].owner, value |-> cache[Line(c, n)].value]
                       ELSE IF n \in DOMAIN methods[c] THEN [owner |-> c, value |-> methods[c][n]]
                       ELSE [owner |-> Null, value |-> Null]
           Is(f) == f = [c \in Classes |->
                           IF Hit(c, n)
                           THEN [owner |-> cache[Line(c, n)].owner, value |-> cache[Line(c, n)].value]
                           ELSE IF n \in DOMAIN methods[c] THEN [owner |-> c, value |-> methods[c][n]]
                           ELSE IF base[c] = Null THEN [owner |-> Null, value |-> Null]
                           ELSE f[base[c]]]
<1>1. PICK f \in [Classes -> Classes] : \A c \in Classes : f[c] = IF c \in Stop THEN c ELSE f[base[c]]
  <2>1. \A c \in Classes : base[c] = Null => c \in Stop
    OBVIOUS
  <2> HIDE DEF Stop
  <2>2. QED
    BY <2>1, First
<1> DEFINE g == [c \in Classes |-> There(f[c])]
<1>2. Is(g)
  <2>1. ASSUME NEW c \in Classes
        PROVE  g[c] = IF Hit(c, n) \/ n \in DOMAIN methods[c] \/ base[c] = Null THEN There(c) ELSE g[base[c]]
    <3> HIDE DEF There
    <3>1. CASE c \in Stop
      BY <1>1, <3>1
    <3>2. CASE c \notin Stop
      <4>1. f[c] = f[base[c]] /\ base[c] \in Classes
        BY <1>1, <3>2 DEF Hierarchy
      <4>2. QED
        BY <3>2, <4>1
    <3>3. QED
      BY <3>1, <3>2
  <2>2. g = [c \in Classes |-> g[c]]
    OBVIOUS
  <2> HIDE DEF g
  <2>3. QED
    BY <2>1, <2>2
<1> DEFINE h == CHOOSE f0 : f0 = [c \in Classes |->
                           IF Hit(c, n)
                           THEN [owner |-> cache[Line(c, n)].owner, value |-> cache[Line(c, n)].value]
                           ELSE IF n \in DOMAIN methods[c] THEN [owner |-> c, value |-> methods[c][n]]
                           ELSE IF base[c] = Null THEN [owner |-> Null, value |-> Null]
                           ELSE f0[base[c]]]
<1>3. Is(h)
  <2> HIDE DEF g
  <2> QED
    BY <1>2, Zenon
<1>4. \A c \in Classes : Cached(c, n) = h[c]
  BY DEF Cached
<1> HIDE DEF h
<1>5. h[d] = IF Hit(d, n)
             THEN [owner |-> cache[Line(d, n)].owner, value |-> cache[Line(d, n)].value]
             ELSE IF n \in DOMAIN methods[d] THEN [owner |-> d, value |-> methods[d][n]]
             ELSE IF base[d] = Null THEN [owner |-> Null, value |-> Null]
             ELSE h[base[d]]
  BY <1>3
<1>6. base[d] # Null => base[d] \in Classes
  BY DEF Hierarchy
<1>7. QED
  BY <1>4, <1>5, <1>6

LEMMA MissedIs ==
  ASSUME Hierarchy(base), NEW n, NEW d \in Classes
  PROVE  /\ Hit(d, n) => Missed(d, n) = {}
         /\ ~ Hit(d, n) /\ (n \in DOMAIN methods[d] \/ base[d] = Null) => Missed(d, n) = {d}
         /\ ~ Hit(d, n) /\ n \notin DOMAIN methods[d] /\ base[d] # Null =>
              Missed(d, n) = {d} \union Missed(base[d], n)
<1> DEFINE Stop == {c \in Classes : Hit(c, n) \/ n \in DOMAIN methods[c] \/ base[c] = Null}
           start == [c \in Classes |-> IF Hit(c, n) THEN {} ELSE {c}]
           step == [c \in Classes |-> [x \in SUBSET Classes |-> {c} \union x]]
           Is(f) == f = [c \in Classes |->
                           IF Hit(c, n) THEN {}
                           ELSE IF n \in DOMAIN methods[c] \/ base[c] = Null THEN {c}
                           ELSE {c} \union f[base[c]]]
<1>1. start \in [Classes -> SUBSET Classes] /\ step \in [Classes -> [SUBSET Classes -> SUBSET Classes]]
  OBVIOUS
<1>2. PICK f : /\ f \in [Classes -> SUBSET Classes]
               /\ \A c \in Classes : f[c] = IF c \in Stop THEN start[c] ELSE step[c][f[base[c]]]
  <2>1. \A c \in Classes : base[c] = Null => c \in Stop
    OBVIOUS
  <2> DEFINE V == SUBSET Classes
  <2>2. start \in [Classes -> V] /\ step \in [Classes -> [V -> V]]
    BY <1>1
  <2> HIDE DEF Stop, start, step, V
  <2>3. \E f \in [Classes -> V] : Follows(base, Stop, start, step, f)
    BY <2>1, <2>2, Recursion
  <2>4. QED
    BY <2>3 DEF V, Follows
<1>3. Is(f)
  <2>1. ASSUME NEW c \in Classes
        PROVE  f[c] = IF Hit(c, n) THEN {}
                      ELSE IF n \in DOMAIN methods[c] \/ base[c] = Null THEN {c}
                      ELSE {c} \union f[base[c]]
    <3>1. CASE c \in Stop
      BY <1>2, <3>1
    <3>2. CASE c \notin Stop
      <4>1. f[base[c]] \in SUBSET Classes
        BY <1>2, <3>2 DEF Hierarchy
      <4>2. QED
        BY <1>2, <3>2, <4>1
    <3>3. QED
      BY <3>1, <3>2
  <2>2. f = [c \in Classes |-> f[c]]
    BY <1>2
  <2>3. QED
    BY <2>1, <2>2
<1> DEFINE h == CHOOSE f0 : f0 = [c \in Classes |->
                           IF Hit(c, n) THEN {}
                           ELSE IF n \in DOMAIN methods[c] \/ base[c] = Null THEN {c}
                           ELSE {c} \union f0[base[c]]]
<1>4. Is(h)
  BY <1>3, Zenon
<1>5. \A c \in Classes : Missed(c, n) = h[c]
  BY DEF Missed
<1> HIDE DEF h
<1>6. h[d] = IF Hit(d, n) THEN {}
             ELSE IF n \in DOMAIN methods[d] \/ base[d] = Null THEN {d}
             ELSE {d} \union h[base[d]]
  BY <1>4
<1>7. base[d] # Null => base[d] \in Classes
  BY DEF Hierarchy
<1>8. QED
  BY <1>5, <1>6, <1>7

-----------------------------------------------------------------------------
(* The classes above a class are a chain.                                  *)

LEMMA UpsSelf ==
  ASSUME NEW up, Hierarchy(up), NEW d \in Classes
  PROVE  d \in Ups(up, d) /\ \A e \in Ups(up, d) : e \in Classes
BY UpsAre

LEMMA UpsTransitive ==
  ASSUME NEW up, Hierarchy(up), NEW d \in Classes, NEW e \in Ups(up, d), NEW f \in Ups(up, e)
  PROVE  f \in Ups(up, d)
<1> DEFINE T == {c \in Classes : e \in Ups(up, c) /\ f \notin Ups(up, c)}
<1>1. SUFFICES ASSUME T # {} PROVE FALSE
  BY <1>1
<1>2. PICK c \in T : up[c] \notin T
  BY <1>1, Lowest
<1>3. e # c
  BY <1>2
<1>4. up[c] # Null /\ up[c] \in Classes /\ Ups(up, c) = {c} \union Ups(up, up[c])
  BY <1>2, <1>3, UpsAre
<1>5. QED
  BY <1>2, <1>3, <1>4

LEMMA UpsAntisymmetric ==
  ASSUME NEW up, Hierarchy(up), NEW d \in Classes, NEW e \in Ups(up, d), d \in Ups(up, e)
  PROVE  d = e
<1> DEFINE T == {c \in Classes : \E b \in Classes : b # c /\ b \in Ups(up, c) /\ c \in Ups(up, b)}
<1>1. SUFFICES ASSUME T # {} PROVE FALSE
  BY <1>1, UpsSelf
<1>2. PICK c \in T : up[c] \notin T
  BY <1>1, Lowest
<1>3. PICK b \in Classes : b # c /\ b \in Ups(up, c) /\ c \in Ups(up, b)
  BY <1>2
<1>4. up[c] # Null /\ up[c] \in Classes /\ Ups(up, c) = {c} \union Ups(up, up[c])
  BY <1>2, <1>3, UpsAre
<1>5. b \in Ups(up, up[c])
  BY <1>3, <1>4
<1>6. up[c] \in Ups(up, c)
  BY <1>4, UpsSelf
<1>7. up[c] \in Ups(up, b)
  BY <1>2, <1>3, <1>6, UpsTransitive
<1>8. b = up[c]
  BY <1>2, <1>3, <1>4, <1>5, <1>7
<1>9. c \in Ups(up, up[c]) /\ c # up[c]
  BY <1>3, <1>8
<1>10. QED
  BY <1>2, <1>4, <1>6, <1>9

LEMMA UpsLinear ==
  ASSUME NEW up, Hierarchy(up), NEW d \in Classes, NEW e \in Ups(up, d), NEW f \in Ups(up, d)
  PROVE  e \in Ups(up, f) \/ f \in Ups(up, e)
<1> DEFINE T == {c \in Classes : e \in Ups(up, c) /\ f \in Ups(up, c) /\ ~ (e \in Ups(up, f) \/ f \in Ups(up, e))}
<1>1. SUFFICES ASSUME T # {} PROVE FALSE
  BY <1>1
<1>2. PICK c \in T : up[c] \notin T
  BY <1>1, Lowest
<1>3. e # c /\ f # c
  BY <1>2
<1>4. up[c] # Null /\ up[c] \in Classes /\ Ups(up, c) = {c} \union Ups(up, up[c])
  BY <1>2, <1>3, UpsAre
<1>5. QED
  BY <1>2, <1>3, <1>4

\* The classes above one that exists exist.
LEMMA UpsLive ==
  ASSUME NEW up, Hierarchy(up), NEW d \in Classes, d = Object \/ up[d] # Null, NEW e \in Ups(up, d)
  PROVE  e = Object \/ up[e] # Null
<1> DEFINE T == {c \in Classes : (c = Object \/ up[c] # Null) /\ e \in Ups(up, c) /\ ~ (e = Object \/ up[e] # Null)}
<1>1. SUFFICES ASSUME T # {} PROVE FALSE
  BY <1>1
<1>2. PICK c \in T : up[c] \notin T
  BY <1>1, Lowest
<1>3. e # c
  BY <1>2
<1>4. up[c] # Null /\ up[c] \in Classes /\ Ups(up, c) = {c} \union Ups(up, up[c])
  BY <1>2, <1>3, UpsAre
<1>5. up[c] = Object \/ up[up[c]] # Null
  BY <1>2, <1>4 DEF Hierarchy
<1>6. QED
  BY <1>2, <1>3, <1>4, <1>5

\* Other bases that are the same for the classes above d.
LEMMA UpsSame ==
  ASSUME NEW up, Hierarchy(up), NEW up2, Hierarchy(up2), NEW d \in Classes,
         \A e \in Ups(up, d) : up2[e] = up[e]
  PROVE  Ups(up2, d) = Ups(up, d)
<1> DEFINE T == {c \in Classes : c \in Ups(up, d) /\ Ups(up2, c) # Ups(up, c)}
<1>1. SUFFICES ASSUME T # {} PROVE FALSE
  BY <1>1, UpsSelf
<1>2. PICK c \in T : up[c] \notin T
  BY <1>1, Lowest
<1>3. up2[c] = up[c]
  BY <1>2
<1>4. up[c] # Null => up[c] \in Ups(up, c)
  BY <1>2, UpsAre, UpsSelf
<1>5. up[c] # Null => up[c] \in Ups(up, d)
  BY <1>2, <1>4, UpsTransitive
<1>6. up[c] # Null => Ups(up2, up[c]) = Ups(up, up[c])
  BY <1>2, <1>5, UpsAre
<1>7. QED
  BY <1>2, <1>3, <1>6, UpsAre

LEMMA OwnerSameBases ==
  ASSUME NEW up, Hierarchy(up), NEW up2, Hierarchy(up2), NEW d \in Classes,
         \A e \in Ups(up, d) : up2[e] = up[e], NEW m, NEW n
  PROVE  OwnerIn(up2, m, d, n) = OwnerIn(up, m, d, n)
<1> DEFINE T == {c \in Classes : c \in Ups(up, d) /\ OwnerIn(up2, m, c, n) # OwnerIn(up, m, c, n)}
<1>1. SUFFICES ASSUME T # {} PROVE FALSE
  BY <1>1, UpsSelf
<1>2. PICK c \in T : up[c] \notin T
  BY <1>1, Lowest
<1>3. up2[c] = up[c]
  BY <1>2
<1>4. up[c] # Null => up[c] \in Ups(up, c)
  BY <1>2, UpsAre, UpsSelf
<1>5. up[c] # Null => up[c] \in Ups(up, d)
  BY <1>2, <1>4, UpsTransitive
<1>6. up[c] # Null => OwnerIn(up2, m, up[c], n) = OwnerIn(up, m, up[c], n)
  BY <1>2, <1>5, UpsAre
<1>7. QED
  BY <1>2, <1>3, <1>6, OwnerAre

-----------------------------------------------------------------------------
(* What lookup finds.                                                      *)

Finds(up, m, d, n, o) ==
  \/ o \in Classes /\ n \in DOMAIN m[o] /\ OnPath(up, m, d, n, o)
  \/ o = Null /\ \A e \in Ups(up, d) : n \notin DOMAIN m[e]

LEMMA OwnerFinds ==
  ASSUME NEW up, Hierarchy(up), NEW m, NEW n, NEW d \in Classes
  PROVE  Finds(up, m, d, n, OwnerIn(up, m, d, n))
<1> DEFINE T == {c \in Classes : ~ Finds(up, m, c, n, OwnerIn(up, m, c, n))}
<1>1. SUFFICES ASSUME T # {} PROVE FALSE
  BY <1>1
<1>2. PICK c \in T : up[c] \notin T
  BY <1>1, Lowest
<1>3. CASE n \in DOMAIN m[c]
  <2>1. OwnerIn(up, m, c, n) = c
    BY <1>2, <1>3, OwnerAre
  <2>2. OnPath(up, m, c, n, c)
    BY <1>2, UpsSelf, UpsAntisymmetric DEF OnPath
  <2>3. QED
    BY <1>2, <1>3, <2>1, <2>2 DEF Finds
<1>4. CASE n \notin DOMAIN m[c] /\ up[c] = Null
  <2>1. OwnerIn(up, m, c, n) = Null /\ Ups(up, c) = {c}
    BY <1>2, <1>4, OwnerAre, UpsAre
  <2>2. QED
    BY <1>2, <1>4, <2>1 DEF Finds
<1>5. CASE n \notin DOMAIN m[c] /\ up[c] # Null
  <2> DEFINE o == OwnerIn(up, m, up[c], n)
  <2>1. OwnerIn(up, m, c, n) = o /\ up[c] \in Classes /\ Ups(up, c) = {c} \union Ups(up, up[c])
    BY <1>2, <1>5, OwnerAre, UpsAre
  <2>2. Finds(up, m, up[c], n, o)
    BY <1>2, <2>1
  <2> HIDE DEF o
  <2>3. CASE o = Null /\ \A e \in Ups(up, up[c]) : n \notin DOMAIN m[e]
    BY <1>2, <1>5, <2>1, <2>3 DEF Finds
  <2>4. CASE o \in Classes /\ n \in DOMAIN m[o] /\ OnPath(up, m, up[c], n, o)
    <3>1. OnPath(up, m, c, n, o)
      BY <1>5, <2>1, <2>4 DEF OnPath
    <3>2. QED
      BY <1>2, <2>1, <2>4, <3>1 DEF Finds
  <2>5. QED
    BY <2>2, <2>3, <2>4 DEF Finds
<1>6. QED
  BY <1>3, <1>4, <1>5

LEMMA FindsOne ==
  ASSUME NEW up, Hierarchy(up), NEW m, NEW n, NEW d \in Classes, NEW o, NEW p,
         Finds(up, m, d, n, o), Finds(up, m, d, n, p)
  PROVE  o = p
<1>1. CASE o # Null /\ p # Null
  <2>1. /\ o \in Classes /\ n \in DOMAIN m[o] /\ OnPath(up, m, d, n, o)
        /\ p \in Classes /\ n \in DOMAIN m[p] /\ OnPath(up, m, d, n, p)
    BY <1>1 DEF Finds
  <2>2. o \in Ups(up, d) /\ p \in Ups(up, d)
    BY <2>1 DEF OnPath
  <2>3. o \in Ups(up, p) \/ p \in Ups(up, o)
    BY <2>2, UpsLinear
  <2>4. QED
    BY <2>1, <2>2, <2>3 DEF OnPath
<1>2. CASE o = Null \/ p = Null
  BY <1>2, NullAssumption DEF Finds, OnPath
<1>3. QED
  BY <1>1, <1>2

\* Tables that say the same of n on the path give the same answer.
LEMMA PathSame ==
  ASSUME NEW up, Hierarchy(up), NEW m, NEW m2, NEW n, NEW d \in Classes,
         \A e \in Classes : OnPath(up, m, d, n, e) => (n \in DOMAIN m2[e] <=> n \in DOMAIN m[e])
  PROVE  /\ OwnerIn(up, m2, d, n) = OwnerIn(up, m, d, n)
         /\ \A e \in Classes : OnPath(up, m2, d, n, e) <=> OnPath(up, m, d, n, e)
<1> DEFINE o == OwnerIn(up, m, d, n)
<1>1. Finds(up, m, d, n, o)
  BY OwnerFinds
<1>2. ASSUME NEW e \in Classes, OnPath(up, m, d, n, e)
      PROVE  OnPath(up, m2, d, n, e)
  <2>1. ASSUME NEW f \in Ups(up, d), e \in Ups(up, f), f # e
        PROVE  n \notin DOMAIN m2[f]
    <3>1. f \in Classes
      BY UpsSelf
    <3>2. ASSUME NEW g \in Ups(up, d), f \in Ups(up, g), g # f
          PROVE  n \notin DOMAIN m[g]
      <4>1. g \in Classes
        BY UpsSelf
      <4>2. e \in Ups(up, g)
        BY <2>1, <3>2, <4>1, UpsTransitive
      <4>3. g # e
        BY <2>1, <3>1, <3>2, <4>1, UpsAntisymmetric
      <4>4. QED
        BY <1>2, <4>2, <4>3 DEF OnPath
    <3>3. OnPath(up, m, d, n, f)
      BY <3>2 DEF OnPath
    <3>4. n \notin DOMAIN m[f]
      BY <1>2, <2>1 DEF OnPath
    <3>5. QED
      BY <3>1, <3>3, <3>4
  <2>2. QED
    BY <1>2, <2>1 DEF OnPath
<1>3. ASSUME NEW e \in Classes, OnPath(up, m2, d, n, e), NEW f \in Ups(up, d), e \in Ups(up, f), f # e,
             n \in DOMAIN m[f]
      PROVE  FALSE
  <2>1. f \in Classes /\ e \in Ups(up, d)
    BY <1>3, UpsSelf DEF OnPath
  <2>2. o \in Classes /\ n \in DOMAIN m[o] /\ OnPath(up, m, d, n, o)
    BY <1>1, <1>3 DEF Finds
  <2>3. n \in DOMAIN m2[o] /\ o \in Ups(up, d)
    BY <2>2 DEF OnPath
  <2> HIDE DEF o
  <2>4. e \in Ups(up, o) => o = e
    BY <1>3, <2>3 DEF OnPath
  <2>5. CASE o = e
    BY <1>3, <2>2, <2>5 DEF OnPath
  <2>6. CASE o \in Ups(up, e)
    <3>1. o \in Ups(up, f)
      BY <1>3, <2>1, <2>6, UpsTransitive
    <3>2. f = o
      BY <1>3, <2>2, <3>1 DEF OnPath
    <3>3. QED
      BY <1>3, <2>4, <3>2
  <2>7. QED
    BY <2>1, <2>3, <2>4, <2>5, <2>6, UpsLinear
<1>4. \A e \in Classes : OnPath(up, m2, d, n, e) => OnPath(up, m, d, n, e)
  BY <1>3 DEF OnPath
<1>5. Finds(up, m2, d, n, o)
  <2>1. CASE o = Null /\ \A e \in Ups(up, d) : n \notin DOMAIN m[e]
    <3>1. \A e \in Ups(up, d) : e \in Classes /\ OnPath(up, m, d, n, e)
      BY <2>1, UpsSelf DEF OnPath
    <3>2. QED
      BY <2>1, <3>1 DEF Finds
  <2>2. CASE o \in Classes /\ n \in DOMAIN m[o] /\ OnPath(up, m, d, n, o)
    BY <1>2, <2>2 DEF Finds
  <2>3. QED
    BY <1>1, <2>1, <2>2 DEF Finds
<1>6. o = OwnerIn(up, m2, d, n)
  BY <1>5, OwnerFinds, FindsOne
<1>7. QED
  BY <1>2, <1>4, <1>6

-----------------------------------------------------------------------------
(* checkCache.                                                             *)

LEMMA AboveIs ==
  ASSUME NEW c \in Classes
  PROVE  Above(c) = Ups(base, c)
BY DEF Above, Ups

LEMMA OwnerIs ==
  ASSUME NEW m, NEW c \in Classes, NEW n
  PROVE  Owner(m, c, n) = OwnerIn(base, m, c, n)
BY DEF Owner, OwnerIn

LEMMA LeastNumber ==
  ASSUME NEW S, S \subseteq Nat, S # {}
  PROVE  \E k \in S : \A j \in S : k <= j
<1>1. PICK k \in S : \A j \in S : ~ (<<j, k>> \in OpToRel(<, Nat))
  BY WFMin, NatLessThanWellFounded
<1>2. \A j \in S : ~ (j < k)
  BY <1>1 DEF OpToRel
<1>3. QED
  BY <1>2

\* There is a number that no line has.
LEMMA NewNumberIs ==
  ASSUME NEW d
  PROVE  /\ \E k \in 1 .. Cardinality(Lines) + 1 : NewNumber(d) = <<d, k>>
         /\ \A l \in Lines : cache[l].index # NewNumber(d)
<1> DEFINE N == Cardinality(Lines) + 1
           free == {k \in 1 .. N : \A l \in Lines : cache[l].index # <<d, k>>}
<1>1. IsFiniteSet(Lines) /\ Cardinality(Lines) \in Nat
  BY LineAssumption, FS_CardinalityType
<1>2. free # {}
  <2>1. SUFFICES ASSUME \A k \in 1 .. N : \E l \in Lines : cache[l].index = <<d, k>> PROVE FALSE
    OBVIOUS
  <2> DEFINE f == [k \in 1 .. N |-> CHOOSE l \in Lines : cache[l].index = <<d, k>>]
  <2>2. \A k \in 1 .. N : f[k] \in Lines /\ cache[f[k]].index = <<d, k>>
    BY <2>1
  <2>3. f \in [1 .. N -> Lines]
    BY <2>2
  <2> HIDE DEF f
  <2>4. IsFiniteSet(1 .. N) /\ Cardinality(1 .. N) = N
    <3>1. 1 \in Int /\ N \in Int /\ ~ (1 > N) /\ N - 1 + 1 = N
      BY <1>1
    <3> HIDE DEF N
    <3>2. QED
      BY <3>1, FS_Interval
  <2>5. Cardinality(Lines) < Cardinality(1 .. N)
    BY <1>1, <2>4
  <2> HIDE DEF N
  <2>6. PICK j, k \in 1 .. N : j # k /\ f[j] = f[k]
    BY <1>1, <2>3, <2>4, <2>5, FS_PigeonHole
  <2>7. <<d, j>> = <<d, k>>
    BY <2>2, <2>6
  <2>8. QED
    BY <2>6, <2>7
<1>3. free \subseteq Nat
  OBVIOUS
<1>4. \E k \in free : \A j \in free : k <= j
  <2> HIDE DEF free
  <2> QED
    BY <1>2, <1>3, LeastNumber
<1> DEFINE k == CHOOSE k \in free : \A j \in free : k <= j
<1>5. k \in free
  <2> HIDE DEF free
  <2> QED
    BY <1>4
<1>6. NewNumber(d) = <<d, k>>
  BY DEF NewNumber
<1> HIDE DEF k
<1>7. QED
  BY <1>5, <1>6

\* A line that answers is trusted.
LEMMA HitTrusted ==
  ASSUME IInv, NEW c \in Classes, NEW n \in Names, Hit(c, n)
  PROVE  /\ cacheIndex[c] # None
         /\ cache[Line(c, n)].owner = OwnerIn(base, methods, c, n)
         /\ cache[Line(c, n)].value = Valued(methods, OwnerIn(base, methods, c, n), n)
         /\ \A e \in Classes : OnPath(base, methods, c, n, e) => cacheIndex[e] # None
<1>1. Line(c, n) \in Lines
  BY LineAssumption
<1>2. cache[Line(c, n)].name = address[n] /\ cache[Line(c, n)].index = cacheIndex[c]
  BY DEF Hit
<1>3. address[n] # Null
  BY NullAssumption DEF IInv, Addressed
<1>4. cacheIndex[c] # None
  BY <1>1, <1>2, <1>3 DEF IInv, LinesUsed
<1>5. Trusted(base, methods, cacheIndex, cache, address, Line(c, n), c)
  BY <1>1, <1>2, <1>4 DEF IInv, AllTrusted
<1>6. QED
  BY <1>2, <1>4, <1>5 DEF Trusted

\* checkCache finds what lookup finds; the classes it has looked at in vain have all
\* that the cache does not know, and the same owner.
LookupRight(c, n) ==
  /\ Cached(c, n).owner = OwnerIn(base, methods, c, n)
  /\ Cached(c, n).value = Valued(methods, OwnerIn(base, methods, c, n), n)
  /\ \A d \in Missed(c, n) : /\ d \in Ups(base, c)
                             /\ OwnerIn(base, methods, d, n) = OwnerIn(base, methods, c, n)
                             /\ Missed(d, n) \subseteq Missed(c, n)
  /\ \A e \in Classes : OnPath(base, methods, c, n, e) => e \in Missed(c, n) \/ cacheIndex[e] # None

LEMMA Lookup ==
  ASSUME IInv, NEW c \in Classes, NEW n \in Names
  PROVE  LookupRight(c, n)
<1> DEFINE T == {d \in Classes : ~ LookupRight(d, n)}
<1>0. Hierarchy(base)
  BY DEF IInv
<1>1. SUFFICES ASSUME T # {} PROVE FALSE
  BY <1>1
<1>2. PICK d \in T : base[d] \notin T
  BY <1>0, <1>1, Lowest
<1>3. d \in Classes /\ ~ LookupRight(d, n)
  BY <1>2
<1>4. CASE Hit(d, n)
  <2>1. /\ cache[Line(d, n)].owner = OwnerIn(base, methods, d, n)
        /\ cache[Line(d, n)].value = Valued(methods, OwnerIn(base, methods, d, n), n)
        /\ \A e \in Classes : OnPath(base, methods, d, n, e) => cacheIndex[e] # None
    BY <1>3, <1>4, HitTrusted
  <2>2. Missed(d, n) = {} /\ Cached(d, n) = [owner |-> cache[Line(d, n)].owner, value |-> cache[Line(d, n)].value]
    BY <1>0, <1>3, <1>4, MissedIs, CachedIs
  <2>3. QED
    BY <1>3, <2>1, <2>2 DEF LookupRight
<1>5. CASE ~ Hit(d, n) /\ n \in DOMAIN methods[d]
  <2>1. Missed(d, n) = {d} /\ Cached(d, n) = [owner |-> d, value |-> methods[d][n]]
    BY <1>0, <1>3, <1>5, MissedIs, CachedIs
  <2>2. OwnerIn(base, methods, d, n) = d /\ d # Null
    BY <1>0, <1>3, <1>5, OwnerAre, NullAssumption
  <2>3. \A e \in Classes : OnPath(base, methods, d, n, e) => e = d
    BY <1>0, <1>3, <1>5, UpsSelf DEF OnPath
  <2>4. d \in Ups(base, d)
    BY <1>0, <1>3, UpsSelf
  <2>5. QED
    BY <1>3, <2>1, <2>2, <2>3, <2>4 DEF LookupRight, Valued
<1>6. CASE ~ Hit(d, n) /\ n \notin DOMAIN methods[d] /\ base[d] = Null
  <2>1. Missed(d, n) = {d} /\ Cached(d, n) = [owner |-> Null, value |-> Null]
    BY <1>0, <1>3, <1>6, MissedIs, CachedIs
  <2>2. OwnerIn(base, methods, d, n) = Null /\ Ups(base, d) = {d}
    BY <1>0, <1>3, <1>6, OwnerAre, UpsAre
  <2>3. QED
    BY <1>3, <2>1, <2>2 DEF LookupRight, Valued, OnPath
<1>7. CASE ~ Hit(d, n) /\ n \notin DOMAIN methods[d] /\ base[d] # Null
  <2> DEFINE b == base[d]
  <2>1. /\ Missed(d, n) = {d} \union Missed(b, n)
        /\ Cached(d, n) = Cached(b, n)
        /\ OwnerIn(base, methods, d, n) = OwnerIn(base, methods, b, n)
        /\ b \in Classes /\ Ups(base, d) = {d} \union Ups(base, b)
    BY <1>0, <1>3, <1>7, MissedIs, CachedIs, OwnerAre, UpsAre
  <2>2. LookupRight(b, n)
    BY <1>2, <2>1
  <2> HIDE DEF b
  <2>3. \A e \in Classes : OnPath(base, methods, d, n, e) => e = d \/ OnPath(base, methods, b, n, e)
    BY <2>1 DEF OnPath
  <2>4. ASSUME NEW e \in Missed(d, n)
        PROVE  /\ e \in Ups(base, d)
               /\ OwnerIn(base, methods, e, n) = OwnerIn(base, methods, d, n)
               /\ Missed(e, n) \subseteq Missed(d, n)
    <3>1. CASE e = d
      BY <2>1, <3>1
    <3>2. CASE e \in Missed(b, n)
      BY <2>1, <2>2, <3>2 DEF LookupRight
    <3>3. QED
      BY <2>1, <3>1, <3>2
  <2>5. \A e \in Classes : OnPath(base, methods, d, n, e) => e \in Missed(d, n) \/ cacheIndex[e] # None
    BY <2>1, <2>2, <2>3 DEF LookupRight
  <2>6. QED
    BY <1>3, <2>1, <2>2, <2>4, <2>5 DEF LookupRight
<1>8. QED
  BY <1>4, <1>5, <1>6, <1>7

\* Of the classes above c in a set, one is the lowest.
LEMMA LowestIn ==
  ASSUME NEW up, Hierarchy(up), NEW c \in Classes, NEW S, S \subseteq Ups(up, c), S # {}
  PROVE  \E d \in S : S \subseteq Ups(up, d)
<1> DEFINE T == {d \in Classes : S \subseteq Ups(up, d) /\ ~ \E e \in S : S \subseteq Ups(up, e)}
<1>1. SUFFICES ASSUME T # {} PROVE FALSE
  BY <1>1
<1>2. PICK d \in T : up[d] \notin T
  BY <1>1, Lowest
<1>3. d \notin S
  BY <1>2
<1>4. up[d] # Null /\ up[d] \in Classes /\ Ups(up, d) = {d} \union Ups(up, up[d])
  BY <1>2, <1>3, UpsAre
<1>5. QED
  BY <1>2, <1>3, <1>4

\* checkCache keeps the cache right; idx are the numbers after it and lines the
\* lines.
LEMMA LookupKeeps ==
  ASSUME IInv, NEW c \in Classes, c = Object \/ base[c] # Null, NEW n \in Names, NEW idx, NEW lines,
         idx = Numbered(Missed(c, n)), lines = Filled(n, Missed(c, n), Cached(c, n), idx)
  PROVE  NumbersOwn(base, idx) /\ LinesUsed(lines) /\ AllTrusted(base, methods, idx, lines, address)
         /\ \A d \in Classes : ~ (d = Object \/ base[d] # Null) => idx[d] = cacheIndex[d]
<1> DEFINE missed == Missed(c, n)
           found == Cached(c, n)
<1>0. /\ Hierarchy(base) /\ NumbersOwn(base, cacheIndex) /\ LinesUsed(cache) /\ Addressed(address)
      /\ AllTrusted(base, methods, cacheIndex, cache, address)
  BY DEF IInv
<1>1. LookupRight(c, n)
  BY Lookup
<1>2. \A d \in missed : d \in Classes /\ d \in Ups(base, c) /\ (d = Object \/ base[d] # Null)
  BY <1>0, <1>1, UpsSelf, UpsLive DEF LookupRight
<1>3. \A d \in Classes : idx[d] = IF d \in missed /\ cacheIndex[d] = None THEN NewNumber(d) ELSE cacheIndex[d]
  BY DEF Numbered
<1>4. \A d \in Classes : NewNumber(d) # None /\ NewNumber(d) \in Numbers
  <2>1. SUFFICES ASSUME NEW d \in Classes PROVE NewNumber(d) # None /\ NewNumber(d) \in Numbers
    OBVIOUS
  <2>2. PICK k \in 1 .. Cardinality(Lines) + 1 : NewNumber(d) = <<d, k>>
    BY NewNumberIs
  <2>3. Cardinality(Lines) \in Nat
    BY LineAssumption, FS_CardinalityType
  <2>4. k # 0 /\ k \in 0 .. Cardinality(Lines) + 1
    BY <2>3
  <2>5. QED
    BY <2>2, <2>4 DEF None, Numbers
<1>5. /\ \A d \in missed : idx[d] # None
      /\ \A d \in Classes : cacheIndex[d] # None => idx[d] = cacheIndex[d]
  BY <1>2, <1>3, <1>4
<1>6. ASSUME NEW l \in Lines, \E d \in missed : Line(d, n) = l
      PROVE  \E d \in missed :
               lines[l] = [name |-> address[n], owner |-> found.owner, value |-> found.value, index |-> idx[d]]
  <2> DEFINE here == {d \in missed : Line(d, n) = l}
  <2>1. here # {} /\ here \subseteq Ups(base, c)
    BY <1>2, <1>6
  <2>2. \E d \in here : here \subseteq Ups(base, d)
    <3> HIDE DEF here
    <3> QED
      BY <1>0, <2>1, LowestIn
  <2>3. \E d \in here : here \subseteq Above(d)
    <3>1. \A d \in here : Above(d) = Ups(base, d)
      BY <1>2, AboveIs
    <3> HIDE DEF here
    <3>2. QED
      BY <2>2, <3>1
  <2>4. (CHOOSE d \in here : here \subseteq Above(d)) \in here
    <3> HIDE DEF here
    <3> QED
      BY <2>3
  <2>5. QED
    BY <2>1, <2>4 DEF Filled
<1>7. \A l \in Lines : (~ \E d \in missed : Line(d, n) = l) => lines[l] = cache[l]
  BY DEF Filled
<1> HIDE DEF missed, found
<1>8. NumbersOwn(base, idx)
  <2>1. idx \in [Classes -> Numbers]
    BY <1>0, <1>4 DEF NumbersOwn, Numbered
  <2>2. ASSUME NEW d \in Classes, idx[d] # None
        PROVE  /\ d = Object \/ base[d] # Null
               /\ \E k \in 1 .. Cardinality(Lines) + 1 : idx[d] = <<d, k>>
    <3>1. CASE d \in missed /\ cacheIndex[d] = None
      BY <1>2, <1>3, <3>1, NewNumberIs
    <3>2. CASE ~ (d \in missed /\ cacheIndex[d] = None)
      BY <1>0, <1>3, <2>2, <3>2 DEF NumbersOwn
    <3>3. QED
      BY <3>1, <3>2
  <2>3. QED
    BY <2>1, <2>2 DEF NumbersOwn
<1>9. LinesUsed(lines)
  <2>1. ASSUME NEW l \in Lines, lines[l].index = None
        PROVE  lines[l].name = Null
    <3>1. CASE \E d \in missed : Line(d, n) = l
      <4>1. PICK d \in missed :
              lines[l] = [name |-> address[n], owner |-> found.owner, value |-> found.value, index |-> idx[d]]
        BY <1>6, <3>1
      <4>2. lines[l].index = idx[d] /\ idx[d] # None
        BY <1>5, <4>1
      <4>3. QED
        BY <2>1, <4>2
    <3>2. CASE ~ \E d \in missed : Line(d, n) = l
      BY <1>0, <1>7, <2>1, <3>2 DEF LinesUsed
    <3>3. QED
      BY <3>1, <3>2
  <2>2. QED
    BY <2>1 DEF LinesUsed
<1>10. ASSUME NEW l \in Lines, NEW d \in Classes, lines[l].index = idx[d], idx[d] # None
       PROVE  Trusted(base, methods, idx, lines, address, l, d)
  <2>1. CASE \E e \in missed : Line(e, n) = l
    <3>0. PICK e \in missed :
            lines[l] = [name |-> address[n], owner |-> found.owner, value |-> found.value, index |-> idx[e]]
      BY <1>6, <2>1
    <3>1. /\ lines[l].name = address[n] /\ lines[l].owner = found.owner /\ lines[l].value = found.value
          /\ lines[l].index = idx[e]
      BY <3>0
    <3>2. d = e
      <4>1. e \in Classes /\ idx[e] # None
        BY <1>2, <1>5
      <4>2. PICK k : idx[d] = <<d, k>>
        BY <1>8, <1>10 DEF NumbersOwn
      <4>3. PICK j : idx[e] = <<e, j>>
        BY <1>8, <4>1 DEF NumbersOwn
      <4>4. <<d, k>> = <<e, j>>
        BY <1>10, <3>1, <4>2, <4>3
      <4>5. QED
        BY <4>4
    <3>3. /\ OwnerIn(base, methods, d, n) = OwnerIn(base, methods, c, n)
          /\ Missed(d, n) \subseteq missed
      BY <1>1, <3>1, <3>2 DEF LookupRight, missed
    <3>4. found.owner = OwnerIn(base, methods, d, n) /\ found.value = Valued(methods, OwnerIn(base, methods, d, n), n)
      BY <1>1, <3>3 DEF LookupRight, found
    <3>5. \A x \in Classes : OnPath(base, methods, d, n, x) => idx[x] # None
      BY <1>5, <3>3, Lookup DEF LookupRight
    <3>6. \A p \in Names : lines[l].name = address[p] => p = n
      BY <1>0, <3>1 DEF Addressed
    <3>7. QED
      BY <3>1, <3>4, <3>5, <3>6 DEF Trusted
  <2>2. CASE ~ \E e \in missed : Line(e, n) = l
    <3>1. lines[l] = cache[l]
      BY <1>7, <2>2
    <3>2. idx[d] = cacheIndex[d]
      BY <1>3, <1>10, <3>1, NewNumberIs
    <3>3. Trusted(base, methods, cacheIndex, cache, address, l, d)
      BY <1>0, <1>10, <3>1, <3>2 DEF AllTrusted
    <3>4. \A e \in Ups(base, d) : e \in Classes
      BY <1>0, UpsSelf
    <3>5. QED
      BY <1>5, <3>1, <3>3, <3>4 DEF Trusted
  <2>3. QED
    BY <2>1, <2>2
<1>11. AllTrusted(base, methods, idx, lines, address)
  BY <1>10 DEF AllTrusted
<1>12. QED
  BY <1>2, <1>3, <1>8, <1>9, <1>11

-----------------------------------------------------------------------------
(* What a line says stays right.                                           *)

Same(m, m2, e, p) ==
  /\ p \in DOMAIN m2[e] <=> p \in DOMAIN m[e]
  /\ p \in DOMAIN m[e] => m2[e][p] = m[e][p]

\* Other tables and numbers that are the same on the way.
LEMMA TrustedSame ==
  ASSUME NEW up, Hierarchy(up), NEW m, NEW m2, NEW idx, NEW idx2, NEW lines, NEW addr, NEW l, NEW d \in Classes,
         Trusted(up, m, idx, lines, addr, l, d),
         \A p \in Names : lines[l].name = addr[p] =>
           \A e \in Classes : OnPath(up, m, d, p, e) => Same(m, m2, e, p) /\ idx2[e] # None,
         (\A p \in Names : lines[l].name # addr[p]) => \A e \in Ups(up, d) : idx2[e] # None
  PROVE  Trusted(up, m2, idx2, lines, addr, l, d)
<1>1. ASSUME NEW p \in Names, lines[l].name = addr[p]
      PROVE  /\ lines[l].owner = OwnerIn(up, m2, d, p)
             /\ lines[l].value = Valued(m2, OwnerIn(up, m2, d, p), p)
             /\ \A e \in Classes : OnPath(up, m2, d, p, e) => idx2[e] # None
  <2> DEFINE o == OwnerIn(up, m, d, p)
  <2>1. lines[l].owner = o /\ lines[l].value = Valued(m, o, p)
    BY <1>1 DEF Trusted
  <2>2. \A e \in Classes : OnPath(up, m, d, p, e) => Same(m, m2, e, p) /\ idx2[e] # None
    BY <1>1
  <2>3. /\ OwnerIn(up, m2, d, p) = o
        /\ \A e \in Classes : OnPath(up, m2, d, p, e) <=> OnPath(up, m, d, p, e)
    BY <2>2, PathSame DEF Same
  <2>4. Finds(up, m, d, p, o)
    BY OwnerFinds
  <2> HIDE DEF o
  <2>5. Valued(m2, o, p) = Valued(m, o, p)
    <3>1. CASE o = Null
      BY <3>1 DEF Valued
    <3>2. CASE o # Null
      <4>1. o \in Classes /\ p \in DOMAIN m[o] /\ OnPath(up, m, d, p, o)
        BY <2>4, <3>2 DEF Finds
      <4>2. QED
        BY <2>2, <3>2, <4>1 DEF Valued, Same
    <3>3. QED
      BY <3>1, <3>2
  <2>6. QED
    BY <2>1, <2>2, <2>3, <2>5
<1>2. QED
  BY <1>1 DEF Trusted

\* Other bases that are the same above d.
LEMMA TrustedSameBases ==
  ASSUME NEW up, Hierarchy(up), NEW up2, Hierarchy(up2), NEW m, NEW idx, NEW lines, NEW addr, NEW l,
         NEW d \in Classes, \A e \in Ups(up, d) : up2[e] = up[e],
         Trusted(up, m, idx, lines, addr, l, d)
  PROVE  Trusted(up2, m, idx, lines, addr, l, d)
<1>1. Ups(up2, d) = Ups(up, d)
  BY UpsSame
<1>2. ASSUME NEW e \in Ups(up, d)
      PROVE  Ups(up2, e) = Ups(up, e)
  <2>1. e \in Classes
    BY UpsSelf
  <2>2. \A f \in Ups(up, e) : up2[f] = up[f]
    BY UpsTransitive
  <2>3. QED
    BY <2>1, <2>2, UpsSame
<1>3. \A p, e : OnPath(up2, m, d, p, e) <=> OnPath(up, m, d, p, e)
  BY <1>1, <1>2 DEF OnPath
<1>4. \A p : OwnerIn(up2, m, d, p) = OwnerIn(up, m, d, p)
  BY OwnerSameBases
<1>5. QED
  BY <1>1, <1>3, <1>4 DEF Trusted

LEMMA PathDown ==
  ASSUME NEW up, Hierarchy(up), NEW m, NEW d \in Classes, NEW p, NEW e \in Classes, OnPath(up, m, d, p, e),
         NEW f \in Ups(up, d), e \in Ups(up, f)
  PROVE  OnPath(up, m, d, p, f)
<1>1. f \in Classes
  BY UpsSelf
<1>2. ASSUME NEW g \in Ups(up, d), f \in Ups(up, g), g # f
      PROVE  p \notin DOMAIN m[g]
  <2>1. g \in Classes
    BY UpsSelf
  <2>2. e \in Ups(up, g)
    BY <1>2, <2>1, UpsTransitive
  <2>3. g # e
    BY <1>1, <1>2, <2>1, UpsAntisymmetric
  <2>4. QED
    BY <2>2, <2>3 DEF OnPath
<1>3. QED
  BY <1>2 DEF OnPath

-----------------------------------------------------------------------------
(* clearCache, and krk_finalizeClass.                                      *)

LEMMA ChangeKeeps ==
  ASSUME Hierarchy(base), NEW idx, NEW lines, NumbersOwn(base, idx), AllTrusted(base, methods, idx, lines, address),
         NEW c \in Classes, c \in Live, NEW n, NEW m, m = [d \in Classes |-> m[d]],
         \A d \in Classes : d # c => m[d] = methods[d],
         TableChanged(c, n, m, idx)
  PROVE  /\ methods' = [d \in Classes |-> methods'[d]]
         /\ NumbersOwn(base, cacheIndex')
         /\ AllTrusted(base, methods', cacheIndex', lines, address)
<1>1. \A d \in Classes : d \in Below(c) <=> (d = Object \/ base[d] # Null) /\ c \in Ups(base, d)
  BY AboveIs DEF Below, Live
<1>2. methods' = [d \in Classes |-> methods'[d]]
  BY DEF TableChanged, Finalize
<1>3. cacheIndex' = [d \in Classes |-> cacheIndex'[d]] /\ \A d \in Classes : cacheIndex'[d] = None \/ cacheIndex'[d] = idx[d]
  BY DEF TableChanged, Cleared
<1>4. NumbersOwn(base, cacheIndex')
  <2>1. None \in Numbers
    <3>1. Cardinality(Lines) \in Nat
      BY LineAssumption, FS_CardinalityType
    <3>2. 0 \in 0 .. Cardinality(Lines) + 1
      BY <3>1
    <3>3. QED
      BY <3>2, ClassAssumption DEF None, Numbers
  <2>2. \A d \in Classes : cacheIndex'[d] \in Numbers
    BY <1>3, <2>1 DEF NumbersOwn
  <2>3. cacheIndex' \in [Classes -> Numbers]
    BY <1>3, <2>2
  <2>4. QED
    BY <1>3, <2>3 DEF NumbersOwn
<1>5. ASSUME NEW d \in Classes, d \notin Below(c), d = Object \/ base[d] # Null, NEW e \in Ups(base, d)
      PROVE  e \in Classes /\ methods'[e] = methods[e] /\ cacheIndex'[e] = idx[e]
  <2>1. e \in Classes /\ (e = Object \/ base[e] # Null)
    BY <1>5, UpsSelf, UpsLive
  <2>2. e \notin Below(c)
    BY <1>1, <1>5, <2>1, UpsTransitive
  <2>3. c \in Ups(base, c) /\ (c = Object \/ base[c] # Null)
    BY UpsSelf DEF Live
  <2>4. e # c
    BY <1>1, <2>2, <2>3
  <2>5. m[e] = methods[e]
    BY <2>1, <2>4
  <2>6. CASE n \in Dunders
    BY <2>1, <2>2, <2>5, <2>6 DEF TableChanged, Finalize
  <2>7. CASE n \notin Dunders
    BY <2>1, <2>2, <2>5, <2>7 DEF TableChanged, Cleared
  <2>8. QED
    BY <2>1, <2>6, <2>7
<1>6. ASSUME NEW l \in Lines, NEW d \in Classes, lines[l].index = cacheIndex'[d], cacheIndex'[d] # None
      PROVE  Trusted(base, methods', cacheIndex', lines, address, l, d)
  <2>1. cacheIndex'[d] = idx[d] /\ idx[d] # None /\ (d = Object \/ base[d] # Null)
    BY <1>3, <1>4, <1>6 DEF NumbersOwn
  <2>2. Trusted(base, methods, idx, lines, address, l, d)
    BY <1>6, <2>1 DEF AllTrusted
  <2>3. CASE d \notin Below(c)
    <3>1. \A e \in Ups(base, d) : e \in Classes /\ methods'[e] = methods[e] /\ cacheIndex'[e] = idx[e]
      BY <1>5, <2>1, <2>3
    <3>2. ASSUME NEW p \in Names, lines[l].name = address[p], NEW e \in Classes, OnPath(base, methods, d, p, e)
          PROVE  Same(methods, methods', e, p) /\ cacheIndex'[e] # None
      <4>1. e \in Ups(base, d)
        BY <3>2 DEF OnPath
      <4>2. idx[e] # None
        BY <2>2, <3>2 DEF Trusted
      <4>3. QED
        BY <3>1, <4>1, <4>2 DEF Same
    <3>3. (\A p \in Names : lines[l].name # address[p]) => \A e \in Ups(base, d) : cacheIndex'[e] # None
      BY <2>2, <3>1 DEF Trusted
    <3>4. QED
      BY <2>2, <3>2, <3>3, TrustedSame
  <2>4. CASE d \in Below(c)
    <3>1. n \notin Dunders
      BY <1>6, <2>4 DEF TableChanged
    <3>2. methods' = m /\ cacheIndex' = Cleared(idx, c)
      BY <3>1 DEF TableChanged
    <3>3. PICK f \in Above(d) \intersect Below(c) : idx[f] = None
      BY <1>6, <2>4, <3>2 DEF Cleared
    <3>4. f \in Ups(base, d) /\ f \in Classes /\ f \in Below(c) /\ c \in Ups(base, f)
      BY <1>1, <3>3, AboveIs, UpsSelf
    <3>5. \E p \in Names : lines[l].name = address[p]
      BY <2>2, <3>3, <3>4 DEF Trusted
    <3>6. ASSUME NEW p \in Names, lines[l].name = address[p], NEW e \in Classes, OnPath(base, methods, d, p, e)
          PROVE  Same(methods, methods', e, p) /\ cacheIndex'[e] # None
      <4>1. e \in Ups(base, d) /\ idx[e] # None
        BY <2>2, <3>6 DEF OnPath, Trusted
      <4>2. e \notin Ups(base, f)
        <5>1. SUFFICES ASSUME e \in Ups(base, f) PROVE FALSE
          OBVIOUS
        <5>2. OnPath(base, methods, d, p, f)
          BY <3>4, <3>6, <5>1, PathDown
        <5>3. QED
          BY <2>2, <3>3, <3>4, <3>6, <5>2 DEF Trusted
      <4>3. e # c
        BY <3>4, <4>2
      <4>4. f \in Ups(base, e)
        BY <3>4, <4>1, <4>2, UpsLinear
      <4>5. f \in Above(e) \intersect Below(c)
        BY <3>4, <4>4, AboveIs
      <4>6. cacheIndex'[e] = idx[e]
        BY <3>2, <3>3, <4>5 DEF Cleared
      <4>7. m[e] = methods[e]
        BY <4>3
      <4>8. QED
        BY <3>2, <4>1, <4>6, <4>7 DEF Same
    <3>7. QED
      BY <2>2, <3>5, <3>6, TrustedSame
  <2>5. QED
    BY <2>3, <2>4
<1>7. QED
  BY <1>2, <1>4, <1>6 DEF AllTrusted

-----------------------------------------------------------------------------
(* The operations.                                                         *)

LEMMA InitInv == Init => IInv
<1> SUFFICES ASSUME Init PROVE IInv
  OBVIOUS
<1>1. program \in Programs /\ base = Begun(program)
  BY DEF Init
<1>2. Hierarchy(base)
  BY <1>1, ProgramAssumption
<1>3. base[Type] # Null
  BY <1>1, ClassAssumption, NullAssumption DEF Begun
<1>4. methods = [c \in Classes |-> methods[c]]
  BY DEF Init
<1>5. class \in [Instances -> Classes \union {Null}] /\ \A i \in Instances : class[i] = Null
  BY DEF Init
<1>6. \A c \in Classes : cacheIndex[c] = None
  BY DEF Init
<1>7. NumbersOwn(base, cacheIndex)
  <2>1. Cardinality(Lines) \in Nat
    BY LineAssumption, FS_CardinalityType
  <2>2. 0 \in 0 .. Cardinality(Lines) + 1
    BY <2>1
  <2>3. None \in Numbers
    BY <2>2, ClassAssumption DEF None, Numbers
  <2>4. cacheIndex \in [Classes -> Numbers]
    BY <2>3 DEF Init
  <2>5. QED
    BY <1>6, <2>4 DEF NumbersOwn
<1>8. LinesUsed(cache)
  BY DEF Init, LinesUsed
<1>9. Addressed(address)
  BY NameAssumption DEF Init, Addressed
<1>10. AllTrusted(base, methods, cacheIndex, cache, address)
  BY <1>6 DEF AllTrusted
<1>11. QED
  BY <1>1, <1>2, <1>3, <1>4, <1>5, <1>7, <1>8, <1>9, <1>10 DEF IInv

\* checkCache with tables, bases and names as they were.
LEMMA CheckCacheKeeps ==
  ASSUME IInv, NEW c \in Classes, c = Object \/ base[c] # Null, NEW n \in Names, CheckCache(c, n),
         UNCHANGED <<base, methods, address, program>>,
         class' \in [Instances -> Classes \union {Null}],
         \A i \in Instances : class'[i] # Null => class'[i] = Object \/ base[class'[i]] # Null
  PROVE  IInv'
<1>1. NumbersOwn(base, cacheIndex') /\ LinesUsed(cache') /\ AllTrusted(base, methods, cacheIndex', cache', address)
  BY LookupKeeps DEF CheckCache
<1>2. QED
  BY <1>1 DEF IInv

LEMMA ProgramNames ==
  ASSUME IInv
  PROVE  /\ \A n \in program.reads : n \in Names
         /\ \A p \in Assigned : p.name \in Names
         /\ program.instances \subseteq Instances
BY ProgramAssumption DEF IInv, Assigned

LEMMA GetKeeps ==
  ASSUME IInv, NEW c \in Classes, c = Object \/ base[c] # Null, NEW n \in Names, Get(c, n)
  PROVE  IInv'
<1>1. UNCHANGED <<base, methods, address, program, class>> /\ CheckCache(c, n)
  BY DEF Get, classVars, instanceVars
<1>2. class' \in [Instances -> Classes \union {Null}]
      /\ \A i \in Instances : class'[i] # Null => class'[i] = Object \/ base[class'[i]] # Null
  BY <1>1 DEF IInv
<1>3. QED
  BY <1>1, <1>2, CheckCacheKeeps

LEMMA SetAttributeKeeps ==
  ASSUME IInv, NEW i \in Instances, NEW n \in Names, NEW v, SetAttribute(i, n, v)
  PROVE  IInv'
<1>1. UNCHANGED <<base, methods, address, program, class>> /\ CheckCache(class[i], n) /\ class[i] # Null
  BY DEF SetAttribute, classVars
<1>2. class' \in [Instances -> Classes \union {Null}]
      /\ \A j \in Instances : class'[j] # Null => class'[j] = Object \/ base[class'[j]] # Null
  BY <1>1 DEF IInv
<1>3. class[i] \in Classes /\ (class[i] = Object \/ base[class[i]] # Null)
  BY <1>1 DEF IInv
<1>4. QED
  BY <1>1, <1>2, <1>3, CheckCacheKeeps

LEMMA SetClassAttributeKeeps ==
  ASSUME IInv, NEW c \in Classes, NEW n \in Names, NEW v, SetClassAttribute(c, n, v)
  PROVE  IInv'
<1> DEFINE idx == Numbered(Missed(Type, n))
           descriptor == Cached(Type, n).owner # Null /\ HasSet(Cached(Type, n).value)
           m == IF descriptor THEN methods ELSE [methods EXCEPT ![c] = With(@, n, v)]
<1>1. /\ c \in Live
      /\ cache' = Filled(n, Missed(Type, n), Cached(Type, n), idx)
      /\ TableChanged(c, n, m, idx)
      /\ UNCHANGED <<base, address, class, program>>
  BY DEF SetClassAttribute, instanceVars
<1>2. Type \in Classes /\ base[Type] # Null /\ Hierarchy(base) /\ methods = [d \in Classes |-> methods[d]]
  BY ClassAssumption DEF IInv
<1>3. NumbersOwn(base, idx) /\ LinesUsed(cache') /\ AllTrusted(base, methods, idx, cache', address)
  BY <1>1, <1>2, LookupKeeps
<1>4. m = [d \in Classes |-> m[d]] /\ \A d \in Classes : d # c => m[d] = methods[d]
  <2>1. CASE descriptor
    BY <1>2, <2>1
  <2>2. CASE ~ descriptor
    <3> DEFINE t == With(methods[c], n, v)
    <3>1. m = [methods EXCEPT ![c] = t]
      BY <2>2
    <3> HIDE DEF m, t
    <3>2. QED
      BY <1>2, <3>1
  <2>3. QED
    BY <2>1, <2>2
<1> HIDE DEF m, idx, descriptor
<1>5. /\ methods' = [d \in Classes |-> methods'[d]]
      /\ NumbersOwn(base, cacheIndex')
      /\ AllTrusted(base, methods', cacheIndex', cache', address)
  BY <1>1, <1>2, <1>3, <1>4, ChangeKeeps
<1>6. QED
  BY <1>1, <1>3, <1>5 DEF IInv

LEMMA DelClassAttributeKeeps ==
  ASSUME IInv, NEW c \in Classes, NEW n, DelClassAttribute(c, n)
  PROVE  IInv'
<1> DEFINE t == Without(methods[c], n)
           m == [methods EXCEPT ![c] = t]
<1>1. /\ c \in Live
      /\ TableChanged(c, n, m, cacheIndex)
      /\ UNCHANGED <<base, cache, address, class, program>>
  BY DEF DelClassAttribute, instanceVars
<1>2. /\ Hierarchy(base) /\ methods = [d \in Classes |-> methods[d]]
      /\ NumbersOwn(base, cacheIndex) /\ AllTrusted(base, methods, cacheIndex, cache, address)
  BY DEF IInv
<1>3. m = [d \in Classes |-> m[d]] /\ \A d \in Classes : d # c => m[d] = methods[d]
  <2> HIDE DEF t
  <2> QED
    BY <1>2
<1> HIDE DEF m
<1>4. /\ methods' = [d \in Classes |-> methods'[d]]
      /\ NumbersOwn(base, cacheIndex')
      /\ AllTrusted(base, methods', cacheIndex', cache, address)
  BY <1>1, <1>2, <1>3, ChangeKeeps
<1>5. QED
  BY <1>1, <1>4 DEF IInv

\* A new class has no number, and nothing is below it.
LEMMA NewClassKeeps ==
  ASSUME IInv, NEW c \in Classes, NEW b \in Classes, NEW ns, NewClass(c, b, ns)
  PROVE  IInv'
<1> DEFINE i == "__init_subclass__"
<1>1. /\ ~ (c = Object \/ base[c] # Null) /\ (b = Object \/ base[b] # Null)
      /\ base' = [base EXCEPT ![c] = b]
      /\ CheckCache(b, i)
      /\ UNCHANGED <<address, class, program>>
  BY DEF NewClass, Live, instanceVars
<1>2. Hierarchy(base) /\ base \in [Classes -> Classes \union {Null}] /\ base[Type] # Null
  BY DEF IInv, Hierarchy
<1>3. i \in Names
  BY NameAssumption
<1>4. /\ NumbersOwn(base, cacheIndex') /\ LinesUsed(cache')
      /\ AllTrusted(base, methods, cacheIndex', cache', address)
  BY <1>1, <1>3, LookupKeeps DEF CheckCache
<1>5. base'[c] = b /\ \A d \in Classes : d # c => base'[d] = base[d]
  BY <1>1, <1>2
<1>6. \A d \in Classes : base[d] # c
  BY <1>1, <1>2, NullAssumption DEF Hierarchy
<1>7. b # c /\ b # Null
  BY <1>1, NullAssumption
<1>8. Hierarchy(base')
  <2>1. base' \in [Classes -> Classes \union {Null}] /\ base'[Object] = Null
    BY <1>1, <1>2, ClassAssumption DEF Hierarchy
  <2>2. \A d \in Classes : base'[d] # Null => base'[d] = Object \/ base'[base'[d]] # Null
    BY <1>1, <1>2, <1>5, <1>6, <1>7 DEF Hierarchy
  <2>3. ASSUME NEW S \in (SUBSET Classes) \ {{}}
        PROVE  \E d \in S : base'[d] \notin S
    <3>1. CASE S \subseteq {c}
      <4>1. c \in S
        BY <3>1
      <4>2. QED
        BY <1>5, <1>7, <3>1, <4>1
    <3>2. CASE ~ (S \subseteq {c})
      <4>1. S \ {c} \subseteq Classes /\ S \ {c} # {}
        BY <3>2
      <4>2. PICK d \in S \ {c} : base[d] \notin S \ {c}
        BY <1>2, <4>1, Lowest
      <4>3. QED
        BY <1>5, <1>6, <4>1, <4>2
    <3>3. QED
      BY <3>1, <3>2
  <2>4. QED
    BY <2>1, <2>2, <2>3 DEF Hierarchy
<1>9. methods' = [d \in Classes |-> methods'[d]] /\ \A d \in Classes : d # c => methods'[d] = methods[d]
  <2>1. PICK new : methods' = [d \in Classes |-> IF d \in {c} THEN new[d].methods ELSE [methods EXCEPT ![c] = ns][d]]
    BY DEF NewClass, Finalize
  <2>2. \A d \in Classes : d # c => [methods EXCEPT ![c] = ns][d] = methods[d]
    BY DEF IInv
  <2>3. QED
    BY <2>1, <2>2
<1>10. ASSUME NEW l \in Lines, NEW d \in Classes, cache'[l].index = cacheIndex'[d], cacheIndex'[d] # None
       PROVE  Trusted(base', methods', cacheIndex', cache', address, l, d)
  <2>1. d = Object \/ base[d] # Null
    BY <1>4, <1>10 DEF NumbersOwn
  <2>2. \A e \in Ups(base, d) : e \in Classes /\ e # c
    BY <1>1, <1>2, <2>1, UpsSelf, UpsLive
  <2>3. Trusted(base, methods, cacheIndex', cache', address, l, d)
    BY <1>4, <1>10 DEF AllTrusted
  <2>4. \A p \in Names : cache'[l].name = address[p] =>
          \A e \in Classes : OnPath(base, methods, d, p, e) => Same(methods, methods', e, p) /\ cacheIndex'[e] # None
    BY <1>9, <2>2, <2>3 DEF OnPath, Same, Trusted
  <2>5. (\A p \in Names : cache'[l].name # address[p]) => \A e \in Ups(base, d) : cacheIndex'[e] # None
    BY <2>3 DEF Trusted
  <2>6. Trusted(base, methods', cacheIndex', cache', address, l, d)
    BY <1>2, <2>3, <2>4, <2>5, TrustedSame
  <2>7. \A e \in Ups(base, d) : base'[e] = base[e]
    BY <1>5, <2>2
  <2>8. QED
    BY <1>2, <1>8, <2>6, <2>7, TrustedSameBases
<1>11. NumbersOwn(base', cacheIndex')
  BY <1>4, <1>5, <1>7 DEF NumbersOwn
<1>12. base'[Type] # Null /\ \A d \in Classes : base[d] # Null => base'[d] # Null
  BY <1>2, <1>5, <1>7, ClassAssumption
<1>13. QED
  BY <1>1, <1>4, <1>8, <1>9, <1>10, <1>11, <1>12 DEF IInv, AllTrusted

\* A class that is freed has none below it.
LEMMA FreeClassKeeps ==
  ASSUME IInv, NEW c \in Classes, FreeClass(c)
  PROVE  IInv'
<1>1. /\ c = Object \/ base[c] # Null
      /\ c # Object /\ c # Type /\ Below(c) = {c} /\ \A i \in Instances : class[i] # c
      /\ base' = [base EXCEPT ![c] = Null]
      /\ methods' = [methods EXCEPT ![c] = <<>>]
      /\ cacheIndex' = [cacheIndex EXCEPT ![c] = None]
      /\ UNCHANGED <<cache, address, class, program>>
  BY DEF FreeClass, Live, instanceVars
<1>2. /\ Hierarchy(base) /\ base \in [Classes -> Classes \union {Null}] /\ base[Type] # Null
      /\ NumbersOwn(base, cacheIndex) /\ cacheIndex \in [Classes -> Numbers]
      /\ methods = [d \in Classes |-> methods[d]]
      /\ AllTrusted(base, methods, cacheIndex, cache, address)
  BY DEF IInv, Hierarchy, NumbersOwn
<1>3. /\ base'[c] = Null /\ cacheIndex'[c] = None
      /\ \A d \in Classes : d # c => base'[d] = base[d] /\ methods'[d] = methods[d] /\ cacheIndex'[d] = cacheIndex[d]
      /\ methods' = [d \in Classes |-> methods'[d]]
  BY <1>1, <1>2
<1>4. \A d \in Classes : (d = Object \/ base[d] # Null) /\ c \in Ups(base, d) => d = c
  BY <1>1, AboveIs DEF Below, Live
<1>5. \A d \in Classes : d # c => base[d] # c
  <2>1. SUFFICES ASSUME NEW d \in Classes, base[d] = c PROVE d = c
    OBVIOUS
  <2>2. base[d] # Null /\ Ups(base, d) = {d} \union Ups(base, c) /\ c \in Ups(base, c)
    BY <1>2, <2>1, UpsAre, UpsSelf, NullAssumption
  <2>3. QED
    BY <1>4, <2>2
<1>6. Hierarchy(base')
  <2>1. base' \in [Classes -> Classes \union {Null}] /\ base'[Object] = Null
    BY <1>1, <1>2, ClassAssumption DEF Hierarchy
  <2>2. \A d \in Classes : base'[d] # Null => base'[d] = Object \/ base'[base'[d]] # Null
    BY <1>2, <1>3, <1>5 DEF Hierarchy
  <2>3. ASSUME NEW S \in (SUBSET Classes) \ {{}}
        PROVE  \E d \in S : base'[d] \notin S
    <3>1. PICK d \in S : base[d] \notin S
      BY <1>2 DEF Hierarchy
    <3>2. Null \notin S
      BY NullAssumption
    <3>3. QED
      BY <1>3, <3>1, <3>2
  <2>4. QED
    BY <2>1, <2>2, <2>3 DEF Hierarchy
<1>7. None \in Numbers
  <2>1. Cardinality(Lines) \in Nat
    BY LineAssumption, FS_CardinalityType
  <2>2. 0 \in 0 .. Cardinality(Lines) + 1
    BY <2>1
  <2>3. QED
    BY <2>2, ClassAssumption DEF None, Numbers
<1>8. NumbersOwn(base', cacheIndex')
  BY <1>1, <1>2, <1>3, <1>7 DEF NumbersOwn
<1>9. ASSUME NEW l \in Lines, NEW d \in Classes, cache[l].index = cacheIndex'[d], cacheIndex'[d] # None
      PROVE  Trusted(base', methods', cacheIndex', cache, address, l, d)
  <2>1. d # c /\ cacheIndex'[d] = cacheIndex[d] /\ (d = Object \/ base[d] # Null)
    BY <1>2, <1>3, <1>9 DEF NumbersOwn
  <2>2. \A e \in Ups(base, d) : e \in Classes /\ e # c
    BY <1>2, <1>4, <2>1, UpsSelf
  <2>3. Trusted(base, methods, cacheIndex, cache, address, l, d)
    BY <1>2, <1>9, <2>1 DEF AllTrusted
  <2>4. \A p \in Names : cache[l].name = address[p] =>
          \A e \in Classes : OnPath(base, methods, d, p, e) => Same(methods, methods', e, p) /\ cacheIndex'[e] # None
    BY <1>3, <2>2, <2>3 DEF OnPath, Same, Trusted
  <2>5. (\A p \in Names : cache[l].name # address[p]) => \A e \in Ups(base, d) : cacheIndex'[e] # None
    BY <1>3, <2>2, <2>3 DEF Trusted
  <2>6. Trusted(base, methods', cacheIndex', cache, address, l, d)
    BY <1>2, <2>3, <2>4, <2>5, TrustedSame
  <2>7. \A e \in Ups(base, d) : base'[e] = base[e]
    BY <1>3, <2>2
  <2>8. QED
    BY <1>2, <1>6, <2>6, <2>7, TrustedSameBases
<1>10. /\ base'[Type] # Null /\ class' \in [Instances -> Classes \union {Null}]
       /\ \A i \in Instances : class'[i] # Null => class'[i] = Object \/ base'[class'[i]] # Null
  <2>1. base'[Type] # Null
    BY <1>1, <1>2, <1>3, ClassAssumption
  <2>2. QED
    BY <1>1, <1>3, <2>1 DEF IInv
<1>11. QED
  BY <1>1, <1>3, <1>6, <1>8, <1>9, <1>10 DEF IInv, AllTrusted

\* A name moves that is in no table, to an address no name is at.
LEMMA MoveNameKeeps ==
  ASSUME IInv, NEW n \in Names, NEW a \in Addresses, MoveName(n, a)
  PROVE  IInv'
<1>1. /\ \A c \in Classes : n \notin DOMAIN methods[c]
      /\ \A x \in Names : address[x] # a
      /\ address' = [address EXCEPT ![n] = a]
      /\ UNCHANGED <<base, methods, cacheIndex, cache, class, program>>
  BY DEF MoveName, classVars, cacheVars, instanceVars
<1>2. Hierarchy(base) /\ Addressed(address) /\ AllTrusted(base, methods, cacheIndex, cache, address)
  BY DEF IInv
<1>3. address'[n] = a /\ \A x \in Names : x # n => address'[x] = address[x]
  BY <1>1, <1>2 DEF Addressed
<1>4. Addressed(address')
  BY <1>1, <1>2, <1>3 DEF Addressed
<1>5. ASSUME NEW d \in Classes
      PROVE  /\ OwnerIn(base, methods, d, n) = Null
             /\ \A e \in Classes : OnPath(base, methods, d, n, e) <=> e \in Ups(base, d)
             /\ \A e \in Ups(base, d) : e \in Classes
  <2>1. \A e \in Ups(base, d) : e \in Classes
    BY <1>2, UpsSelf
  <2>2. OwnerIn(base, methods, d, n) = Null
    BY <1>1, <1>2, OwnerFinds DEF Finds
  <2>3. QED
    BY <1>1, <2>1, <2>2 DEF OnPath
<1>6. ASSUME NEW l \in Lines, NEW d \in Classes, Trusted(base, methods, cacheIndex, cache, address, l, d)
      PROVE  Trusted(base, methods, cacheIndex, cache, address', l, d)
  <2>1. (\A x \in Names : cache[l].name # address[x]) \/ cache[l].name = address[n] =>
          /\ cache[l].owner = Null /\ cache[l].value = Null
          /\ \A e \in Ups(base, d) : cacheIndex[e] # None
    BY <1>5, <1>6 DEF Trusted, Valued
  <2>2. ASSUME NEW p \in Names, cache[l].name = address'[p]
        PROVE  /\ cache[l].owner = OwnerIn(base, methods, d, p)
               /\ cache[l].value = Valued(methods, OwnerIn(base, methods, d, p), p)
               /\ \A e \in Classes : OnPath(base, methods, d, p, e) => cacheIndex[e] # None
    <3>1. CASE p = n
      <4>1. \A x \in Names : cache[l].name # address[x]
        BY <1>1, <1>3, <2>2, <3>1
      <4>2. QED
        BY <1>5, <2>1, <3>1, <4>1 DEF Valued
    <3>2. CASE p # n
      BY <1>3, <1>6, <2>2, <3>2 DEF Trusted
    <3>3. QED
      BY <3>1, <3>2
  <2>3. ASSUME \A x \in Names : cache[l].name # address'[x]
        PROVE  (\A x \in Names : cache[l].name # address[x]) \/ cache[l].name = address[n]
    BY <1>3, <2>3
  <2>4. QED
    BY <2>1, <2>2, <2>3 DEF Trusted
<1>7. AllTrusted(base, methods, cacheIndex, cache, address')
  BY <1>2, <1>6 DEF AllTrusted
<1>8. QED
  BY <1>1, <1>4, <1>7 DEF IInv

\* Instances have no part in the cache.
LEMMA InstancesKeep ==
  ASSUME IInv, UNCHANGED <<classVars, cacheVars, address, program>>,
         class' \in [Instances -> Classes \union {Null}],
         \A i \in Instances : class'[i] # Null => class'[i] = Object \/ base[class'[i]] # Null
  PROVE  IInv'
BY DEF IInv, classVars, cacheVars

LEMMA ClassOfOne ==
  ASSUME IInv, NEW i \in Instances, NEW c, c = Null \/ c \in Live, class' = [class EXCEPT ![i] = c]
  PROVE  /\ class' \in [Instances -> Classes \union {Null}]
         /\ \A j \in Instances : class'[j] # Null => class'[j] = Object \/ base[class'[j]] # Null
BY DEF IInv, Live

LEMMA NextInv == IInv /\ [Next]_vars => IInv'
<1> SUFFICES ASSUME IInv, [Next]_vars PROVE IInv'
  OBVIOUS
<1>1. /\ \A n \in program.reads : n \in Names
      /\ \A p \in Assigned : p.name \in Names
      /\ program.instances \subseteq Instances
  BY ProgramNames
<1>2. /\ class \in [Instances -> Classes \union {Null}]
      /\ \A i \in Instances : class[i] # Null => class[i] = Object \/ base[class[i]] # Null
  BY DEF IInv
<1>3. \A c \in Live : c \in Classes /\ (c = Object \/ base[c] # Null)
  BY DEF Live
<1>4. ASSUME NEW n \in program.reads, GetClassAttribute(n)
      PROVE  IInv'
  <2>1. Type \in Classes /\ base[Type] # Null
    BY ClassAssumption DEF IInv
  <2>2. QED
    BY <1>1, <1>4, <2>1, GetKeeps DEF GetClassAttribute
<1>5. ASSUME NEW n \in program.reads, NEW i \in program.instances, GetAttribute(i, n)
      PROVE  IInv'
  <2>1. class[i] \in Classes /\ (class[i] = Object \/ base[class[i]] # Null)
    BY <1>1, <1>2, <1>5 DEF GetAttribute
  <2>2. QED
    BY <1>1, <1>5, <2>1, GetKeeps DEF GetAttribute
<1>6. ASSUME NEW n \in program.reads, NEW i \in program.instances, DelAttribute(i, n)
      PROVE  IInv'
  <2>1. UNCHANGED <<classVars, cacheVars, address, program, class>>
    BY <1>6 DEF DelAttribute
  <2>2. QED
    BY <1>2, <2>1, InstancesKeep
<1>7. ASSUME NEW n \in program.reads, NEW c \in Live, GetSuper(c, n)
      PROVE  IInv'
  <2>1. From(c) \in Classes /\ (From(c) = Object \/ base[From(c)] # Null)
    BY <1>3, ClassAssumption DEF From, IInv, Hierarchy
  <2>2. QED
    BY <1>1, <1>7, <2>1, GetKeeps DEF GetSuper
<1>8. ASSUME NEW n \in program.reads, NEW a \in Addresses, MoveName(n, a)
      PROVE  IInv'
  BY <1>1, <1>8, MoveNameKeeps
<1>9. ASSUME NEW p \in Assigned, NEW i \in program.instances, SetAttribute(i, p.name, p.value)
      PROVE  IInv'
  BY <1>1, <1>9, SetAttributeKeeps
<1>10. ASSUME NEW p \in Assigned, NEW c \in Live, SetClassAttribute(c, p.name, p.value)
       PROVE  IInv'
  BY <1>1, <1>3, <1>10, SetClassAttributeKeeps
<1>11. ASSUME NEW c \in Live, NEW n \in Known, DelClassAttribute(c, n)
       PROVE  IInv'
  BY <1>3, <1>11, DelClassAttributeKeeps
<1>12. ASSUME NEW c \in Classes, NEW b \in Live, NEW ns, NewClass(c, b, ns)
       PROVE  IInv'
  BY <1>3, <1>12, NewClassKeeps
<1>13. ASSUME NEW c \in Classes, FreeClass(c)
       PROVE  IInv'
  BY <1>13, FreeClassKeeps
<1>14. ASSUME NEW i \in program.instances, FreeInstance(i)
       PROVE  IInv'
  <2>1. UNCHANGED <<classVars, cacheVars, address, program>> /\ class' = [class EXCEPT ![i] = Null]
    BY <1>14 DEF FreeInstance
  <2>2. QED
    BY <1>1, <2>1, ClassOfOne, InstancesKeep
<1>15. ASSUME NEW i \in program.instances, NEW c \in Live, Instantiate(i, c) \/ SetClass(i, c)
       PROVE  IInv'
  <2>1. UNCHANGED <<classVars, cacheVars, address, program>> /\ class' = [class EXCEPT ![i] = c]
    BY <1>15 DEF Instantiate, SetClass
  <2>2. QED
    BY <1>1, <2>1, ClassOfOne, InstancesKeep
<1>16. CASE UNCHANGED vars
  <2>1. UNCHANGED <<classVars, cacheVars, address, program, class>>
    BY <1>16 DEF vars, classVars, cacheVars
  <2>2. QED
    BY <1>2, <2>1, InstancesKeep
<1>17. QED
  BY <1>4, <1>5, <1>6, <1>7, <1>8, <1>9, <1>10, <1>11, <1>12, <1>13, <1>14, <1>15, <1>16 DEF Next

\* Lines, numbers, tables and addresses stay right together.
THEOREM Invariance == Spec => []IInv
<1>1. QED
  BY InitInv, NextInv, PTL DEF Spec

LEMMA InvTruthful == IInv => CacheTruthful
<1> SUFFICES ASSUME IInv, NEW c \in Live, NEW n \in Names, Hit(c, n)
             PROVE  /\ cache[Line(c, n)].owner = Owner(methods, c, n)
                    /\ cache[Line(c, n)].value = Definition(methods, c, n)
  BY DEF CacheTruthful
<1>1. c \in Classes
  BY DEF Live
<1>2. Owner(methods, c, n) = OwnerIn(base, methods, c, n)
  BY <1>1, OwnerIs
<1>3. QED
  BY <1>1, <1>2, HitTrusted DEF Definition

\* The cache tells the truth, whatever is assigned, deleted, made or freed, however
\* lines and numbers are shared: a line that answers gives the nearest definition.
THEOREM CacheRight == Spec => []CacheTruthful
<1>1. QED
  BY Invariance, InvTruthful, PTL

-----------------------------------------------------------------------------
(* Slots.                                                                  *)

Alive(up, c) == c = Object \/ up[c] # Null

\* What lookup of the special s gives for class c, as a slot may have it.
Fitting(s, v) == IF Fits(s, v) THEN v ELSE Null
Looked(up, m, c, n) == Valued(m, OwnerIn(up, m, c, n), n)
Method(up, m, c, s) == Fitting(s, Looked(up, m, c, s))

\* Slots are what lookup gives.
SlotsFit(up, m, sl) ==
  \A c \in Classes : Alive(up, c) => \A s \in Specials : sl[c][s] = Method(up, m, c, s)

OtherEqual(up, m, d) == Method(up, m, d, "__eq__") # Method(up, m, up[d], "__eq__")

\* A class with another __eq__ than its base has a __hash__, if only None.
HashesSettled(up, m) ==
  \A d \in Classes : up[d] # Null /\ OtherEqual(up, m, d) => "__hash__" \in DOMAIN m[d]

\* No two classes have the same __hash__.
HashesDistinct(up, m) ==
  \A c, d \in Classes :
    /\ Alive(up, c) /\ Alive(up, d) /\ "__hash__" \in DOMAIN m[c] \cap DOMAIN m[d]
    /\ m[c]["__hash__"] = m[d]["__hash__"] /\ m[c]["__hash__"] # NoHash
    => c = d

TablesTyped(m) == \A c \in Classes : \A n \in DOMAIN m[c] : m[c][n] \in Values

SInv ==
  /\ TablesTyped(methods) /\ SlotsFit(base, methods, slots)
  /\ HashesSettled(base, methods) /\ HashesDistinct(base, methods)

\* Tables m with the __hash__ None where a class of S needs it.
Hashed(up, m, S) ==
  [d \in Classes |->
     IF d \in S /\ up[d] # Null /\ OtherEqual(up, m, d) /\ "__hash__" \notin DOMAIN m[d]
     THEN With(m[d], "__hash__", NoHash) ELSE m[d]]

\* Tables that agree on n for the classes above d.
LEMMA LookedSame ==
  ASSUME NEW up, Hierarchy(up), NEW d \in Classes, NEW m, NEW m2, NEW n,
         \A e \in Ups(up, d) : Same(m, m2, e, n)
  PROVE  /\ OwnerIn(up, m2, d, n) = OwnerIn(up, m, d, n)
         /\ Looked(up, m2, d, n) = Looked(up, m, d, n)
         /\ Method(up, m2, d, n) = Method(up, m, d, n)
<1>1. OwnerIn(up, m2, d, n) = OwnerIn(up, m, d, n)
  BY PathSame DEF OnPath, Same
<1>2. Finds(up, m, d, n, OwnerIn(up, m, d, n))
  BY OwnerFinds
<1>3. Looked(up, m2, d, n) = Looked(up, m, d, n)
  BY <1>1, <1>2 DEF Looked, Valued, Finds, OnPath, Same
<1>4. QED
  BY <1>1, <1>3 DEF Method

\* The same of other bases.
LEMMA LookedSameBases ==
  ASSUME NEW up, Hierarchy(up), NEW up2, Hierarchy(up2), NEW d \in Classes,
         \A e \in Ups(up, d) : up2[e] = up[e], NEW m, NEW n
  PROVE  Looked(up2, m, d, n) = Looked(up, m, d, n) /\ Method(up2, m, d, n) = Method(up, m, d, n)
BY OwnerSameBases DEF Looked, Method

\* One step of lookup.
LEMMA LookedIs ==
  ASSUME NEW up, Hierarchy(up), NEW m, NEW n, NEW d \in Classes
  PROVE  /\ n \in DOMAIN m[d] => Looked(up, m, d, n) = m[d][n]
         /\ n \notin DOMAIN m[d] => Looked(up, m, d, n) = IF up[d] = Null THEN Null ELSE Looked(up, m, up[d], n)
<1>1. d # Null
  BY NullAssumption
<1>2. QED
  BY <1>1, OwnerAre DEF Looked, Valued

LEMMA HashedIs ==
  ASSUME NEW up, NEW m, NEW S, NEW d \in Classes
  PROVE  /\ \A n : n # "__hash__" => Same(m, Hashed(up, m, S), d, n)
         /\ d \notin S \/ up[d] = Null \/ ~ OtherEqual(up, m, d) \/ "__hash__" \in DOMAIN m[d] => Hashed(up, m, S)[d] = m[d]
         /\ d \in S /\ up[d] # Null /\ OtherEqual(up, m, d) /\ "__hash__" \notin DOMAIN m[d] =>
              /\ Hashed(up, m, S)[d] = With(m[d], "__hash__", NoHash)
              /\ "__hash__" \in DOMAIN Hashed(up, m, S)[d] /\ Hashed(up, m, S)[d]["__hash__"] = NoHash
<1> DEFINE t == With(m[d], "__hash__", NoHash)
<1>1. /\ \A n : n # "__hash__" => ((n \in DOMAIN t <=> n \in DOMAIN m[d]) /\ (n \in DOMAIN m[d] => t[n] = m[d][n]))
      /\ "__hash__" \notin DOMAIN m[d] => "__hash__" \in DOMAIN t /\ t["__hash__"] = NoHash
  BY DEF With
<1>2. Hashed(up, m, S)[d] = IF d \in S /\ up[d] # Null /\ OtherEqual(up, m, d) /\ "__hash__" \notin DOMAIN m[d] THEN t ELSE m[d]
  BY DEF Hashed
<1> HIDE DEF t
<1>3. QED
  BY <1>1, <1>2 DEF Same, t

\* Slots and lookup after tables m got the missing __hash__es.
LEMMA HashedLooked ==
  ASSUME NEW up, Hierarchy(up), NEW m, NEW S, NEW d \in Classes
  PROVE  /\ \A n : n # "__hash__" => /\ Looked(up, Hashed(up, m, S), d, n) = Looked(up, m, d, n)
                                    /\ Method(up, Hashed(up, m, S), d, n) = Method(up, m, d, n)
         /\ \A n : (\A e \in Ups(up, d) : e \notin S) =>
              /\ Looked(up, Hashed(up, m, S), d, n) = Looked(up, m, d, n)
              /\ Method(up, Hashed(up, m, S), d, n) = Method(up, m, d, n)
<1>1. ASSUME NEW n, n # "__hash__" \/ \A e \in Ups(up, d) : e \notin S
      PROVE  /\ Looked(up, Hashed(up, m, S), d, n) = Looked(up, m, d, n)
             /\ Method(up, Hashed(up, m, S), d, n) = Method(up, m, d, n)
  <2>1. \A e \in Ups(up, d) : Same(m, Hashed(up, m, S), e, n)
    BY <1>1, UpsSelf, HashedIs DEF Same
  <2>2. QED
    BY <2>1, LookedSame
<1>2. QED
  BY <1>1

-----------------------------------------------------------------------------
(* krk_finalizeClass.                                                      *)

\* What it makes of class d, given what it made of the one above.
Made(up, m, d, above) ==
  LET found == [s \in Specials |-> IF s \in DOMAIN m[d] THEN m[d][s] ELSE above.found[s]]
      filled == [s \in Specials |-> Fitting(s, found[s])]
      loses == up[d] # Null /\ Loses(filled, above.slots)
      dropped == loses /\ "__hash__" \notin DOMAIN m[d]
  IN [found |-> IF dropped THEN [found EXCEPT !["__hash__"] = NoHash] ELSE found,
      slots |-> IF loses THEN [filled EXCEPT !["__hash__"] = Null] ELSE filled,
      methods |-> IF dropped THEN With(m[d], "__hash__", NoHash) ELSE m[d]]

\* found and slots of a class as lookup gives them, in tables m.
Agrees(up, m, d, a) ==
  \A s \in Specials : a.found[s] = Looked(up, m, d, s) /\ a.slots[s] = Method(up, m, d, s)

ByLookup(up, m, d) ==
  [found |-> [s \in Specials |-> Looked(up, m, d, s)],
   slots |-> [s \in Specials |-> Method(up, m, d, s)],
   methods |-> m[d]]

\* One class, after that above.
LEMMA MadeIs ==
  ASSUME NEW up, Hierarchy(up), NEW m, NEW S, NEW d \in S, S \subseteq Classes, Alive(up, d), HashesDistinct(up, m),
         NEW a, up[d] # Null => Agrees(up, Hashed(up, m, S), up[d], a),
         up[d] = Null => \A s \in Specials : a.found[s] = Null
  PROVE  Made(up, m, d, a) = ByLookup(up, Hashed(up, m, S), d)
<1> DEFINE h == "__hash__"
           m2 == Hashed(up, m, S)
           found == [s \in Specials |-> IF s \in DOMAIN m[d] THEN m[d][s] ELSE a.found[s]]
           filled == [s \in Specials |-> Fitting(s, found[s])]
           loses == up[d] # Null /\ Loses(filled, a.slots)
           dropped == loses /\ h \notin DOMAIN m[d]
           found2 == IF dropped THEN [found EXCEPT ![h] = NoHash] ELSE found
           slots2 == IF loses THEN [filled EXCEPT ![h] = Null] ELSE filled
           made == [found |-> found2, slots |-> slots2,
                    methods |-> IF dropped THEN With(m[d], h, NoHash) ELSE m[d]]
<1>1. Made(up, m, d, a) = made
  BY DEF Made
<1>2. d \in Classes /\ d # Null /\ {"__eq__", h} \subseteq Specials /\ "__eq__" # h
  BY NullAssumption, NameAssumption
<1>3. up[d] # Null => up[d] \in Classes
  BY DEF Hierarchy
<1>4. \A s \in Specials : s \in DOMAIN m[d] => found[s] = m[d][s]
  OBVIOUS
<1>5. \A s \in Specials : s \notin DOMAIN m[d] => found[s] = IF up[d] = Null THEN Null ELSE Looked(up, m2, up[d], s)
  BY DEF Agrees
<1>6. \A s \in Specials : filled[s] = Fitting(s, found[s])
  OBVIOUS
<1> HIDE DEF found, filled
<1>7. \A s : s # h => Same(m, m2, d, s)
  BY <1>2, HashedIs
<1>8. \A s \in Specials : s # h => found[s] = Looked(up, m2, d, s)
  <2>1. SUFFICES ASSUME NEW s \in Specials, s # h PROVE found[s] = Looked(up, m2, d, s)
    OBVIOUS
  <2>2. Same(m, m2, d, s)
    BY <1>7, <2>1
  <2>3. CASE s \in DOMAIN m[d]
    <3>1. s \in DOMAIN m2[d] /\ m2[d][s] = m[d][s]
      BY <2>2, <2>3 DEF Same
    <3>2. Looked(up, m2, d, s) = m2[d][s]
      BY <1>2, <3>1, LookedIs
    <3>3. QED
      BY <1>4, <2>3, <3>1, <3>2
  <2>4. CASE s \notin DOMAIN m[d]
    <3>1. s \notin DOMAIN m2[d]
      BY <2>2, <2>4 DEF Same
    <3>2. Looked(up, m2, d, s) = IF up[d] = Null THEN Null ELSE Looked(up, m2, up[d], s)
      BY <1>2, <3>1, LookedIs
    <3>3. QED
      BY <1>5, <2>4, <3>2
  <2>5. QED
    BY <2>3, <2>4
<1>9. \A s \in Specials : s # h => filled[s] = Method(up, m2, d, s)
  BY <1>6, <1>8 DEF Method
<1>10. up[d] # Null => (filled["__eq__"] # a.slots["__eq__"] <=> OtherEqual(up, m, d))
  <2>1. Method(up, m2, d, "__eq__") = Method(up, m, d, "__eq__")
    BY <1>2, HashedLooked
  <2>2. up[d] # Null => Method(up, m2, up[d], "__eq__") = Method(up, m, up[d], "__eq__")
    BY <1>2, <1>3, HashedLooked
  <2>3. filled["__eq__"] = Method(up, m2, d, "__eq__")
    BY <1>2, <1>9
  <2>4. up[d] # Null => a.slots["__eq__"] = Method(up, m2, up[d], "__eq__")
    BY <1>2 DEF Agrees
  <2>5. QED
    BY <2>1, <2>2, <2>3, <2>4 DEF OtherEqual
<1>11. CASE h \notin DOMAIN m[d] /\ ~ (up[d] # Null /\ OtherEqual(up, m, d))
  <2>1. ~ loses /\ m2[d] = m[d]
    BY <1>2, <1>10, <1>11, HashedIs DEF Loses
  <2>2. found[h] = Looked(up, m2, d, h)
    BY <1>2, <1>5, <1>11, <2>1, LookedIs
  <2>3. filled[h] = Method(up, m2, d, h)
    BY <1>2, <1>6, <2>2 DEF Method
  <2>4. made = [found |-> found, slots |-> filled, methods |-> m2[d]]
    BY <2>1
  <2>5. found = [s \in Specials |-> found[s]] /\ filled = [s \in Specials |-> filled[s]]
    BY DEF found, filled
  <2> HIDE DEF made, m2
  <2>6. \A s \in Specials : found[s] = Looked(up, m2, d, s) /\ filled[s] = Method(up, m2, d, s)
    BY <1>8, <1>9, <2>2, <2>3
  <2>7. found = [s \in Specials |-> Looked(up, m2, d, s)] /\ filled = [s \in Specials |-> Method(up, m2, d, s)]
    BY <2>5, <2>6
  <2>8. QED
    BY <1>1, <2>4, <2>7 DEF ByLookup, m2
<1>12. CASE h \notin DOMAIN m[d] /\ up[d] # Null /\ OtherEqual(up, m, d)
  <2>1. found[h] = Looked(up, m2, up[d], h) /\ a.slots[h] = Method(up, m2, up[d], h)
    BY <1>2, <1>5, <1>12 DEF Agrees
  <2>2. filled[h] = a.slots[h]
    BY <1>2, <1>6, <2>1 DEF Method
  <2>3. loses /\ dropped
    BY <1>10, <1>12, <2>2 DEF Loses
  <2>4. m2[d] = With(m[d], h, NoHash) /\ h \in DOMAIN m2[d] /\ m2[d][h] = NoHash
    BY <1>2, <1>12, HashedIs
  <2>5. Looked(up, m2, d, h) = NoHash
    BY <1>2, <2>4, LookedIs
  <2>6. Fitting(h, NoHash) = Null
    BY KindAssumption DEF Fitting, Fits, IsFunction
  <2>7. Method(up, m2, d, h) = Null
    BY <2>5, <2>6 DEF Method
  <2>8. found2 = [found EXCEPT ![h] = NoHash] /\ slots2 = [filled EXCEPT ![h] = Null]
        /\ made = [found |-> found2, slots |-> slots2, methods |-> m2[d]]
    BY <2>3, <2>4
  <2>9. found = [s \in Specials |-> found[s]] /\ filled = [s \in Specials |-> filled[s]]
    BY DEF found, filled
  <2> HIDE DEF made, m2, found2, slots2, loses, dropped
  <2>10. /\ found2 = [s \in Specials |-> found2[s]] /\ slots2 = [s \in Specials |-> slots2[s]]
         /\ \A s \in Specials : found2[s] = Looked(up, m2, d, s) /\ slots2[s] = Method(up, m2, d, s)
    BY <1>2, <1>8, <1>9, <2>5, <2>7, <2>8, <2>9
  <2>11. found2 = [s \in Specials |-> Looked(up, m2, d, s)] /\ slots2 = [s \in Specials |-> Method(up, m2, d, s)]
    BY <2>10
  <2>12. QED
    BY <1>1, <2>8, <2>11 DEF ByLookup, m2
<1>13. CASE h \in DOMAIN m[d]
  <2>1. ~ dropped /\ m2[d] = m[d] /\ found[h] = m[d][h]
    BY <1>2, <1>4, <1>13, HashedIs
  <2>2. Looked(up, m2, d, h) = m[d][h]
    BY <1>2, <1>13, <2>1, LookedIs
  <2>3. filled[h] = Method(up, m2, d, h)
    BY <1>2, <1>6, <2>1, <2>2 DEF Method
  <2>4. ASSUME loses, filled[h] # Null
        PROVE  FALSE
    <3>1. up[d] # Null /\ filled[h] = a.slots[h] /\ a.slots[h] = Method(up, m2, up[d], h)
      BY <1>2, <2>4 DEF Loses, Agrees
    <3>2. filled[h] = m[d][h] /\ m[d][h] # NoHash /\ m[d][h] # Null
      BY <1>2, <1>6, <2>1, <2>4, KindAssumption DEF Fitting, Fits, IsFunction
    <3>3. Looked(up, m2, up[d], h) = m[d][h]
      BY <3>1, <3>2 DEF Method, Fitting
    <3> DEFINE o == OwnerIn(up, m2, up[d], h)
    <3>4. o # Null /\ m2[o][h] = m[d][h]
      BY <3>2, <3>3 DEF Looked, Valued
    <3>5. Finds(up, m2, up[d], h, o)
      BY <1>3, <3>1, OwnerFinds
    <3> HIDE DEF o
    <3>6. o \in Classes /\ h \in DOMAIN m2[o] /\ o \in Ups(up, up[d])
      BY <3>4, <3>5 DEF Finds, OnPath
    <3>7. h \in DOMAIN m[o] /\ m[o][h] = m[d][h]
      BY <3>2, <3>4, <3>6, HashedIs
    <3>8. Ups(up, d) = {d} \union Ups(up, up[d]) /\ up[d] \in Classes
      BY <1>2, <3>1, UpsAre
    <3>9. Alive(up, o)
      BY <1>2, <3>6, <3>8, UpsLive DEF Alive
    <3>10. o = d
      BY <1>2, <1>13, <3>2, <3>6, <3>7, <3>9 DEF HashesDistinct
    <3>11. up[d] \in Ups(up, d) /\ d \in Ups(up, up[d])
      BY <3>6, <3>8, <3>10, UpsSelf
    <3>12. d = up[d]
      BY <1>2, <3>8, <3>11, UpsAntisymmetric
    <3>13. QED
      <4>1. {d} \subseteq Classes /\ {d} # {}
        BY <1>2
      <4>2. PICK e \in {d} : up[e] \notin {d}
        BY <4>1, Lowest
      <4>3. QED
        BY <3>12, <4>2
  <2>5. found = [s \in Specials |-> found[s]] /\ filled = [s \in Specials |-> filled[s]]
    BY DEF found, filled
  <2>6. slots2 = filled
    BY <2>4, <2>5
  <2>7. made = [found |-> found, slots |-> filled, methods |-> m2[d]]
    BY <2>1, <2>6
  <2> HIDE DEF made, m2, loses, dropped
  <2>8. \A s \in Specials : found[s] = Looked(up, m2, d, s) /\ filled[s] = Method(up, m2, d, s)
    BY <1>8, <1>9, <2>1, <2>2, <2>3
  <2>9. found = [s \in Specials |-> Looked(up, m2, d, s)] /\ filled = [s \in Specials |-> Method(up, m2, d, s)]
    BY <2>5, <2>8
  <2>10. QED
    BY <1>1, <2>7, <2>9 DEF ByLookup, m2
<1>14. QED
  BY <1>11, <1>12, <1>13

\* All of S, the class c and classes below it.
LEMMA FinalizedIs ==
  ASSUME NEW up, Hierarchy(up), NEW m, NEW S, S \subseteq Classes, NEW c \in S, HashesDistinct(up, m),
         \A d \in S : Alive(up, d) /\ (d # c => up[d] \in S),
         up[c] # Null => \A s \in Specials : /\ Definition(m, up[c], s) = Looked(up, m, up[c], s)
                                           /\ slots[up[c]][s] = Method(up, m, up[c], s),
         up[c] # Null => \A e \in Ups(up, up[c]) : e \notin S,
         NEW d \in S
  PROVE  Finalized(up, m, S, c)[d] = ByLookup(up, Hashed(up, m, S), d)
<1> DEFINE m2 == Hashed(up, m, S)
           above(f, e) == IF up[e] = Null
                          THEN [found |-> [s \in Specials |-> Null],
                                slots |-> [s \in Specials |-> Null]]
                          ELSE IF e # c THEN f[up[e]]
                          ELSE [found |-> [s \in Specials |-> Definition(m, up[e], s)],
                                slots |-> slots[up[e]]]
           Is(f) == f = [e \in S |-> Made(up, m, e, above(f, e))]
           new == CHOOSE f : Is(f)
           g == [e \in S |-> ByLookup(up, m2, e)]
<1>1. ASSUME NEW f, NEW e \in S, e # c => f[up[e]] = ByLookup(up, m2, up[e])
      PROVE  Made(up, m, e, above(f, e)) = ByLookup(up, m2, e)
  <2>1. up[e] = Null => \A s \in Specials : above(f, e).found[s] = Null
    OBVIOUS
  <2>2. CASE up[e] # Null /\ e # c
    <3>1. above(f, e) = ByLookup(up, m2, up[e])
      BY <1>1, <2>2
    <3>2. Agrees(up, m2, up[e], above(f, e))
      BY <3>1 DEF Agrees, ByLookup
    <3> HIDE DEF above
    <3>3. QED
      BY <2>2, <3>2, MadeIs DEF m2
  <2>3. CASE up[e] # Null /\ e = c
    <3>1. up[c] \in Classes
      BY <2>3 DEF Hierarchy
    <3>2. \A s : Looked(up, m2, up[c], s) = Looked(up, m, up[c], s) /\ Method(up, m2, up[c], s) = Method(up, m, up[c], s)
      BY <2>3, <3>1, HashedLooked
    <3>3. Agrees(up, m2, up[e], above(f, e))
      BY <2>3, <3>2 DEF Agrees
    <3> HIDE DEF above
    <3>4. QED
      BY <2>3, <3>3, MadeIs DEF m2
  <2>4. CASE up[e] = Null
    <3> HIDE DEF above
    <3> QED
      BY <2>1, <2>4, MadeIs DEF m2
  <2>5. QED
    BY <2>2, <2>3, <2>4
<1>2. Is(g)
  <2>1. \A e \in S : e # c => g[up[e]] = ByLookup(up, m2, up[e])
    OBVIOUS
  <2>2. \A e \in S : Made(up, m, e, above(g, e)) = ByLookup(up, m2, e)
    BY <1>1, <2>1
  <2> HIDE DEF above
  <2>3. QED
    BY <2>2
<1>3. Is(new)
  <2> HIDE DEF Is, g
  <2> QED
    BY <1>2
<1>4. Finalized(up, m, S, c) = new
  BY DEF Finalized, Made, Fitting
<1> HIDE DEF new
<1>5. \A e \in S : new[e] = Made(up, m, e, above(new, e))
  <2> HIDE DEF above
  <2> QED
    BY <1>3
<1> DEFINE T == {e \in S : new[e] # ByLookup(up, m2, e)}
<1>6. SUFFICES ASSUME T # {} PROVE FALSE
  BY <1>4, <1>6
<1>7. PICK e \in T : up[e] \notin T
  BY <1>6, Lowest
<1>8. e # c => new[up[e]] = ByLookup(up, m2, up[e])
  BY <1>7
<1> HIDE DEF above
<1>9. QED
  BY <1>1, <1>5, <1>7, <1>8

\* The tables and slots after krk_finalizeClass of c and those below it, S, when
\* the others are right.
LEMMA FinalizeRight ==
  ASSUME NEW up, Hierarchy(up), NEW m, NEW S, S \subseteq Classes, NEW c \in S,
         HashesDistinct(up, m), TablesTyped(m),
         \A d \in S : Alive(up, d) /\ (d # c => up[d] \in S),
         up[c] # Null => /\ up[c] \notin S
                         /\ \A s \in Specials : Definition(m, up[c], s) = Looked(up, m, up[c], s),
         \A d \in Classes \ S : Alive(up, d) =>
           /\ \A e \in Ups(up, d) : e \notin S
           /\ \A s \in Specials : slots[d][s] = Method(up, m, d, s)
           /\ up[d] # Null /\ OtherEqual(up, m, d) => "__hash__" \in DOMAIN m[d],
         Finalize(m, S, Finalized(up, m, S, c))
  PROVE  /\ methods' = Hashed(up, m, S)
         /\ TablesTyped(methods') /\ SlotsFit(up, methods', slots')
         /\ HashesSettled(up, methods') /\ HashesDistinct(up, methods')
<1> DEFINE h == "__hash__"
           m2 == Hashed(up, m, S)
           new == Finalized(up, m, S, c)
<1>1. up[c] # Null => up[c] \in Classes \ S /\ Alive(up, up[c])
  BY NullAssumption DEF Hierarchy, Alive
<1>2. ASSUME NEW d \in S
      PROVE  new[d] = ByLookup(up, m2, d)
  <2>1. up[c] # Null => \A s \in Specials : /\ Definition(m, up[c], s) = Looked(up, m, up[c], s)
                                          /\ slots[up[c]][s] = Method(up, m, up[c], s)
    BY <1>1
  <2>2. up[c] # Null => \A e \in Ups(up, up[c]) : e \notin S
    BY <1>1
  <2>3. QED
    BY <2>1, <2>2, FinalizedIs
<1> HIDE DEF new
<1>3. /\ methods' = [d \in Classes |-> IF d \in S THEN new[d].methods ELSE m[d]]
      /\ slots' = [d \in Classes |-> IF d \in S THEN new[d].slots ELSE slots[d]]
  BY DEF Finalize, new
<1>4. methods' = m2
  <2>1. ASSUME NEW d \in Classes
        PROVE  (IF d \in S THEN new[d].methods ELSE m[d]) = m2[d]
    <3>1. CASE d \in S
      <4>1. new[d].methods = ByLookup(up, m2, d).methods
        BY <1>2, <3>1
      <4> HIDE DEF m2
      <4>2. QED
        BY <3>1, <4>1 DEF ByLookup
    <3>2. CASE d \notin S
      BY <3>2, HashedIs
    <3>3. QED
      BY <3>1, <3>2
  <2>2. m2 = [d \in Classes |-> m2[d]]
    BY DEF Hashed
  <2> HIDE DEF m2
  <2>3. QED
    BY <1>3, <2>1, <2>2
<1>5. TablesTyped(m2)
  <2>1. ASSUME NEW d \in Classes, NEW n \in DOMAIN m2[d]
        PROVE  m2[d][n] \in Values
    <3>1. CASE n = h
      BY <2>1, <3>1, HashedIs, KindAssumption DEF TablesTyped
    <3>2. CASE n # h
      <4>1. Same(m, m2, d, n)
        BY <3>2, HashedIs
      <4>2. QED
        BY <2>1, <4>1 DEF Same, TablesTyped
    <3>3. QED
      BY <3>1, <3>2
  <2>2. QED
    BY <2>1 DEF TablesTyped
<1>6. SlotsFit(up, m2, slots')
  <2>1. ASSUME NEW d \in Classes, Alive(up, d), NEW s \in Specials
        PROVE  slots'[d][s] = Method(up, m2, d, s)
    <3>1. CASE d \in S
      <4>1. slots'[d] = ByLookup(up, m2, d).slots
        BY <1>2, <1>3, <3>1
      <4> HIDE DEF m2
      <4>2. QED
        BY <4>1 DEF ByLookup
    <3>2. CASE d \notin S
      BY <1>3, <2>1, <3>2, HashedLooked
    <3>3. QED
      BY <3>1, <3>2
  <2>2. QED
    BY <2>1 DEF SlotsFit
<1>7. HashesSettled(up, m2)
  <2>1. ASSUME NEW d \in Classes, up[d] # Null, OtherEqual(up, m2, d)
        PROVE  h \in DOMAIN m2[d]
    <3>1. OtherEqual(up, m, d)
      <4>1. up[d] \in Classes
        BY <2>1 DEF Hierarchy
      <4>2. Method(up, m2, d, "__eq__") = Method(up, m, d, "__eq__") /\ Method(up, m2, up[d], "__eq__") = Method(up, m, up[d], "__eq__")
        BY <4>1, HashedLooked
      <4>3. QED
        BY <2>1, <4>2 DEF OtherEqual
    <3>2. CASE d \in S
      BY <2>1, <3>1, <3>2, HashedIs
    <3>3. CASE d \notin S
      BY <2>1, <3>1, <3>3, HashedIs DEF Alive
    <3>4. QED
      BY <3>2, <3>3
  <2>2. QED
    BY <2>1 DEF HashesSettled
<1>8. HashesDistinct(up, m2)
  <2>1. \A d \in Classes : h \in DOMAIN m2[d] /\ m2[d][h] # NoHash => h \in DOMAIN m[d] /\ m2[d][h] = m[d][h]
    BY HashedIs
  <2> HIDE DEF m2
  <2>2. QED
    BY <2>1 DEF HashesDistinct
<1>9. QED
  BY <1>4, <1>5, <1>6, <1>7, <1>8

\* A change of the table of c under n, and what follows it.
LEMMA ChangeRight ==
  ASSUME IInv, SInv, NEW c \in Live, NEW n, NEW m, NEW idx, TableChanged(c, n, m, idx),
         m = [d \in Classes |-> m[d]],
         \A d \in Classes : d # c => m[d] = methods[d], \A x : x # n => Same(methods, m, c, x),
         TablesTyped(m), HashesDistinct(base, m)
  PROVE  /\ methods' = Hashed(base, m, Below(c))
         /\ TablesTyped(methods') /\ SlotsFit(base, methods', slots')
         /\ HashesSettled(base, methods') /\ HashesDistinct(base, methods')
<1> DEFINE h == "__hash__"
           S == Below(c)
<1>1. /\ Hierarchy(base) /\ SlotsFit(base, methods, slots) /\ HashesSettled(base, methods)
      /\ c \in Classes /\ Alive(base, c)
  BY DEF IInv, SInv, Live, Alive
<1>2. \A d : d \in S <=> d \in Classes /\ Alive(base, d) /\ c \in Ups(base, d)
  BY AboveIs DEF Below, Live, Alive
<1>3. S \subseteq Classes /\ c \in S
  BY <1>1, <1>2, UpsSelf
<1> HIDE DEF S
<1>4. \A d \in S : Alive(base, d) /\ (d # c => base[d] \in S)
  <2>1. SUFFICES ASSUME NEW d \in S, d # c PROVE base[d] \in S
    BY <1>2
  <2>2. base[d] # Null /\ base[d] \in Classes /\ c \in Ups(base, base[d])
    BY <1>1, <1>2, <2>1, UpsAre
  <2>3. Alive(base, base[d])
    BY <1>1, <1>2, <2>2 DEF Hierarchy, Alive
  <2>4. QED
    BY <1>2, <2>2, <2>3
<1>5. ASSUME NEW d \in Classes \ S, Alive(base, d), NEW e \in Ups(base, d)
      PROVE  e \in Classes /\ e \notin S
  <2>1. e \in Classes
    BY <1>1, UpsSelf
  <2>2. e \in S => c \in Ups(base, d)
    BY <1>1, <1>2, UpsTransitive
  <2>3. QED
    BY <1>2, <1>5, <2>1, <2>2
<1>6. ASSUME NEW d \in Classes \ S, Alive(base, d), NEW x
      PROVE  Looked(base, m, d, x) = Looked(base, methods, d, x) /\ Method(base, m, d, x) = Method(base, methods, d, x)
  <2>1. \A e \in Ups(base, d) : Same(methods, m, e, x)
    BY <1>3, <1>5, <1>6 DEF Same
  <2>2. QED
    BY <1>1, <2>1, LookedSame
<1>7. ASSUME NEW d \in Classes, NEW x, x # n
      PROVE  Method(base, m, d, x) = Method(base, methods, d, x)
  <2>1. \A e \in Ups(base, d) : Same(methods, m, e, x)
    BY <1>1, <1>7, UpsSelf DEF Same
  <2>2. QED
    BY <1>1, <2>1, LookedSame
<1>8. CASE n \in Dunders
  <2>1. Finalize(m, S, Finalized(base, m, S, c))
    BY <1>8 DEF TableChanged, S
  <2>2. base[c] # Null => /\ base[c] \notin S
                          /\ \A s \in Specials : Definition(m, base[c], s) = Looked(base, m, base[c], s)
    <3>1. SUFFICES ASSUME base[c] # Null PROVE base[c] \notin S /\ \A s : Definition(m, base[c], s) = Looked(base, m, base[c], s)
      OBVIOUS
    <3>2. base[c] \in Classes /\ Ups(base, c) = {c} \union Ups(base, base[c])
      BY <1>1, <3>1, UpsAre
    <3>3. base[c] \in Ups(base, c)
      BY <1>1, <3>2, UpsSelf
    <3>4. base[c] # c
      <4>1. {c} \subseteq Classes /\ {c} # {}
        BY <1>1
      <4>2. PICK e \in {c} : base[e] \notin {c}
        BY <1>1, <4>1, Lowest
      <4>3. QED
        BY <4>2
    <3>5. base[c] \notin S
      BY <1>1, <1>2, <3>2, <3>3, <3>4, UpsAntisymmetric
    <3>6. QED
      BY <3>2, <3>5, OwnerIs DEF Definition, Looked
  <2>3. ASSUME NEW d \in Classes \ S, Alive(base, d)
        PROVE  /\ \A e \in Ups(base, d) : e \notin S
               /\ \A s \in Specials : slots[d][s] = Method(base, m, d, s)
               /\ base[d] # Null /\ OtherEqual(base, m, d) => "__hash__" \in DOMAIN m[d]
    <3>1. \A e \in Ups(base, d) : e \notin S
      BY <1>5, <2>3
    <3>2. \A s \in Specials : slots[d][s] = Method(base, m, d, s)
      BY <1>1, <1>6, <2>3 DEF SlotsFit
    <3>3. ASSUME base[d] # Null, OtherEqual(base, m, d)
          PROVE  "__hash__" \in DOMAIN m[d]
      <4>1. base[d] \in Classes /\ Alive(base, base[d]) /\ base[d] \in Ups(base, d)
        BY <1>1, <3>3, UpsAre, UpsSelf DEF Hierarchy, Alive
      <4>2. base[d] \notin S
        BY <3>1, <4>1
      <4>3. OtherEqual(base, methods, d)
        BY <1>6, <2>3, <3>3, <4>1, <4>2 DEF OtherEqual
      <4>4. h \in DOMAIN methods[d] /\ d # c
        BY <1>1, <1>3, <2>3, <3>3, <4>3 DEF HashesSettled
      <4>5. QED
        BY <4>4
    <3>4. QED
      BY <3>1, <3>2, <3>3
  <2>4. QED
    BY <1>1, <1>3, <1>4, <2>1, <2>2, <2>3, FinalizeRight DEF S
<1>9. CASE n \notin Dunders
  <2>1. methods' = m /\ slots' = slots /\ n \notin Specials /\ {"__eq__", h} \subseteq Specials
    BY <1>9, NameAssumption DEF TableChanged
  <2>2. SlotsFit(base, m, slots)
    BY <1>1, <1>7, <2>1 DEF SlotsFit
  <2>3. HashesSettled(base, m)
    <3>1. SUFFICES ASSUME NEW d \in Classes, base[d] # Null, OtherEqual(base, m, d) PROVE h \in DOMAIN m[d]
      BY DEF HashesSettled
    <3>2. base[d] \in Classes
      BY <1>1, <3>1 DEF Hierarchy
    <3>3. OtherEqual(base, methods, d)
      BY <1>7, <2>1, <3>1, <3>2 DEF OtherEqual
    <3>4. h \in DOMAIN methods[d]
      BY <1>1, <3>1, <3>3 DEF HashesSettled
    <3>5. Same(methods, m, d, h)
      BY <2>1 DEF Same
    <3>6. QED
      BY <3>4, <3>5 DEF Same
  <2>4. Hashed(base, m, S) = m
    <3>1. \A d \in Classes : Hashed(base, m, S)[d] = m[d]
      BY <2>3, HashedIs DEF HashesSettled
    <3>2. Hashed(base, m, S) = [d \in Classes |-> Hashed(base, m, S)[d]]
      BY DEF Hashed
    <3>3. QED
      BY <3>1, <3>2
  <2>5. QED
    BY <2>1, <2>2, <2>3, <2>4 DEF S
<1>10. QED
  BY <1>8, <1>9

-----------------------------------------------------------------------------
(* Slots are what lookup gives, for programs that do not share a __hash__. *)

\* (src/vm.c:219 empties the slot of a class that has the same __hash__ as its base.)
Unshared == "shared" \notin Unsound

LEMMA AssignedIs ==
  ASSUME Unshared, IInv, NEW p \in Assigned
  PROVE  /\ p.name \in Names /\ p.value \in Values
         /\ p.name = "__hash__" => \A c \in Live : "__hash__" \in DOMAIN methods[c] => methods[c]["__hash__"] # p.value
<1>1. p \in [name : Names, value : Values] /\ ~ SharesHash(p)
  BY ProgramAssumption DEF IInv, Assigned, Unshared
<1>2. p = [name |-> p.name, value |-> p.value] /\ p.name \in Names /\ p.value \in Values
  BY <1>1
<1>3. ASSUME p.name = "__hash__", NEW c \in Live, "__hash__" \in DOMAIN methods[c], methods[c]["__hash__"] = p.value
      PROVE  FALSE
  <2>1. p = [name |-> "__hash__", value |-> methods[c]["__hash__"]]
    BY <1>2, <1>3
  <2>2. p \in {[name |-> n, value |-> methods[c][n]] : n \in DOMAIN methods[c]}
    BY <1>3, <2>1
  <2>3. QED
    BY <1>1, <1>3, <2>2 DEF SharesHash
<1>4. QED
  BY <1>2, <1>3

\* The tables when n of c has been set to v, before krk_finalizeClass.
AfterSet(c, n, v) ==
  IF Cached(Type, n).owner # Null /\ HasSet(Cached(Type, n).value) THEN methods
  ELSE [methods EXCEPT ![c] = With(@, n, v)]

LEMMA SetClassAttributeRight ==
  ASSUME Unshared, IInv, SInv, NEW c \in Live, NEW p \in Assigned, SetClassAttribute(c, p.name, p.value)
  PROVE  SInv' /\ methods' = Hashed(base, AfterSet(c, p.name, p.value), Below(c))
<1> DEFINE n == p.name
           v == p.value
           descriptor == Cached(Type, n).owner # Null /\ HasSet(Cached(Type, n).value)
           m == IF descriptor THEN methods ELSE [methods EXCEPT ![c] = With(@, n, v)]
           idx == Numbered(Missed(Type, n))
<1>1. base' = base /\ TableChanged(c, n, m, idx) /\ c \in Classes /\ methods = [d \in Classes |-> methods[d]]
  BY DEF SetClassAttribute, Live, IInv
<1>0. m = AfterSet(c, p.name, p.value)
  BY DEF AfterSet
<1>2. TablesTyped(methods) /\ HashesDistinct(base, methods)
  BY DEF SInv
<1>3. n \in Names /\ v \in Values
      /\ (n = "__hash__" => \A d \in Live : "__hash__" \in DOMAIN methods[d] => methods[d]["__hash__"] # v)
  BY AssignedIs
<1>4. CASE descriptor
  <2>1. m = methods
    BY <1>4
  <2> HIDE DEF m, n, idx, descriptor
  <2>2. QED
    BY <1>0, <1>1, <1>2, <2>1, ChangeRight DEF SInv, Same
<1>5. CASE ~ descriptor
  <2> DEFINE t == With(methods[c], n, v)
  <2>1. m = [methods EXCEPT ![c] = t]
    BY <1>5
  <2> HIDE DEF m, n, v, idx, descriptor
  <2>2. /\ DOMAIN t = DOMAIN methods[c] \union {n} /\ t[n] = v
        /\ \A x : x # n => (x \in DOMAIN t <=> x \in DOMAIN methods[c])
        /\ \A x \in DOMAIN methods[c] : x # n => t[x] = methods[c][x]
    BY DEF With
  <2> HIDE DEF t
  <2>3. m = [d \in Classes |-> m[d]] /\ m[c] = t /\ \A d \in Classes : d # c => m[d] = methods[d]
    BY <1>1, <2>1
  <2>4. \A x : x # n => Same(methods, m, c, x)
    BY <2>2, <2>3 DEF Same
  <2>5. TablesTyped(m)
    BY <1>2, <1>3, <2>2, <2>3 DEF TablesTyped
  <2>6. HashesDistinct(base, m)
    <3>1. \A d \in Classes : d \in Live <=> Alive(base, d)
      BY DEF Live, Alive
    <3>2. CASE n = "__hash__"
      BY <1>1, <1>2, <1>3, <2>2, <2>3, <3>1, <3>2 DEF HashesDistinct
    <3>3. CASE n # "__hash__"
      <4>1. \A d \in Classes : "__hash__" \in DOMAIN m[d] => "__hash__" \in DOMAIN methods[d] /\ m[d]["__hash__"] = methods[d]["__hash__"]
        BY <2>2, <2>3, <3>3
      <4>2. QED
        BY <1>2, <4>1 DEF HashesDistinct
    <3>4. QED
      BY <3>2, <3>3
  <2>7. QED
    BY <1>0, <1>1, <2>3, <2>4, <2>5, <2>6, ChangeRight DEF SInv
<1>6. QED
  BY <1>4, <1>5

LEMMA DelClassAttributeRight ==
  ASSUME IInv, SInv, NEW c \in Live, NEW n, DelClassAttribute(c, n)
  PROVE  SInv' /\ methods' = Hashed(base, [methods EXCEPT ![c] = Without(@, n)], Below(c))
<1> DEFINE t == Without(methods[c], n)
           m == [methods EXCEPT ![c] = t]
<1>1. base' = base /\ TableChanged(c, n, m, cacheIndex) /\ c \in Classes /\ methods = [d \in Classes |-> methods[d]]
  BY DEF DelClassAttribute, Live, IInv
<1>0. m = [methods EXCEPT ![c] = Without(@, n)]
  OBVIOUS
<1>2. TablesTyped(methods) /\ HashesDistinct(base, methods)
  BY DEF SInv
<1>3. DOMAIN t = DOMAIN methods[c] \ {n} /\ \A x \in DOMAIN t : t[x] = methods[c][x]
  BY DEF Without
<1> HIDE DEF t
<1>4. m = [d \in Classes |-> m[d]] /\ m[c] = t /\ \A d \in Classes : d # c => m[d] = methods[d]
  BY <1>1
<1> HIDE DEF m
<1>5. \A x : x # n => Same(methods, m, c, x)
  BY <1>3, <1>4 DEF Same
<1>6. \A d \in Classes : \A x \in DOMAIN m[d] : x \in DOMAIN methods[d] /\ m[d][x] = methods[d][x]
  BY <1>3, <1>4
<1>7. TablesTyped(m) /\ HashesDistinct(base, m)
  BY <1>2, <1>6 DEF TablesTyped, HashesDistinct
<1>8. QED
  BY <1>0, <1>1, <1>4, <1>5, <1>7, ChangeRight DEF SInv

\* A new class, whose table may have one attribute.
LEMMA NewClassRight ==
  ASSUME IInv, SInv, NEW c \in Classes, NEW b \in Live, NEW ns, NewClass(c, b, ns),
         \A n \in DOMAIN ns : ns[n] \in Values,
         "__hash__" \in DOMAIN ns => \A d \in Live : "__hash__" \in DOMAIN methods[d] => methods[d]["__hash__"] # ns["__hash__"]
  PROVE  SInv' /\ methods' = Hashed(base', [methods EXCEPT ![c] = ns], {c})
<1> DEFINE m == [methods EXCEPT ![c] = ns]
           S == {c}
<1>1. /\ Hierarchy(base) /\ base \in [Classes -> Classes \union {Null}] /\ methods = [d \in Classes |-> methods[d]]
      /\ TablesTyped(methods) /\ SlotsFit(base, methods, slots)
      /\ HashesSettled(base, methods) /\ HashesDistinct(base, methods)
  BY DEF IInv, SInv, Hierarchy
<1>2. /\ b \in Classes /\ Alive(base, b) /\ ~ Alive(base, c) /\ base' = [base EXCEPT ![c] = b]
      /\ Finalize(m, S, Finalized(base', m, S, c))
  BY DEF NewClass, Live, Alive
<1>3. Hierarchy(base')
  <2>1. IInv'
    BY <1>2, NewClassKeeps
  <2>2. QED
    BY <2>1 DEF IInv
<1>4. base'[c] = b /\ (\A d \in Classes : d # c => base'[d] = base[d]) /\ b # c /\ b # Null
  BY <1>1, <1>2, NullAssumption DEF Alive
<1>5. m[c] = ns /\ \A d \in Classes : d # c => m[d] = methods[d]
  BY <1>1
<1> HIDE DEF m
<1>6. ASSUME NEW d \in Classes, Alive(base, d)
      PROVE  /\ d # c
             /\ \A e \in Ups(base, d) : e \in Classes /\ e # c
             /\ Ups(base', d) = Ups(base, d)
             /\ \A n : /\ Looked(base', m, d, n) = Looked(base, methods, d, n)
                      /\ Method(base', m, d, n) = Method(base, methods, d, n)
                      /\ Looked(base, m, d, n) = Looked(base, methods, d, n)
  <2>1. \A e \in Ups(base, d) : e \in Classes /\ e # c
    BY <1>1, <1>2, <1>6, UpsSelf, UpsLive DEF Alive
  <2>2. \A e \in Ups(base, d) : base'[e] = base[e] /\ \A n : Same(methods, m, e, n)
    BY <1>4, <1>5, <2>1 DEF Same
  <2>3. Ups(base', d) = Ups(base, d)
    BY <1>1, <1>3, <2>2, UpsSame
  <2>4. \A n : Looked(base, m, d, n) = Looked(base, methods, d, n) /\ Method(base, m, d, n) = Method(base, methods, d, n)
    BY <1>1, <2>2, LookedSame
  <2>5. \A n : Looked(base', m, d, n) = Looked(base, m, d, n) /\ Method(base', m, d, n) = Method(base, m, d, n)
    BY <1>1, <1>3, <2>2, LookedSameBases
  <2>6. QED
    BY <1>2, <1>6, <2>1, <2>3, <2>4, <2>5
<1>7. \A d \in Classes : Alive(base', d) <=> d = c \/ Alive(base, d)
  BY <1>2, <1>4 DEF Alive
<1>8. TablesTyped(m)
  BY <1>1, <1>5 DEF TablesTyped
<1>9. HashesDistinct(base', m)
  <2>1. \A d \in Classes : d \in Live <=> Alive(base, d)
    BY DEF Live, Alive
  <2>2. QED
    BY <1>1, <1>5, <1>7, <2>1 DEF HashesDistinct
<1>10. \A d \in S : Alive(base', d) /\ (d # c => base'[d] \in S)
  BY <1>7
<1>11. base'[c] # Null => /\ base'[c] \notin S
                          /\ \A s \in Specials : Definition(m, base'[c], s) = Looked(base', m, base'[c], s)
  <2>1. \A s : Definition(m, b, s) = Looked(base, m, b, s)
    BY <1>2, OwnerIs DEF Definition, Looked
  <2>2. \A s : Looked(base', m, b, s) = Looked(base, m, b, s)
    BY <1>2, <1>6
  <2>3. b \notin S
    BY <1>4
  <2> HIDE DEF S
  <2>4. QED
    BY <1>4, <2>1, <2>2, <2>3
<1>12. ASSUME NEW d \in Classes \ S, Alive(base', d)
       PROVE  /\ \A e \in Ups(base', d) : e \notin S
              /\ \A s \in Specials : slots[d][s] = Method(base', m, d, s)
              /\ base'[d] # Null /\ OtherEqual(base', m, d) => "__hash__" \in DOMAIN m[d]
  <2>1. Alive(base, d)
    BY <1>7, <1>12
  <2>2. \A e \in Ups(base', d) : e \notin S
    BY <1>6, <2>1
  <2>3. \A s \in Specials : slots[d][s] = Method(base', m, d, s)
    BY <1>1, <1>6, <2>1 DEF SlotsFit
  <2>4. ASSUME base'[d] # Null, OtherEqual(base', m, d)
        PROVE  "__hash__" \in DOMAIN m[d]
    <3>1. base'[d] = base[d] /\ base[d] \in Classes /\ Alive(base, base[d])
      BY <1>1, <1>4, <1>12, <2>4 DEF Hierarchy, Alive
    <3>2. OtherEqual(base, methods, d)
      BY <1>6, <2>1, <2>4, <3>1 DEF OtherEqual
    <3>3. QED
      BY <1>1, <1>5, <1>12, <2>4, <3>1, <3>2 DEF HashesSettled
  <2>5. QED
    BY <2>2, <2>3, <2>4
<1>13. S \subseteq Classes /\ c \in S
  OBVIOUS
<1> HIDE DEF S, m
<1>14. /\ methods' = Hashed(base', m, S)
       /\ TablesTyped(methods') /\ SlotsFit(base', methods', slots')
       /\ HashesSettled(base', methods') /\ HashesDistinct(base', methods')
  <2>1. Finalize(m, S, Finalized(base', m, S, c))
    BY <1>2
  <2>2. \A d \in Classes \ S : Alive(base', d) =>
          /\ \A e \in Ups(base', d) : e \notin S
          /\ \A s \in Specials : slots[d][s] = Method(base', m, d, s)
          /\ base'[d] # Null /\ OtherEqual(base', m, d) => "__hash__" \in DOMAIN m[d]
    BY <1>12
  <2>3. QED
    BY <1>3, <1>8, <1>9, <1>10, <1>11, <1>13, <2>1, <2>2, FinalizeRight
<1>15. QED
  BY <1>14 DEF SInv, S, m

\* A class that is freed has none below it.
LEMMA FreeClassRight ==
  ASSUME IInv, SInv, NEW c \in Classes, FreeClass(c)
  PROVE  SInv'
<1>1. /\ Hierarchy(base) /\ base \in [Classes -> Classes \union {Null}] /\ methods = [d \in Classes |-> methods[d]]
      /\ TablesTyped(methods) /\ SlotsFit(base, methods, slots)
      /\ HashesSettled(base, methods) /\ HashesDistinct(base, methods)
  BY DEF IInv, SInv, Hierarchy
<1>2. /\ c # Object /\ Below(c) = {c} /\ base' = [base EXCEPT ![c] = Null]
      /\ methods' = [methods EXCEPT ![c] = <<>>]
      /\ slots' = [slots EXCEPT ![c] = [s \in Specials |-> Null]]
  BY DEF FreeClass
<1>3. Hierarchy(base')
  BY FreeClassKeeps DEF IInv
<1>4. /\ base'[c] = Null /\ \A d \in Classes : d # c => base'[d] = base[d] /\ methods'[d] = methods[d]
      /\ methods'[c] = <<>> /\ DOMAIN <<>> = {}
  BY <1>1, <1>2
<1>5. \A d \in Classes : d # c => slots'[d] = slots[d]
  BY <1>2
<1>6. ASSUME NEW d \in Classes, Alive(base', d)
      PROVE  /\ d # c /\ Alive(base, d)
             /\ base[d] # Null => base[d] \in Classes /\ Alive(base', base[d])
             /\ \A n : Method(base', methods', d, n) = Method(base, methods, d, n)
  <2>1. d # c /\ Alive(base, d)
    BY <1>2, <1>4, <1>6 DEF Alive
  <2>2. \A e \in Ups(base, d) : e \in Classes /\ e # c
    <3>1. d \notin Below(c)
      BY <1>2, <2>1
    <3>2. d \in Live /\ Above(d) = Ups(base, d)
      BY <2>1, AboveIs DEF Live, Alive
    <3>3. QED
      BY <1>1, <3>1, <3>2, UpsSelf DEF Below
  <2>3. \A e \in Ups(base, d) : base'[e] = base[e] /\ \A n : Same(methods, methods', e, n)
    BY <1>4, <2>2 DEF Same
  <2>4. \A n : Method(base, methods', d, n) = Method(base, methods, d, n)
    BY <1>1, <2>3, LookedSame
  <2>5. \A n : Method(base', methods', d, n) = Method(base, methods', d, n)
    BY <1>1, <1>3, <2>3, LookedSameBases
  <2>6. base[d] # Null => base[d] \in Classes /\ base[d] # c /\ Alive(base, base[d])
    BY <1>1, <2>2, UpsAre, UpsSelf DEF Hierarchy, Alive
  <2>7. QED
    BY <1>4, <2>1, <2>4, <2>5, <2>6 DEF Alive
<1>7. TablesTyped(methods') /\ HashesDistinct(base', methods')
  BY <1>1, <1>4, <1>6 DEF TablesTyped, HashesDistinct
<1>8. SlotsFit(base', methods', slots')
  BY <1>1, <1>5, <1>6 DEF SlotsFit
<1>9. HashesSettled(base', methods')
  <2>1. SUFFICES ASSUME NEW d \in Classes, base'[d] # Null, OtherEqual(base', methods', d)
                 PROVE  "__hash__" \in DOMAIN methods'[d]
    BY DEF HashesSettled
  <2>2. Alive(base', d)
    BY <2>1 DEF Alive
  <2>3. base'[d] = base[d] /\ base[d] \in Classes /\ Alive(base', base[d])
    BY <1>4, <1>6, <2>1, <2>2
  <2>4. OtherEqual(base, methods, d)
    BY <1>6, <2>1, <2>2, <2>3 DEF OtherEqual
  <2>5. QED
    BY <1>1, <1>4, <1>6, <2>1, <2>2, <2>3, <2>4 DEF HashesSettled
<1>10. QED
  BY <1>7, <1>8, <1>9 DEF SInv

\* object is above every class.
LEMMA UpsObject ==
  ASSUME NEW up, Hierarchy(up), NEW c \in Classes, Alive(up, c)
  PROVE  Object \in Ups(up, c)
<1> DEFINE T == {d \in Classes : Alive(up, d) /\ Object \notin Ups(up, d)}
<1>1. SUFFICES ASSUME T # {} PROVE FALSE
  BY <1>1
<1>2. PICK d \in T : up[d] \notin T
  BY <1>1, Lowest
<1>3. d # Object
  BY <1>2, UpsSelf
<1>4. up[d] # Null /\ up[d] \in Classes /\ Ups(up, d) = {d} \union Ups(up, up[d])
  BY <1>2, <1>3, UpsAre DEF Alive
<1>5. Alive(up, up[d])
  BY <1>2, <1>4 DEF Hierarchy, Alive
<1>6. QED
  BY <1>2, <1>4, <1>5

LEMMA InitRight == ASSUME Init PROVE SInv
<1>1. IInv /\ Hierarchy(base)
  BY InitInv DEF IInv
<1>2. methods = [c \in Classes |-> IF c = Object THEN ObjectTable ELSE <<>>] /\ Object \in Classes /\ DOMAIN <<>> = {}
  BY ClassAssumption DEF Init
<1>3. methods[Object] = ObjectTable /\ \A c \in Classes : c # Object => DOMAIN methods[c] = {}
  BY <1>2
<1>4. TablesTyped(methods)
  BY <1>3, ObjectAssumption DEF TablesTyped
<1>5. ASSUME NEW c \in Classes, Alive(base, c), NEW s
      PROVE  Method(base, methods, c, s) = IF s \in DOMAIN ObjectTable THEN Fitting(s, ObjectTable[s]) ELSE Null
  <2>1. Finds(base, methods, c, s, OwnerIn(base, methods, c, s))
    BY <1>1, OwnerFinds
  <2>2. Object \in Ups(base, c)
    BY <1>1, <1>5, UpsObject
  <2>3. CASE s \in DOMAIN ObjectTable
    <3>1. OwnerIn(base, methods, c, s) = Object
      BY <1>3, <2>1, <2>2, <2>3 DEF Finds
    <3>2. Object # Null
      BY <1>2, NullAssumption
    <3>3. QED
      BY <1>3, <2>3, <3>1, <3>2 DEF Method, Looked, Valued
  <2>4. CASE s \notin DOMAIN ObjectTable
    <3>1. OwnerIn(base, methods, c, s) = Null
      BY <1>3, <2>1, <2>4 DEF Finds
    <3>2. QED
      BY <2>4, <3>1 DEF Method, Looked, Valued, Fitting, Fits, IsFunction
  <2>5. QED
    BY <2>3, <2>4
<1>6. SlotsFit(base, methods, slots)
  <2>1. ASSUME NEW c \in Classes, Alive(base, c), NEW s \in Specials
        PROVE  slots[c][s] = Method(base, methods, c, s)
    <3>1. slots[c][s] = IF c \in Live /\ s \in DOMAIN ObjectTable /\ Fits(s, ObjectTable[s]) THEN ObjectTable[s] ELSE Null
      BY DEF Init
    <3>2. c \in Live
      BY <2>1 DEF Alive, Live
    <3>3. QED
      BY <1>5, <2>1, <3>1, <3>2 DEF Fitting
  <2>2. QED
    BY <2>1 DEF SlotsFit
<1>7. HashesSettled(base, methods)
  <2>1. SUFFICES ASSUME NEW d \in Classes, base[d] # Null PROVE ~ OtherEqual(base, methods, d)
    BY DEF HashesSettled
  <2>2. base[d] \in Classes /\ Alive(base, base[d]) /\ Alive(base, d)
    BY <1>1, <2>1 DEF Hierarchy, Alive
  <2>3. QED
    BY <1>5, <2>2 DEF OtherEqual
<1>8. HashesDistinct(base, methods)
  BY <1>3 DEF HashesDistinct
<1>9. QED
  BY <1>4, <1>6, <1>7, <1>8 DEF SInv

LEMMA ClassesSame ==
  ASSUME SInv, UNCHANGED classVars
  PROVE  SInv'
BY DEF SInv, classVars

\* What a program defines with a new class.
LEMMA NewClassOf ==
  ASSUME Unshared, IInv, NEW ns, ns = <<>> \/ \E p \in Assigned : ns = With(<<>>, p.name, p.value)
  PROVE  /\ \A n \in DOMAIN ns : n \in Names /\ ns[n] \in Values
         /\ "__hash__" \in DOMAIN ns =>
              \A d \in Live : "__hash__" \in DOMAIN methods[d] => methods[d]["__hash__"] # ns["__hash__"]
<1>1. DOMAIN <<>> = {}
  OBVIOUS
<1>2. CASE ns = <<>>
  BY <1>1, <1>2
<1>3. ASSUME NEW p \in Assigned, ns = With(<<>>, p.name, p.value)
      PROVE  /\ \A n \in DOMAIN ns : n \in Names /\ ns[n] \in Values
             /\ "__hash__" \in DOMAIN ns =>
                  \A d \in Live : "__hash__" \in DOMAIN methods[d] => methods[d]["__hash__"] # ns["__hash__"]
  <2>1. DOMAIN ns = {p.name} /\ ns[p.name] = p.value
    BY <1>1, <1>3 DEF With
  <2>2. QED
    BY <2>1, AssignedIs
<1>4. QED
  BY <1>2, <1>3

LEMMA NextRight == ASSUME Unshared, IInv, SInv, [Next]_vars PROVE SInv'
<1>1. \A c \in Live : c \in Classes
  BY DEF Live
<1>2. ASSUME NEW p \in Assigned, NEW i \in program.instances, SetAttribute(i, p.name, p.value)
      PROVE  SInv'
  BY <1>2, ClassesSame DEF SetAttribute
<1>3. ASSUME NEW p \in Assigned, NEW c \in Live, SetClassAttribute(c, p.name, p.value)
      PROVE  SInv'
  BY <1>3, SetClassAttributeRight
<1>4. ASSUME NEW c \in Live, NEW n \in Known, DelClassAttribute(c, n)
      PROVE  SInv'
  BY <1>4, DelClassAttributeRight
<1>5. ASSUME NEW c \in Classes, NEW b \in Live, NEW ns, NewClass(c, b, ns),
             ns = <<>> \/ \E p \in Assigned : ns = With(<<>>, p.name, p.value)
      PROVE  SInv'
  BY <1>5, NewClassOf, NewClassRight
<1>6. ASSUME NEW c \in Classes, FreeClass(c)
      PROVE  SInv'
  BY <1>6, FreeClassRight
<1>7. ASSUME NEW i \in program.instances, FreeInstance(i) \/ \E c \in Live : Instantiate(i, c) \/ SetClass(i, c)
      PROVE  SInv'
  BY <1>7, ClassesSame DEF FreeInstance, Instantiate, SetClass
<1>8. CASE UNCHANGED vars
  BY <1>8, ClassesSame DEF vars, classVars
<1>9. ASSUME NEW c \in Classes, NEW b \in Live,
              NewClass(c, b, <<>>) \/ \E p \in Assigned : Room /\ NewClass(c, b, With(<<>>, p.name, p.value))
       PROVE  SInv'
  BY <1>5, <1>9
<1>10. CASE Next
  <2>1. CASE \E n \in program.reads :
               \/ GetClassAttribute(n)
               \/ \E i \in program.instances : GetAttribute(i, n) \/ DelAttribute(i, n)
               \/ \E c \in Live : GetSuper(c, n)
               \/ \E a \in Addresses : MoveName(n, a)
    <3>1. UNCHANGED classVars
      BY <2>1 DEF GetClassAttribute, GetAttribute, DelAttribute, GetSuper, MoveName, Get
    <3>2. QED
      BY <3>1, ClassesSame
  <2>2. CASE \E p \in Assigned :
               \/ \E i \in program.instances : SetAttribute(i, p.name, p.value)
               \/ \E c \in Live : SetClassAttribute(c, p.name, p.value)
    BY <1>2, <1>3, <2>2
  <2>3. CASE \E c \in Live, n \in Known : DelClassAttribute(c, n)
    BY <1>4, <2>3
  <2>4. CASE \E c \in Classes : \E b \in Live \intersect program.bases[c] :
               \/ NewClass(c, b, <<>>)
               \/ \E p \in Assigned : Room /\ NewClass(c, b, With(<<>>, p.name, p.value))
    BY <1>9, <2>4
  <2>5. CASE \E c \in Classes : program.bases[c] # {} /\ FreeClass(c)
    BY <1>6, <2>5
  <2>6. CASE \E i \in program.instances :
               FreeInstance(i) \/ \E c \in Live : Instantiate(i, c) \/ SetClass(i, c)
    BY <1>7, <2>6
  <2>7. QED
    BY <1>10, <2>1, <2>2, <2>3, <2>4, <2>5, <2>6 DEF Next
<1>11. QED
  BY <1>8, <1>10

\* The tables, the slots and the cache stay right together: each slot is what
\* lookup along the bases finds and krk_finalizeClass accepts, and a class with
\* another __eq__ than its base has a __hash__ of its own, if only None.
THEOREM SlotInvariance == ASSUME Unshared PROVE Spec => [](IInv /\ SInv)
<1>1. Init => IInv /\ SInv
  BY InitInv, InitRight
<1>2. IInv /\ SInv /\ [Next]_vars => (IInv /\ SInv)'
  BY NextInv, NextRight
<1>3. QED
  BY <1>1, <1>2, PTL DEF Spec

LEMMA EqualSettled ==
  ASSUME IInv, SInv
  PROVE  EqualNeedsHash
<1> DEFINE h == "__hash__"
<1>1. /\ Hierarchy(base) /\ SlotsFit(base, methods, slots) /\ HashesSettled(base, methods)
      /\ {"__eq__", h} \subseteq Specials
  BY NameAssumption DEF IInv, SInv
<1>2. SUFFICES ASSUME NEW c \in Live, slots[c][h] # Null
               PROVE  slots[c]["__eq__"] = slots[Owner(methods, c, h)]["__eq__"]
  BY DEF EqualNeedsHash
<1>3. c \in Classes /\ Alive(base, c)
  BY DEF Live, Alive
<1> DEFINE o == OwnerIn(base, methods, c, h)
<1>4. Owner(methods, c, h) = o
  BY <1>3, OwnerIs
<1>5. Method(base, methods, c, h) # Null
  BY <1>1, <1>2, <1>3 DEF SlotsFit
<1>6. o # Null
  BY <1>5 DEF Method, Looked, Valued, Fitting, Fits, IsFunction
<1>7. Finds(base, methods, c, h, o)
  BY <1>1, <1>3, OwnerFinds
<1>8. o \in Classes /\ o \in Ups(base, c)
  BY <1>6, <1>7 DEF Finds, OnPath
<1>9. Alive(base, o)
  BY <1>1, <1>3, <1>8, UpsLive DEF Alive
<1>10. Method(base, methods, c, "__eq__") = Method(base, methods, o, "__eq__")
  <2> DEFINE T == {d \in Classes : /\ OwnerIn(base, methods, d, h) = o
                                   /\ Method(base, methods, d, "__eq__") # Method(base, methods, o, "__eq__")}
  <2>1. SUFFICES ASSUME T # {} PROVE FALSE
    BY <1>3, <2>1
  <2>2. PICK d \in T : base[d] \notin T
    <3>1. T \subseteq Classes
      OBVIOUS
    <3> HIDE DEF T
    <3>2. QED
      BY <1>1, <2>1, <3>1, Lowest
  <2>3. d \in Classes /\ OwnerIn(base, methods, d, h) = o /\ d # o
        /\ Method(base, methods, d, "__eq__") # Method(base, methods, o, "__eq__")
    BY <2>2
  <2> HIDE DEF o
  <2>4. h \notin DOMAIN methods[d] /\ base[d] # Null /\ OwnerIn(base, methods, base[d], h) = o
    BY <1>1, <1>6, <2>3, OwnerAre
  <2>5. base[d] \in Classes
    BY <1>1, <2>4 DEF Hierarchy
  <2>6. ~ OtherEqual(base, methods, d)
    BY <1>1, <2>3, <2>4 DEF HashesSettled
  <2>7. QED
    BY <2>2, <2>3, <2>4, <2>5, <2>6 DEF OtherEqual
<1> HIDE DEF o
<1>11. QED
  BY <1>1, <1>3, <1>4, <1>8, <1>9, <1>10 DEF SlotsFit

\* A hashable class compares by the __eq__ that its __hash__ was made for, in
\* whatever order the two are assigned and deleted along the bases, for any classes
\* and any programs that share no __hash__ (krk_finalizeClass).
THEOREM EqualHashed == ASSUME Unshared PROVE Spec => []EqualNeedsHash
<1>1. IInv /\ SInv => EqualNeedsHash
  BY EqualSettled
<1>2. QED
  BY <1>1, SlotInvariance, PTL

-----------------------------------------------------------------------------
(* What plain lookup gives.                                                *)

LEMMA AncestorsAre ==
  ASSUME Hierarchy(base), NEW c \in Classes
  PROVE  Reference!Ancestors(c) = Ups(base, c)
<1> DEFINE Is(f) == f = [d \in Classes |-> {d} \union (IF base[d] = Null THEN {} ELSE f[base[d]])]
           h == CHOOSE f : Is(f)
<1>1. Reference!Ancestors(c) = h[c]
  BY DEF Reference!Ancestors
<1>2. \E f : Is(f)
  <2>1. PICK f : f = [d \in Classes |-> IF base[d] = Null THEN {d} ELSE {d} \union f[base[d]]]
    BY UpsFunction
  <2>2. \A d \in Classes : (IF base[d] = Null THEN {d} ELSE {d} \union f[base[d]])
                           = {d} \union (IF base[d] = Null THEN {} ELSE f[base[d]])
    OBVIOUS
  <2>3. QED
    BY <2>1, <2>2
<1>3. Is(h)
  <2> HIDE DEF Is
  <2> QED
    BY <1>2
<1> HIDE DEF h
<1> DEFINE T == {d \in Classes : h[d] # Ups(base, d)}
<1>4. SUFFICES ASSUME T # {} PROVE FALSE
  BY <1>1, <1>4
<1>5. PICK d \in T : base[d] \notin T
  BY <1>4, Lowest
<1>6. h[d] = {d} \union (IF base[d] = Null THEN {} ELSE h[base[d]])
  BY <1>3, <1>5
<1>7. base[d] # Null => base[d] \in Classes /\ h[base[d]] = Ups(base, base[d])
  BY <1>5 DEF Hierarchy
<1>8. QED
  BY <1>5, <1>6, <1>7, UpsAre

LEMMA BelowAre ==
  ASSUME Hierarchy(base), NEW c \in Classes
  PROVE  Reference!Descendants(c) = Below(c) /\ Reference!Exists = Live
BY AncestorsAre, AboveIs DEF Reference!Descendants, Reference!Exists, Below, Live

LEMMA SpecialIs ==
  ASSUME NEW up, NEW m, NEW c \in Classes, NEW s
  PROVE  Reference!Lookup(up, m, c, s) = Looked(up, m, c, s) /\ Reference!SpecialOf(up, m, c, s) = Method(up, m, c, s)
<1>1. Reference!Nearest(up, m, c, s) = OwnerIn(up, m, c, s)
  BY DEF Reference!Nearest, OwnerIn
<1>2. Reference!Lookup(up, m, c, s) = Looked(up, m, c, s)
  BY <1>1 DEF Reference!Lookup, Reference!Entry, Looked, Valued
<1>3. QED
  BY <1>2 DEF Reference!SpecialOf, Reference!Callable, Method, Fitting, Fits, IsFunction

LEMMA HashingIs ==
  ASSUME NEW up, Hierarchy(up), NEW m, NEW S
  PROVE  Reference!Hashing(up, m, S) = Hashed(up, m, S)
<1>1. ASSUME NEW d \in Classes
      PROVE  (/\ d \in S /\ up[d] # Null
              /\ Reference!SpecialOf(up, m, d, "__eq__") # Reference!SpecialOf(up, m, up[d], "__eq__")
              /\ "__hash__" \notin DOMAIN m[d])
             <=> (d \in S /\ up[d] # Null /\ OtherEqual(up, m, d) /\ "__hash__" \notin DOMAIN m[d])
  <2>1. up[d] # Null => up[d] \in Classes
    BY DEF Hierarchy
  <2>2. QED
    BY <2>1, SpecialIs DEF OtherEqual
<1>2. \A d \in Classes : Reference!With(m[d], "__hash__", NoHash) = With(m[d], "__hash__", NoHash)
  BY DEF Reference!With, With
<1>3. QED
  BY <1>1, <1>2 DEF Reference!Hashing, Hashed

LEMMA HashedStays ==
  ASSUME SInv, IInv, NEW S
  PROVE  Hashed(base, methods, S) = methods
<1>1. \A d \in Classes : Hashed(base, methods, S)[d] = methods[d]
  BY HashedIs DEF HashesSettled, SInv
<1>2. Hashed(base, methods, S) = [d \in Classes |-> Hashed(base, methods, S)[d]] /\ methods = [d \in Classes |-> methods[d]]
  BY DEF Hashed, IInv
<1>3. QED
  BY <1>1, <1>2

LEMMA AttributeIs ==
  ASSUME IInv, SInv, NEW c \in Classes, NEW n
  PROVE  /\ Reference!Attribute(c, n) = Looked(base, methods, c, n)
         /\ Looked(base, methods, c, n) # Null => Looked(base, methods, c, n) \in Values
         /\ OwnerIn(base, methods, c, n) # Null <=> Looked(base, methods, c, n) # Null
<1>1. Finds(base, methods, c, n, OwnerIn(base, methods, c, n))
  BY OwnerFinds DEF IInv
<1>2. OwnerIn(base, methods, c, n) # Null => Looked(base, methods, c, n) \in Values
  BY <1>1 DEF Finds, Looked, Valued, SInv, TablesTyped
<1>3. Null \notin Values
  BY NullAssumption
<1>4. QED
  BY <1>2, <1>3, SpecialIs DEF Reference!Attribute, Looked, Valued

\* The cache gives what lookup gives, and a special method is in its slot.
LEMMA CachedIsLooked ==
  ASSUME IInv, SInv, NEW c \in Classes, NEW n \in Names
  PROVE  /\ Cached(c, n).value = Reference!Attribute(c, n)
         /\ Cached(c, n).owner # Null <=> Reference!Attribute(c, n) # Null
<1>1. LookupRight(c, n)
  BY Lookup
<1>2. QED
  BY <1>1, AttributeIs DEF LookupRight, Looked

LEMMA SlotIs ==
  ASSUME IInv, SInv, NEW c \in Classes, Alive(base, c), NEW s \in Specials
  PROVE  slots[c][s] = Reference!Special(c, s)
BY SpecialIs DEF SInv, SlotsFit, Reference!Special

-----------------------------------------------------------------------------
(* Each step is one of Attributes, or changes nothing there.               *)

LEMMA KeepsIs ==
  ASSUME IInv, SInv, NEW c \in Classes, Alive(base, c), NEW n \in Names, slots[c]["__setattr__"] = Null
  PROVE  Reference!Keeps(c, n) <=> ~ (Cached(c, n).owner # Null /\ HasSet(Cached(c, n).value))
<1>1. "__setattr__" \in Specials
  BY NameAssumption
<1>2. Reference!Special(c, "__setattr__") = Null
  BY <1>1, SlotIs
<1>3. /\ Cached(c, n).value = Reference!Attribute(c, n)
      /\ Cached(c, n).owner # Null <=> Reference!Attribute(c, n) # Null
  BY CachedIsLooked
<1>4. QED
  BY <1>2, <1>3 DEF Reference!Keeps, HasSet

LEMMA SetAttributeIs ==
  ASSUME IInv, SInv, NEW i \in Instances, NEW n \in Names, NEW v \in Values, SetAttribute(i, n, v)
  PROVE  [Reference!Next]_(Reference!vars)
<1> DEFINE of == class[i]
           descriptor == Cached(of, n).owner # Null /\ HasSet(Cached(of, n).value)
<1>1. /\ of # Null /\ slots[of]["__setattr__"] = Null /\ UNCHANGED <<base, methods, class>>
      /\ IF descriptor THEN UNCHANGED fields ELSE fields' = [fields EXCEPT ![i] = With(@, n, v)]
  BY DEF SetAttribute, classVars
<1>2. of \in Classes /\ Alive(base, of)
  BY <1>1 DEF IInv, Alive
<1>3. CASE descriptor
  BY <1>1, <1>3 DEF Reference!vars
<1>4. CASE ~ descriptor
  <2>1. Reference!Keeps(of, n)
    BY <1>1, <1>2, <1>4, KeepsIs
  <2>2. fields' = [fields EXCEPT ![i] = Reference!With(@, n, v)]
    BY <1>1, <1>4 DEF With, Reference!With
  <2>3. Reference!SetInstance(i, n, v)
    BY <1>1, <2>1, <2>2 DEF Reference!SetInstance
  <2>4. QED
    BY <1>1, <2>3 DEF Reference!Next
<1>5. QED
  BY <1>3, <1>4

LEMMA SetClassAttributeIs ==
  ASSUME Unshared, IInv, SInv, NEW c \in Live, NEW p \in Assigned, SetClassAttribute(c, p.name, p.value)
  PROVE  [Reference!Next]_(Reference!vars)
<1> DEFINE n == p.name
           v == p.value
           descriptor == Cached(Type, n).owner # Null /\ HasSet(Cached(Type, n).value)
<1>1. /\ slots[Type]["__setattr__"] = Null /\ UNCHANGED <<base, class, fields>>
      /\ methods' = Hashed(base, AfterSet(c, n, v), Below(c))
  BY SetClassAttributeRight DEF SetClassAttribute, instanceVars
<1>2. n \in Names /\ v \in Values /\ c \in Classes
  BY AssignedIs DEF Live
<1>3. Hierarchy(base) /\ Type \in Classes /\ Alive(base, Type) /\ methods = [d \in Classes |-> methods[d]]
  BY ClassAssumption DEF IInv, Alive
<1> HIDE DEF n, v
<1>4. CASE descriptor
  <2>1. methods' = methods
    BY <1>1, <1>4, HashedStays DEF AfterSet
  <2>2. QED
    BY <1>1, <2>1 DEF Reference!vars
<1>5. CASE ~ descriptor
  <2> DEFINE m == [methods EXCEPT ![c] = With(@, n, v)]
             r == [methods EXCEPT ![c] = Reference!With(@, n, v)]
  <2>1. methods' = Hashed(base, m, Below(c))
    BY <1>1, <1>5 DEF AfterSet
  <2>2. m = r
    BY DEF With, Reference!With
  <2>3. n \in DOMAIN m[c] /\ m[c][n] = v
    <3>1. m[c] = With(methods[c], n, v)
      BY <1>2, <1>3
    <3>2. QED
      BY <3>1 DEF With
  <2>4. n \in DOMAIN methods'[c] /\ methods'[c][n] = v
    <3> HIDE DEF m
    <3>1. "__hash__" \in DOMAIN m[c] => Hashed(base, m, Below(c))[c] = m[c]
      BY <1>2, HashedIs
    <3>2. n # "__hash__" => Same(m, Hashed(base, m, Below(c)), c, n)
      BY <1>2, HashedIs
    <3>3. QED
      BY <2>1, <2>3, <3>1, <3>2 DEF Same
  <2>5. Reference!Changed(r, c)
    BY <1>2, <1>3, <2>1, <2>2, BelowAre, HashingIs DEF Reference!Changed
  <2>6. Reference!Keeps(Type, n)
    BY <1>1, <1>2, <1>3, <1>5, KeepsIs
  <2>7. Reference!SetClass(c, n, v)
    BY <2>4, <2>5, <2>6 DEF Reference!SetClass
  <2>8. c \in Reference!Exists
    BY <1>3, <1>2, BelowAre
  <2>9. QED
    BY <1>1, <1>2, <2>7, <2>8 DEF Reference!Next
<1>6. QED
  BY <1>4, <1>5

LEMMA DelClassAttributeIs ==
  ASSUME IInv, SInv, NEW c \in Live, NEW n \in Names, DelClassAttribute(c, n)
  PROVE  [Reference!Next]_(Reference!vars)
<1>1. /\ n \in DOMAIN methods[c] /\ UNCHANGED <<base, class, fields>>
      /\ methods' = Hashed(base, [methods EXCEPT ![c] = Without(@, n)], Below(c))
  BY DelClassAttributeRight DEF DelClassAttribute, instanceVars
<1>2. Hierarchy(base) /\ c \in Classes
  BY DEF IInv, Live
<1>3. [methods EXCEPT ![c] = Without(@, n)] = [methods EXCEPT ![c] = Reference!Without(@, n)]
  BY DEF Without, Reference!Without
<1>4. Reference!DeleteClass(c, n)
  BY <1>1, <1>2, <1>3, BelowAre, HashingIs DEF Reference!DeleteClass, Reference!Changed
<1>5. c \in Reference!Exists
  BY <1>2, BelowAre
<1>6. QED
  BY <1>1, <1>4, <1>5 DEF Reference!Next

LEMMA NewClassIs ==
  ASSUME Unshared, IInv, SInv, NEW c \in Classes, NEW b \in Live, NEW ns, NewClass(c, b, ns),
         ns = <<>> \/ \E p \in Assigned : ns = With(<<>>, p.name, p.value)
  PROVE  [Reference!Next]_(Reference!vars)
<1>1. /\ c \notin Live /\ base' = [base EXCEPT ![c] = b] /\ UNCHANGED <<class, fields>>
  BY DEF NewClass, instanceVars
<1>2. methods' = Hashed(base', [methods EXCEPT ![c] = ns], {c})
  BY NewClassOf, NewClassRight
<1>3. b \in Classes
  BY DEF Live
<1>4. Hierarchy(base')
  <2>1. IInv'
    BY <1>3, NewClassKeeps
  <2>2. QED
    BY <2>1 DEF IInv
<1>5. methods' = Reference!Hashing(base', [methods EXCEPT ![c] = ns], {c})
  BY <1>2, <1>4, HashingIs
<1>6. ns \in Reference!Bodies
  <2>1. ASSUME NEW p \in Assigned, ns = With(<<>>, p.name, p.value)
        PROVE  ns \in {Reference!With(<<>>, n, v) : n \in Names, v \in Values}
    <3>1. ns = Reference!With(<<>>, p.name, p.value)
      BY <2>1 DEF With, Reference!With
    <3>2. p.name \in Names /\ p.value \in Values
      BY AssignedIs
    <3>3. QED
      BY <3>1, <3>2
  <2>2. QED
    BY <2>1 DEF Reference!Bodies
<1>7. Reference!NewClass(c, b, ns)
  BY <1>1, <1>5 DEF Reference!NewClass, Reference!Exists, Live
<1>8. b \in Reference!Exists
  BY DEF Reference!Exists, Live
<1>9. QED
  BY <1>1, <1>6, <1>7, <1>8 DEF Reference!Next

LEMMA FreeClassIs ==
  ASSUME IInv, NEW c \in Classes, FreeClass(c)
  PROVE  [Reference!Next]_(Reference!vars)
<1>1. /\ c \in Live \ {Object, Type} /\ Below(c) = {c} /\ \A i \in Instances : class[i] # c
      /\ base' = [base EXCEPT ![c] = Null] /\ methods' = [methods EXCEPT ![c] = <<>>]
      /\ UNCHANGED <<class, fields>>
  BY DEF FreeClass, instanceVars
<1>2. Reference!Descendants(c) = Below(c) /\ Reference!Exists = Live
  BY BelowAre DEF IInv
<1>3. Reference!Forget(c)
  BY <1>1, <1>2 DEF Reference!Forget
<1>4. QED
  BY <1>1, <1>3 DEF Reference!Next

LEMMA StepIs == ASSUME Unshared, IInv, SInv, [Next]_vars PROVE [Reference!Next]_(Reference!vars)
<1>1. program.instances \subseteq Instances /\ \A n \in program.reads : n \in Names
  BY ProgramNames
<1>2. \A n \in Known : n \in Names
  BY ProgramAssumption DEF IInv, Known
<1>3. CASE UNCHANGED <<base, methods, class, fields>>
  BY <1>3 DEF Reference!vars
<1>4. ASSUME NEW n \in program.reads, NEW i \in program.instances, DelAttribute(i, n)
      PROVE  [Reference!Next]_(Reference!vars)
  <2>1. UNCHANGED <<base, methods, class>> /\ n \in DOMAIN fields[i] /\ fields' = [fields EXCEPT ![i] = Without(@, n)]
    BY <1>4 DEF DelAttribute, classVars
  <2>2. Reference!DeleteInstance(i, n)
    BY <2>1 DEF Reference!DeleteInstance, Without, Reference!Without
  <2>3. QED
    BY <1>1, <2>1, <2>2 DEF Reference!Next
<1>5. CASE \E n \in program.reads :
               \/ GetClassAttribute(n)
               \/ \E i \in program.instances : GetAttribute(i, n) \/ DelAttribute(i, n)
               \/ \E c \in Live : GetSuper(c, n)
               \/ \E a \in Addresses : MoveName(n, a)
  <2>1. UNCHANGED <<base, methods, class, fields>> \/ \E n \in program.reads, i \in program.instances : DelAttribute(i, n)
    BY <1>5 DEF GetClassAttribute, GetAttribute, GetSuper, MoveName, Get, classVars, instanceVars
  <2>2. QED
    BY <1>3, <1>4, <2>1
<1>6. CASE \E p \in Assigned :
               \/ \E i \in program.instances : SetAttribute(i, p.name, p.value)
               \/ \E c \in Live : SetClassAttribute(c, p.name, p.value)
  <2>1. PICK p \in Assigned : \/ \E i \in program.instances : SetAttribute(i, p.name, p.value)
                             \/ \E c \in Live : SetClassAttribute(c, p.name, p.value)
    BY <1>6
  <2>2. p.name \in Names /\ p.value \in Values
    BY AssignedIs
  <2>3. QED
    BY <1>1, <2>1, <2>2, SetAttributeIs, SetClassAttributeIs
<1>7. CASE \E c \in Live, n \in Known : DelClassAttribute(c, n)
  BY <1>2, <1>7, DelClassAttributeIs
<1>8. CASE \E c \in Classes : \E b \in Live \intersect program.bases[c] :
               \/ NewClass(c, b, <<>>)
               \/ \E p \in Assigned : Room /\ NewClass(c, b, With(<<>>, p.name, p.value))
  <2>1. PICK c \in Classes, b \in Live : \/ NewClass(c, b, <<>>)
                                       \/ \E p \in Assigned : NewClass(c, b, With(<<>>, p.name, p.value))
    BY <1>8
  <2>2. QED
    BY <2>1, NewClassIs
<1>9. CASE \E c \in Classes : program.bases[c] # {} /\ FreeClass(c)
  BY <1>9, FreeClassIs
<1>10. CASE \E i \in program.instances : FreeInstance(i) \/ \E c \in Live : Instantiate(i, c) \/ SetClass(i, c)
  <2>1. PICK i \in program.instances : FreeInstance(i) \/ \E c \in Live : Instantiate(i, c) \/ SetClass(i, c)
    BY <1>10
  <2>2. UNCHANGED <<base, methods>>
    BY <2>1 DEF FreeInstance, Instantiate, SetClass, classVars
  <2>3. CASE FreeInstance(i)
    <3>1. Reference!ForgetInstance(i)
      BY <2>3 DEF FreeInstance, Reference!ForgetInstance
    <3>2. QED
      BY <1>1, <2>2, <3>1 DEF Reference!Next
  <2>4. CASE \E c \in Live : Instantiate(i, c) \/ SetClass(i, c)
    <3>1. PICK c \in Live : Reference!Classify(i, c) /\ UNCHANGED fields
      BY <2>4 DEF Instantiate, SetClass, Reference!Classify
    <3>2. c \in Reference!Exists
      BY DEF Live, Reference!Exists
    <3>3. QED
      BY <1>1, <2>2, <3>1, <3>2 DEF Reference!Next
  <2>5. QED
    BY <2>1, <2>3, <2>4
<1>11. CASE UNCHANGED vars
  BY <1>3, <1>11 DEF vars, classVars, instanceVars
<1>12. QED
  BY <1>5, <1>6, <1>7, <1>8, <1>9, <1>10, <1>11 DEF Next

\* Assignments take effect where Attributes has them take effect, for any classes,
\* names and programs that share no __hash__: neither slots nor cache are seen.
THEOREM AttributesImplemented == ASSUME Unshared PROVE Spec => ImplementsAttributes
<1>1. Init => Reference!Init
  <2>1. SUFFICES ASSUME Init PROVE Reference!Init
    OBVIOUS
  <2>2. base \in [Classes -> Classes \union {Null}]
    <3>1. IInv
      BY <2>1, InitInv
    <3>2. QED
      BY <3>1 DEF IInv, Hierarchy
  <2>3. methods = [c \in Classes |-> IF c = Object THEN ObjectTable ELSE <<>>] /\ DOMAIN <<>> = {}
    BY <2>1 DEF Init
  <2>4. \A c \in Classes : DOMAIN methods[c] \subseteq Names
    BY <2>3, ObjectAssumption
  <2>5. QED
    BY <2>1, <2>2, <2>4 DEF Init, Reference!Init
<1>2. IInv /\ SInv /\ [Next]_vars => [Reference!Next]_(Reference!vars)
  BY StepIs
<1>3. QED
  BY <1>1, <1>2, SlotInvariance, PTL DEF Spec, ImplementsAttributes, Reference!Spec

-----------------------------------------------------------------------------
(* What reads give.                                                        *)

LEMMA BoundIs ==
  ASSUME NEW v \in Values, NEW x, NEW c
  PROVE  Bound(v, x, c) = Reference!Attached(v, x, c)
<1>1. Kind[v] \in Kinds
  BY KindAssumption
<1>2. v # Null
  BY NullAssumption
<1>3. CASE Kind[v] = "classmethod"
  BY <1>2, <1>3 DEF Bound, Reply, IsFunction, HasGet, Reference!Attached, Reference!Answer, Reference!Getter
<1>4. CASE Kind[v] = "function"
  BY <1>2, <1>4 DEF Bound, Reply, IsFunction, HasGet, Reference!Attached, Reference!Answer, Reference!Getter
<1>5. CASE Kind[v] = "static"
  BY <1>2, <1>5 DEF Bound, Reply, IsFunction, HasGet, Reference!Attached, Reference!Answer, Reference!Getter
<1>6. CASE Kind[v] \in {"data", "reader"}
  BY <1>2, <1>6 DEF Bound, Reply, IsFunction, HasGet, Reference!Attached, Reference!Answer, Reference!Getter
<1>7. CASE Kind[v] = "plain"
  BY <1>2, <1>7 DEF Bound, Reply, IsFunction, HasGet, Reference!Attached, Reference!Answer, Reference!Getter
<1>8. QED
  BY <1>1, <1>3, <1>4, <1>5, <1>6, <1>7 DEF Kinds

\* A read where own is what the tables of x itself say.
LEMMA AnsweredIs ==
  ASSUME IInv, SInv, NEW c \in Classes, Alive(base, c), NEW n \in Names, NEW x, NEW own, NEW a, own = {} \/ own = {a}
  PROVE  LET found == Cached(c, n)
             descriptor == found.owner # Null /\ HasSet(found.value)
         IN /\ descriptor => Reference!Answered(x, c, n, own) = Reply("get", found.value, x)
            /\ ~ descriptor /\ own = {a} => Reference!Answered(x, c, n, own) = a
            /\ ~ descriptor /\ own = {} => Reference!Answered(x, c, n, own) = FromClass(x, c, found)
<1> DEFINE v == Reference!Attribute(c, n)
           g == "__getattr__"
<1>1. Cached(c, n).value = v /\ (Cached(c, n).owner # Null <=> v # Null)
  BY CachedIsLooked
<1>2. v # Null => v \in Values
  BY AttributeIs
<1>3. g \in Specials
  BY NameAssumption
<1>4. slots[c][g] = Reference!Special(c, g)
  BY <1>3, SlotIs
<1>5. Reference!Answered(x, c, n, own) =
        IF v # Null /\ Kind[v] = "data" THEN Reference!Answer("get", v, x)
        ELSE IF own # {} THEN CHOOSE b \in own : TRUE
        ELSE IF v # Null THEN Reference!Attached(v, x, c)
        ELSE IF Reference!Special(c, g) # Null THEN Reference!Answer("getattr", Reference!Special(c, g), x)
        ELSE Reference!Answer("missing", Null, x)
  BY DEF Reference!Answered
<1>6. FromClass(x, c, Cached(c, n)) =
        IF v # Null THEN Bound(v, x, c)
        ELSE IF Reference!Special(c, g) # Null THEN Reply("getattr", Reference!Special(c, g), x)
        ELSE Reply("missing", Null, x)
  BY <1>1, <1>4 DEF FromClass
<1>7. v # Null => Bound(v, x, c) = Reference!Attached(v, x, c)
  BY <1>2, BoundIs
<1>8. own = {a} => (CHOOSE b \in own : TRUE) = a /\ own # {}
  OBVIOUS
<1>9. own = {a} \/ own = {}
  OBVIOUS
<1>10. HasSet(v) <=> Kind[v] = "data"
  BY DEF HasSet
<1> HIDE DEF v, g
<1>11. \A s, t, u : Reply(s, t, u) = Reference!Answer(s, t, u)
  BY DEF Reply, Reference!Answer
<1>12. CASE own = {a}
  BY <1>1, <1>5, <1>8, <1>10, <1>11, <1>12
<1>13. CASE own = {}
  BY <1>1, <1>5, <1>6, <1>7, <1>10, <1>11, <1>13
<1>14. QED
  BY <1>9, <1>12, <1>13

LEMMA OfInstanceIs ==
  ASSUME IInv, SInv, NEW i \in Instances, class[i] # Null, NEW n \in Names
  PROVE  OfInstance(i, n) = Reference!OfInstance(i, n)
<1> DEFINE a == Reply("value", fields[i][n], Null)
           own == IF n \in DOMAIN fields[i] THEN {a} ELSE {}
           found == Cached(class[i], n)
<1>1. class[i] \in Classes /\ Alive(base, class[i])
  BY DEF IInv, Alive
<1>2. Reference!OfInstance(i, n) = Reference!Answered(i, class[i], n, own)
  BY DEF Reference!OfInstance, Reference!Answer, Reply
<1>3. own = {} \/ own = {a}
  OBVIOUS
<1>4. own = {a} <=> n \in DOMAIN fields[i]
  OBVIOUS
<1>5. OfInstance(i, n) = IF found.owner # Null /\ HasSet(found.value) THEN Reply("get", found.value, i)
                         ELSE IF n \in DOMAIN fields[i] THEN a ELSE FromClass(i, class[i], found)
  BY DEF OfInstance
<1> HIDE DEF a, own
<1>6. /\ found.owner # Null /\ HasSet(found.value) => Reference!Answered(i, class[i], n, own) = Reply("get", found.value, i)
      /\ ~ (found.owner # Null /\ HasSet(found.value)) /\ own = {a} => Reference!Answered(i, class[i], n, own) = a
      /\ ~ (found.owner # Null /\ HasSet(found.value)) /\ own = {} => Reference!Answered(i, class[i], n, own) = FromClass(i, class[i], found)
  BY <1>1, <1>3, AnsweredIs
<1> HIDE DEF found
<1>7. QED
  BY <1>2, <1>3, <1>4, <1>5, <1>6

LEMMA OfClassIs ==
  ASSUME IInv, SInv, NEW c \in Live, NEW n \in Names
  PROVE  OfClass(c, n) = Reference!OfClass(c, n)
<1> DEFINE v == Looked(base, methods, c, n)
           a == IF Kind[v] = "classmethod" THEN Reply("bound", v, c)
                ELSE IF HasGet(v) THEN Reply("get", v, Null)
                ELSE Reply("value", v, Null)
           own == IF v = Null THEN {} ELSE {a}
           found == Cached(Type, n)
<1>1. c \in Classes /\ Type \in Classes /\ Alive(base, Type)
  BY ClassAssumption DEF IInv, Alive, Live
<1>2. Definition(methods, c, n) = v
  BY <1>1, OwnerIs DEF Definition, Looked
<1>3. Reference!Attribute(c, n) = v
  BY <1>1, AttributeIs
<1>4. own = IF v = Null THEN {}
            ELSE IF Kind[v] = "classmethod" THEN {Reference!Answer("bound", v, c)}
            ELSE IF Reference!Getter(v) THEN {Reference!Answer("get", v, Null)}
            ELSE {Reference!Answer("value", v, Null)}
  BY DEF Reference!Answer, Reply, HasGet, Reference!Getter
<1> HIDE DEF v, own
<1>5. Reference!OfClass(c, n) = Reference!Answered(c, Type, n, own)
  BY <1>3, <1>4 DEF Reference!OfClass
<1>6. OfClass(c, n) = IF found.owner # Null /\ HasSet(found.value) THEN Reply("get", found.value, c)
                      ELSE IF v = Null THEN FromClass(c, Type, found) ELSE a
  BY <1>2 DEF OfClass
<1> HIDE DEF a
<1>7. own = {} \/ own = {a}
  BY DEF own
<1>8. own = {a} <=> v # Null
  BY DEF own
<1>9. /\ found.owner # Null /\ HasSet(found.value) => Reference!Answered(c, Type, n, own) = Reply("get", found.value, c)
      /\ ~ (found.owner # Null /\ HasSet(found.value)) /\ own = {a} => Reference!Answered(c, Type, n, own) = a
      /\ ~ (found.owner # Null /\ HasSet(found.value)) /\ own = {} => Reference!Answered(c, Type, n, own) = FromClass(c, Type, found)
  <2>1. \A x, o, b : o = {} \/ o = {b} =>
      /\ found.owner # Null /\ HasSet(found.value) => Reference!Answered(x, Type, n, o) = Reply("get", found.value, x)
      /\ ~ (found.owner # Null /\ HasSet(found.value)) /\ o = {b} => Reference!Answered(x, Type, n, o) = b
      /\ ~ (found.owner # Null /\ HasSet(found.value)) /\ o = {} => Reference!Answered(x, Type, n, o) = FromClass(x, Type, found)
    BY <1>1, AnsweredIs
  <2>2. QED
    BY <1>7, <2>1
<1> HIDE DEF found
<1>10. QED
  BY <1>5, <1>6, <1>7, <1>8, <1>9

LEMMA OfSuperIs ==
  ASSUME IInv, SInv, NEW c \in Classes, NEW n \in Names, NEW x, NEW of
  PROVE  OfSuper(c, n, x, of) = Reference!OfSuper(c, n, x, of)
<1> DEFINE f == IF base[c] = Null THEN Object ELSE base[c]
           v == Reference!Attribute(f, n)
<1>1. f \in Classes
  BY ClassAssumption DEF IInv, Hierarchy
<1>2. Cached(f, n).value = v /\ (Cached(f, n).owner # Null <=> v # Null)
  BY <1>1, CachedIsLooked
<1>3. v # Null => v \in Values
  BY <1>1, AttributeIs
<1>4. v # Null => Bound(v, x, of) = Reference!Attached(v, x, of)
  BY <1>3, BoundIs
<1>5. Reference!OfSuper(c, n, x, of) = IF v = Null THEN Reference!Answer("missing", Null, IF x = Null THEN of ELSE x)
                                       ELSE Reference!Attached(v, x, of)
  BY DEF Reference!OfSuper
<1>6. OfSuper(c, n, x, of) = IF Cached(f, n).owner = Null THEN Reply("missing", Null, IF x = Null THEN of ELSE x)
                             ELSE Bound(Cached(f, n).value, x, of)
  BY DEF OfSuper, From
<1> HIDE DEF v, f
<1>7. QED
  BY <1>2, <1>4, <1>5, <1>6 DEF Reply, Reference!Answer

LEMMA ReadsAre == ASSUME IInv, SInv PROVE ReadsRight
<1>1. \A n \in program.reads : n \in Names
  BY ProgramNames
<1>2. \A c \in Live : c \in Classes
  BY DEF Live
<1>3. \A c \in Live : \A i \in Instances : class[i] \in Below(c) => class[i] # Null
  BY NullAssumption DEF Below, Live
<1>4. QED
  BY <1>1, <1>2, <1>3, OfClassIs, OfInstanceIs, OfSuperIs DEF ReadsRight


-----------------------------------------------------------------------------
(* What operators call.                                                    *)

\* The places from i on of attempts that are tried, and those that end it.
Ending(attempts, answer, i) ==
  {j \in DOMAIN attempts : i <= j /\ attempts[j].method # Null /\ answer[attempts[j].on] # "NotImplemented"}
Calling(attempts, answer, i) ==
  {j \in DOMAIN attempts : i <= j /\ attempts[j].method # Null /\ \A k \in Ending(attempts, answer, i) : j <= k}
TriedFrom(attempts, answer, i) ==
  [calls |-> [j \in Calling(attempts, answer, i) |-> attempts[j]],
   result |-> IF Ending(attempts, answer, i) = {} THEN "unsupported"
              ELSE answer[attempts[CHOOSE j \in Ending(attempts, answer, i) :
                                     \A k \in Ending(attempts, answer, i) : j <= k].on]]
\* One step of Trials at place i, where later is what the places after it give.
Trial(attempts, answer, i, later) ==
  IF i > Len(attempts) THEN [calls |-> <<>>, result |-> "unsupported"]
  ELSE IF attempts[i].method = Null THEN later
  ELSE IF answer[attempts[i].on] # "NotImplemented"
  THEN [calls |-> With(<<>>, i, attempts[i]), result |-> answer[attempts[i].on]]
  ELSE [later EXCEPT !.calls = With(@, i, attempts[i])]

LEMMA TrialIs ==
  ASSUME NEW attempts, NEW answer, Len(attempts) \in Nat, DOMAIN attempts = 1 .. Len(attempts),
         NEW i \in 1 .. Len(attempts) + 1
  PROVE  TriedFrom(attempts, answer, i) = Trial(attempts, answer, i, TriedFrom(attempts, answer, i + 1))
<1> DEFINE L == Len(attempts)
           E(j) == Ending(attempts, answer, j)
           C(j) == Calling(attempts, answer, j)
           R(j) == IF E(j) = {} THEN "unsupported"
                   ELSE answer[attempts[CHOOSE k \in E(j) : \A h \in E(j) : k <= h].on]
<1>1. \A j : TriedFrom(attempts, answer, j) = [calls |-> [k \in C(j) |-> attempts[k]], result |-> R(j)]
  BY DEF TriedFrom
<1>2. \A j, k : k \in E(j) <=> /\ k \in 1 .. L /\ j <= k /\ attempts[k].method # Null
                              /\ answer[attempts[k].on] # "NotImplemented"
  BY DEF Ending
<1>3. \A j, k : k \in C(j) <=> /\ k \in 1 .. L /\ j <= k /\ attempts[k].method # Null
                              /\ \A h \in E(j) : k <= h
  BY DEF Calling
<1>4. \A f : With(<<>>, i, f) = [x \in {i} |-> f]
  <2>1. DOMAIN <<>> = {}
    OBVIOUS
  <2>2. QED
    BY <2>1 DEF With
<1> HIDE DEF E, C, L
<1>5. CASE i > L
  <2>1. i = L + 1 /\ L \in Nat
    BY <1>5 DEF L
  <2>2. E(i) = {} /\ C(i) = {}
    BY <1>2, <1>3, <2>1
  <2>3. [k \in C(i) |-> attempts[k]] = <<>>
    BY <2>2
  <2>4. R(i) = "unsupported"
    BY <2>2
  <2>5. QED
    BY <1>1, <1>5, <2>3, <2>4 DEF Trial, L
<1>6. CASE i <= L /\ attempts[i].method = Null
  <2>1. \A k \in 1 .. L : attempts[k].method # Null => (i <= k <=> i + 1 <= k)
    BY <1>6 DEF L
  <2>2. E(i) = E(i + 1)
    BY <1>2, <2>1
  <2>3. C(i) = C(i + 1)
    BY <1>3, <2>1, <2>2
  <2>4. R(i) = R(i + 1)
    BY <2>2
  <2>5. ~ (i > Len(attempts))
    BY <1>6 DEF L
  <2>6. QED
    BY <1>1, <1>6, <2>3, <2>4, <2>5 DEF Trial
<1>7. CASE i <= L /\ attempts[i].method # Null /\ answer[attempts[i].on] # "NotImplemented"
  <2>1. i \in E(i) /\ \A k \in E(i) : i <= k /\ k \in Nat
    BY <1>2, <1>7 DEF L
  <2>2. (CHOOSE k \in E(i) : \A h \in E(i) : k <= h) = i
    <3>1. \A k \in E(i) : (\A h \in E(i) : k <= h) => k = i
      BY <2>1
    <3>2. QED
      BY <2>1, <3>1
  <2>3. C(i) = {i}
    BY <1>3, <1>7, <2>1 DEF L
  <2>4. [k \in C(i) |-> attempts[k]] = With(<<>>, i, attempts[i])
    BY <1>4, <2>3
  <2>5. R(i) = answer[attempts[i].on]
    BY <2>1, <2>2
  <2>6. ~ (i > Len(attempts))
    BY <1>7 DEF L
  <2>7. QED
    BY <1>1, <1>7, <2>4, <2>5, <2>6 DEF Trial
<1>8. CASE i <= L /\ attempts[i].method # Null /\ answer[attempts[i].on] = "NotImplemented"
  <2>1. \A k \in 1 .. L : k # i => (i <= k <=> i + 1 <= k)
    BY DEF L
  <2>2. E(i) = E(i + 1)
    BY <1>2, <1>8, <2>1
  <2>3. \A h \in E(i + 1) : i <= h
    BY <1>2, <1>8 DEF L
  <2>4. i \in 1 .. L
    BY <1>8 DEF L
  <2>5. C(i) = C(i + 1) \union {i}
    BY <1>3, <1>8, <2>1, <2>2, <2>3, <2>4
  <2>6. R(i) = R(i + 1)
    BY <2>2
  <2>7. [k \in C(i) |-> attempts[k]] = With([k \in C(i + 1) |-> attempts[k]], i, attempts[i])
    BY <2>5 DEF With
  <2>8. ~ (i > Len(attempts))
    BY <1>8 DEF L
  <2> DEFINE later == TriedFrom(attempts, answer, i + 1)
  <2>9. later = [calls |-> [k \in C(i + 1) |-> attempts[k]], result |-> R(i + 1)]
    BY <1>1
  <2> HIDE DEF R, later
  <2>10. [later EXCEPT !.calls = With(@, i, attempts[i])] =
           [calls |-> With([k \in C(i + 1) |-> attempts[k]], i, attempts[i]), result |-> R(i + 1)]
    BY <2>9
  <2>11. Trial(attempts, answer, i, later) = [later EXCEPT !.calls = With(@, i, attempts[i])]
    BY <1>8, <2>8 DEF Trial
  <2>12. QED
    BY <1>1, <2>6, <2>7, <2>10, <2>11 DEF later
<1>9. QED
  BY <1>5, <1>6, <1>7, <1>8 DEF L

\* Trying in a loop, by places, and trying in turn come to the same.
LEMMA TrialsAre ==
  ASSUME NEW attempts, NEW answer, Len(attempts) \in Nat, DOMAIN attempts = 1 .. Len(attempts)
  PROVE  Tried(attempts, answer) = Reference!Trials(attempts, answer)
<1> DEFINE L == Len(attempts)
           Is(f) == f = [i \in 1 .. L + 1 |-> Trial(attempts, answer, i, f[i + 1])]
           g == [i \in 1 .. L + 1 |-> TriedFrom(attempts, answer, i)]
           from == CHOOSE f : Is(f)
<1>1. \A i \in 1 .. L + 1 : TriedFrom(attempts, answer, i) = Trial(attempts, answer, i, TriedFrom(attempts, answer, i + 1))
  BY TrialIs
<1>2. \A later, last : Trial(attempts, answer, L + 1, later) = Trial(attempts, answer, L + 1, last)
  BY DEF Trial
<1>3. Is(g)
  <2>1. ASSUME NEW i \in 1 .. L + 1
        PROVE  g[i] = Trial(attempts, answer, i, g[i + 1])
    <3>1. CASE i = L + 1
      BY <1>1, <1>2, <3>1
    <3>2. CASE i # L + 1
      <4>1. i + 1 \in 1 .. L + 1
        BY <3>2
      <4>2. QED
        BY <1>1, <4>1
    <3>3. QED
      BY <3>1, <3>2
  <2>2. g = [i \in 1 .. L + 1 |-> g[i]]
    OBVIOUS
  <2> HIDE DEF g
  <2>3. QED
    BY <2>1, <2>2
<1>4. Is(from)
  <2> HIDE DEF Is, g
  <2>1. QED
    BY <1>3
<1>5. Reference!Trials(attempts, answer) = from[1]
  BY DEF Reference!Trials, Trial, With, Reference!With
<1> HIDE DEF from
<1>6. \A i \in 1 .. L + 1 : from[i] = Trial(attempts, answer, i, from[i + 1])
  BY <1>4
<1>7. \A k \in 0 .. L : from[L + 1 - k] = TriedFrom(attempts, answer, L + 1 - k)
  <2> DEFINE K == {k \in 0 .. L : from[L + 1 - k] # TriedFrom(attempts, answer, L + 1 - k)}
  <2>1. SUFFICES ASSUME K # {} PROVE FALSE
    OBVIOUS
  <2>2. PICK k \in K : \A j \in K : k <= j
    <3>1. K \subseteq Nat
      OBVIOUS
    <3> HIDE DEF K
    <3>2. QED
      BY <2>1, <3>1, LeastNumber
  <2>3. L + 1 - k \in 1 .. L + 1
    OBVIOUS
  <2>4. CASE k = 0
    <3>1. L + 1 - k = L + 1
      BY <2>4
    <3>2. from[L + 1] = TriedFrom(attempts, answer, L + 1)
      BY <1>1, <1>2, <1>6
    <3>3. QED
      BY <3>1, <3>2
  <2>5. CASE k # 0
    <3>1. k - 1 \in 0 .. L /\ k - 1 \notin K
      BY <2>2, <2>5
    <3>2. L + 1 - (k - 1) = (L + 1 - k) + 1
      OBVIOUS
    <3>3. from[(L + 1 - k) + 1] = TriedFrom(attempts, answer, (L + 1 - k) + 1)
      BY <3>1, <3>2
    <3>4. from[L + 1 - k] = TriedFrom(attempts, answer, L + 1 - k)
      BY <1>1, <1>6, <2>3, <3>3
    <3>5. QED
      BY <3>4
  <2>6. QED
    BY <2>4, <2>5
<1>8. from[1] = TriedFrom(attempts, answer, 1)
  <2>1. L \in 0 .. L /\ L + 1 - L = 1
    OBVIOUS
  <2>2. QED
    BY <1>7, <2>1
<1>9. Tried(attempts, answer) = TriedFrom(attempts, answer, 1)
  <2> DEFINE full == {i \in DOMAIN attempts : attempts[i].method # Null}
             ends == {i \in full : answer[attempts[i].on] # "NotImplemented"}
  <2>1. ends = Ending(attempts, answer, 1)
    BY DEF Ending
  <2>2. {i \in full : \A j \in ends : i <= j} = Calling(attempts, answer, 1)
    BY <2>1 DEF Calling
  <2> HIDE DEF full, ends
  <2>3. Tried(attempts, answer) =
          [calls |-> [i \in {i \in full : \A j \in ends : i <= j} |-> attempts[i]],
           result |-> IF ends = {} THEN "unsupported"
                      ELSE answer[attempts[CHOOSE i \in ends : \A j \in ends : i <= j].on]]
    BY DEF Tried, full, ends
  <2>4. QED
    BY <2>1, <2>2, <2>3 DEF TriedFrom
<1>10. QED
  BY <1>5, <1>8, <1>9

\* Concatenations of short lists.
LEMMA ListsJoined ==
  ASSUME NEW x, NEW y, NEW z
  PROVE  /\ <<x>> \o <<y>> = <<x, y>> /\ <<>> \o <<x>> = <<x>>
         /\ <<x, y>> \o <<z>> = <<x, y, z>> /\ <<x>> \o <<y, z>> = <<x, y, z>>
<1> DEFINE S == {x, y, z}
<1>0. \A s, t \in Seq(S) : /\ s \o t \in Seq(S) /\ Len(s \o t) = Len(s) + Len(t)
                         /\ \A i \in 1 .. Len(s) + Len(t) : (s \o t)[i] = IF i <= Len(s) THEN s[i] ELSE t[i - Len(s)]
  BY ConcatProperties
<1> x \in S /\ y \in S /\ z \in S
  OBVIOUS
<1> HIDE DEF S
<1>1. <<x>> \o <<y>> = <<x, y>>
  <2>1. <<x>> \in Seq(S) /\ <<y>> \in Seq(S) /\ <<x, y>> \in Seq(S)
    OBVIOUS
  <2> DEFINE q == <<x>> \o <<y>>
  <2>2. q \in Seq(S) /\ Len(q) = 2 /\ q[1] = x /\ q[2] = y
    BY <1>0, <2>1
  <2> HIDE DEF q
  <2>3. q = <<x, y>>
    BY <2>1, <2>2, SeqEqual
  <2>4. QED
    BY <2>3 DEF q
<1>2. <<>> \o <<x>> = <<x>>
  OBVIOUS
<1>3. <<x, y>> \o <<z>> = <<x, y, z>>
  <2>1. <<x, y>> \in Seq(S) /\ <<z>> \in Seq(S) /\ <<x, y, z>> \in Seq(S)
    OBVIOUS
  <2> DEFINE q == <<x, y>> \o <<z>>
  <2>2. q \in Seq(S) /\ Len(q) = 3 /\ q[1] = x /\ q[2] = y /\ q[3] = z
    BY <1>0, <2>1
  <2> HIDE DEF q
  <2>3. q = <<x, y, z>>
    BY <2>1, <2>2, SeqEqual
  <2>4. QED
    BY <2>3 DEF q
<1>4. <<x>> \o <<y, z>> = <<x, y, z>>
  <2>1. <<x>> \in Seq(S) /\ <<y, z>> \in Seq(S) /\ <<x, y, z>> \in Seq(S)
    OBVIOUS
  <2> DEFINE q == <<x>> \o <<y, z>>
  <2>2. q \in Seq(S) /\ Len(q) = 3 /\ q[1] = x /\ q[2] = y /\ q[3] = z
    BY <1>0, <2>1
  <2> HIDE DEF q
  <2>3. q = <<x, y, z>>
    BY <2>1, <2>2, SeqEqual
  <2>4. QED
    BY <2>3 DEF q
<1>5. QED
  BY <1>1, <1>2, <1>3, <1>4

LEMMA OperatorsAre == ASSUME IInv, SInv PROVE OperatorsRight
<1>1. \A c \in Live, s \in Specials : slots[c][s] = Reference!Special(c, s)
  BY SlotIs DEF Live, Alive
<1>2. {"__eq__", "__add__", "__radd__", "__iadd__", "__bool__", "__len__", "__init__"} \subseteq Specials
  BY NameAssumption
<1>3. Object \in Live
  BY ClassAssumption DEF Live
<1>4. ASSUME NEW c \in Live, NEW d \in Live, NEW answer
      PROVE  Equal(c, d, answer) = Reference!Equal(c, d, answer)
  <2> DEFINE t == <<Attempt("__eq__", c, "left"), Attempt("__eq__", d, "right")>>
  <2>1. t = Reference!Left(c, "__eq__") \o Reference!Right(d, "__eq__")
    BY <1>1, <1>2 DEF Attempt, Reference!Left, Reference!Right
  <2>2. Len(t) \in Nat /\ DOMAIN t = 1 .. Len(t)
    OBVIOUS
  <2> HIDE DEF t
  <2>3. Tried(t, answer) = Reference!Trials(t, answer)
    BY <2>2, TrialsAre
  <2>4. \E calls, result : Tried(t, answer) = [calls |-> calls, result |-> result]
    BY DEF Tried
  <2>5. Equal(c, d, answer) = IF Tried(t, answer).result = "unsupported"
                              THEN [Tried(t, answer) EXCEPT !.result = "differ"] ELSE Tried(t, answer)
    BY DEF Equal, t
  <2>6. Reference!Equal(c, d, answer) =
          [Tried(t, answer) EXCEPT !.result = IF @ = "unsupported" THEN "differ" ELSE @]
    BY <2>1, <2>3 DEF Reference!Equal
  <2>7. QED
    BY <2>4, <2>5, <2>6
<1>5. ASSUME NEW c \in Live, NEW d \in Live, NEW answer, NEW inplace \in BOOLEAN
      PROVE  Add(c, d, inplace, answer) = Reference!Add(c, d, inplace, answer)
  <2> DEFINE o == <<Attempt("__add__", c, "left"), Attempt("__radd__", d, "right")>>
             t == IF inplace THEN <<Attempt("__iadd__", c, "left")>> \o o ELSE o
             r == (IF inplace THEN Reference!Left(c, "__iadd__") ELSE <<>>)
                  \o Reference!Left(c, "__add__") \o Reference!Right(d, "__radd__")
  <2>1. t = r
    <3>1. Reference!Left(c, "__iadd__") = <<Attempt("__iadd__", c, "left")>>
      BY <1>1, <1>2 DEF Attempt, Reference!Left
    <3>2. Reference!Left(c, "__add__") = <<Attempt("__add__", c, "left")>>
      BY <1>1, <1>2 DEF Attempt, Reference!Left
    <3>3. Reference!Right(d, "__radd__") = <<Attempt("__radd__", d, "right")>>
      BY <1>1, <1>2 DEF Attempt, Reference!Right
    <3> DEFINE x == Attempt("__iadd__", c, "left")
               y == Attempt("__add__", c, "left")
               z == Attempt("__radd__", d, "right")
    <3>4. CASE inplace
      <4>1. t = <<x, y, z>>
        BY <3>4, ListsJoined
      <4>2. r = (<<x>> \o <<y>>) \o <<z>>
        BY <3>1, <3>2, <3>3, <3>4
      <4> HIDE DEF x, y, z, t, r
      <4>3. <<x>> \o <<y>> = <<x, y>>
        BY ListsJoined
      <4>4. <<x, y>> \o <<z>> = <<x, y, z>>
        BY ListsJoined
      <4>5. QED
        BY <4>1, <4>2, <4>3, <4>4, Zenon
    <3>5. CASE ~ inplace
      <4>1. t = <<y, z>>
        BY <3>5
      <4>2. r = (<<>> \o <<y>>) \o <<z>>
        BY <3>2, <3>3, <3>5
      <4> HIDE DEF x, y, z, t, r
      <4>3. <<>> \o <<y>> = <<y>>
        BY ListsJoined
      <4>4. <<y>> \o <<z>> = <<y, z>>
        BY ListsJoined
      <4>5. QED
        BY <4>1, <4>2, <4>3, <4>4, Zenon
    <3>6. QED
      BY <3>4, <3>5
  <2>2. Len(t) \in Nat /\ DOMAIN t = 1 .. Len(t)
    <3>1. \A x, y, z : <<x>> \o <<y, z>> = <<x, y, z>>
      BY ListsJoined
    <3>2. t = <<Attempt("__iadd__", c, "left"), Attempt("__add__", c, "left"), Attempt("__radd__", d, "right")>> \/ t = o
      BY <3>1
    <3> HIDE DEF t
    <3>3. QED
      BY <3>2
  <2>3. Add(c, d, inplace, answer) = Tried(t, answer)
    BY DEF Add
  <2>4. Reference!Add(c, d, inplace, answer) = Reference!Trials(r, answer)
    BY DEF Reference!Add
  <2> HIDE DEF t, r
  <2>5. QED
    BY <2>1, <2>2, <2>3, <2>4, TrialsAre
<1>6. ASSUME NEW c \in Live
      PROVE  /\ Truth(c) = Reference!Truth(c)
             /\ Initialiser(c) = Reference!Initialiser(c)
  BY <1>1, <1>2, <1>3 DEF Truth, Reference!Truth, Initialiser, Reference!Initialiser
<1>7. ASSUME NEW c \in Live, NEW b \in Live
      PROVE  SubclassHook(c, b) = Reference!SubclassHook(c, b)
  <2> DEFINE n == "__init_subclass__"
             found == Cached(b, n)
             v == Reference!Attribute(b, n)
  <2>1. b \in Classes /\ n \in Names
    BY NameAssumption DEF Live
  <2>2. found.value = v /\ (found.owner # Null <=> v # Null)
    BY <2>1, CachedIsLooked
  <2>3. v # Null => v \in Values
    BY <2>1, AttributeIs
  <2>4. v # Null => Bound(v, Null, c) = Reference!Attached(v, Null, c)
    BY <2>3, BoundIs
  <2>5. SubclassHook(c, b) = IF found.owner = Null THEN Reply("missing", Null, c) ELSE Bound(found.value, Null, c)
    BY DEF SubclassHook
  <2>6. Reference!SubclassHook(c, b) = IF v = Null THEN Reference!Answer("missing", Null, c)
                                       ELSE Reference!Attached(v, Null, c)
    BY DEF Reference!SubclassHook
  <2> HIDE DEF found, v
  <2>7. QED
    BY <2>2, <2>4, <2>5, <2>6 DEF Reply, Reference!Answer
<1>8. QED
  BY <1>1, <1>4, <1>5, <1>6, <1>7 DEF OperatorsRight, Invoke

\* Every read, operator, call and hook gives what lookup along the bases gives,
\* whatever slots and cache hold, for any classes, names, lines and programs that
\* share no __hash__ (valueGetMethod, _bin_op, krk_valuesEqual, type.__call__).
THEOREM Replies == ASSUME Unshared PROVE Spec => []RepliesRight
<1>1. IInv /\ SInv => RepliesRight
  BY ReadsAre, OperatorsAre DEF RepliesRight
<1>2. QED
  BY <1>1, SlotInvariance, PTL
=============================================================================
