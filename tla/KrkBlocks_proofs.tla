--------------------------- MODULE KrkBlocks_proofs ---------------------------
(***************************************************************************)
(* Proofs about KrkBlocks, for every program: any nesting of statements,   *)
(* any number of frames, and the constants of the bounds whatever they     *)
(* are.                                                                    *)
(*                                                                         *)
(* The invariant lays the stack out.  Each frame has the entries from its  *)
(* out up to that of the next; its code, a sequence of constructs, says    *)
(* how many they are and which of them are handlers, the others being      *)
(* data.  A handler leads to a part of its own construct, so that control  *)
(* landing there finds the stack as the code of that part expects it; one  *)
(* that holds the exit from a loop leads to a loop around it, and the data *)
(* below it is the count of that loop's locals.  The latter can only be in *)
(* a construct whose handlers have been at work, which is why the parts it *)
(* can be in are part of the invariant.  Every open upvalue is for the     *)
(* variable of a block.                                                    *)
(*                                                                         *)
(* A step changes the top frame, or cuts the frames and the stack at a     *)
(* handler or at the out of a frame, or puts another construct or another  *)
(* frame on top: the lemmas Lands, Shrunk, Drops, Grown and Called say     *)
(* what these keep, for any frames and stack, and each action is put       *)
(* together from them.                                                     *)
(***************************************************************************)
EXTENDS KrkBlocks, SequenceTheorems, WellFoundedInduction, TLAPS

Callers == {"host", "run", "native", "enter", "exit"}
Kinds == {"try", "with", "for", "while", "block"}
Inside == {"body", "except", "else", "finally"}

Place ==
  {c \in [k : Kinds, exc : BOOLEAN, els : BOOLEAN, fin : BOOLEAN, part : UNION {Parts(k) : k \in Kinds}] :
     c.part \in Parts(c.k)}
Places == Seq(Place)
FrameRecord == [code : Places, slots : Nat, out : Nat, by : Callers]

\* What is in a slot: data, or a handler.
Data ==
  [op : {"none", "local", "callee", "manager"}] \cup [op : {"exception"}, e : Exceptions]
    \cup [op : {"result"}, v : Results] \cup [op : {"count"}, n : Nat]
Entry == Data \cup [op : HandlerOps, to : Places]

\* The locals of the first i constructs, and where they end in frame f.
Wide(code, i) == Widths(SubSeq(code, 1, i))
End(f, i) == f.slots + ArgumentsOf(f.by) + Wide(f.code, i)

Handles(c) == c.k = "try" \/ (c.k = "with" /\ c.part # "enter")

\* The handler h of construct i of a frame leads to another part of the same
\* construct, or out to a loop around it, whose locals are counted below h.
SamePlace(c, d) == d = [c EXCEPT !.part = d.part]
Agree(to, code, m) ==
  /\ Len(to) = m
  /\ \A l \in 1 .. m - 1 : to[l] = code[l]
  /\ SamePlace(code[m], to[m])
\* A loop can only be left in the parts a handler leads to and those after
\* them.
Leaving == {"enter", "begin", "finally", "end", "cleanup", "out"}
StaysAt(code, i, h) == Agree(h.to, code, i) /\ Handles(h.to[i]) /\ h.to[i].part \in Leaving
LeavesTo(f, i, h, below) ==
  /\ f.code[i].part \in Leaving
  /\ \E m \in 1 .. i - 1 : /\ Agree(h.to, f.code, m) /\ f.code[m].k \in Loops
                           /\ below = Count(ArgumentsOf(f.by) + Wide(f.code, m))

\* A handler that has caught a return is in a function.
HandlerRight(s, f, i) ==
  LET p == End(f, i)
  IN /\ s[p].op \in HandlerOps
     /\ IF s[p].op = "EXIT_LOOP" THEN LeavesTo(f, i, s[p], s[p - 1]) ELSE StaysAt(f.code, i, s[p])
     /\ f.by = "host" => s[p].op # "RETURN"

\* The code has pushed a context manager and is in its __enter__.
Entering(code) == code # <<>> /\ code[Len(code)].k = "with" /\ code[Len(code)].part = "enter"

\* Where frame f is while "by" has called from it, or nothing has ("none").
AtCall(f, by) ==
  LET c == f.code[Len(f.code)]
  IN /\ by = "enter" <=> Entering(f.code)
     /\ by = "exit" => f.code # <<>> /\ c.k = "with" /\ c.part = "cleanup"
     /\ by \in {"run", "native"} /\ f.code # <<>> => c.part \in Inside

\* Frame f has the entries of s up to top.
FrameRight(s, f, top, by) ==
  /\ f.out <= f.slots
  /\ top = End(f, Len(f.code)) + (IF by = "native" THEN 1 ELSE 0)
  /\ AtCall(f, by)
  /\ \A i \in DOMAIN f.code : i < Len(f.code) => f.code[i].part \in Inside
  /\ \A i \in DOMAIN f.code : Handles(f.code[i]) => HandlerRight(s, f, i)
  /\ \A p \in f.out + 1 .. top : s[p].op \in HandlerOps => \E i \in DOMAIN f.code : Handles(f.code[i]) /\ p = End(f, i)

Layout(F, s, by) ==
  /\ F \in Seq(FrameRecord) /\ s \in Seq(Entry)
  /\ F = <<>> => s = <<>> /\ by \in {"none", "host"}
  /\ F # <<>> => F[1].out = 0 /\ F[1].slots = 1 /\ by # "host"
  /\ \A j \in DOMAIN F : F[j].by = "host" <=> j = 1
  /\ \A j, l \in DOMAIN F : j < l => End(F[j], Len(F[j].code)) <= F[l].out
  /\ \A j \in DOMAIN F : IF j = Len(F) THEN FrameRight(s, F[j], Len(s), by)
                                       ELSE FrameRight(s, F[j], F[j + 1].out, F[j + 1].by)

\* The upvalues that are open are of variables of blocks.
Kept(F, o) == \A p \in o : \E j \in DOMAIN F : \E i \in DOMAIN F[j].code : F[j].code[i].k = "block" /\ p = End(F[j], i)

BlocksInv ==
  /\ Layout(active, valueStack, back)
  /\ back \in Callers \cup {"none"}
  /\ exception \in Data
  /\ Kept(active, captured)

-----------------------------------------------------------------------------
(* Numbers and sequences.                                                  *)

LEMMA Least ==
  ASSUME NEW T, T \subseteq Nat, T # {}
  PROVE  \E m \in T : \A n \in T : m <= n
<1>1. PICK m \in T : \A n \in T : ~ (<<n, m>> \in OpToRel(<, Nat))
  BY WFMin, NatLessThanWellFounded
<1>2. \A n \in T : ~ (n < m)
  BY <1>1 DEF OpToRel
<1>3. QED
  BY <1>2

LEMMA Greatest ==
  ASSUME NEW n \in Nat, NEW S, S \subseteq 1 .. n, S # {}
  PROVE  \E k \in S : \A j \in S : j <= k
<1> DEFINE T == {m \in Nat : \A j \in S : j <= m}
<1>1. n \in T
  OBVIOUS
<1>2. PICK m \in T : \A t \in T : m <= t
  BY <1>1, Least
<1>3. CASE m \in S
  BY <1>2, <1>3
<1>4. CASE m \notin S
  <2>1. m # 0
    <3>1. PICK j \in S : TRUE
      OBVIOUS
    <3>2. j >= 1 /\ j <= m
      BY <1>2, <3>1
    <3>3. QED
      BY <1>2, <3>2
  <2>2. m - 1 \in Nat /\ m - 1 < m
    BY <1>2, <2>1
  <2>3. \A j \in S : j <= m - 1
    BY <1>2, <1>4
  <2>4. QED
    BY <1>2, <2>2, <2>3
<1>5. QED
  BY <1>3, <1>4

LEMMA MaxIs ==
  ASSUME NEW n \in Nat, NEW S, S \subseteq 1 .. n, S # {}
  PROVE  Max(S) \in S /\ \A j \in S : j <= Max(S)
<1>1. \E k \in S : \A j \in S : k >= j
  BY Greatest
<1>2. Max(S) \in S /\ \A j \in S : Max(S) >= j
  BY <1>1 DEF Max
<1>3. Max(S) \in 1 .. n /\ \A j \in S : j \in 1 .. n
  BY <1>2
<1>4. QED
  BY <1>2, <1>3

\* r is the first n elements of s.
IsFirstPart(r, S, s, n) ==
  /\ r \in Seq(S) /\ Len(r) = n /\ DOMAIN r = 1 .. n
  /\ \A i \in 1 .. n : r[i] = s[i]

LEMMA Prefixed ==
  ASSUME NEW S, NEW s \in Seq(S), NEW n \in 0 .. Len(s)
  PROVE  IsFirstPart(SubSeq(s, 1, n), S, s, n)
<1>1. Len(s) \in Nat /\ \A i \in 1 .. Len(s) : s[i] \in S
  BY LenProperties
<1>2. /\ SubSeq(s, 1, n) \in Seq(S)
      /\ Len(SubSeq(s, 1, n)) = IF 1 <= n THEN n - 1 + 1 ELSE 0
      /\ \A i \in 1 .. n - 1 + 1 : SubSeq(s, 1, n)[i] = s[1 + i - 1]
  <2>1. 1 \in Int /\ n \in Int /\ \A i \in 1 .. n : s[i] \in S
    BY <1>1
  <2> HIDE <1>1
  <2>2. QED
    BY <2>1, SubSeqProperties
<1>3. DOMAIN SubSeq(s, 1, n) = 1 .. Len(SubSeq(s, 1, n))
  BY <1>2, LenProperties
<1>4. \A i \in 1 .. n : 1 + i - 1 = i
  OBVIOUS
<1>5. n \in Nat /\ n - 1 + 1 = n
  BY <1>1
<1>6. QED
  BY <1>2, <1>3, <1>4, <1>5 DEF IsFirstPart

LEMMA SameSeq ==
  ASSUME NEW S, NEW s \in Seq(S), NEW t \in Seq(S), Len(s) = Len(t), \A i \in 1 .. Len(s) : s[i] = t[i]
  PROVE  s = t
BY SeqEqual, LenProperties

-----------------------------------------------------------------------------
(* The widths of constructs.                                               *)

LEMMA WidthIs ==
  ASSUME NEW c \in Place
  PROVE  /\ Width(c) \in 0 .. 3
         /\ Handles(c) => Width(c) >= 2
         /\ c.k = "block" => Width(c) = 1
<1>1. c.k \in Kinds
  BY DEF Place
<1>2. CASE c.k = "try"
  BY <1>2 DEF Width, Handles
<1>3. CASE c.k = "with"
  BY <1>3 DEF Width, Handles
<1>4. CASE c.k = "for"
  BY <1>4 DEF Width, Handles
<1>5. CASE c.k = "while"
  BY <1>5 DEF Width, Handles
<1>6. CASE c.k = "block"
  BY <1>6 DEF Width, Handles
<1>7. QED
  BY <1>1, <1>2, <1>3, <1>4, <1>5, <1>6 DEF Kinds

\* w counts the locals of the first n constructs.
Adds(code, n, w) == w = [m \in 0 .. n |-> IF m = 0 THEN 0 ELSE w[m - 1] + Width(code[m])]

LEMMA AddsStep ==
  ASSUME NEW code, NEW n \in Nat, NEW w, Adds(code, n, w)
  PROVE  w[0] = 0 /\ \A m \in 1 .. n : w[m] = w[m - 1] + Width(code[m])
BY DEF Adds

LEMMA Adding ==
  ASSUME NEW code, NEW n \in Nat
  PROVE  \E w : Adds(code, n, w)
<1> DEFINE T == {m \in Nat : ~ \E w : Adds(code, m, w)}
<1>1. SUFFICES ASSUME T # {} PROVE FALSE
  BY <1>1
<1>2. PICK m \in T : \A l \in T : m <= l
  BY <1>1, Least
<1>3. CASE m = 0
  <2>1. Adds(code, 0, [l \in 0 .. 0 |-> 0])
    BY DEF Adds
  <2>2. QED
    BY <1>2, <1>3, <2>1
<1>4. CASE m # 0
  <2>1. m - 1 \in Nat /\ ~ (m <= m - 1)
    BY <1>2, <1>4
  <2>2. PICK w : Adds(code, m - 1, w)
    BY <1>2, <2>1
  <2> DEFINE v == [l \in 0 .. m |-> IF l = m THEN w[m - 1] + Width(code[m]) ELSE w[l]]
  <2>3. w[0] = 0 /\ \A l \in 1 .. m - 1 : w[l] = w[l - 1] + Width(code[l])
    BY <2>1, <2>2, AddsStep
  <2>4. \A l \in 0 .. m : v[l] = IF l = 0 THEN 0 ELSE v[l - 1] + Width(code[l])
    <3>1. SUFFICES ASSUME NEW l \in 0 .. m PROVE v[l] = IF l = 0 THEN 0 ELSE v[l - 1] + Width(code[l])
      OBVIOUS
    <3>2. CASE l = 0
      BY <1>4, <2>3, <3>2
    <3>3. CASE l = m
      <4>1. l # 0 /\ v[l - 1] = w[m - 1] /\ v[l] = w[m - 1] + Width(code[m])
        BY <1>4, <2>1, <3>3
      <4>2. QED
        BY <3>3, <4>1
    <3>4. CASE l # 0 /\ l # m
      <4>1. l \in 1 .. m - 1 /\ l - 1 \in 0 .. m /\ l - 1 # m
        BY <2>1, <3>4
      <4>2. v[l] = w[l] /\ v[l - 1] = w[l - 1]
        BY <3>4, <4>1
      <4>3. QED
        BY <2>3, <3>4, <4>1, <4>2
    <3>5. QED
      BY <3>2, <3>3, <3>4
  <2>5. v = [l \in 0 .. m |-> v[l]]
    OBVIOUS
  <2> HIDE DEF v
  <2>6. Adds(code, m, v)
    BY <2>4, <2>5 DEF Adds
  <2>7. QED
    BY <1>2, <2>6
<1>5. QED
  BY <1>3, <1>4

LEMMA Added ==
  ASSUME NEW code, Len(code) \in Nat
  PROVE  \E w : Adds(code, Len(code), w) /\ Widths(code) = w[Len(code)]
<1> DEFINE w == CHOOSE w : w = [n \in 0 .. Len(code) |-> IF n = 0 THEN 0 ELSE w[n - 1] + Width(code[n])]
<1>1. Widths(code) = w[Len(code)]
  BY DEF Widths
<1>2. \E v : v = [n \in 0 .. Len(code) |-> IF n = 0 THEN 0 ELSE v[n - 1] + Width(code[n])]
  BY Adding DEF Adds
<1>3. w = [n \in 0 .. Len(code) |-> IF n = 0 THEN 0 ELSE w[n - 1] + Width(code[n])]
  BY <1>2, Zenon
<1> HIDE DEF w
<1>4. QED
  BY <1>1, <1>3 DEF Adds

\* Counts of codes that begin in the same way agree.
LEMMA AddsSame ==
  ASSUME NEW code \in Places, NEW n \in 0 .. Len(code), NEW w, Adds(code, n, w),
         NEW to \in Places, NEW l \in 0 .. Len(to), NEW v, Adds(to, l, v),
         NEW k \in 0 .. n, k <= l, \A i \in 1 .. k : to[i] = code[i]
  PROVE  w[k] \in Nat /\ w[k] = v[k]
<1> DEFINE T == {m \in Nat : m <= k /\ ~(w[m] \in Nat /\ w[m] = v[m])}
<1>0. n \in Nat /\ l \in Nat /\ k \in Nat
  BY LenProperties DEF Places
<1>1. SUFFICES ASSUME T # {} PROVE FALSE
  BY <1>0, <1>1
<1>2. PICK m \in T : \A r \in T : m <= r
  BY <1>1, Least
<1>3. m # 0
  BY <1>0, <1>2, AddsStep
<1>4. m - 1 \in Nat /\ m - 1 <= k /\ ~ (m <= m - 1) /\ m \in 1 .. n /\ m \in 1 .. l /\ m \in 1 .. k
  BY <1>0, <1>2, <1>3
<1>5. w[m - 1] \in Nat /\ w[m - 1] = v[m - 1]
  BY <1>2, <1>4
<1>6. w[m] = w[m - 1] + Width(code[m]) /\ v[m] = v[m - 1] + Width(code[m])
  BY <1>0, <1>4, AddsStep
<1>7. code[m] \in Place
  BY <1>4, LenProperties DEF Places
<1>8. Width(code[m]) \in Nat
  BY <1>7, WidthIs
<1>9. QED
  BY <1>2, <1>5, <1>6, <1>8

LEMMA WideIsPart ==
  ASSUME NEW code \in Places, NEW w, Adds(code, Len(code), w), NEW i \in 0 .. Len(code)
  PROVE  Wide(code, i) = w[i] /\ Wide(code, i) \in Nat
<1> DEFINE to == SubSeq(code, 1, i)
<1>1. IsFirstPart(to, Place, code, i)
  BY Prefixed DEF Places
<1>2. to \in Places /\ Len(to) = i /\ i \in Nat /\ Len(code) \in Nat /\ \A m \in 1 .. i : to[m] = code[m]
  BY <1>1, LenProperties DEF IsFirstPart, Places
<1> HIDE DEF to
<1>3. PICK v : Adds(to, Len(to), v) /\ Widths(to) = v[Len(to)]
  BY <1>2, Added
<1>4. w[i] \in Nat /\ w[i] = v[i]
  BY <1>2, <1>3, AddsSame
<1>5. QED
  BY <1>2, <1>3, <1>4 DEF Wide, to

LEMMA WideIs ==
  ASSUME NEW code \in Places
  PROVE  /\ Wide(code, 0) = 0
         /\ \A i \in 0 .. Len(code) : Wide(code, i) \in Nat
         /\ \A i \in 1 .. Len(code) : Wide(code, i) = Wide(code, i - 1) + Width(code[i])
         /\ Widths(code) = Wide(code, Len(code))
<1>1. Len(code) \in Nat
  BY LenProperties DEF Places
<1>2. PICK w : Adds(code, Len(code), w) /\ Widths(code) = w[Len(code)]
  BY <1>1, Added
<1>3. \A i \in 0 .. Len(code) : Wide(code, i) = w[i] /\ Wide(code, i) \in Nat
  BY <1>2, WideIsPart
<1>4. w[0] = 0 /\ \A m \in 1 .. Len(code) : w[m] = w[m - 1] + Width(code[m])
  BY <1>1, <1>2, AddsStep
<1>5. \A i \in 1 .. Len(code) : i \in 0 .. Len(code) /\ i - 1 \in 0 .. Len(code)
  BY <1>1
<1>6. 0 \in 0 .. Len(code) /\ Len(code) \in 0 .. Len(code)
  BY <1>1
<1>7. QED
  BY <1>2, <1>3, <1>4, <1>5, <1>6

LEMMA WideGrows ==
  ASSUME NEW code \in Places, NEW i \in 0 .. Len(code), NEW n \in 0 .. Len(code), i <= n
  PROVE  Wide(code, i) <= Wide(code, n)
<1> DEFINE T == {m \in Nat : m <= Len(code) /\ i <= m /\ ~(Wide(code, i) <= Wide(code, m))}
<1>1. Len(code) \in Nat /\ i \in Nat /\ n \in Nat
  BY LenProperties DEF Places
<1>2. SUFFICES ASSUME T # {} PROVE FALSE
  BY <1>1, <1>2
<1>3. PICK m \in T : \A r \in T : m <= r
  BY <1>2, Least
<1>4. \A l \in 0 .. Len(code) : Wide(code, l) \in Nat
  BY WideIs
<1>5. i # m /\ m # 0
  BY <1>1, <1>3, <1>4
<1>6. m - 1 \in Nat /\ m - 1 <= Len(code) /\ i <= m - 1 /\ ~ (m <= m - 1) /\ m \in 1 .. Len(code) /\ m - 1 \in 0 .. Len(code)
  BY <1>1, <1>3, <1>5
<1>7. Wide(code, i) <= Wide(code, m - 1)
  BY <1>3, <1>6
<1>8. Wide(code, m) = Wide(code, m - 1) + Width(code[m])
  BY <1>6, WideIs
<1>9. code[m] \in Place
  BY <1>6, LenProperties DEF Places
<1>10. Width(code[m]) \in Nat
  BY <1>9, WidthIs
<1>11. QED
  BY <1>3, <1>4, <1>6, <1>7, <1>8, <1>10

LEMMA WideSame ==
  ASSUME NEW code \in Places, NEW to \in Places, NEW n \in 0 .. Len(code), n <= Len(to),
         \A i \in 1 .. n : to[i] = code[i]
  PROVE  Wide(to, n) = Wide(code, n)
<1>1. Len(code) \in Nat /\ Len(to) \in Nat /\ n \in 0 .. Len(to)
  BY LenProperties DEF Places
<1>2. IsFirstPart(SubSeq(code, 1, n), Place, code, n) /\ IsFirstPart(SubSeq(to, 1, n), Place, to, n)
  BY <1>1, Prefixed DEF Places
<1>3. SubSeq(to, 1, n) = SubSeq(code, 1, n)
  <2> DEFINE a == SubSeq(to, 1, n)
             b == SubSeq(code, 1, n)
  <2>1. a \in Seq(Place) /\ b \in Seq(Place) /\ Len(a) = Len(b) /\ \A i \in 1 .. Len(a) : a[i] = b[i]
    BY <1>2 DEF IsFirstPart
  <2> HIDE DEF a, b
  <2>2. a = b
    BY <2>1, SameSeq
  <2>3. QED
    BY <2>2 DEF a, b
<1>4. QED
  BY <1>3 DEF Wide

-----------------------------------------------------------------------------
(* Places and frames.                                                      *)

LEMMA PlacesAre ==
  ASSUME NEW code \in Places
  PROVE  Len(code) \in Nat /\ DOMAIN code = 1 .. Len(code) /\ \A i \in 1 .. Len(code) : code[i] \in Place
BY LenProperties DEF Places

LEMMA FrameIs ==
  ASSUME NEW f \in FrameRecord
  PROVE  /\ f.code \in Places /\ f.slots \in Nat /\ f.out \in Nat /\ f.by \in Callers
         /\ ArgumentsOf(f.by) \in Nat
         /\ Len(f.code) \in Nat /\ DOMAIN f.code = 1 .. Len(f.code) /\ \A i \in 1 .. Len(f.code) : f.code[i] \in Place
<1>1. f.code \in Places /\ f.slots \in Nat /\ f.out \in Nat /\ f.by \in Callers
  BY DEF FrameRecord
<1>2. ArgumentsOf(f.by) \in Nat
  BY <1>1 DEF ArgumentsOf, Callers
<1>3. QED
  BY <1>1, <1>2, PlacesAre

\* The frame with another place in its code.
WithCode(f, c) == [f EXCEPT !.code = c]

LEMMA WithCodeIs ==
  ASSUME NEW f \in FrameRecord, NEW c \in Places
  PROVE  /\ WithCode(f, c) \in FrameRecord
         /\ WithCode(f, c).code = c /\ WithCode(f, c).slots = f.slots
         /\ WithCode(f, c).out = f.out /\ WithCode(f, c).by = f.by
BY DEF WithCode, FrameRecord

LEMMA EndIs ==
  ASSUME NEW f \in FrameRecord
  PROVE  /\ End(f, 0) = f.slots + ArgumentsOf(f.by)
         /\ \A i \in 0 .. Len(f.code) : End(f, i) \in Nat /\ End(f, i) >= f.slots
         /\ \A i \in 1 .. Len(f.code) : End(f, i) = End(f, i - 1) + Width(f.code[i])
         /\ \A i, m \in 0 .. Len(f.code) : i <= m => End(f, i) <= End(f, m)
         /\ \A i, m \in 0 .. Len(f.code) : i < m => End(f, i) + Width(f.code[m]) <= End(f, m)
<1>1. f.code \in Places /\ f.slots \in Nat /\ ArgumentsOf(f.by) \in Nat /\ Len(f.code) \in Nat
      /\ \A i \in 1 .. Len(f.code) : f.code[i] \in Place
  BY FrameIs
<1>2. /\ Wide(f.code, 0) = 0
      /\ \A i \in 0 .. Len(f.code) : Wide(f.code, i) \in Nat
      /\ \A i \in 1 .. Len(f.code) : Wide(f.code, i) = Wide(f.code, i - 1) + Width(f.code[i])
  BY <1>1, WideIs
<1>3. \A i \in 0 .. Len(f.code), m \in 0 .. Len(f.code) : i <= m => Wide(f.code, i) <= Wide(f.code, m)
  BY <1>1, WideGrows
<1>4. \A i \in 1 .. Len(f.code) : Width(f.code[i]) \in Nat
  BY <1>1, WidthIs
<1>5. End(f, 0) = f.slots + ArgumentsOf(f.by)
  BY <1>1, <1>2 DEF End
<1>6. \A i \in 0 .. Len(f.code) : End(f, i) \in Nat /\ End(f, i) >= f.slots
  BY <1>1, <1>2 DEF End
<1>7. \A i \in 1 .. Len(f.code) : End(f, i) = End(f, i - 1) + Width(f.code[i])
  <2>1. SUFFICES ASSUME NEW i \in 1 .. Len(f.code) PROVE End(f, i) = End(f, i - 1) + Width(f.code[i])
    OBVIOUS
  <2>2. i - 1 \in 0 .. Len(f.code) /\ i \in 0 .. Len(f.code)
    BY <1>1
  <2>3. Wide(f.code, i) = Wide(f.code, i - 1) + Width(f.code[i])
    BY <1>2, <2>1
  <2>4. Wide(f.code, i - 1) \in Nat /\ Width(f.code[i]) \in Nat
    BY <1>2, <1>4, <2>1, <2>2
  <2>5. f.slots + ArgumentsOf(f.by) + (Wide(f.code, i - 1) + Width(f.code[i]))
          = f.slots + ArgumentsOf(f.by) + Wide(f.code, i - 1) + Width(f.code[i])
    BY <1>1, <2>4
  <2>6. QED
    BY <2>3, <2>5 DEF End
<1>8. \A i, m \in 0 .. Len(f.code) : i <= m => End(f, i) <= End(f, m)
  BY <1>1, <1>2, <1>3 DEF End
<1>9. ASSUME NEW i \in 0 .. Len(f.code), NEW m \in 0 .. Len(f.code), i < m
      PROVE  End(f, i) + Width(f.code[m]) <= End(f, m)
  <2>1. m \in 1 .. Len(f.code) /\ m - 1 \in 0 .. Len(f.code) /\ i <= m - 1
    BY <1>1, <1>9
  <2>2. End(f, i) <= End(f, m - 1) /\ End(f, m) = End(f, m - 1) + Width(f.code[m])
    BY <1>7, <1>8, <2>1
  <2>3. QED
    BY <1>4, <1>6, <2>1, <2>2
<1>10. QED
  BY <1>5, <1>6, <1>7, <1>8, <1>9

\* The slot of a handler is above the frame's first, with room for what is
\* pending below it.
LEMMA HandledEnd ==
  ASSUME NEW f \in FrameRecord, NEW i \in 1 .. Len(f.code), Handles(f.code[i])
  PROVE  /\ End(f, i) \in Nat /\ f.slots + 2 <= End(f, i)
         /\ \A m \in 0 .. i - 1 : End(f, m) + 2 <= End(f, i)
         /\ \A m \in i .. Len(f.code) : End(f, i) <= End(f, m)
<1>1. f.code[i] \in Place /\ Len(f.code) \in Nat /\ f.slots \in Nat
  BY FrameIs
<1>2. Width(f.code[i]) \in Nat /\ Width(f.code[i]) >= 2
  BY <1>1, WidthIs
<1>3. \A m \in 0 .. i - 1 : m \in 0 .. Len(f.code) /\ m < i /\ i \in 0 .. Len(f.code)
  BY <1>1
<1>4. \A m \in 0 .. i - 1 : End(f, m) + Width(f.code[i]) <= End(f, i) /\ End(f, m) \in Nat /\ End(f, i) \in Nat
  BY <1>3, EndIs
<1>5. \A m \in 0 .. i - 1 : End(f, m) + 2 <= End(f, i)
  BY <1>2, <1>4
<1>6. 0 \in 0 .. i - 1 /\ 0 \in 0 .. Len(f.code) /\ i \in 0 .. Len(f.code)
  BY <1>1
<1>7. End(f, 0) >= f.slots /\ End(f, 0) \in Nat /\ End(f, i) \in Nat
  BY <1>6, EndIs
<1>8. f.slots + 2 <= End(f, i)
  BY <1>1, <1>5, <1>6, <1>7
<1>9. \A m \in i .. Len(f.code) : m \in 0 .. Len(f.code) /\ i <= m
  BY <1>1
<1>10. \A m \in i .. Len(f.code) : End(f, i) <= End(f, m)
  BY <1>6, <1>9, EndIs
<1>11. QED
  BY <1>5, <1>7, <1>8, <1>10

\* Frames whose codes begin in the same way have their locals in the same
\* slots.
LEMMA EndSame ==
  ASSUME NEW f \in FrameRecord, NEW c \in Places, NEW n \in 0 .. Len(f.code), n <= Len(c),
         \A i \in 1 .. n : c[i] = f.code[i]
  PROVE  \A i \in 0 .. n : End(WithCode(f, c), i) = End(f, i) /\ Wide(c, i) = Wide(f.code, i)
<1>1. f.code \in Places /\ Len(f.code) \in Nat /\ Len(c) \in Nat
  BY FrameIs, PlacesAre
<1>2. SUFFICES ASSUME NEW i \in 0 .. n PROVE Wide(c, i) = Wide(f.code, i)
  BY WithCodeIs DEF End
<1>3. i \in 0 .. Len(f.code) /\ i <= Len(c) /\ \A m \in 1 .. i : c[m] = f.code[m]
  BY <1>1
<1>4. QED
  BY <1>1, <1>3, WideSame

\* Changing the part of a construct that keeps its width.
LEMMA SamePlaceIs ==
  ASSUME NEW c \in Place, NEW d \in Place, SamePlace(c, d)
  PROVE  /\ d.k = c.k /\ d.exc = c.exc /\ d.els = c.els /\ d.fin = c.fin
         /\ c.k # "with" => Width(d) = Width(c) /\ (Handles(d) <=> Handles(c))
         /\ Handles(c) /\ Handles(d) => Width(d) = Width(c)
<1>1. d.k = c.k /\ d.exc = c.exc /\ d.els = c.els /\ d.fin = c.fin
  <2>1. \E r : r = d.part /\ d = [c EXCEPT !.part = r]
    BY DEF SamePlace
  <2>2. PICK r : d = [c EXCEPT !.part = r]
    BY <2>1
  <2>3. QED
    BY <2>2 DEF Place
<1>2. c.k \in Kinds
  BY DEF Place
<1>3. QED
  BY <1>1, <1>2 DEF Width, Handles, Kinds

-----------------------------------------------------------------------------
(* The layout of the stack.                                                *)

LEMMA LayoutIs ==
  ASSUME NEW F, NEW s, NEW by, Layout(F, s, by)
  PROVE  /\ F \in Seq(FrameRecord) /\ Len(F) \in Nat /\ DOMAIN F = 1 .. Len(F) /\ \A j \in 1 .. Len(F) : F[j] \in FrameRecord
         /\ s \in Seq(Entry) /\ Len(s) \in Nat /\ DOMAIN s = 1 .. Len(s) /\ \A p \in 1 .. Len(s) : s[p] \in Entry
         /\ \A j \in 1 .. Len(F) - 1 : FrameRight(s, F[j], F[j + 1].out, F[j + 1].by)
         /\ F # <<>> => Len(F) # 0 /\ FrameRight(s, F[Len(F)], Len(s), by)
         /\ Len(F) # 0 => F # <<>>
         /\ \A j, l \in 1 .. Len(F) : j < l => End(F[j], Len(F[j].code)) <= F[l].out
         /\ \A j \in 1 .. Len(F) : F[j].out <= F[j].slots
<1>1. F \in Seq(FrameRecord) /\ s \in Seq(Entry)
  BY DEF Layout
<1>2. Len(F) \in Nat /\ DOMAIN F = 1 .. Len(F) /\ (\A j \in 1 .. Len(F) : F[j] \in FrameRecord) /\ (F # <<>> <=> Len(F) # 0)
  BY <1>1, LenProperties, EmptySeq
<1>3. Len(s) \in Nat /\ DOMAIN s = 1 .. Len(s) /\ \A p \in 1 .. Len(s) : s[p] \in Entry
  BY <1>1, LenProperties
<1>9. Len(F) \in Nat
  BY <1>2
<1>4. \A j \in 1 .. Len(F) - 1 : FrameRight(s, F[j], F[j + 1].out, F[j + 1].by)
  <2>1. SUFFICES ASSUME NEW j \in 1 .. Len(F) - 1 PROVE FrameRight(s, F[j], F[j + 1].out, F[j + 1].by)
    OBVIOUS
  <2>2. j \in 1 .. Len(F) /\ j # Len(F)
    BY <1>9
  <2>3. j \in DOMAIN F
    BY <1>2, <2>2
  <2>4. QED
    BY <2>2, <2>3 DEF Layout
<1>5. F # <<>> => FrameRight(s, F[Len(F)], Len(s), by)
  <2>1. F # <<>> => Len(F) \in DOMAIN F
    BY <1>2
  <2>2. QED
    BY <2>1 DEF Layout
<1>6. \A j, l \in 1 .. Len(F) : j < l => End(F[j], Len(F[j].code)) <= F[l].out
  BY <1>2 DEF Layout
<1>7. \A j \in 1 .. Len(F) : F[j].out <= F[j].slots
  <2>1. SUFFICES ASSUME NEW j \in 1 .. Len(F) PROVE F[j].out <= F[j].slots
    OBVIOUS
  <2>2. CASE j = Len(F)
    BY <1>2, <1>5, <2>2 DEF FrameRight
  <2>3. CASE j # Len(F)
    <3>1. j \in 1 .. Len(F) - 1
      BY <1>9, <2>3
    <3>2. FrameRight(s, F[j], F[j + 1].out, F[j + 1].by)
      BY <1>4, <3>1
    <3>3. QED
      BY <3>2 DEF FrameRight
  <2>4. QED
    BY <2>2, <2>3
<1>8. QED
  BY <1>1, <1>2, <1>3, <1>4, <1>5, <1>6, <1>7

\* A frame ends where the next begins.
LEMMA FramesApart ==
  ASSUME NEW F, NEW s, NEW by, Layout(F, s, by), NEW j \in 1 .. Len(F), NEW i \in 0 .. Len(F[j].code)
  PROVE  /\ End(F[j], i) \in Nat /\ F[j].out \in Nat /\ F[j].slots \in Nat
         /\ F[j].out <= F[j].slots /\ F[j].slots <= End(F[j], i)
         /\ End(F[j], i) <= Len(s)
         /\ \A l \in j + 1 .. Len(F) : End(F[j], i) <= F[l].out /\ F[l].out <= F[l].slots
<1>1. F[j] \in FrameRecord /\ Len(F) \in Nat /\ Len(s) \in Nat
  BY LayoutIs
<1>2. Len(F[j].code) \in Nat /\ F[j].out \in Nat /\ F[j].slots \in Nat
  BY <1>1, FrameIs
<1>3. /\ End(F[j], i) \in Nat /\ F[j].slots <= End(F[j], i)
      /\ End(F[j], Len(F[j].code)) \in Nat /\ End(F[j], i) <= End(F[j], Len(F[j].code))
  BY <1>1, <1>2, EndIs
<1>4. \A l \in j + 1 .. Len(F) : l \in 1 .. Len(F) /\ j < l /\ F[l].out \in Nat /\ F[l].slots \in Nat
  BY <1>1, LayoutIs, FrameIs
<1>5. \A l \in j + 1 .. Len(F) : End(F[j], i) <= F[l].out /\ F[l].out <= F[l].slots
  BY <1>1, <1>3, <1>4, LayoutIs
<1>6. F[j].out <= F[j].slots
  BY LayoutIs
<1>7. End(F[j], i) <= Len(s)
  <2> DEFINE n == Len(F)
  <2>1. n \in 1 .. Len(F) /\ F # <<>> /\ F[n] \in FrameRecord
    BY <1>1, LayoutIs
  <2>2. FrameRight(s, F[n], Len(s), by)
    BY <2>1, LayoutIs
  <2>3. Len(F[n].code) \in Nat /\ End(F[n], Len(F[n].code)) \in Nat /\ End(F[n], Len(F[n].code)) >= F[n].slots /\ F[n].slots \in Nat /\ F[n].out \in Nat
    BY <2>1, FrameIs, EndIs
  <2>4. End(F[n], Len(F[n].code)) <= Len(s)
    BY <1>1, <2>2, <2>3 DEF FrameRight
  <2>5. CASE j = n
    BY <1>1, <1>3, <2>4, <2>5
  <2>6. CASE j # n
    <3>1. n \in j + 1 .. Len(F)
      BY <1>1, <2>6
    <3>2. QED
      BY <1>1, <1>3, <1>5, <2>3, <2>4, <3>1
  <2>7. QED
    BY <2>5, <2>6
<1>8. QED
  BY <1>2, <1>3, <1>5, <1>6, <1>7

\* What a frame says of its slots stays true when they keep their entries.
LEMMA HandlerKept ==
  ASSUME NEW f \in FrameRecord, NEW i \in 1 .. Len(f.code), Handles(f.code[i]), NEW s, HandlerRight(s, f, i),
         NEW c \in Places, Len(c) >= i, \A m \in 1 .. i : c[m] = f.code[m],
         NEW t, t[End(f, i)] = s[End(f, i)], t[End(f, i) - 1] = s[End(f, i) - 1]
  PROVE  HandlerRight(t, WithCode(f, c), i)
<1> DEFINE g == WithCode(f, c)
           p == End(f, i)
<1>1. Len(f.code) \in Nat /\ Len(c) \in Nat /\ i \in 0 .. Len(f.code) /\ i <= Len(f.code)
  BY FrameIs, PlacesAre
<1>2. g.code = c /\ g.by = f.by
  BY WithCodeIs
<1>3. \A m \in 0 .. i : End(g, m) = End(f, m) /\ Wide(c, m) = Wide(f.code, m)
  BY <1>1, EndSame
<1>4. End(g, i) = p
  BY <1>1, <1>3
<1> HIDE DEF g, p
<1>5. s[p].op \in HandlerOps /\ (f.by = "host" => s[p].op # "RETURN") /\ t[p] = s[p] /\ t[p - 1] = s[p - 1]
  BY DEF HandlerRight, p
<1>6. CASE s[p].op = "EXIT_LOOP"
  <2>1. LeavesTo(f, i, s[p], s[p - 1])
    BY <1>6 DEF HandlerRight, p
  <2>2. PICK m \in 1 .. i - 1 : /\ Agree(s[p].to, f.code, m) /\ f.code[m].k \in Loops
                                /\ s[p - 1] = Count(ArgumentsOf(f.by) + Wide(f.code, m))
    BY <2>1 DEF LeavesTo
  <2>0. c[i].part \in Leaving
    BY <1>1, <2>1 DEF LeavesTo
  <2>3. m \in 1 .. i /\ m \in 0 .. i /\ c[m] = f.code[m] /\ \A l \in 1 .. m - 1 : c[l] = f.code[l]
    BY <1>1
  <2>4. Agree(t[p].to, c, m)
    BY <1>5, <2>2, <2>3 DEF Agree
  <2>5. LeavesTo(g, i, t[p], t[p - 1])
    BY <1>2, <1>3, <1>5, <2>0, <2>2, <2>3, <2>4 DEF LeavesTo
  <2>6. QED
    BY <1>2, <1>4, <1>5, <1>6, <2>5 DEF HandlerRight, g
<1>7. CASE s[p].op # "EXIT_LOOP"
  <2>1. StaysAt(f.code, i, s[p])
    BY <1>7 DEF HandlerRight, p
  <2>2. c[i] = f.code[i] /\ \A l \in 1 .. i - 1 : c[l] = f.code[l]
    BY <1>1
  <2>3. StaysAt(c, i, t[p])
    BY <1>5, <2>1, <2>2 DEF StaysAt, Agree
  <2>4. QED
    BY <1>2, <1>4, <1>5, <1>7, <2>3 DEF HandlerRight, g
<1>8. QED
  BY <1>6, <1>7

LEMMA FrameKept ==
  ASSUME NEW f \in FrameRecord, NEW s, NEW top, NEW by, FrameRight(s, f, top, by),
         NEW t, \A p \in 1 .. top : t[p] = s[p]
  PROVE  FrameRight(t, f, top, by)
<1>1. Len(f.code) \in Nat /\ DOMAIN f.code = 1 .. Len(f.code) /\ f.code \in Places /\ f.out \in Nat
  BY FrameIs
<1>2. WithCode(f, f.code) = f
  BY DEF WithCode, FrameRecord
<1>3. Len(f.code) \in 0 .. Len(f.code) /\ End(f, Len(f.code)) \in Nat
  BY <1>1, EndIs
<1>4. top = End(f, Len(f.code)) + (IF by = "native" THEN 1 ELSE 0)
  BY DEF FrameRight
<1>5. top \in Nat /\ End(f, Len(f.code)) <= top
  BY <1>3, <1>4
<1>6. ASSUME NEW i \in DOMAIN f.code, Handles(f.code[i]) PROVE HandlerRight(t, f, i)
  <2>1. i \in 1 .. Len(f.code) /\ HandlerRight(s, f, i)
    BY <1>1, <1>6 DEF FrameRight
  <2>2. /\ End(f, i) \in Nat /\ f.slots + 2 <= End(f, i) /\ f.slots \in Nat
        /\ \A m \in i .. Len(f.code) : End(f, i) <= End(f, m)
    BY <1>6, <2>1, HandledEnd, FrameIs
  <2>3. Len(f.code) \in i .. Len(f.code)
    BY <1>1, <2>1
  <2>4. End(f, i) <= End(f, Len(f.code))
    BY <2>2, <2>3
  <2>5. End(f, i) \in 1 .. top /\ End(f, i) - 1 \in 1 .. top
    BY <1>3, <1>5, <2>2, <2>4
  <2>6. t[End(f, i)] = s[End(f, i)] /\ t[End(f, i) - 1] = s[End(f, i) - 1]
    BY <2>5
  <2>7. Len(f.code) >= i /\ \A m \in 1 .. i : f.code[m] = f.code[m]
    BY <1>1, <2>1
  <2>8. HandlerRight(t, WithCode(f, f.code), i)
    BY <1>1, <1>6, <2>1, <2>6, <2>7, HandlerKept
  <2>9. QED
    BY <1>2, <2>8
<1>7. \A p \in f.out + 1 .. top : p \in 1 .. top
  BY <1>1, <1>5
<1>8. ASSUME NEW p \in f.out + 1 .. top, t[p].op \in HandlerOps
      PROVE  \E i \in DOMAIN f.code : Handles(f.code[i]) /\ p = End(f, i)
  <2>1. s[p].op \in HandlerOps
    BY <1>7, <1>8
  <2>2. QED
    BY <2>1 DEF FrameRight
<1>9. QED
  BY <1>6, <1>8 DEF FrameRight

\* Each handler on the stack belongs to a construct that a frame is in.
LEMMA Owner ==
  ASSUME NEW F, NEW s, NEW by, Layout(F, s, by), NEW p \in 1 .. Len(s), s[p].op \in HandlerOps
  PROVE  \E j \in 1 .. Len(F) :
           /\ \E i \in 1 .. Len(F[j].code) : Handles(F[j].code[i]) /\ p = End(F[j], i)
           /\ F[j].slots < p
           /\ \A l \in j + 1 .. Len(F) : p <= F[l].out
<1>1. Len(F) \in Nat /\ Len(s) \in Nat
  BY LayoutIs
<1>2. F # <<>>
  <2>1. F = <<>> => s = <<>>
    BY DEF Layout
  <2>2. Len(s) # 0
    BY <1>1
  <2>3. QED
    BY <2>1, <2>2, LenProperties, EmptySeq
<1>3. Len(F) # 0 /\ F[1].out = 0
  BY <1>2, LayoutIs DEF Layout
<1> DEFINE Below == {j \in 1 .. Len(F) : F[j].out < p}
<1>4. 1 \in Below
  BY <1>1, <1>3
<1>5. PICK j \in Below : \A l \in Below : l <= j
  <2>1. Below \subseteq 1 .. Len(F) /\ Below # {}
    BY <1>4
  <2> HIDE DEF Below
  <2>2. QED
    BY <1>1, <2>1, Greatest
<1>6. F[j] \in FrameRecord /\ F[j].out < p /\ j \in 1 .. Len(F)
  BY <1>5, LayoutIs
<1>7. \A l \in j + 1 .. Len(F) : F[l].out \in Nat /\ p <= F[l].out
  <2>1. SUFFICES ASSUME NEW l \in j + 1 .. Len(F) PROVE F[l].out \in Nat /\ p <= F[l].out
    OBVIOUS
  <2>2. l \in 1 .. Len(F) /\ ~(l <= j)
    BY <1>1, <1>6
  <2>3. ~(F[l].out < p)
    BY <1>5, <2>2
  <2>4. F[l].out \in Nat
    BY <2>2, LayoutIs, FrameIs
  <2>5. QED
    BY <2>3, <2>4
<1>8. \E top, b : FrameRight(s, F[j], top, b) /\ p \in F[j].out + 1 .. top
  <2>1. F[j].out \in Nat
    BY <1>6, FrameIs
  <2>2. CASE j = Len(F)
    <3>1. FrameRight(s, F[j], Len(s), by)
      BY <1>2, <2>2, LayoutIs
    <3>2. QED
      BY <1>1, <1>6, <2>1, <3>1
  <2>3. CASE j # Len(F)
    <3>1. j \in 1 .. Len(F) - 1 /\ j + 1 \in j + 1 .. Len(F)
      BY <1>1, <1>6, <2>3
    <3>2. FrameRight(s, F[j], F[j + 1].out, F[j + 1].by)
      BY <3>1, LayoutIs
    <3>3. p <= F[j + 1].out /\ F[j + 1].out \in Nat
      BY <1>7, <3>1
    <3>4. QED
      BY <1>1, <1>6, <2>1, <3>2, <3>3
  <2>4. QED
    BY <2>2, <2>3
<1>9. PICK i \in DOMAIN F[j].code : Handles(F[j].code[i]) /\ p = End(F[j], i)
  BY <1>8 DEF FrameRight
<1>10. i \in 1 .. Len(F[j].code) /\ F[j].slots \in Nat
  BY <1>6, FrameIs
<1>11. F[j].slots < p
  BY <1>6, <1>9, <1>10, HandledEnd
<1>12. QED
  BY <1>6, <1>7, <1>9, <1>10, <1>11

\* The first j frames of F are left, of them the last at another place, and
\* the entries up to the handler of construct i, with data below the handler.
IsLanded(G, t, F, s, j, i, to) ==
  /\ G \in Seq(FrameRecord) /\ Len(G) = j
  /\ \A l \in 1 .. j - 1 : G[l] = F[l]
  /\ G[j] = WithCode(F[j], to)
  /\ t \in Seq(Entry) /\ Len(t) = End(F[j], i)
  /\ \A p \in 1 .. End(F[j], i) - 2 : t[p] = s[p]
  /\ t[End(F[j], i) - 1] \in Data
  /\ HandlerRight(t, G[j], i)

LEMMA DataIs ==
  ASSUME NEW v \in Data
  PROVE  v.op \notin HandlerOps
BY DEF Data, HandlerOps, Catching, Interrupting

\* The frame that control lands in.
LEMMA LandedFrame ==
  ASSUME NEW f \in FrameRecord, NEW s, NEW top, NEW by, FrameRight(s, f, top, by),
         NEW i \in 1 .. Len(f.code), Handles(f.code[i]),
         NEW to \in Places, Agree(to, f.code, i), Handles(to[i]),
         NEW t, \A p \in 1 .. End(f, i) - 2 : t[p] = s[p], t[End(f, i) - 1] \in Data,
         HandlerRight(t, WithCode(f, to), i)
  PROVE  FrameRight(t, WithCode(f, to), End(f, i), "none") /\ End(WithCode(f, to), i) = End(f, i)
<1> DEFINE g == WithCode(f, to)
           h == End(f, i)
<1>1. /\ g \in FrameRecord /\ g.code = to /\ g.slots = f.slots /\ g.out = f.out /\ g.by = f.by
  BY WithCodeIs
<1>2. /\ Len(f.code) \in Nat /\ DOMAIN f.code = 1 .. Len(f.code) /\ f.out \in Nat /\ f.slots \in Nat
      /\ \A m \in 1 .. Len(f.code) : f.code[m] \in Place
  BY FrameIs
<1>3. Len(to) = i /\ (\A l \in 1 .. i - 1 : to[l] = f.code[l]) /\ SamePlace(f.code[i], to[i])
  BY DEF Agree
<1>4. to[i] \in Place /\ DOMAIN to = 1 .. i
  BY <1>3, PlacesAre
<1>5. i - 1 \in 0 .. Len(f.code) /\ i - 1 <= Len(to) /\ i \in Nat
  BY <1>2, <1>3
<1>6. \A m \in 0 .. i - 1 : End(g, m) = End(f, m)
  BY <1>3, <1>5, EndSame
<1>7. Width(to[i]) = Width(f.code[i])
  BY <1>2, <1>3, <1>4, SamePlaceIs
<1>8. End(g, i) = h
  <2>1. i \in 1 .. Len(g.code)
    BY <1>1, <1>3, <1>5
  <2>2. End(g, i) = End(g, i - 1) + Width(to[i])
    BY <1>1, <2>1, EndIs
  <2>3. End(f, i) = End(f, i - 1) + Width(f.code[i])
    BY EndIs
  <2>4. i - 1 \in 0 .. i - 1
    BY <1>5
  <2>5. QED
    BY <1>6, <1>7, <2>2, <2>3, <2>4
<1>9. h \in Nat /\ f.slots + 2 <= h /\ \A m \in 0 .. i - 1 : End(f, m) + 2 <= h
  BY HandledEnd
<1> HIDE DEF g, h
<1>10. f.out <= f.slots
  BY DEF FrameRight
<1>11. AtCall(g, "none")
  BY <1>1, <1>3 DEF AtCall, Entering, Handles
<1>12. \A m \in DOMAIN g.code : m < Len(g.code) => g.code[m].part \in Inside
  <2>1. SUFFICES ASSUME NEW m \in 1 .. i, m < i PROVE to[m].part \in Inside
    BY <1>1, <1>3, <1>4
  <2>2. m \in 1 .. Len(f.code) /\ m < Len(f.code) /\ m \in 1 .. i - 1
    BY <1>2, <2>1
  <2>3. f.code[m].part \in Inside
    BY <1>2, <2>2 DEF FrameRight
  <2>4. QED
    BY <1>3, <2>2, <2>3
<1>13. ASSUME NEW m \in DOMAIN g.code, Handles(g.code[m]) PROVE HandlerRight(t, g, m)
  <2>1. m \in 1 .. i /\ Handles(to[m])
    BY <1>1, <1>3, <1>4, <1>13
  <2>2. CASE m = i
    BY <2>2 DEF g
  <2>3. CASE m # i
    <3>1. m \in 1 .. Len(f.code) /\ m \in 1 .. i - 1 /\ m \in 0 .. i - 1 /\ Len(to) >= m
      BY <1>2, <1>3, <2>1, <2>3
    <3>2. Handles(f.code[m]) /\ HandlerRight(s, f, m)
      BY <1>2, <1>3, <2>1, <3>1 DEF FrameRight
    <3>3. End(f, m) \in Nat /\ f.slots + 2 <= End(f, m) /\ End(f, m) + 2 <= h
      BY <1>9, <3>1, <3>2, HandledEnd
    <3>4. End(f, m) \in 1 .. h - 2 /\ End(f, m) - 1 \in 1 .. h - 2
      BY <1>2, <1>9, <3>3
    <3>5. t[End(f, m)] = s[End(f, m)] /\ t[End(f, m) - 1] = s[End(f, m) - 1]
      BY <3>4 DEF h
    <3>6. \A l \in 1 .. m : to[l] = f.code[l]
      BY <1>3, <3>1
    <3>7. QED
      BY <3>1, <3>2, <3>5, <3>6, HandlerKept DEF g
  <2>4. QED
    BY <2>2, <2>3
<1>14. ASSUME NEW p \in g.out + 1 .. h, t[p].op \in HandlerOps
       PROVE  \E m \in DOMAIN g.code : Handles(g.code[m]) /\ p = End(g, m)
  <2>1. CASE p = h
    BY <1>1, <1>3, <1>4, <1>8, <2>1
  <2>2. CASE p = h - 1
    BY <1>14, <2>2, DataIs DEF h
  <2>3. CASE p # h /\ p # h - 1
    <3>1. p \in 1 .. h - 2 /\ p \in f.out + 1 .. h
      BY <1>1, <1>2, <1>9, <2>3
    <3>2. s[p].op \in HandlerOps
      BY <1>14, <3>1 DEF h
    <3>3. p \in f.out + 1 .. top
      <4>1. Len(f.code) \in 0 .. Len(f.code) /\ Len(f.code) \in i .. Len(f.code)
        BY <1>2, <1>5
      <4>2. h <= End(f, Len(f.code)) /\ End(f, Len(f.code)) \in Nat
        BY <4>1, HandledEnd, EndIs DEF h
      <4>3. top \in Nat /\ End(f, Len(f.code)) <= top
        BY <4>2 DEF FrameRight
      <4>4. QED
        BY <1>2, <1>9, <3>1, <4>2, <4>3
    <3>4. PICK m \in DOMAIN f.code : Handles(f.code[m]) /\ p = End(f, m)
      BY <3>2, <3>3 DEF FrameRight
    <3>5. m \in 1 .. Len(f.code)
      BY <1>2
    <3>6. ~(i <= m)
      <4>1. SUFFICES ASSUME i <= m PROVE FALSE
        OBVIOUS
      <4>2. m \in i .. Len(f.code)
        BY <1>5, <3>5, <4>1
      <4>3. h <= End(f, m)
        BY <4>2, HandledEnd DEF h
      <4>4. QED
        BY <1>9, <3>1, <3>4, <4>3
    <3>7. m \in 1 .. i - 1 /\ m \in 0 .. i - 1 /\ m \in DOMAIN to
      BY <1>4, <1>5, <3>5, <3>6
    <3>8. Handles(to[m]) /\ p = End(g, m)
      BY <1>3, <1>6, <3>4, <3>7
    <3>9. QED
      BY <1>1, <3>7, <3>8
  <2>4. QED
    BY <2>1, <2>2, <2>3
<1>15. h = End(g, Len(g.code)) + (IF "none" = "native" THEN 1 ELSE 0)
  BY <1>1, <1>3, <1>8, <1>9
<1>16. FrameRight(t, g, h, "none")
  BY <1>1, <1>10, <1>11, <1>12, <1>13, <1>14, <1>15 DEF FrameRight
<1>17. QED
  BY <1>8, <1>16 DEF g, h

\* The layout from its parts.
LEMMA LaysOut ==
  ASSUME NEW F \in Seq(FrameRecord), NEW s \in Seq(Entry), NEW by,
         F # <<>>, F[1].out = 0, F[1].slots = 1, by # "host",
         \A j \in 1 .. Len(F) : F[j].by = "host" <=> j = 1,
         \A j, l \in 1 .. Len(F) : j < l => End(F[j], Len(F[j].code)) <= F[l].out,
         \A j \in 1 .. Len(F) - 1 : FrameRight(s, F[j], F[j + 1].out, F[j + 1].by),
         FrameRight(s, F[Len(F)], Len(s), by)
  PROVE  Layout(F, s, by)
<1>1. DOMAIN F = 1 .. Len(F) /\ Len(F) \in Nat
  BY LenProperties
<1>2. \A j \in DOMAIN F : j # Len(F) => j \in 1 .. Len(F) - 1
  BY <1>1
<1>3. \A j \in DOMAIN F : IF j = Len(F) THEN FrameRight(s, F[j], Len(s), by)
                                        ELSE FrameRight(s, F[j], F[j + 1].out, F[j + 1].by)
  BY <1>2
<1>4. QED
  BY <1>1, <1>3 DEF Layout

\* The frames below the top one stay as they are when their entries do: the
\* top frame may change its code and get other entries.
IsMoved(G, F, n, c) ==
  /\ G \in Seq(FrameRecord) /\ Len(G) = n
  /\ \A l \in 1 .. n - 1 : G[l] = F[l]
  /\ G[n] = WithCode(F[n], c)

LEMMA Moves ==
  ASSUME NEW F, NEW s, NEW by, Layout(F, s, by), NEW n \in 1 .. Len(F),
         NEW c \in Places, NEW G, IsMoved(G, F, n, c),
         NEW t \in Seq(Entry), \A p \in 1 .. F[n].out : t[p] = s[p],
         NEW b, b # "host", FrameRight(t, G[n], Len(t), b)
  PROVE  Layout(G, t, b)
<1>1. Len(F) \in Nat /\ n \in Nat /\ F[n] \in FrameRecord
  BY LayoutIs
<1>2. G \in Seq(FrameRecord) /\ Len(G) = n /\ (\A l \in 1 .. n - 1 : G[l] = F[l]) /\ G[n] = WithCode(F[n], c)
  BY DEF IsMoved
<1>3. \A l \in 1 .. n : G[l].out = F[l].out /\ G[l].by = F[l].by /\ G[l].slots = F[l].slots
  <2>1. G[n].out = F[n].out /\ G[n].by = F[n].by /\ G[n].slots = F[n].slots
    BY <1>1, <1>2, WithCodeIs
  <2>2. \A l \in 1 .. n : l = n \/ l \in 1 .. n - 1
    BY <1>1
  <2>3. QED
    BY <1>2, <2>1, <2>2
<1>4. G # <<>>
  BY <1>1, <1>2, LenProperties, EmptySeq
<1>5. F # <<>> /\ F[1].out = 0 /\ F[1].slots = 1 /\ \A j \in 1 .. Len(F) : F[j].by = "host" <=> j = 1
  <2>1. F # <<>> /\ DOMAIN F = 1 .. Len(F)
    BY <1>1, LayoutIs
  <2>2. QED
    BY <2>1 DEF Layout
<1>6. G[1].out = 0 /\ G[1].slots = 1 /\ \A j \in 1 .. Len(G) : G[j].by = "host" <=> j = 1
  BY <1>1, <1>2, <1>3, <1>5
<1>7. ASSUME NEW j \in 1 .. Len(G), NEW l \in 1 .. Len(G), j < l
      PROVE  End(G[j], Len(G[j].code)) <= G[l].out
  <2>1. j \in 1 .. n - 1 /\ j \in 1 .. Len(F) /\ l \in 1 .. Len(F) /\ l \in 1 .. n
    BY <1>1, <1>2, <1>7
  <2>2. End(F[j], Len(F[j].code)) <= F[l].out
    BY <1>7, <2>1, LayoutIs
  <2>3. QED
    BY <1>2, <1>3, <2>1, <2>2
<1>8. ASSUME NEW j \in 1 .. Len(G) - 1 PROVE FrameRight(t, G[j], G[j + 1].out, G[j + 1].by)
  <2>1. j \in 1 .. n - 1 /\ j \in 1 .. Len(F) - 1 /\ j \in 1 .. Len(F) /\ j + 1 \in 1 .. n
    BY <1>1, <1>2, <1>8
  <2>2. FrameRight(s, F[j], F[j + 1].out, F[j + 1].by) /\ F[j] \in FrameRecord
    BY <2>1, LayoutIs
  <2>3. \A p \in 1 .. F[j + 1].out : t[p] = s[p]
    <3>1. F[j + 1].out <= F[n].out /\ F[j + 1].out \in Nat /\ F[n].out \in Nat
      <4>1. CASE j + 1 = n
        BY <1>1, <4>1, FrameIs
      <4>2. CASE j + 1 # n
        <5>1. j + 1 \in 1 .. Len(F) /\ n \in (j + 1) + 1 .. Len(F) /\ 0 \in 0 .. Len(F[j + 1].code)
          <6>1. j + 1 \in 1 .. Len(F) /\ n \in (j + 1) + 1 .. Len(F)
            BY <1>1, <2>1, <4>2
          <6>2. Len(F[j + 1].code) \in Nat
            BY <6>1, LayoutIs, FrameIs
          <6>3. QED
            BY <6>1, <6>2
        <5>2. /\ End(F[j + 1], 0) \in Nat /\ F[j + 1].out \in Nat /\ F[j + 1].slots \in Nat
              /\ F[j + 1].out <= F[j + 1].slots /\ F[j + 1].slots <= End(F[j + 1], 0)
              /\ End(F[j + 1], 0) <= F[n].out
          BY <5>1, FramesApart
        <5>3. F[n].out \in Nat
          BY <1>1, FrameIs
        <5>4. \A a, d, e, h \in Nat : a <= d /\ d <= e /\ e <= h => a <= h
          OBVIOUS
        <5>5. QED
          BY <5>2, <5>3, <5>4
      <4>3. QED
        BY <4>1, <4>2
    <3>2. \A p \in 1 .. F[j + 1].out : p \in 1 .. F[n].out
      BY <3>1
    <3>3. QED
      BY <3>2
  <2>4. FrameRight(t, F[j], F[j + 1].out, F[j + 1].by)
    BY <2>2, <2>3, FrameKept
  <2>5. QED
    BY <1>2, <1>3, <2>1, <2>4
<1>9. FrameRight(t, G[Len(G)], Len(t), b)
  BY <1>2
<1>10. QED
  BY <1>2, <1>4, <1>6, <1>7, <1>8, <1>9, LaysOut

LEMMA Landing ==
  ASSUME NEW F, NEW s, NEW by, Layout(F, s, by), NEW j \in 1 .. Len(F),
         NEW i \in 1 .. Len(F[j].code), Handles(F[j].code[i]),
         NEW to \in Places, Agree(to, F[j].code, i), Handles(to[i]),
         NEW G, NEW t, IsLanded(G, t, F, s, j, i, to)
  PROVE  Layout(G, t, "none")
<1>1. Len(F) \in Nat /\ F[j] \in FrameRecord
  BY LayoutIs
<1>2. \E top, b : FrameRight(s, F[j], top, b)
  <2>1. CASE j = Len(F)
    BY <1>1, <2>1, LayoutIs
  <2>2. CASE j # Len(F)
    <3>1. j \in 1 .. Len(F) - 1
      BY <1>1, <2>2
    <3>2. QED
      BY <3>1, LayoutIs
  <2>3. QED
    BY <2>1, <2>2
<1>3. PICK top : \E b : FrameRight(s, F[j], top, b)
  BY <1>2
<1>4. PICK b : FrameRight(s, F[j], top, b)
  BY <1>3
<1>5. /\ IsMoved(G, F, j, to) /\ G[j] = WithCode(F[j], to)
      /\ t \in Seq(Entry) /\ Len(t) = End(F[j], i)
      /\ (\A p \in 1 .. End(F[j], i) - 2 : t[p] = s[p]) /\ t[End(F[j], i) - 1] \in Data
      /\ HandlerRight(t, G[j], i)
  BY DEF IsLanded, IsMoved
<1>6. FrameRight(t, WithCode(F[j], to), End(F[j], i), "none")
  BY <1>1, <1>4, <1>5, LandedFrame
<1>7. FrameRight(t, G[j], Len(t), "none")
  BY <1>5, <1>6
<1>8. \A p \in 1 .. F[j].out : t[p] = s[p]
  <2>1. End(F[j], i) \in Nat /\ F[j].slots + 2 <= End(F[j], i)
    BY <1>1, HandledEnd
  <2>2. F[j].out \in Nat /\ F[j].slots \in Nat /\ F[j].out <= F[j].slots
    BY <1>1, FrameIs, LayoutIs
  <2>3. \A p \in 1 .. F[j].out : p \in 1 .. End(F[j], i) - 2
    BY <2>1, <2>2
  <2>4. QED
    BY <1>5, <2>3
<1>9. QED
  BY <1>5, <1>7, <1>8, Moves

\* Frame k and those above it are left, for the native code that has called
\* it or, in the same run(), for the frame below.
LEMMA Drops ==
  ASSUME NEW F, NEW s, NEW by, Layout(F, s, by), NEW k \in 1 .. Len(F),
         NEW G, IsFirstPart(G, FrameRecord, F, k - 1), NEW t, IsFirstPart(t, Entry, s, F[k].out)
  PROVE  Layout(G, t, IF F[k].by = "run" THEN "none" ELSE F[k].by)
<1>1. Len(F) \in Nat /\ Len(s) \in Nat /\ F[k] \in FrameRecord /\ F # <<>> /\ DOMAIN F = 1 .. Len(F)
  BY LayoutIs
<1>2. G \in Seq(FrameRecord) /\ Len(G) = k - 1 /\ \A l \in 1 .. k - 1 : G[l] = F[l]
  BY DEF IsFirstPart
<1>3. t \in Seq(Entry) /\ Len(t) = F[k].out /\ \A p \in 1 .. F[k].out : t[p] = s[p]
  BY DEF IsFirstPart
<1>4. F[1].out = 0 /\ \A j \in 1 .. Len(F) : F[j].by = "host" <=> j = 1
  BY <1>1 DEF Layout
<1>5. CASE k = 1
  <2>1. G = <<>> /\ t = <<>>
    BY <1>2, <1>3, <1>4, <1>5, EmptySeq, LenProperties
  <2>2. F[k].by = "host"
    BY <1>1, <1>4, <1>5
  <2>3. G \in Seq(FrameRecord) /\ t \in Seq(Entry) /\ DOMAIN G = {}
    BY <1>2, <1>3, <2>1
  <2>4. QED
    BY <2>1, <2>2, <2>3 DEF Layout
<1>6. CASE k # 1
  <2> DEFINE n == k - 1
             b == IF F[k].by = "run" THEN "none" ELSE F[k].by
  <2>1. n \in 1 .. Len(F) - 1 /\ n \in 1 .. Len(F) /\ n + 1 = k
    BY <1>1, <1>6
  <2>2. F[n] \in FrameRecord /\ FrameRight(s, F[n], F[k].out, F[k].by)
    BY <2>1, LayoutIs
  <2>3. FrameRight(t, F[n], F[k].out, F[k].by)
    BY <1>3, <2>2, FrameKept
  <2>4. FrameRight(t, F[n], Len(t), b)
    <3>1. CASE F[k].by # "run"
      BY <1>3, <2>3, <3>1
    <3>2. CASE F[k].by = "run"
      <4>1. AtCall(F[n], "run")
        BY <2>3, <3>2 DEF FrameRight
      <4>2. AtCall(F[n], "none")
        BY <4>1 DEF AtCall
      <4>3. QED
        BY <1>3, <2>3, <3>2, <4>2 DEF FrameRight
    <3>3. QED
      BY <3>1, <3>2
  <2>5. WithCode(F[n], F[n].code) = F[n] /\ F[n].code \in Places
    BY <2>2 DEF WithCode, FrameRecord
  <2>6. IsMoved(G, F, n, F[n].code)
    BY <1>2, <2>1, <2>5 DEF IsMoved
  <2>7. b # "host"
    BY <1>1, <1>4, <1>6
  <2>8. \A p \in 1 .. F[n].out : t[p] = s[p]
    <3>1. 0 \in 0 .. Len(F[n].code) /\ k \in n + 1 .. Len(F)
      BY <1>1, <2>1, <2>2, FrameIs
    <3>2. /\ End(F[n], 0) \in Nat /\ F[n].out \in Nat /\ F[n].slots \in Nat
          /\ F[n].out <= F[n].slots /\ F[n].slots <= End(F[n], 0)
          /\ End(F[n], 0) <= F[k].out
      BY <2>1, <3>1, FramesApart
    <3>3. F[k].out \in Nat
      BY <1>1, FrameIs
    <3>4. \A p \in 1 .. F[n].out : p \in 1 .. F[k].out
      BY <3>2, <3>3
    <3>5. QED
      BY <1>3, <3>4
  <2>9. G[n] = F[n]
    BY <1>2, <2>1
  <2> HIDE DEF b
  <2>10. Layout(G, t, b)
    BY <1>3, <2>1, <2>4, <2>5, <2>6, <2>7, <2>8, <2>9, Moves
  <2>11. QED
    BY <2>10 DEF b
<1>7. QED
  BY <1>5, <1>6

\* r is s and x after it.
IsAppended(r, S, s, x) ==
  /\ r \in Seq(S) /\ Len(r) = Len(s) + 1
  /\ \A i \in 1 .. Len(s) : r[i] = s[i]
  /\ r[Len(s) + 1] = x

LEMMA Appended ==
  ASSUME NEW S, NEW s \in Seq(S), NEW x \in S
  PROVE  IsAppended(Append(s, x), S, s, x)
BY AppendProperties, LenProperties DEF IsAppended

\* A new frame, r, called for "b", with the data above s as its arguments.
LEMMA Calling ==
  ASSUME NEW F, NEW s, NEW b \in {"run", "native", "enter", "exit"}, Layout(F, s, b),
         NEW r \in FrameRecord, r.code = <<>>, r.by = b, r.out = Len(s), r.out <= r.slots,
         NEW G, IsAppended(G, FrameRecord, F, r),
         NEW t \in Seq(Entry), Len(t) = r.slots + ArgumentsOf(b),
         \A p \in 1 .. Len(s) : t[p] = s[p],
         \A p \in Len(s) + 1 .. Len(t) : t[p] \in Data
  PROVE  Layout(G, t, "none")
<1> DEFINE n == Len(F)
<1>1. /\ n \in Nat /\ Len(s) \in Nat /\ DOMAIN F = 1 .. n /\ Len(t) \in Nat
      /\ \A j \in 1 .. n : F[j] \in FrameRecord
  BY LayoutIs, LenProperties
<1>2. F # <<>>
  BY DEF Layout
<1>3. n # 0 /\ FrameRight(s, F[n], Len(s), b)
  BY <1>2, LayoutIs
<1>4. F[1].out = 0 /\ F[1].slots = 1 /\ \A j \in 1 .. n : F[j].by = "host" <=> j = 1
  BY <1>1, <1>2 DEF Layout
<1>5. G \in Seq(FrameRecord) /\ Len(G) = n + 1 /\ (\A j \in 1 .. n : G[j] = F[j]) /\ G[n + 1] = r
  BY DEF IsAppended
<1> HIDE DEF n
<1>6. G # <<>> /\ G[1].out = 0 /\ G[1].slots = 1
  BY <1>1, <1>3, <1>4, <1>5, LenProperties, EmptySeq
<1>7. \A j \in 1 .. Len(G) : G[j].by = "host" <=> j = 1
  <2>1. SUFFICES ASSUME NEW j \in 1 .. n + 1 PROVE G[j].by = "host" <=> j = 1
    BY <1>5
  <2>2. CASE j = n + 1
    BY <1>1, <1>3, <1>5, <2>2
  <2>3. CASE j # n + 1
    BY <1>1, <1>4, <1>5, <2>3
  <2>4. QED
    BY <2>2, <2>3
<1>8. ASSUME NEW j \in 1 .. Len(G), NEW l \in 1 .. Len(G), j < l
      PROVE  End(G[j], Len(G[j].code)) <= G[l].out
  <2>1. j \in 1 .. n /\ G[j] = F[j] /\ F[j] \in FrameRecord
    BY <1>1, <1>5, <1>8
  <2>2. CASE l = n + 1
    <3>1. Len(F[j].code) \in 0 .. Len(F[j].code)
      BY <2>1, FrameIs
    <3>2. End(F[j], Len(F[j].code)) <= Len(s)
      BY <2>1, <3>1, FramesApart DEF n
    <3>3. QED
      BY <1>5, <2>1, <2>2, <3>2
  <2>3. CASE l # n + 1
    <3>1. l \in 1 .. n /\ G[l] = F[l]
      BY <1>1, <1>5, <2>3
    <3>2. QED
      BY <1>8, <2>1, <3>1, LayoutIs DEF n
  <2>4. QED
    BY <2>2, <2>3
<1>9. ASSUME NEW j \in 1 .. Len(G) - 1 PROVE FrameRight(t, G[j], G[j + 1].out, G[j + 1].by)
  <2>1. j \in 1 .. n /\ G[j] = F[j] /\ F[j] \in FrameRecord
    BY <1>1, <1>5
  <2>2. CASE j = n
    <3>1. FrameRight(t, F[n], Len(s), b)
      BY <1>3, <2>1, <2>2, FrameKept
    <3>2. QED
      BY <1>5, <2>1, <2>2, <3>1
  <2>3. CASE j # n
    <3>1. j \in 1 .. n - 1 /\ j + 1 \in 1 .. n /\ G[j + 1] = F[j + 1]
      BY <1>1, <1>5, <2>1, <2>3
    <3>2. FrameRight(s, F[j], F[j + 1].out, F[j + 1].by)
      BY <3>1, LayoutIs DEF n
    <3>3. F[j + 1].out \in Nat /\ F[j + 1].out <= Len(s)
      <4>1. 0 \in 0 .. Len(F[j + 1].code)
        BY <1>1, <3>1, FrameIs
      <4>2. /\ End(F[j + 1], 0) \in Nat /\ F[j + 1].out \in Nat /\ F[j + 1].slots \in Nat
            /\ F[j + 1].out <= F[j + 1].slots /\ F[j + 1].slots <= End(F[j + 1], 0)
            /\ End(F[j + 1], 0) <= Len(s)
        BY <3>1, <4>1, FramesApart DEF n
      <4>3. QED
        BY <1>1, <4>2
    <3>4. \A p \in 1 .. F[j + 1].out : t[p] = s[p]
      BY <1>1, <3>3
    <3>5. FrameRight(t, F[j], F[j + 1].out, F[j + 1].by)
      BY <2>1, <3>2, <3>4, FrameKept
    <3>6. QED
      BY <2>1, <3>1, <3>5
  <2>4. QED
    BY <2>2, <2>3
<1>10. FrameRight(t, r, Len(t), "none")
  <2>1. Len(r.code) = 0 /\ DOMAIN r.code = {} /\ r.out \in Nat
    BY FrameIs, EmptySeq
  <2>2. Len(t) = End(r, Len(r.code)) + (IF "none" = "native" THEN 1 ELSE 0)
    <3>1. End(r, 0) = r.slots + ArgumentsOf(b)
      BY EndIs
    <3>2. QED
      BY <1>1, <2>1, <3>1
  <2>3. AtCall(r, "none")
    BY DEF AtCall, Entering
  <2>4. \A p \in r.out + 1 .. Len(t) : t[p].op \notin HandlerOps
    BY DataIs
  <2>5. QED
    BY <2>1, <2>2, <2>3, <2>4 DEF FrameRight
<1>11. FrameRight(t, G[Len(G)], Len(t), "none")
  BY <1>5, <1>10
<1>12. QED
  BY <1>5, <1>6, <1>7, <1>8, <1>9, <1>11, LaysOut

\* A frame goes on in another part of a construct it is in, or after it, with
\* the entries above that construct gone; the handler of the construct may
\* have changed.
LEMMA Shrinks ==
  ASSUME NEW f \in FrameRecord, NEW s, Len(s) \in Nat, NEW by, FrameRight(s, f, Len(s), by),
         NEW c \in Places, Len(c) <= Len(f.code), \A l \in 1 .. Len(c) - 1 : c[l] = f.code[l],
         Len(c) # 0 => /\ Width(c[Len(c)]) = Width(f.code[Len(c)])
                       /\ Handles(c[Len(c)]) <=> Handles(f.code[Len(c)]),
         NEW b, b # "native", AtCall(WithCode(f, c), b),
         NEW t, Len(t) = End(f, Len(c)),
         \A p \in 1 .. Len(t) : p # Len(t) \/ Len(c) = 0 \/ ~Handles(c[Len(c)]) => t[p] = s[p],
         Len(c) # 0 /\ Handles(c[Len(c)]) => HandlerRight(t, WithCode(f, c), Len(c))
  PROVE  FrameRight(t, WithCode(f, c), Len(t), b)
<1> DEFINE g == WithCode(f, c)
           m == Len(c)
           h == End(f, m)
<1>1. /\ g \in FrameRecord /\ g.code = c /\ g.slots = f.slots /\ g.out = f.out /\ g.by = f.by
  BY WithCodeIs
<1>2. /\ Len(f.code) \in Nat /\ DOMAIN f.code = 1 .. Len(f.code) /\ f.out \in Nat /\ f.slots \in Nat
      /\ \A l \in 1 .. Len(f.code) : f.code[l] \in Place
  BY FrameIs
<1>3. m \in Nat /\ DOMAIN c = 1 .. m /\ \A l \in 1 .. m : c[l] \in Place
  BY PlacesAre
<1>4. \A l \in 0 .. m : l # m => End(g, l) = End(f, l)
  <2>1. CASE m = 0
    BY <2>1
  <2>2. CASE m # 0
    <3>1. m - 1 \in 0 .. Len(f.code) /\ m - 1 <= Len(c) /\ \A l \in 1 .. m - 1 : c[l] = f.code[l]
      BY <1>2, <1>3, <2>2
    <3>2. \A l \in 0 .. m - 1 : End(g, l) = End(f, l)
      BY <3>1, EndSame
    <3>3. \A l \in 0 .. m : l # m => l \in 0 .. m - 1
      <4>1. m \in Nat
        BY <1>3
      <4> HIDE DEF m
      <4>2. QED
        BY <4>1
    <3>4. QED
      BY <3>2, <3>3
  <2>3. QED
    BY <2>1, <2>2
<1>5. End(g, m) = h
  <2>1. CASE m = 0
    BY <1>1, <2>1, EndIs
  <2>2. CASE m # 0
    <3>0. m <= Len(f.code) /\ Len(g.code) = m
      BY <1>1
    <3>1. m \in 1 .. Len(f.code) /\ m \in 1 .. Len(g.code) /\ m - 1 \in 0 .. m /\ m - 1 # m
      <4> HIDE DEF m, g
      <4>1. QED
        BY <1>2, <1>3, <2>2, <3>0
    <3>2. End(f, m) = End(f, m - 1) + Width(f.code[m]) /\ End(g, m) = End(g, m - 1) + Width(c[m])
      BY <1>1, <3>1, EndIs
    <3>3. QED
      BY <1>4, <2>2, <3>1, <3>2
  <2>3. QED
    BY <2>1, <2>2
<1>6. m \in 0 .. Len(f.code) /\ Len(f.code) \in 0 .. Len(f.code) /\ m <= Len(f.code)
  BY <1>2, <1>3
<1>7. h \in Nat /\ End(f, Len(f.code)) \in Nat /\ h <= End(f, Len(f.code)) /\ h <= Len(s)
  <2>1. h \in Nat /\ End(f, Len(f.code)) \in Nat /\ h <= End(f, Len(f.code))
    BY <1>6, EndIs
  <2>2. End(f, Len(f.code)) <= Len(s)
    BY <2>1 DEF FrameRight
  <2>3. QED
    BY <2>1, <2>2
<1>8. Len(t) = h /\ (Len(t) = End(g, Len(g.code)) + (IF b = "native" THEN 1 ELSE 0))
  BY <1>1, <1>5, <1>7
<1>9. f.out <= f.slots
  BY DEF FrameRight
<1>10. m # 0 => (Handles(c[m]) <=> Handles(f.code[m])) /\ (Handles(c[m]) => HandlerRight(t, g, m))
  OBVIOUS
<1>11. \A p \in 1 .. h : p # h \/ m = 0 \/ ~Handles(c[m]) => t[p] = s[p]
  OBVIOUS
<1>12. (\A l \in 1 .. m - 1 : c[l] = f.code[l]) /\ AtCall(g, b)
  OBVIOUS
<1> HIDE DEF g, m, h
<1>13. \A l \in DOMAIN g.code : l < Len(g.code) => g.code[l].part \in Inside
  <2>1. SUFFICES ASSUME NEW l \in 1 .. m, l < m PROVE c[l].part \in Inside
    BY <1>1, <1>3 DEF m
  <2>2. l \in 1 .. Len(f.code) /\ l < Len(f.code) /\ l \in 1 .. m - 1
    BY <1>2, <1>3, <1>6, <2>1
  <2>3. f.code[l].part \in Inside
    BY <1>2, <2>2 DEF FrameRight
  <2>4. QED
    BY <1>12, <2>2, <2>3
<1>14. ASSUME NEW l \in DOMAIN g.code, Handles(g.code[l]) PROVE HandlerRight(t, g, l)
  <2>1. l \in 1 .. m /\ Handles(c[l]) /\ m # 0
    BY <1>1, <1>3, <1>14
  <2>2. CASE l = m
    BY <1>10, <2>1, <2>2
  <2>3. CASE l # m
    <3>1. l \in 1 .. Len(f.code) /\ l \in 1 .. m - 1 /\ l \in 0 .. m - 1 /\ m >= l /\ m \in l .. Len(f.code) /\ l < m
          /\ l \in 0 .. Len(f.code)
      BY <1>2, <1>3, <1>6, <2>1, <2>3
    <3>2. Handles(f.code[l]) /\ HandlerRight(s, f, l)
      BY <1>2, <1>12, <2>1, <3>1 DEF FrameRight
    <3>3. End(f, l) \in Nat /\ f.slots + 2 <= End(f, l)
      BY <3>1, <3>2, HandledEnd
    <3>4. End(f, l) <= h /\ (Handles(c[m]) => End(f, l) # h)
      <4>1. End(f, l) <= h
        BY <1>6, <3>1, EndIs DEF h
      <4>2. CASE Handles(c[m])
        <5>1. m \in 1 .. Len(f.code) /\ Handles(f.code[m])
          BY <1>10, <2>1, <3>1, <4>2
        <5>2. End(f, l) + 2 <= h
          BY <3>1, <5>1, HandledEnd DEF h
        <5>3. QED
          BY <1>7, <3>3, <4>1, <5>2
      <4>3. QED
        BY <4>1, <4>2
    <3>5. End(f, l) \in 1 .. h /\ End(f, l) - 1 \in 1 .. h /\ End(f, l) - 1 # h
      <4>1. \A e, a, d \in Nat : a + 2 <= e /\ e <= d => e \in 1 .. d /\ e - 1 \in 1 .. d /\ e - 1 # d
        OBVIOUS
      <4>2. h \in Nat /\ f.slots \in Nat
        BY <1>2, <1>7
      <4>3. QED
        BY <3>3, <3>4, <4>1, <4>2
    <3>6. t[End(f, l)] = s[End(f, l)] /\ t[End(f, l) - 1] = s[End(f, l) - 1]
      BY <1>11, <3>4, <3>5
    <3>7. (\A i \in 1 .. l : c[i] = f.code[i]) /\ Len(c) >= l
      BY <1>12, <3>1 DEF m
    <3>8. QED
      BY <3>1, <3>2, <3>6, <3>7, HandlerKept DEF g
  <2>4. QED
    BY <2>2, <2>3
<1>15. ASSUME NEW p \in g.out + 1 .. h, t[p].op \in HandlerOps
       PROVE  \E l \in DOMAIN g.code : Handles(g.code[l]) /\ p = End(g, l)
  <2>1. CASE p = h /\ m # 0 /\ Handles(c[m])
    BY <1>1, <1>3, <1>5, <2>1
  <2>2. CASE ~(p = h /\ m # 0 /\ Handles(c[m]))
    <3>1. p \in 1 .. h /\ p \in f.out + 1 .. Len(s) /\ p \in Nat
      BY <1>1, <1>2, <1>7
    <3>2. s[p].op \in HandlerOps
      BY <1>11, <1>15, <2>2, <3>1
    <3>3. PICK l \in DOMAIN f.code : Handles(f.code[l]) /\ p = End(f, l)
      BY <3>1, <3>2 DEF FrameRight
    <3>4. l \in 1 .. Len(f.code)
      BY <1>2
    <3>5. ~(m < l)
      <4>1. SUFFICES ASSUME m < l PROVE FALSE
        OBVIOUS
      <4>2. m \in 0 .. l - 1
        BY <1>3, <3>4, <4>1
      <4>3. h + 2 <= p
        BY <3>3, <3>4, <4>2, HandledEnd DEF h
      <4>4. QED
        BY <1>7, <3>1, <4>3
    <3>6. l \in 1 .. m /\ l \in 0 .. m /\ m # 0
      BY <1>3, <3>4, <3>5
    <3>7. CASE l = m
      <4>1. p = h /\ Handles(c[m])
        BY <1>10, <3>3, <3>6, <3>7 DEF h
      <4>2. QED
        BY <2>2, <3>6, <4>1
    <3>8. CASE l # m
      <4>1. l \in 1 .. m - 1
        BY <1>3, <3>6, <3>8
      <4>2. c[l] = f.code[l] /\ End(g, l) = End(f, l)
        BY <1>4, <1>12, <3>6, <3>8, <4>1
      <4>3. l \in DOMAIN g.code /\ g.code[l] = c[l]
        BY <1>1, <1>3, <3>6
      <4>4. QED
        BY <3>3, <4>2, <4>3
    <3>9. QED
      BY <3>7, <3>8
  <2>3. QED
    BY <2>1, <2>2
<1>16. FrameRight(t, g, Len(t), b)
  BY <1>1, <1>8, <1>9, <1>12, <1>13, <1>14, <1>15 DEF FrameRight
<1>17. QED
  BY <1>16 DEF g

\* A frame enters another construct, whose locals are pushed, with a handler
\* on top if the construct has one.
LEMMA Grows ==
  ASSUME NEW f \in FrameRecord, NEW s, FrameRight(s, f, Len(s), "none"), Len(s) \in Nat,
         f.code # <<>> => f.code[Len(f.code)].part \in Inside,
         NEW x \in Place, NEW c \in Places, IsAppended(c, Place, f.code, x),
         NEW b, b # "native", AtCall(WithCode(f, c), b),
         NEW t, Len(t) = Len(s) + Width(x),
         \A p \in 1 .. Len(s) : t[p] = s[p],
         \A p \in Len(s) + 1 .. Len(t) : t[p] \in Data \/ (p = Len(t) /\ Handles(x)),
         Handles(x) => HandlerRight(t, WithCode(f, c), Len(c))
  PROVE  FrameRight(t, WithCode(f, c), Len(t), b)
<1> DEFINE g == WithCode(f, c)
           n == Len(f.code)
<1>1. /\ g \in FrameRecord /\ g.code = c /\ g.slots = f.slots /\ g.out = f.out /\ g.by = f.by
  BY WithCodeIs
<1>2. /\ n \in Nat /\ DOMAIN f.code = 1 .. n /\ f.out \in Nat /\ f.slots \in Nat
      /\ f.code \in Places /\ \A l \in 1 .. n : f.code[l] \in Place
  BY FrameIs
<1>3. Len(c) = n + 1 /\ (\A l \in 1 .. n : c[l] = f.code[l]) /\ c[n + 1] = x
  BY DEF IsAppended
<1>4. DOMAIN c = 1 .. n + 1
  BY <1>3, PlacesAre
<1>5. Width(x) \in Nat /\ (Handles(x) => Width(x) >= 2)
  BY WidthIs
<1> HIDE DEF g, n
<1>6. \A l \in 0 .. n : End(g, l) = End(f, l)
  <2>1. n \in 0 .. Len(f.code) /\ n <= Len(c)
    BY <1>2, <1>3 DEF n
  <2>2. QED
    BY <1>3, <2>1, EndSame DEF g
<1>7. End(f, n) = Len(s) /\ f.out <= f.slots
  <2>1. Len(s) = End(f, n) + 0 /\ f.out <= f.slots
    BY DEF FrameRight, n
  <2>2. n \in 0 .. Len(f.code)
    BY <1>2 DEF n
  <2>3. End(f, n) \in Nat
    BY <2>2, EndIs
  <2>4. QED
    BY <2>1, <2>3
<1>8. End(g, n + 1) = Len(t)
  <2>1. n + 1 \in 1 .. Len(g.code) /\ (n + 1) - 1 = n /\ n \in 0 .. n
    BY <1>1, <1>2, <1>3
  <2>2. End(g, n + 1) = End(g, (n + 1) - 1) + Width(g.code[n + 1])
    BY <1>1, <2>1, EndIs
  <2>3. QED
    BY <1>1, <1>3, <1>6, <1>7, <2>1, <2>2
<1>9. Len(t) \in Nat /\ Len(s) <= Len(t)
  BY <1>5
<1>10. Len(t) = End(g, Len(g.code)) + (IF b = "native" THEN 1 ELSE 0)
  BY <1>1, <1>3, <1>8, <1>9
<1>11. \A l \in DOMAIN g.code : l < Len(g.code) => g.code[l].part \in Inside
  <2>1. SUFFICES ASSUME NEW l \in 1 .. n PROVE f.code[l].part \in Inside
    BY <1>1, <1>2, <1>3, <1>4
  <2>2. CASE l = n
    <3>1. f.code # <<>>
      BY <1>2, <2>1, EmptySeq DEF n
    <3>2. QED
      BY <2>2, <3>1 DEF n
  <2>3. CASE l # n
    <3>1. l < n
      BY <1>2, <2>3
    <3>2. QED
      BY <1>2, <3>1 DEF FrameRight, n
  <2>4. QED
    BY <2>2, <2>3
<1>12. ASSUME NEW l \in DOMAIN g.code, Handles(g.code[l]) PROVE HandlerRight(t, g, l)
  <2>1. l \in 1 .. n + 1 /\ Handles(c[l])
    BY <1>1, <1>4, <1>12
  <2>2. CASE l = n + 1
    BY <1>3, <2>1, <2>2 DEF g
  <2>3. CASE l # n + 1
    <3>1. l \in 1 .. n /\ l \in 0 .. n /\ l <= n
      BY <1>2, <2>1, <2>3
    <3>2. Handles(f.code[l]) /\ HandlerRight(s, f, l)
      BY <1>2, <1>3, <2>1, <3>1 DEF FrameRight
    <3>3. End(f, l) \in Nat /\ f.slots + 2 <= End(f, l) /\ \A m \in l .. n : End(f, l) <= End(f, m)
      BY <3>1, <3>2, HandledEnd DEF n
    <3>4. n \in l .. n
      BY <1>2, <3>1
    <3>5. End(f, l) \in 1 .. Len(s) /\ End(f, l) - 1 \in 1 .. Len(s)
      BY <1>2, <1>7, <3>3, <3>4
    <3>6. t[End(f, l)] = s[End(f, l)] /\ t[End(f, l) - 1] = s[End(f, l) - 1]
      BY <3>5
    <3>7. (\A i \in 1 .. l : c[i] = f.code[i]) /\ Len(c) >= l
      BY <1>2, <1>3, <3>1
    <3>8. QED
      BY <3>1, <3>2, <3>6, <3>7, HandlerKept DEF g, n
  <2>4. QED
    BY <2>2, <2>3
<1>13. ASSUME NEW p \in g.out + 1 .. Len(t), t[p].op \in HandlerOps
       PROVE  \E l \in DOMAIN g.code : Handles(g.code[l]) /\ p = End(g, l)
  <2>1. p \in Nat /\ p \in 1 .. Len(t) /\ p \in f.out + 1 .. Len(t)
    BY <1>1, <1>2, <1>9
  <2>2. CASE p \in 1 .. Len(s)
    <3>1. s[p].op \in HandlerOps /\ p \in f.out + 1 .. Len(s)
      BY <1>13, <2>1, <2>2
    <3>2. PICK l \in DOMAIN f.code : Handles(f.code[l]) /\ p = End(f, l)
      BY <3>1 DEF FrameRight
    <3>3. l \in 1 .. n /\ l \in 0 .. n /\ l \in 1 .. n + 1
      BY <1>2
    <3>4. QED
      BY <1>1, <1>3, <1>4, <1>6, <3>2, <3>3
  <2>3. CASE p \notin 1 .. Len(s)
    <3>1. p \in Len(s) + 1 .. Len(t)
      BY <2>1, <2>3
    <3>2. p = Len(t) /\ Handles(x)
      BY <1>13, <3>1, DataIs
    <3>3. n + 1 \in DOMAIN c
      BY <1>2, <1>4
    <3>4. QED
      BY <1>1, <1>3, <1>8, <3>2, <3>3
  <2>4. QED
    BY <2>2, <2>3
<1>14. FrameRight(t, g, Len(t), b)
  BY <1>1, <1>7, <1>10, <1>11, <1>12, <1>13 DEF FrameRight, g
<1>15. QED
  BY <1>14 DEF g

\* The slot of a native function that is called.
LEMMA Pushes ==
  ASSUME NEW f \in FrameRecord, NEW s, FrameRight(s, f, Len(s), "none"), Len(s) \in Nat,
         f.code # <<>> => f.code[Len(f.code)].part \in Inside,
         NEW t, Len(t) = Len(s) + 1, \A p \in 1 .. Len(s) : t[p] = s[p], t[Len(s) + 1] \in Data
  PROVE  FrameRight(t, f, Len(t), "native")
<1>1. FrameRight(t, f, Len(s), "none")
  BY FrameKept
<1>2. AtCall(f, "native")
  BY <1>1 DEF FrameRight, AtCall
<1>3. Len(t) = End(f, Len(f.code)) + 1
  <2>1. Len(f.code) \in 0 .. Len(f.code)
    BY FrameIs
  <2>2. End(f, Len(f.code)) \in Nat
    BY <2>1, EndIs
  <2>3. QED
    BY <1>1, <2>2 DEF FrameRight
<1>4. \A p \in f.out + 1 .. Len(t) : t[p].op \in HandlerOps => p \in f.out + 1 .. Len(s)
  <2>1. SUFFICES ASSUME NEW p \in f.out + 1 .. Len(t), t[p].op \in HandlerOps PROVE p \in f.out + 1 .. Len(s)
    OBVIOUS
  <2>2. p # Len(s) + 1
    BY <2>1, DataIs
  <2>3. f.out \in Nat
    BY FrameIs
  <2>4. QED
    BY <2>1, <2>2, <2>3
<1>5. QED
  BY <1>1, <1>2, <1>3, <1>4 DEF FrameRight

-----------------------------------------------------------------------------
(* The variables that are captured.                                        *)

LEMMA BlockEnd ==
  ASSUME NEW f \in FrameRecord, NEW i \in 1 .. Len(f.code), f.code[i].k = "block"
  PROVE  /\ End(f, i) \in Nat /\ f.slots + 1 <= End(f, i)
         /\ \A m \in 1 .. Len(f.code) : Handles(f.code[m]) =>
              IF i < m THEN End(f, i) + 2 <= End(f, m) ELSE End(f, m) + 1 <= End(f, i)
<1>1. f.code[i] \in Place /\ Len(f.code) \in Nat /\ f.slots \in Nat
  BY FrameIs
<1>2. Width(f.code[i]) = 1
  BY <1>1, WidthIs
<1>3. \A m \in 0 .. i - 1 : m \in 0 .. Len(f.code) /\ m < i /\ i \in 0 .. Len(f.code)
  BY <1>1
<1>4. \A m \in 0 .. i - 1 : End(f, m) + 1 <= End(f, i) /\ End(f, m) \in Nat /\ End(f, i) \in Nat
  BY <1>2, <1>3, EndIs
<1>5. 0 \in 0 .. i - 1 /\ 0 \in 0 .. Len(f.code)
  BY <1>1
<1>6. End(f, 0) >= f.slots
  BY <1>5, EndIs
<1>7. End(f, i) \in Nat /\ f.slots + 1 <= End(f, i)
  BY <1>1, <1>4, <1>5, <1>6
<1>8. ASSUME NEW m \in 1 .. Len(f.code), Handles(f.code[m])
      PROVE  IF i < m THEN End(f, i) + 2 <= End(f, m) ELSE End(f, m) + 1 <= End(f, i)
  <2>1. CASE i < m
    <3>1. i \in 0 .. m - 1
      BY <1>1, <2>1
    <3>2. QED
      BY <1>8, <2>1, <3>1, HandledEnd
  <2>2. CASE ~(i < m)
    <3>1. i # m
      BY <1>8 DEF Handles
    <3>2. m \in 0 .. i - 1
      BY <1>1, <2>2, <3>1
    <3>3. QED
      BY <1>4, <2>2, <3>2
  <2>3. QED
    BY <2>1, <2>2
<1>9. QED
  BY <1>7, <1>8

\* The upvalues that stay open up to slot n are of frames that stay.
LEMMA LandedKept ==
  ASSUME NEW F, NEW s, NEW by, Layout(F, s, by), NEW j \in 1 .. Len(F),
         NEW i \in 1 .. Len(F[j].code), Handles(F[j].code[i]),
         NEW to \in Places, Agree(to, F[j].code, i),
         NEW G, NEW t, IsLanded(G, t, F, s, j, i, to),
         NEW o, Kept(F, o)
  PROVE  \A p \in o : p <= End(F[j], i) - 1 =>
           /\ \E l \in DOMAIN G : \E m \in DOMAIN G[l].code : G[l].code[m].k = "block" /\ p = End(G[l], m)
           /\ p \in DOMAIN t /\ t[p] = s[p]
<1> DEFINE h == End(F[j], i)
<1>1. SUFFICES ASSUME NEW p \in o, p <= h - 1
               PROVE  /\ \E l \in DOMAIN G : \E m \in DOMAIN G[l].code : G[l].code[m].k = "block" /\ p = End(G[l], m)
                      /\ p \in DOMAIN t /\ t[p] = s[p]
  OBVIOUS
<1>2. Len(F) \in Nat /\ DOMAIN F = 1 .. Len(F) /\ F[j] \in FrameRecord
  BY LayoutIs
<1>3. PICK l \in 1 .. Len(F) : \E m \in DOMAIN F[l].code : F[l].code[m].k = "block" /\ p = End(F[l], m)
  BY <1>2 DEF Kept
<1>4. PICK m \in DOMAIN F[l].code : F[l].code[m].k = "block" /\ p = End(F[l], m)
  BY <1>3
<1>5. F[l] \in FrameRecord /\ m \in 1 .. Len(F[l].code) /\ Len(F[l].code) \in Nat
  BY <1>3, <1>4, LayoutIs, FrameIs
<1>6. p \in Nat /\ F[l].slots + 1 <= p /\ F[l].slots \in Nat
  BY <1>4, <1>5, BlockEnd, FrameIs
<1>7. h \in Nat /\ F[j].slots + 2 <= h /\ F[j].slots \in Nat /\ F[j].out \in Nat /\ F[j].out <= F[j].slots
  BY <1>2, HandledEnd, FrameIs, LayoutIs
<1>8. /\ G \in Seq(FrameRecord) /\ Len(G) = j /\ DOMAIN G = 1 .. j
      /\ (\A q \in 1 .. j - 1 : G[q] = F[q]) /\ G[j] = WithCode(F[j], to)
      /\ Len(t) = h /\ DOMAIN t = 1 .. h /\ \A q \in 1 .. h - 2 : t[q] = s[q]
  BY LenProperties DEF IsLanded
<1> HIDE DEF h
<1>9. ~(j < l)
  <2>1. SUFFICES ASSUME j < l PROVE FALSE
    OBVIOUS
  <2>2. l \in j + 1 .. Len(F) /\ i \in 0 .. Len(F[j].code)
    BY <1>2, <1>3, <2>1, FrameIs
  <2>3. h <= F[l].out /\ F[l].out <= F[l].slots
    BY <2>2, FramesApart DEF h
  <2>4. F[l].out \in Nat
    BY <1>5, FrameIs
  <2>5. QED
    BY <1>1, <1>6, <1>7, <2>3, <2>4
<1>10. CASE l = j
  <2>1. m < i /\ p + 2 <= h
    <3>1. IF m < i THEN p + 2 <= h ELSE h + 1 <= p
      BY <1>2, <1>4, <1>5, <1>10, BlockEnd DEF h
    <3>2. QED
      BY <1>1, <1>6, <1>7, <3>1
  <2>2. Len(to) = i /\ (\A q \in 1 .. i - 1 : to[q] = F[j].code[q]) /\ DOMAIN to = 1 .. i
    BY PlacesAre DEF Agree
  <2>3. i - 1 \in 0 .. Len(F[j].code) /\ i - 1 <= Len(to) /\ m \in 1 .. i - 1 /\ m \in 0 .. i - 1 /\ m \in 1 .. i
    BY <1>5, <1>10, <2>1, <2>2
  <2>4. End(WithCode(F[j], to), m) = End(F[j], m)
    BY <1>2, <2>2, <2>3, EndSame
  <2>5. G[j].code = to
    BY <1>2, <1>8, WithCodeIs
  <2>6. G[j].code[m].k = "block" /\ p = End(G[j], m) /\ m \in DOMAIN G[j].code
    BY <1>4, <1>8, <1>10, <2>2, <2>3, <2>4, <2>5
  <2>7. p \in 1 .. h - 2 /\ p \in 1 .. h /\ j \in DOMAIN G
    BY <1>2, <1>6, <1>7, <1>8, <2>1
  <2>8. QED
    BY <1>8, <2>6, <2>7
<1>11. CASE l # j
  <2>1. l \in 1 .. j - 1 /\ l \in 1 .. j /\ j \in l + 1 .. Len(F) /\ m \in 0 .. Len(F[l].code)
    BY <1>2, <1>3, <1>5, <1>9, <1>11
  <2>2. p <= F[j].out
    BY <1>4, <2>1, FramesApart
  <2>3. p \in 1 .. h - 2 /\ p \in 1 .. h
    <3>1. \A a, b, d, e, q \in Nat : /\ q <= a /\ a <= b /\ b + 2 <= d /\ e + 1 <= q
                                     => q \in 1 .. d - 2 /\ q \in 1 .. d
      OBVIOUS
    <3>2. QED
      BY <1>6, <1>7, <2>2, <3>1
  <2>4. QED
    BY <1>4, <1>8, <2>1, <2>3
<1>12. QED
  BY <1>10, <1>11

LEMMA DroppedKept ==
  ASSUME NEW F, NEW s, NEW by, Layout(F, s, by), NEW k \in 1 .. Len(F),
         NEW G, IsFirstPart(G, FrameRecord, F, k - 1),
         NEW o, Kept(F, o)
  PROVE  \A p \in o : p <= F[k].slots =>
           /\ \E l \in DOMAIN G : \E m \in DOMAIN G[l].code : G[l].code[m].k = "block" /\ p = End(G[l], m)
           /\ p \in 1 .. F[k].out
<1>1. SUFFICES ASSUME NEW p \in o, p <= F[k].slots
               PROVE  /\ \E l \in DOMAIN G : \E m \in DOMAIN G[l].code : G[l].code[m].k = "block" /\ p = End(G[l], m)
                      /\ p \in 1 .. F[k].out
  OBVIOUS
<1>2. Len(F) \in Nat /\ DOMAIN F = 1 .. Len(F) /\ F[k] \in FrameRecord
  BY LayoutIs
<1>3. PICK l \in 1 .. Len(F) : \E m \in DOMAIN F[l].code : F[l].code[m].k = "block" /\ p = End(F[l], m)
  BY <1>2 DEF Kept
<1>4. PICK m \in DOMAIN F[l].code : F[l].code[m].k = "block" /\ p = End(F[l], m)
  BY <1>3
<1>5. F[l] \in FrameRecord /\ m \in 1 .. Len(F[l].code) /\ Len(F[l].code) \in Nat
  BY <1>3, <1>4, LayoutIs, FrameIs
<1>6. p \in Nat /\ F[l].slots + 1 <= p /\ F[l].slots \in Nat
  BY <1>4, <1>5, BlockEnd, FrameIs
<1>7. F[k].slots \in Nat /\ F[k].out \in Nat
  BY <1>2, FrameIs
<1>8. ~(k < l)
  <2>1. SUFFICES ASSUME k < l PROVE FALSE
    OBVIOUS
  <2>2. l \in k + 1 .. Len(F) /\ 0 \in 0 .. Len(F[k].code)
    BY <1>2, <1>3, <2>1, FrameIs
  <2>3. F[k].slots <= End(F[k], 0) /\ End(F[k], 0) \in Nat /\ End(F[k], 0) <= F[l].out /\ F[l].out <= F[l].slots
    BY <2>2, FramesApart
  <2>4. F[l].out \in Nat
    BY <1>5, FrameIs
  <2>5. QED
    BY <1>1, <1>6, <1>7, <2>3, <2>4
<1>9. l # k
  BY <1>1, <1>6, <1>7
<1>10. l \in 1 .. k - 1 /\ k \in l + 1 .. Len(F) /\ m \in 0 .. Len(F[l].code)
  BY <1>2, <1>3, <1>5, <1>8, <1>9
<1>11. p <= F[k].out
  BY <1>4, <1>10, FramesApart
<1>12. G[l] = F[l] /\ l \in DOMAIN G
  BY <1>10 DEF IsFirstPart
<1>13. QED
  BY <1>4, <1>6, <1>7, <1>11, <1>12

\* Frames below the top one keep their variables, the top one those of the
\* constructs it stays in.
LEMMA MovedKept ==
  ASSUME NEW F, NEW s, NEW by, Layout(F, s, by), F # <<>>,
         NEW c \in Places, NEW G, IsMoved(G, F, Len(F), c),
         NEW n \in 0 .. Len(F[Len(F)].code), n <= Len(c),
         \A m \in 1 .. n : F[Len(F)].code[m].k = "block" =>
                             c[m].k = "block" /\ End(WithCode(F[Len(F)], c), m) = End(F[Len(F)], m),
         NEW o, Kept(F, o), \A p \in o : p <= End(F[Len(F)], n)
  PROVE  Kept(G, o)
<1> DEFINE z == Len(F)
<1>1. z \in Nat /\ DOMAIN F = 1 .. z /\ z # 0 /\ F[z] \in FrameRecord
  BY LayoutIs
<1>2. /\ G \in Seq(FrameRecord) /\ Len(G) = z /\ DOMAIN G = 1 .. z
      /\ (\A l \in 1 .. z - 1 : G[l] = F[l]) /\ G[z] = WithCode(F[z], c)
  BY LenProperties DEF IsMoved
<1>3. G[z].code = c /\ Len(c) \in Nat /\ DOMAIN c = 1 .. Len(c) /\ n \in Nat /\ Len(F[z].code) \in Nat
  BY <1>1, <1>2, WithCodeIs, PlacesAre, FrameIs
<1>4. \A m \in 1 .. n : F[z].code[m].k = "block" => c[m].k = "block" /\ End(G[z], m) = End(F[z], m)
  BY <1>2
<1>5. SUFFICES ASSUME NEW p \in o
               PROVE  \E l \in DOMAIN G : \E m \in DOMAIN G[l].code : G[l].code[m].k = "block" /\ p = End(G[l], m)
  BY DEF Kept
<1>6. PICK l \in 1 .. z : \E m \in DOMAIN F[l].code : F[l].code[m].k = "block" /\ p = End(F[l], m)
  BY <1>1 DEF Kept
<1>7. PICK m \in DOMAIN F[l].code : F[l].code[m].k = "block" /\ p = End(F[l], m)
  BY <1>6
<1>8. p <= End(F[z], n) /\ n <= Len(c)
  OBVIOUS
<1>9. CASE l # z
  <2> HIDE DEF z
  <2>1. l \in 1 .. z - 1 /\ l \in DOMAIN G
    BY <1>1, <1>2, <1>6, <1>9
  <2>2. QED
    BY <1>2, <1>7, <2>1
<1>10. CASE l = z
  <2>1. m \in 1 .. Len(F[z].code) /\ F[z].code[m].k = "block"
    BY <1>1, <1>7, <1>10, FrameIs
  <2>2. m <= n
    <3>1. SUFFICES ASSUME ~(m <= n) PROVE FALSE
      OBVIOUS
    <3>2. n \in 0 .. Len(F[z].code) /\ m \in 0 .. Len(F[z].code) /\ n < m
      BY <1>3, <2>1, <3>1
    <3>3. End(F[z], n) + Width(F[z].code[m]) <= End(F[z], m) /\ End(F[z], n) \in Nat
      BY <1>1, <3>2, EndIs
    <3>4. Width(F[z].code[m]) = 1
      BY <1>1, <2>1, WidthIs, FrameIs
    <3>5. p \in Nat /\ End(F[z], n) + 1 <= p
      BY <1>1, <1>7, <1>10, <3>2, <3>3, <3>4, EndIs
    <3>6. QED
      BY <1>8, <3>3, <3>5
  <2> HIDE DEF z
  <2>3. m \in 1 .. n /\ m \in 1 .. Len(c)
    BY <1>3, <1>8, <2>1, <2>2
  <2>4. c[m].k = "block" /\ p = End(G[z], m)
    BY <1>4, <1>7, <1>10, <2>1, <2>3
  <2>5. z \in DOMAIN G /\ m \in DOMAIN G[z].code
    BY <1>1, <1>2, <1>3, <2>3
  <2>6. QED
    BY <1>3, <2>4, <2>5
<1>11. QED
  BY <1>9, <1>10

-----------------------------------------------------------------------------
(* What the interpreter does with the stack and the frames.                *)

\* t is s up to a handler at h, with x in its place and v below it.
IsCut(t, s, h, x, v) ==
  /\ t \in Seq(Entry) /\ Len(t) = h
  /\ \A p \in 1 .. h - 2 : t[p] = s[p]
  /\ t[h - 1] = v /\ t[h] = x

LEMMA Cutting ==
  ASSUME NEW s \in Seq(Entry), NEW h \in 2 .. Len(s), NEW x \in Entry, NEW v \in Entry
  PROVE  IsCut([SubSeq(s, 1, h) EXCEPT ![h] = x, ![h - 1] = v], s, h, x, v)
<1> DEFINE r == SubSeq(s, 1, h)
           t == [r EXCEPT ![h] = x, ![h - 1] = v]
<1>1. Len(s) \in Nat
  BY LenProperties
<1>2. h \in 0 .. Len(s) /\ h \in Nat
  BY <1>1
<1>3. IsFirstPart(r, Entry, s, h)
  BY <1>2, Prefixed
<1>4. r \in Seq(Entry) /\ Len(r) = h /\ DOMAIN r = 1 .. h /\ (\A i \in 1 .. h : r[i] = s[i]) /\ r \in [1 .. h -> Entry]
  BY <1>3, LenProperties DEF IsFirstPart
<1> HIDE DEF r
<1>5. t = [p \in 1 .. h |-> IF p = h - 1 THEN v ELSE IF p = h THEN x ELSE r[p]]
  BY <1>2, <1>4
<1>6. /\ \A p \in 1 .. h : t[p] \in Entry
      /\ \A p \in 1 .. h - 2 : t[p] = s[p]
      /\ t[h - 1] = v /\ t[h] = x
  BY <1>2, <1>4, <1>5
<1>7. t \in [1 .. h -> Entry]
  BY <1>5, <1>6
<1> HIDE DEF t
<1>8. t \in Seq(Entry) /\ Len(t) = h
  BY <1>2, <1>7, LenProperties
<1>9. IsCut(t, s, h, x, v)
  BY <1>6, <1>8 DEF IsCut
<1>10. QED
  BY <1>9 DEF t, r

\* t is s with v on top in the place of what was there.
IsTopped(t, s, v) ==
  /\ t \in Seq(Entry) /\ Len(t) = Len(s)
  /\ \A p \in 1 .. Len(s) : p # Len(s) => t[p] = s[p]
  /\ t[Len(s)] = v

LEMMA Topping ==
  ASSUME NEW s \in Seq(Entry), Len(s) # 0, NEW v \in Entry
  PROVE  IsTopped(SetTop(s, v), s, v)
<1> DEFINE n == Len(s)
           t == [s EXCEPT ![n] = v]
<1>1. n \in Nat /\ DOMAIN s = 1 .. n /\ s \in [1 .. n -> Entry]
  BY LenProperties
<1>2. n \in 1 .. n
  BY <1>1
<1> HIDE DEF n
<1>3. t \in [1 .. n -> Entry] /\ t[n] = v /\ \A p \in 1 .. n : p # n => t[p] = s[p]
  BY <1>1, <1>2
<1> HIDE DEF t
<1>4. t \in Seq(Entry) /\ Len(t) = n
  BY <1>1, <1>3, LenProperties
<1>5. IsTopped(t, s, v)
  BY <1>3, <1>4 DEF IsTopped, n
<1>6. QED
  BY <1>5 DEF t, n, SetTop

\* The code of frame j of the first j frames is changed.
LEMMA Recoded ==
  ASSUME NEW F \in Seq(FrameRecord), NEW j \in 1 .. Len(F), NEW c \in Places
  PROVE  IsMoved([SubSeq(F, 1, j) EXCEPT ![j].code = c], F, j, c)
<1> DEFINE r == SubSeq(F, 1, j)
           G == [r EXCEPT ![j].code = c]
<1>1. Len(F) \in Nat /\ F[j] \in FrameRecord
  BY LenProperties
<1>2. j \in 0 .. Len(F) /\ j \in Nat
  BY <1>1
<1>3. IsFirstPart(r, FrameRecord, F, j)
  BY <1>2, Prefixed
<1>4. /\ r \in Seq(FrameRecord) /\ Len(r) = j /\ DOMAIN r = 1 .. j /\ (\A i \in 1 .. j : r[i] = F[i])
      /\ \A i \in 1 .. j : r[i] \in FrameRecord
  BY <1>3, LenProperties DEF IsFirstPart
<1> HIDE DEF r
<1>5. j \in 1 .. j /\ r[j] = F[j]
  BY <1>2, <1>4
<1>6. G = [i \in 1 .. j |-> IF i = j THEN WithCode(F[j], c) ELSE r[i]]
  BY <1>4, <1>5 DEF WithCode
<1> HIDE DEF G
<1>7. \A i \in 1 .. j : G[i] \in FrameRecord
  BY <1>1, <1>4, <1>6, WithCodeIs
<1>8. G \in [1 .. j -> FrameRecord]
  BY <1>6, <1>7
<1>9. G \in Seq(FrameRecord) /\ Len(G) = j
  BY <1>2, <1>8, LenProperties
<1>10. (\A l \in 1 .. j - 1 : G[l] = F[l]) /\ G[j] = WithCode(F[j], c)
  BY <1>2, <1>4, <1>6
<1>11. IsMoved(G, F, j, c)
  BY <1>9, <1>10 DEF IsMoved
<1>12. QED
  BY <1>11 DEF G, r

LEMMA Going ==
  ASSUME NEW F \in Seq(FrameRecord), Len(F) # 0, NEW c \in Places
  PROVE  IsMoved([F EXCEPT ![Len(F)].code = c], F, Len(F), c)
<1> DEFINE n == Len(F)
           G == [F EXCEPT ![n].code = c]
<1>1. n \in Nat /\ DOMAIN F = 1 .. n /\ \A i \in 1 .. n : F[i] \in FrameRecord
  BY LenProperties
<1>2. n \in 1 .. n
  BY <1>1
<1>3. F = [i \in 1 .. n |-> F[i]]
  BY <1>1, LenProperties
<1> HIDE DEF n
<1>4. G = [i \in 1 .. n |-> IF i = n THEN WithCode(F[n], c) ELSE F[i]]
  BY <1>1, <1>2, <1>3 DEF WithCode
<1> HIDE DEF G
<1>5. \A i \in 1 .. n : G[i] \in FrameRecord
  BY <1>1, <1>2, <1>4, WithCodeIs
<1>6. G \in [1 .. n -> FrameRecord]
  BY <1>4, <1>5
<1>7. G \in Seq(FrameRecord) /\ Len(G) = n
  BY <1>1, <1>6, LenProperties
<1>8. (\A l \in 1 .. n - 1 : G[l] = F[l]) /\ G[n] = WithCode(F[n], c)
  BY <1>1, <1>2, <1>4
<1>9. IsMoved(G, F, n, c)
  BY <1>7, <1>8 DEF IsMoved
<1>10. QED
  BY <1>9 DEF G, n

\* The code of a frame that is changed twice is what it was changed to last.
LEMMA MovedTwice ==
  ASSUME NEW A \in Seq(FrameRecord), NEW c \in Places, NEW F, IsMoved(F, A, Len(A), c),
         NEW j \in 1 .. Len(A), NEW d \in Places, NEW G, IsMoved(G, A, j, d)
  PROVE  IsMoved(G, F, j, d)
<1>1. Len(A) \in Nat /\ A[j] \in FrameRecord
  BY LenProperties
<1>2. WithCode(WithCode(A[j], c), d) = WithCode(A[j], d)
  BY <1>1 DEF WithCode, FrameRecord
<1>3. (\A l \in 1 .. Len(A) - 1 : F[l] = A[l]) /\ F[Len(A)] = WithCode(A[Len(A)], c)
  BY DEF IsMoved
<1>4. \A l \in 1 .. j - 1 : F[l] = A[l]
  <2>1. \A l \in 1 .. j - 1 : l \in 1 .. Len(A) - 1
    BY <1>1
  <2>2. QED
    BY <1>3, <2>1
<1>5. WithCode(F[j], d) = WithCode(A[j], d)
  <2>1. CASE j = Len(A)
    BY <1>2, <1>3, <2>1
  <2>2. CASE j # Len(A)
    <3>1. j \in 1 .. Len(A) - 1
      BY <1>1, <2>2
    <3>2. QED
      BY <1>3, <3>1
  <2>3. QED
    BY <2>1, <2>2
<1>6. QED
  BY <1>4, <1>5 DEF IsMoved

\* The state after a step: frames G, stack t, b has returned to native code,
\* the upvalues o are open; those of old refer to the entries they did in s.
Settled(G, t, b, o, s, old) ==
  /\ Layout(G, t, b)
  /\ b \in Callers \cup {"none"}
  /\ Kept(G, o)
  /\ \A p \in o \cap old : p \in DOMAIN t /\ t[p] = s[p]

\* What the frame right below or on top of the stack says of it.
LEMMA FrameOf ==
  ASSUME NEW F, NEW s, NEW by, Layout(F, s, by), NEW j \in 1 .. Len(F)
  PROVE  \E top, b : FrameRight(s, F[j], top, b)
<1>1. Len(F) \in Nat
  BY LayoutIs
<1>2. CASE j = Len(F)
  <2>1. FrameRight(s, F[j], Len(s), by)
    BY <1>1, <1>2, LayoutIs
  <2>2. QED
    BY <2>1
<1>3. CASE j # Len(F)
  <2>1. j \in 1 .. Len(F) - 1
    BY <1>1, <1>3
  <2>2. FrameRight(s, F[j], F[j + 1].out, F[j + 1].by)
    BY <2>1, LayoutIs
  <2>3. QED
    BY <2>2
<1>4. QED
  BY <1>2, <1>3

LEMMA HandlerOf ==
  ASSUME NEW F, NEW s, NEW by, Layout(F, s, by), NEW j \in 1 .. Len(F),
         NEW i \in 1 .. Len(F[j].code), Handles(F[j].code[i])
  PROVE  HandlerRight(s, F[j], i)
<1>1. F[j] \in FrameRecord
  BY LayoutIs
<1>2. i \in DOMAIN F[j].code
  BY <1>1, FrameIs
<1>3. PICK top : \E b : FrameRight(s, F[j], top, b)
  BY FrameOf
<1>4. PICK b : FrameRight(s, F[j], top, b)
  BY <1>3
<1>5. QED
  BY <1>2, <1>4 DEF FrameRight

\* A handler keeps its slot when control lands in its construct.
LEMMA LandedEnd ==
  ASSUME NEW f \in FrameRecord, NEW i \in 1 .. Len(f.code), Handles(f.code[i]),
         NEW to \in Places, Agree(to, f.code, i), Handles(to[i])
  PROVE  /\ \A m \in 0 .. i : End(WithCode(f, to), m) = End(f, m)
         /\ \A m \in 0 .. i - 1 : Wide(to, m) = Wide(f.code, m)
<1> DEFINE g == WithCode(f, to)
<1>1. g \in FrameRecord /\ g.code = to /\ g.slots = f.slots /\ g.by = f.by
  BY WithCodeIs
<1>2. Len(f.code) \in Nat /\ f.code[i] \in Place /\ f.code \in Places
  BY FrameIs
<1>3. Len(to) = i /\ (\A l \in 1 .. i - 1 : to[l] = f.code[l]) /\ SamePlace(f.code[i], to[i])
  BY DEF Agree
<1>4. to[i] \in Place
  BY <1>3, PlacesAre
<1>5. i - 1 \in 0 .. Len(f.code) /\ i - 1 <= Len(to) /\ i \in Nat
  BY <1>2, <1>3
<1>6. \A m \in 0 .. i - 1 : End(g, m) = End(f, m) /\ Wide(to, m) = Wide(f.code, m)
  BY <1>3, <1>5, EndSame
<1>7. Width(to[i]) = Width(f.code[i])
  BY <1>2, <1>3, <1>4, SamePlaceIs
<1>8. i \in 1 .. Len(g.code)
  BY <1>1, <1>3, <1>5
<1>9. End(f, i) = End(f, i - 1) + Width(f.code[i]) /\ End(g, i) = End(g, i - 1) + Width(to[i])
  BY <1>1, <1>8, EndIs
<1>10. i - 1 \in 0 .. i - 1
  BY <1>5
<1>11. End(g, i) = End(f, i)
  BY <1>6, <1>7, <1>9, <1>10
<1>12. \A m \in 0 .. i : m = i \/ m \in 0 .. i - 1
  BY <1>5
<1>13. QED
  BY <1>6, <1>11, <1>12

\* A handler h is put over data v at the end of construct i of frame j, and
\* control lands at the place "to" of that construct.
LEMMA Lands ==
  ASSUME NEW F, NEW s, NEW by, Layout(F, s, by), NEW j \in 1 .. Len(F),
         NEW i \in 1 .. Len(F[j].code), Handles(F[j].code[i]),
         NEW to \in Places, Agree(to, F[j].code, i), Handles(to[i]), to[i].part \in Leaving,
         NEW G, IsMoved(G, F, j, to),
         NEW op \in HandlerOps, NEW dest \in Places, NEW v \in Data,
         F[j].by = "host" => op # "RETURN",
         IF op = "EXIT_LOOP"
         THEN \E m \in 1 .. i - 1 : /\ Agree(dest, F[j].code, m) /\ F[j].code[m].k \in Loops
                                    /\ v = Count(ArgumentsOf(F[j].by) + Wide(F[j].code, m))
         ELSE dest = to,
         NEW t, IsCut(t, s, End(F[j], i), NewHandler(op, dest), v),
         NEW old, Kept(F, old)
  PROVE  Settled(G, t, "none", {p \in old : p <= End(F[j], i) - 1}, s, old)
<1> DEFINE g == WithCode(F[j], to)
           h == End(F[j], i)
<1>1. F[j] \in FrameRecord
  BY LayoutIs
<1>2. G[j] = g /\ g.code = to /\ g.by = F[j].by
  BY <1>1, WithCodeIs DEF IsMoved
<1>3. \A m \in 0 .. i : End(g, m) = End(F[j], m)
  BY <1>1, LandedEnd
<1>4. \A m \in 0 .. i - 1 : Wide(to, m) = Wide(F[j].code, m)
  BY <1>1, LandedEnd
<1>5. i \in 0 .. i /\ i \in Nat
  BY <1>1, FrameIs
<1>6. End(g, i) = h
  BY <1>3, <1>5
<1>7. t[h] = NewHandler(op, dest) /\ t[h - 1] = v
  BY DEF IsCut
<1>8. t[h].op = op /\ t[h].to = dest
  BY <1>7 DEF NewHandler
<1>9. Len(to) = i /\ SamePlace(F[j].code[i], to[i]) /\ \A l \in 1 .. i - 1 : to[l] = F[j].code[l]
  BY DEF Agree
<1>10. IF op = "EXIT_LOOP" THEN LeavesTo(g, i, t[h], v) ELSE StaysAt(to, i, t[h])
  <2>1. CASE op = "EXIT_LOOP"
    <3>1. PICK m \in 1 .. i - 1 : /\ Agree(dest, F[j].code, m) /\ F[j].code[m].k \in Loops
                                  /\ v = Count(ArgumentsOf(F[j].by) + Wide(F[j].code, m))
      BY <2>1
    <3>2. m \in 0 .. i - 1 /\ to[m] = F[j].code[m] /\ \A l \in 1 .. m - 1 : to[l] = F[j].code[l]
      <4>1. \A l \in 1 .. m - 1 : l \in 1 .. i - 1
        BY <1>5
      <4>2. QED
        BY <1>5, <1>9, <4>1
    <3>3. Agree(dest, to, m)
      BY <3>1, <3>2 DEF Agree
    <3>4. v = Count(ArgumentsOf(g.by) + Wide(g.code, m))
      BY <1>2, <1>4, <3>1, <3>2
    <3>5. LeavesTo(g, i, t[h], v)
      BY <1>2, <1>8, <3>1, <3>2, <3>3, <3>4 DEF LeavesTo
    <3>6. QED
      BY <2>1, <3>5
  <2>2. CASE op # "EXIT_LOOP"
    <3>1. to[i] = [to[i] EXCEPT !.part = to[i].part]
      <4>1. to[i] \in Place
        BY <1>5, <1>9, PlacesAre
      <4>2. QED
        BY <4>1 DEF Place
    <3>2. Agree(to, to, i)
      BY <1>9, <3>1 DEF Agree, SamePlace
    <3>3. t[h].to = to
      BY <1>8, <2>2
    <3>4. StaysAt(to, i, t[h])
      BY <3>2, <3>3 DEF StaysAt
    <3>5. QED
      BY <2>2, <3>4
  <2>3. QED
    BY <2>1, <2>2
<1> HIDE DEF h, g
<1>11. HandlerRight(t, g, i)
  BY <1>2, <1>6, <1>7, <1>8, <1>10 DEF HandlerRight
<1>12. IsLanded(G, t, F, s, j, i, to)
  BY <1>2, <1>7, <1>11 DEF IsLanded, IsMoved, IsCut, h, g
<1>13. Layout(G, t, "none")
  BY <1>12, Landing
<1>14. \A p \in old : p <= h - 1 =>
           /\ \E l \in DOMAIN G : \E m \in DOMAIN G[l].code : G[l].code[m].k = "block" /\ p = End(G[l], m)
           /\ p \in DOMAIN t /\ t[p] = s[p]
  BY <1>12, LandedKept DEF h
<1>15. Kept(G, {p \in old : p <= h - 1})
  BY <1>14 DEF Kept
<1>16. \A p \in {p \in old : p <= h - 1} \cap old : p \in DOMAIN t /\ t[p] = s[p]
  BY <1>14
<1>17. QED
  BY <1>13, <1>15, <1>16 DEF Settled, h

LEMMA HandlerEntry ==
  ASSUME NEW v \in Entry, v.op \in HandlerOps
  PROVE  v.to \in Places /\ v = NewHandler(v.op, v.to)
<1>1. v \in [op : HandlerOps, to : Places]
  BY DataIs DEF Entry
<1>2. QED
  BY <1>1 DEF NewHandler

LEMMA NewHandlerIs ==
  ASSUME NEW op \in HandlerOps, NEW to \in Places
  PROVE  /\ NewHandler(op, to) \in Entry
         /\ NewHandler(op, to).op = op /\ NewHandler(op, to).to = to
BY DEF NewHandler, Entry

\* Where the handler of construct i of frame j is, and where it leads.
LEMMA HandlerAt ==
  ASSUME NEW F, NEW s, NEW by, Layout(F, s, by), NEW j \in 1 .. Len(F),
         NEW i \in 1 .. Len(F[j].code), Handles(F[j].code[i])
  PROVE  /\ F[j] \in FrameRecord /\ Len(s) \in Nat
         /\ HandlerRight(s, F[j], i)
         /\ End(F[j], i) \in 2 .. Len(s)
         /\ s[End(F[j], i)] \in Entry /\ s[End(F[j], i)].op \in HandlerOps /\ s[End(F[j], i)].to \in Places
<1>1. F[j] \in FrameRecord /\ Len(s) \in Nat /\ \A p \in 1 .. Len(s) : s[p] \in Entry
  BY LayoutIs
<1>2. HandlerRight(s, F[j], i)
  BY HandlerOf
<1>3. i \in 0 .. Len(F[j].code) /\ F[j].slots \in Nat
  BY <1>1, FrameIs
<1>4. End(F[j], i) <= Len(s)
  BY <1>3, FramesApart
<1>5. End(F[j], i) \in Nat /\ F[j].slots + 2 <= End(F[j], i)
  BY <1>1, HandledEnd
<1>6. End(F[j], i) \in 2 .. Len(s) /\ End(F[j], i) \in 1 .. Len(s)
  BY <1>1, <1>3, <1>4, <1>5
<1>7. s[End(F[j], i)].op \in HandlerOps
  BY <1>2 DEF HandlerRight
<1>8. QED
  BY <1>1, <1>2, <1>6, <1>7, HandlerEntry

\* The frames F are the active ones, the last at another place.
LEMMA ActiveMoved ==
  ASSUME NEW A \in Seq(FrameRecord), NEW c \in Places, NEW F, IsMoved(F, A, Len(A), c), Len(A) # 0
  PROVE  /\ Len(A) \in Nat /\ Len(F) = Len(A) /\ DOMAIN F = DOMAIN A /\ DOMAIN A = 1 .. Len(A)
         /\ \A l \in 1 .. Len(A) - 1 : F[l] = A[l]
         /\ \A l \in 1 .. Len(A) : F[l].out = A[l].out /\ F[l].slots = A[l].slots /\ F[l].by = A[l].by
         /\ F[Len(A)] = WithCode(A[Len(A)], c) /\ F[Len(A)].code = c
<1>1. Len(A) \in Nat /\ DOMAIN A = 1 .. Len(A)
  BY LenProperties
<1>2. Len(A) \in 1 .. Len(A) /\ A[Len(A)] \in FrameRecord
  BY <1>1
<1>3. F \in Seq(FrameRecord) /\ Len(F) = Len(A) /\ (\A l \in 1 .. Len(A) - 1 : F[l] = A[l]) /\ F[Len(A)] = WithCode(A[Len(A)], c)
  BY DEF IsMoved
<1>4. DOMAIN F = 1 .. Len(A)
  BY <1>3, LenProperties
<1>5. /\ F[Len(A)].out = A[Len(A)].out /\ F[Len(A)].slots = A[Len(A)].slots /\ F[Len(A)].by = A[Len(A)].by
      /\ F[Len(A)].code = c
  BY <1>2, <1>3, WithCodeIs
<1>6. \A l \in 1 .. Len(A) : l = Len(A) \/ l \in 1 .. Len(A) - 1
  <2>1. Len(A) \in Nat
    BY <1>1
  <2>2. QED
    BY <2>1
<1>7. QED
  BY <1>1, <1>3, <1>4, <1>5, <1>6

LEMMA Redirects ==
  ASSUME NEW F, NEW s, NEW by, Layout(F, s, by),
         active \in Seq(FrameRecord), Len(active) # 0, NEW c \in Places, IsMoved(F, active, Len(active), c),
         NEW j \in 1 .. Len(F), NEW i \in 1 .. Len(F[j].code), Handles(F[j].code[i]),
         NEW h, h = End(F[j], i), s[h].op # "EXIT_LOOP",
         NEW op \in HandlerOps \ {"EXIT_LOOP"}, F[j].by = "host" => op # "RETURN",
         NEW v \in Data, Kept(F, captured), Redirect(s, h, j, op, v)
  PROVE  Settled(active', valueStack', back', captured', s, captured)
<1> DEFINE to == s[h].to
<1>1. /\ F[j] \in FrameRecord /\ HandlerRight(s, F[j], i) /\ h \in 2 .. Len(s)
      /\ s[h] \in Entry /\ s[h].op \in HandlerOps /\ to \in Places
  BY HandlerAt
<1>2. Agree(to, F[j].code, i) /\ Handles(to[i]) /\ to[i].part \in Leaving
  BY <1>1 DEF HandlerRight, StaysAt
<1>3. /\ valueStack' = [SubSeq(s, 1, h) EXCEPT ![h] = NewHandler(op, to), ![h - 1] = v]
      /\ active' = [SubSeq(active, 1, j) EXCEPT ![j].code = to]
      /\ captured' = {p \in captured : p <= h - 1}
      /\ back' = "none"
  BY DEF Redirect, Open
<1> HIDE DEF to
<1>4. NewHandler(op, to) \in Entry /\ v \in Entry /\ s \in Seq(Entry)
  BY <1>1, NewHandlerIs, LayoutIs DEF Entry
<1>5. IsCut(valueStack', s, h, NewHandler(op, to), v)
  BY <1>1, <1>3, <1>4, Cutting
<1>6. j \in 1 .. Len(active)
  BY ActiveMoved
<1>7. IsMoved(active', active, j, to)
  BY <1>1, <1>3, <1>6, Recoded
<1>8. IsMoved(active', F, j, to)
  BY <1>1, <1>6, <1>7, MovedTwice
<1> DEFINE o == {p \in captured : p <= h - 1}
<1>9. Settled(active', valueStack', "none", o, s, captured)
  BY <1>1, <1>2, <1>5, <1>8, Lands
<1>10. QED
  BY <1>3, <1>9

LEMMA Rethrowing ==
  ASSUME NEW op \in Catching
  PROVE  op \in HandlerOps /\ op # "EXIT_LOOP" /\ Rethrown(op) \in HandlerOps \ {"EXIT_LOOP", "RETURN"}
BY DEF Catching, Interrupting, HandlerOps, Rethrown

\* An exception, thrown in the frames F over the stack s.
LEMMA Throws ==
  ASSUME NEW F, NEW s, NEW by, Layout(F, s, by),
         active \in Seq(FrameRecord), Len(active) # 0, NEW c \in Places, IsMoved(F, active, Len(active), c),
         Kept(F, captured), NEW e \in Data, Throw(s, e)
  PROVE  Settled(active', valueStack', back', captured', s, captured) /\ exception' \in Data
<1> DEFINE n == Len(active)
           exits == {j \in DOMAIN active : active[j].by # "run"}
           exit == Max(exits)
           found == {i \in active[exit].out + 1 .. Len(s) : s[i].op \in Catching}
           h == Max(found)
           owners == {j \in DOMAIN active : active[j].slots < h}
           owner == Max(owners)
<1>1. IF found = {}
      THEN /\ valueStack' = SubSeq(s, 1, active[exit].out)
           /\ active' = SubSeq(active, 1, exit - 1)
           /\ captured' = {p \in captured : p <= active[exit].out}
           /\ exception' = e
           /\ back' = active[exit].by
      ELSE Redirect(s, h, owner, Rethrown(s[h].op), e) /\ exception' = None
  BY DEF Throw, Open
<1>2. /\ n \in Nat /\ Len(F) = n /\ DOMAIN F = 1 .. n /\ DOMAIN active = 1 .. n
      /\ \A l \in 1 .. n - 1 : F[l] = active[l]
      /\ \A l \in 1 .. n : F[l].out = active[l].out /\ F[l].slots = active[l].slots /\ F[l].by = active[l].by
  BY ActiveMoved
<1>3. Len(s) \in Nat /\ s \in Seq(Entry) /\ F # <<>> /\ F[1].by = "host"
  <2>1. Len(s) \in Nat /\ s \in Seq(Entry) /\ F # <<>>
    BY <1>2, LayoutIs
  <2>2. 1 \in DOMAIN F
    BY <1>2
  <2>3. QED
    BY <2>1, <2>2 DEF Layout
<1>4. 1 \in exits /\ exits \subseteq 1 .. n
  BY <1>2, <1>3
<1> HIDE DEF n, exits
<1>5. exit \in exits
  BY <1>2, <1>4, MaxIs
<1>6. exit \in 1 .. n /\ active[exit].by # "run" /\ F[exit].out = active[exit].out /\ F[exit].by = active[exit].by
  BY <1>2, <1>4, <1>5 DEF exits
<1> HIDE DEF exit
<1>7. /\ F[exit] \in FrameRecord /\ F[exit].out \in Nat /\ F[exit].slots \in Nat
      /\ F[exit].out <= F[exit].slots /\ F[exit].out <= Len(s)
  <2>1. F[exit] \in FrameRecord /\ exit \in 1 .. Len(F)
    BY <1>2, <1>6, LayoutIs
  <2>2. 0 \in 0 .. Len(F[exit].code)
    BY <2>1, FrameIs
  <2>3. /\ End(F[exit], 0) \in Nat /\ F[exit].out \in Nat /\ F[exit].slots \in Nat
        /\ F[exit].out <= F[exit].slots /\ F[exit].slots <= End(F[exit], 0) /\ End(F[exit], 0) <= Len(s)
    BY <2>1, <2>2, FramesApart
  <2>4. QED
    BY <1>3, <2>1, <2>3
<1>8. CASE found = {}
  <2>1. IsFirstPart(active', FrameRecord, active, exit - 1)
    <3>1. exit - 1 \in 0 .. n
      BY <1>2, <1>6
    <3>2. QED
      BY <1>1, <1>8, <3>1, Prefixed DEF n
  <2>2. IsFirstPart(active', FrameRecord, F, exit - 1)
    <3>1. \A l \in 1 .. exit - 1 : F[l] = active[l]
      BY <1>2, <1>6
    <3>2. QED
      BY <2>1, <3>1 DEF IsFirstPart
  <2>3. IsFirstPart(valueStack', Entry, s, F[exit].out)
    <3>1. F[exit].out \in 0 .. Len(s)
      BY <1>3, <1>7
    <3>2. QED
      BY <1>1, <1>3, <1>6, <1>8, <3>1, Prefixed
  <2>4. back' = IF F[exit].by = "run" THEN "none" ELSE F[exit].by
    BY <1>1, <1>6, <1>8
  <2>5. Layout(active', valueStack', back')
    BY <1>2, <1>6, <2>2, <2>3, <2>4, Drops
  <2>6. back' \in Callers \cup {"none"}
    BY <1>7, <2>4, FrameIs
  <2>7. \A p \in captured : p <= F[exit].slots =>
           /\ \E l \in DOMAIN active' : \E m \in DOMAIN active'[l].code : active'[l].code[m].k = "block" /\ p = End(active'[l], m)
           /\ p \in 1 .. F[exit].out
    BY <1>2, <1>6, <2>2, DroppedKept
  <2>8. \A p \in captured : \E f \in DOMAIN F : \E m \in DOMAIN F[f].code : p = End(F[f], m)
    BY DEF Kept
  <2>9. \A p \in captured : p \in Nat
    <3>1. SUFFICES ASSUME NEW p \in captured PROVE p \in Nat
      OBVIOUS
    <3>2. PICK f \in DOMAIN F : \E m \in DOMAIN F[f].code : p = End(F[f], m)
      BY <2>8
    <3>3. PICK m \in DOMAIN F[f].code : p = End(F[f], m)
      BY <3>2
    <3>4. F[f] \in FrameRecord /\ m \in 1 .. Len(F[f].code) /\ Len(F[f].code) \in Nat
      BY <3>2, <3>3, LayoutIs, FrameIs
    <3>5. m \in 0 .. Len(F[f].code)
      BY <3>4
    <3>6. QED
      BY <3>3, <3>4, <3>5, EndIs
  <2>10. \A p \in captured' : p \in captured /\ p <= F[exit].slots
    BY <1>1, <1>6, <1>7, <1>8, <2>9
  <2>11. Kept(active', captured')
    BY <2>7, <2>10 DEF Kept
  <2>12. \A p \in captured' \cap captured : p \in DOMAIN valueStack' /\ valueStack'[p] = s[p]
    BY <2>3, <2>7, <2>10 DEF IsFirstPart
  <2>13. exception' \in Data
    BY <1>1, <1>8
  <2>14. QED
    BY <2>5, <2>6, <2>11, <2>12, <2>13 DEF Settled
<1>9. CASE found # {}
  <2>1. found \subseteq 1 .. Len(s)
    BY <1>3, <1>6, <1>7
  <2>2. h \in found /\ h \in 1 .. Len(s) /\ s[h].op \in Catching
    <3>1. h \in found
      <4> HIDE DEF found
      <4>1. QED
        BY <1>3, <1>9, <2>1, MaxIs
    <3>2. QED
      BY <2>1, <3>1
  <2> HIDE DEF found, h
  <2>3. /\ s[h].op \in HandlerOps /\ s[h].op # "EXIT_LOOP" /\ Rethrown(s[h].op) \in HandlerOps \ {"EXIT_LOOP", "RETURN"}
    BY <2>2, Rethrowing
  <2>4. PICK j \in 1 .. Len(F) :
           /\ \E i \in 1 .. Len(F[j].code) : Handles(F[j].code[i]) /\ h = End(F[j], i)
           /\ F[j].slots < h
           /\ \A l \in j + 1 .. Len(F) : h <= F[l].out
    BY <2>2, <2>3, Owner
  <2>5. PICK i \in 1 .. Len(F[j].code) : Handles(F[j].code[i]) /\ h = End(F[j], i)
    BY <2>4
  <2>6. j \in owners /\ owners \subseteq 1 .. n
    BY <1>2, <2>4
  <2>7. \A l \in owners : l <= j
    <3>1. SUFFICES ASSUME NEW l \in owners, ~(l <= j) PROVE FALSE
      OBVIOUS
    <3>2. l \in 1 .. n /\ l \in j + 1 .. Len(F) /\ F[l].slots < h
      BY <1>2, <2>4, <2>6, <3>1
    <3>3. h <= F[l].out /\ F[l] \in FrameRecord /\ F[l].out <= F[l].slots
      BY <1>2, <2>4, <3>2, LayoutIs
    <3>4. F[l].out \in Nat /\ F[l].slots \in Nat /\ h \in Nat
      BY <2>2, <3>3, FrameIs
    <3>5. QED
      BY <3>2, <3>3, <3>4
  <2> HIDE DEF owners
  <2>8. owner \in owners /\ j <= owner
    BY <1>2, <2>6, MaxIs
  <2>9. owner = j
    <3>1. n \in Nat /\ owner \in 1 .. n /\ j \in 1 .. n /\ owner <= j /\ j <= owner
      BY <1>2, <2>6, <2>7, <2>8
    <3>2. QED
      BY <3>1
  <2> HIDE DEF owner
  <2>10. Redirect(s, h, j, Rethrown(s[h].op), e) /\ exception' = None
    BY <1>1, <1>9, <2>9
  <2>11. Settled(active', valueStack', back', captured', s, captured)
    BY <2>3, <2>4, <2>5, <2>10, Redirects
  <2>12. exception' \in Data
    BY <2>10 DEF None, Data
  <2>13. QED
    BY <2>11, <2>12
<1>10. QED
  BY <1>8, <1>9

\* The slot of a captured variable.
LEMMA KeptSlot ==
  ASSUME NEW F, NEW s, NEW by, Layout(F, s, by), NEW o, Kept(F, o), NEW p \in o
  PROVE  \E j \in 1 .. Len(F) : \E i \in 1 .. Len(F[j].code) :
           /\ F[j].code[i].k = "block" /\ p = End(F[j], i)
           /\ p \in Nat /\ F[j].slots + 1 <= p
           /\ \A l \in j + 1 .. Len(F) : p <= F[l].out
<1>1. Len(F) \in Nat /\ DOMAIN F = 1 .. Len(F)
  BY LayoutIs
<1>2. PICK j \in 1 .. Len(F) : \E i \in DOMAIN F[j].code : F[j].code[i].k = "block" /\ p = End(F[j], i)
  BY <1>1 DEF Kept
<1>3. PICK i \in DOMAIN F[j].code : F[j].code[i].k = "block" /\ p = End(F[j], i)
  BY <1>2
<1>4. F[j] \in FrameRecord /\ i \in 1 .. Len(F[j].code) /\ Len(F[j].code) \in Nat
  BY <1>2, <1>3, LayoutIs, FrameIs
<1>5. p \in Nat /\ F[j].slots + 1 <= p
  BY <1>3, <1>4, BlockEnd
<1>6. i \in 0 .. Len(F[j].code)
  BY <1>4
<1>7. \A l \in j + 1 .. Len(F) : p <= F[l].out
  BY <1>2, <1>3, <1>6, FramesApart
<1>8. QED
  BY <1>2, <1>3, <1>4, <1>5, <1>7

LEMMA ChangedEnd ==
  ASSUME NEW f \in FrameRecord, NEW c \in Places, Len(c) <= Len(f.code), \A l \in 1 .. Len(c) - 1 : c[l] = f.code[l],
         Len(c) # 0 => Width(c[Len(c)]) = Width(f.code[Len(c)])
  PROVE  \A m \in 0 .. Len(c) : End(WithCode(f, c), m) = End(f, m)
<1> DEFINE g == WithCode(f, c)
           n == Len(c)
<1>1. g \in FrameRecord /\ g.code = c /\ g.slots = f.slots /\ g.by = f.by
  BY WithCodeIs
<1>2. n \in Nat /\ Len(f.code) \in Nat
  BY FrameIs, PlacesAre
<1>3. CASE n = 0
  <2>1. End(g, 0) = End(f, 0)
    BY <1>1, EndIs
  <2>2. QED
    BY <1>3, <2>1
<1>4. CASE n # 0
  <2> HIDE DEF g
  <2>1. n - 1 \in 0 .. Len(f.code) /\ n - 1 <= Len(c)
    BY <1>2, <1>4
  <2>2. \A m \in 0 .. n - 1 : End(g, m) = End(f, m)
    BY <2>1, EndSame DEF g
  <2>3. n \in 1 .. Len(f.code) /\ n \in 1 .. Len(g.code)
    BY <1>1, <1>2, <1>4
  <2>4. End(f, n) = End(f, n - 1) + Width(f.code[n]) /\ End(g, n) = End(g, n - 1) + Width(c[n])
    BY <1>1, <2>3, EndIs
  <2> HIDE DEF n
  <2>5. n - 1 \in 0 .. n - 1 /\ \A m \in 0 .. n : m = n \/ m \in 0 .. n - 1
    BY <1>2, <1>4
  <2>6. End(g, n) = End(f, n)
    BY <1>4, <2>2, <2>4, <2>5 DEF n
  <2>7. \A m \in 0 .. n : End(g, m) = End(f, m)
    BY <2>2, <2>5, <2>6
  <2>8. QED
    BY <2>7 DEF g, n
<1>5. QED
  BY <1>3, <1>4

\* The top frame goes on in another part of a construct it is in, or after
\* it, and the entries above that are gone.
LEMMA Shrunk ==
  ASSUME NEW F, NEW s, NEW by, Layout(F, s, by), F # <<>>, NEW f, f = F[Len(F)],
         NEW c \in Places, Len(c) <= Len(f.code), \A l \in 1 .. Len(c) - 1 : c[l] = f.code[l],
         Len(c) # 0 => /\ SamePlace(f.code[Len(c)], c[Len(c)])
                       /\ Width(c[Len(c)]) = Width(f.code[Len(c)])
                       /\ Handles(c[Len(c)]) <=> Handles(f.code[Len(c)]),
         NEW b \in Callers \cup {"none"}, b # "native", b # "host", AtCall(WithCode(f, c), b),
         NEW t \in Seq(Entry), Len(t) = End(f, Len(c)),
         \A p \in 1 .. Len(t) : p # Len(t) \/ Len(c) = 0 \/ ~Handles(c[Len(c)]) => t[p] = s[p],
         Len(c) # 0 /\ Handles(c[Len(c)]) => HandlerRight(t, WithCode(f, c), Len(c)),
         NEW G, IsMoved(G, F, Len(F), c),
         NEW old, Kept(F, old), NEW o, o \subseteq old, \A p \in o : p <= End(f, Len(c))
  PROVE  Settled(G, t, b, o, s, old)
<1> DEFINE n == Len(F)
           m == Len(c)
<1>1. n \in Nat /\ n # 0 /\ f \in FrameRecord /\ Len(s) \in Nat /\ FrameRight(s, f, Len(s), by) /\ f.out <= f.slots
  <2>1. Len(F) \in Nat /\ Len(F) # 0 /\ Len(s) \in Nat /\ FrameRight(s, F[Len(F)], Len(s), by)
    BY LayoutIs
  <2>2. Len(F) \in 1 .. Len(F)
    BY <2>1
  <2>3. F[Len(F)] \in FrameRecord /\ F[Len(F)].out <= F[Len(F)].slots
    BY <2>2, LayoutIs
  <2>4. QED
    BY <2>1, <2>3
<1>2. /\ m \in Nat /\ Len(f.code) \in Nat /\ f.out \in Nat /\ f.slots \in Nat /\ DOMAIN f.code = 1 .. Len(f.code)
      /\ DOMAIN c = 1 .. m /\ \A i \in 1 .. m : c[i] \in Place
  BY <1>1, FrameIs, PlacesAre
<1>3. FrameRight(t, WithCode(f, c), Len(t), b)
  BY <1>1, Shrinks
<1>4. m \in 0 .. Len(f.code) /\ m <= Len(f.code)
  <2>1. m <= Len(f.code)
    OBVIOUS
  <2> HIDE DEF m
  <2>2. QED
    BY <1>2, <2>1
<1>5. End(f, m) \in Nat /\ f.slots <= End(f, m) /\ Len(t) = End(f, m)
  BY <1>1, <1>4, EndIs
<1>6. m # 0 /\ Handles(c[m]) =>
        /\ m \in 1 .. Len(f.code) /\ Handles(f.code[m]) /\ f.slots + 2 <= End(f, m)
  <2>1. SUFFICES ASSUME m # 0, Handles(c[m])
                 PROVE  m \in 1 .. Len(f.code) /\ Handles(f.code[m]) /\ f.slots + 2 <= End(f, m)
    OBVIOUS
  <2>2. Handles(f.code[m])
    BY <2>1
  <2>3. m \in 1 .. Len(f.code)
    <3> HIDE DEF m
    <3>1. QED
      BY <1>2, <1>4, <2>1
  <2>4. QED
    BY <1>1, <2>2, <2>3, HandledEnd
<1>7. \A p \in 1 .. Len(t) : p # Len(t) \/ m = 0 \/ ~Handles(c[m]) => t[p] = s[p]
  OBVIOUS
<1>8. m # 0 => f.code[m].k = c[m].k
  <2>1. SUFFICES ASSUME m # 0 PROVE f.code[m].k = c[m].k
    OBVIOUS
  <2>2. m \in 1 .. Len(f.code) /\ m \in 1 .. m
    <3> HIDE DEF m
    <3>1. QED
      BY <1>2, <1>4, <2>1
  <2>3. f.code[m] \in Place /\ c[m] \in Place /\ SamePlace(f.code[m], c[m])
    BY <1>1, <1>2, <2>1, <2>2, FrameIs
  <2>4. QED
    BY <2>3, SamePlaceIs
<1>9. \A i \in 0 .. m : End(WithCode(f, c), i) = End(f, i)
  BY <1>1, ChangedEnd
<1>10. \A i \in 1 .. m : f.code[i].k = "block" => c[i].k = "block" /\ End(WithCode(f, c), i) = End(f, i)
  <2>1. \A l \in 1 .. m - 1 : c[l] = f.code[l]
    OBVIOUS
  <2> HIDE DEF m
  <2>2. \A i \in 1 .. m : m # 0 /\ i \in 0 .. m /\ (i = m \/ i \in 1 .. m - 1)
    BY <1>2
  <2>3. QED
    BY <1>8, <1>9, <2>1, <2>2
<1>11. \A p \in 1 .. f.out : t[p] = s[p]
  <2>1. \A p \in 1 .. f.out : p \in 1 .. Len(t) /\ (p # Len(t) \/ m = 0 \/ ~Handles(c[m]))
    <3> HIDE DEF m
    <3>1. QED
      BY <1>1, <1>2, <1>5, <1>6
  <2>2. QED
    BY <1>7, <2>1
<1>12. G[n] = WithCode(f, c) /\ n \in 1 .. n
  BY <1>1 DEF IsMoved
<1>13. Layout(G, t, b)
  BY <1>3, <1>11, <1>12, Moves
<1>14. Kept(F, o)
  BY DEF Kept
<1>15. \A p \in o : p <= End(f, m)
  OBVIOUS
<1>16. Kept(G, o)
  BY <1>4, <1>10, <1>14, <1>15, MovedKept
<1>17. ASSUME NEW p \in o PROVE p \in DOMAIN t /\ t[p] = s[p]
  <2>1. PICK j \in 1 .. n : \E i \in 1 .. Len(F[j].code) :
           /\ F[j].code[i].k = "block" /\ p = End(F[j], i)
           /\ p \in Nat /\ F[j].slots + 1 <= p
           /\ \A l \in j + 1 .. n : p <= F[l].out
    BY <1>14, KeptSlot
  <2>2. PICK i \in 1 .. Len(F[j].code) :
           /\ F[j].code[i].k = "block" /\ p = End(F[j], i)
           /\ p \in Nat /\ F[j].slots + 1 <= p
           /\ \A l \in j + 1 .. n : p <= F[l].out
    BY <2>1
  <2>3. F[j] \in FrameRecord /\ F[j].slots \in Nat
    BY <2>1, LayoutIs, FrameIs
  <2>4. p \in 1 .. Len(t)
    BY <1>5, <1>15, <2>2, <2>3
  <2>5. p # Len(t) \/ m = 0 \/ ~Handles(c[m])
    <3>1. SUFFICES ASSUME p = Len(t), m # 0, Handles(c[m]) PROVE FALSE
      OBVIOUS
    <3>2. m \in 1 .. Len(f.code) /\ Handles(f.code[m]) /\ f.slots + 2 <= End(f, m)
      BY <1>6, <3>1
    <3> HIDE DEF m
    <3>3. CASE j = n
      <4>1. i \in 1 .. Len(f.code) /\ f.code[i].k = "block" /\ p = End(f, i)
        BY <2>2, <3>3
      <4>2. IF i < m THEN p + 2 <= End(f, m) ELSE End(f, m) + 1 <= p
        BY <1>1, <3>2, <4>1, BlockEnd
      <4>3. QED
        BY <1>5, <2>2, <3>1, <4>2
    <3>4. CASE j # n
      <4>1. n \in j + 1 .. n
        <5> HIDE DEF n
        <5>1. QED
          BY <1>1, <2>1, <3>4
      <4>2. p <= f.out
        BY <2>2, <4>1
      <4>3. QED
        BY <1>1, <1>2, <1>5, <2>2, <3>1, <3>2, <4>2
    <3>5. QED
      BY <3>3, <3>4
  <2>6. t[p] = s[p]
    BY <1>7, <2>4, <2>5
  <2>7. QED
    BY <2>4, <2>6, LenProperties
<1>18. QED
  BY <1>13, <1>16, <1>17 DEF Settled

LEMMA Interruptible ==
  /\ Interrupting \subseteq HandlerOps \ {"EXIT_LOOP"}
  /\ "RETURN" \in HandlerOps \ {"EXIT_LOOP"} /\ "EXIT_LOOP" \in HandlerOps
BY DEF Interrupting, HandlerOps, Catching

\* The newest handler above a slot of the top frame is the top frame's.
LEMMA TopHandler ==
  ASSUME NEW F, NEW s, NEW by, Layout(F, s, by), F # <<>>, NEW f, f = F[Len(F)],
         NEW p \in 1 .. Len(s), s[p].op \in HandlerOps, f.slots < p
  PROVE  \E i \in 1 .. Len(f.code) : Handles(f.code[i]) /\ p = End(f, i)
<1>1. Len(F) \in Nat /\ Len(F) # 0 /\ Len(s) \in Nat
  BY LayoutIs
<1>2. PICK j \in 1 .. Len(F) :
         /\ \E i \in 1 .. Len(F[j].code) : Handles(F[j].code[i]) /\ p = End(F[j], i)
         /\ \A l \in j + 1 .. Len(F) : p <= F[l].out
  BY Owner
<1>3. j = Len(F)
  <2>1. SUFFICES ASSUME j # Len(F) PROVE FALSE
    OBVIOUS
  <2>2. Len(F) \in j + 1 .. Len(F) /\ Len(F) \in 1 .. Len(F)
    BY <1>1, <1>2, <2>1
  <2>3. p <= f.out /\ f.out <= f.slots /\ f \in FrameRecord
    BY <1>2, <2>2, LayoutIs
  <2>4. f.out \in Nat /\ f.slots \in Nat /\ p \in Nat
    BY <1>1, <2>3, FrameIs
  <2>5. QED
    BY <2>3, <2>4
<1>4. QED
  BY <1>2, <1>3

\* A return from the top frame of F over the stack s.
LEMMA Finishes ==
  ASSUME NEW F, NEW s, NEW by, Layout(F, s, by),
         active \in Seq(FrameRecord), Len(active) # 0, NEW c \in Places, IsMoved(F, active, Len(active), c),
         Top.by = "host" => c = <<>> /\ by # "native",
         Kept(F, captured), exception \in Data, NEW v \in Data, Finish(s, v)
  PROVE  Settled(active', valueStack', back', captured', s, captured) /\ exception' \in Data
<1> DEFINE n == Len(active)
           f == F[n]
           found == {i \in Top.slots + 1 .. Len(s) : s[i].op \in Interrupting}
           h == Max(found)
<1>1. /\ exception' = exception
      /\ IF found # {} THEN Redirect(s, h, n, "RETURN", v)
         ELSE /\ captured' = {p \in captured : p <= Top.slots}
              /\ active' = Front(active)
              /\ valueStack' = IF Len(active) = 1 THEN Front(s) ELSE SubSeq(s, 1, Top.out)
              /\ back' = IF Top.by = "run" THEN "none" ELSE Top.by
  BY DEF Finish, Open
<1>2. /\ n \in Nat /\ Len(F) = n /\ DOMAIN F = 1 .. n /\ DOMAIN active = 1 .. n
      /\ \A l \in 1 .. n - 1 : F[l] = active[l]
      /\ \A l \in 1 .. n : F[l].out = active[l].out /\ F[l].slots = active[l].slots /\ F[l].by = active[l].by
      /\ f.code = c
  BY ActiveMoved
<1> HIDE DEF n
<1>3. /\ Len(s) \in Nat /\ s \in Seq(Entry) /\ F # <<>> /\ F[1].out = 0 /\ F[1].slots = 1 /\ n \in 1 .. n
      /\ \A j \in 1 .. n : F[j].by = "host" <=> j = 1
  <2>1. Len(s) \in Nat /\ s \in Seq(Entry) /\ F # <<>>
    BY <1>2, LayoutIs DEF n
  <2>2. n \in 1 .. n
    BY <1>2 DEF n
  <2>3. QED
    BY <1>2, <2>1, <2>2 DEF Layout
<1>4. f.out = Top.out /\ f.slots = Top.slots /\ f.by = Top.by
  BY <1>2, <1>3 DEF Top, n
<1> HIDE DEF f
<1>5. f \in FrameRecord /\ f = F[Len(F)] /\ FrameRight(s, f, Len(s), by)
  BY <1>2, <1>3, LayoutIs DEF f
<1>6. f.slots \in Nat /\ f.out \in Nat /\ Len(f.code) \in Nat /\ f.by \in Callers
  BY <1>5, FrameIs
<1>7. CASE found # {}
  <2>1. found \subseteq 1 .. Len(s)
    BY <1>3, <1>4, <1>6
  <2>2. h \in found
    <3> HIDE DEF found
    <3>1. QED
      BY <1>3, <1>7, <2>1, MaxIs
  <2>3. h \in 1 .. Len(s) /\ s[h].op \in Interrupting /\ f.slots < h
    BY <1>3, <1>4, <1>6, <2>1, <2>2
  <2> HIDE DEF h, found
  <2>4. s[h].op \in HandlerOps /\ s[h].op # "EXIT_LOOP"
    BY <2>3, Interruptible
  <2>5. PICK i \in 1 .. Len(f.code) : Handles(f.code[i]) /\ h = End(f, i)
    BY <1>3, <1>5, <2>3, <2>4, TopHandler
  <2>6. f.by # "host"
    <3>1. SUFFICES ASSUME f.by = "host" PROVE FALSE
      OBVIOUS
    <3>2. c = <<>>
      BY <1>4, <3>1
    <3>3. Len(f.code) = 0
      BY <1>2, <3>2, EmptySeq
    <3>4. QED
      BY <2>5, <3>3
  <2>7. Redirect(s, h, n, "RETURN", v)
    BY <1>1, <1>7
  <2>8. n \in 1 .. Len(F) /\ i \in 1 .. Len(F[n].code) /\ Handles(F[n].code[i]) /\ h = End(F[n], i) /\ F[n].by # "host"
    BY <1>2, <1>3, <2>5, <2>6 DEF f
  <2>9. Settled(active', valueStack', back', captured', s, captured)
    BY <2>4, <2>7, <2>8, Interruptible, Redirects
  <2>10. QED
    BY <1>1, <2>9
<1>8. CASE found = {} /\ n # 1
  <2> HIDE DEF found
  <2>1. /\ captured' = {p \in captured : p <= f.slots} /\ active' = Front(active)
        /\ valueStack' = SubSeq(s, 1, f.out) /\ back' = IF f.by = "run" THEN "none" ELSE f.by
    BY <1>1, <1>4, <1>8 DEF n
  <2>2. IsFirstPart(active', FrameRecord, active, n - 1)
    <3>1. n - 1 \in 0 .. n
      BY <1>2, <1>3
    <3>2. QED
      BY <2>1, <3>1, Prefixed DEF n, Front
  <2>3. IsFirstPart(active', FrameRecord, F, n - 1)
    BY <1>2, <2>2 DEF IsFirstPart
  <2>4. f.out <= Len(s)
    <3>1. 0 \in 0 .. Len(F[n].code)
      BY <1>6 DEF f
    <3>2. /\ End(f, 0) \in Nat /\ f.out <= f.slots /\ f.slots <= End(f, 0) /\ End(f, 0) <= Len(s)
      BY <1>2, <1>3, <3>1, FramesApart DEF f
    <3>3. QED
      BY <1>3, <1>6, <3>2
  <2>5. IsFirstPart(valueStack', Entry, s, f.out)
    <3>1. f.out \in 0 .. Len(s)
      BY <1>3, <1>6, <2>4
    <3>2. QED
      BY <1>3, <2>1, <3>1, Prefixed
  <2>6. Layout(active', valueStack', back')
    <3>1. n \in 1 .. Len(F) /\ IsFirstPart(valueStack', Entry, s, F[n].out)
      BY <1>2, <1>3, <2>5 DEF f
    <3>2. Layout(active', valueStack', IF F[n].by = "run" THEN "none" ELSE F[n].by)
      BY <2>3, <3>1, Drops
    <3>3. back' = IF F[n].by = "run" THEN "none" ELSE F[n].by
      BY <2>1 DEF f
    <3>4. QED
      BY <3>2, <3>3
  <2>7. \A p \in captured : p <= f.slots =>
           /\ \E l \in DOMAIN active' : \E m \in DOMAIN active'[l].code : active'[l].code[m].k = "block" /\ p = End(active'[l], m)
           /\ p \in 1 .. f.out
    <3>1. n \in 1 .. Len(F)
      BY <1>2, <1>3
    <3>2. \A p \in captured : p <= F[n].slots =>
             /\ \E l \in DOMAIN active' : \E m \in DOMAIN active'[l].code : active'[l].code[m].k = "block" /\ p = End(active'[l], m)
             /\ p \in 1 .. F[n].out
      BY <2>3, <3>1, DroppedKept
    <3>3. QED
      BY <3>2 DEF f
  <2>8. Kept(active', captured')
    BY <2>1, <2>7 DEF Kept
  <2>9. \A p \in captured' \cap captured : p \in DOMAIN valueStack' /\ valueStack'[p] = s[p]
    BY <2>1, <2>5, <2>7 DEF IsFirstPart
  <2>10. back' \in Callers \cup {"none"}
    BY <1>6, <2>1
  <2>11. QED
    BY <1>1, <2>6, <2>8, <2>9, <2>10 DEF Settled
<1>9. CASE found = {} /\ n = 1
  <2> HIDE DEF found
  <2>1. f.by = "host" /\ f.slots = 1 /\ f.code = <<>> /\ by # "native"
    BY <1>2, <1>3, <1>4, <1>9 DEF f
  <2>2. Len(s) = 1
    <3>1. End(f, 0) = f.slots + ArgumentsOf(f.by)
      BY <1>5, EndIs
    <3>2. ArgumentsOf(f.by) = 0
      BY <2>1 DEF ArgumentsOf
    <3>3. Len(s) = End(f, Len(f.code)) + (IF by = "native" THEN 1 ELSE 0)
      BY <1>5 DEF FrameRight
    <3>4. Len(f.code) = 0
      BY <2>1, EmptySeq
    <3>5. QED
      BY <1>3, <2>1, <3>1, <3>2, <3>3, <3>4
  <2>3. /\ captured' = {p \in captured : p <= f.slots} /\ active' = Front(active)
        /\ valueStack' = Front(s) /\ back' = "host"
    BY <1>1, <1>4, <1>9, <2>1 DEF n
  <2>4. active' = <<>>
    <3>1. n - 1 \in 0 .. n
      BY <1>2, <1>3
    <3>2. IsFirstPart(active', FrameRecord, active, n - 1)
      BY <2>3, <3>1, Prefixed DEF n, Front
    <3>3. active' \in Seq(FrameRecord) /\ Len(active') = 0
      BY <1>9, <3>2 DEF IsFirstPart
    <3>4. QED
      BY <3>3, EmptySeq
  <2>5. valueStack' = <<>>
    <3>1. Len(s) - 1 \in 0 .. Len(s) /\ Len(s) - 1 = 0
      BY <2>2
    <3>2. IsFirstPart(valueStack', Entry, s, 0)
      BY <1>3, <2>3, <3>1, Prefixed DEF Front
    <3>3. valueStack' \in Seq(Entry) /\ Len(valueStack') = 0
      BY <3>2 DEF IsFirstPart
    <3>4. QED
      BY <3>3, EmptySeq
  <2>6. Layout(active', valueStack', back')
    <3>1. <<>> \in Seq(FrameRecord) /\ <<>> \in Seq(Entry) /\ DOMAIN <<>> = {}
      OBVIOUS
    <3>2. QED
      BY <2>3, <2>4, <2>5, <3>1 DEF Layout
  <2>7. captured = {}
    <3>1. SUFFICES ASSUME NEW p \in captured PROVE FALSE
      OBVIOUS
    <3>2. PICK j \in DOMAIN F : \E m \in DOMAIN F[j].code : p = End(F[j], m)
      BY DEF Kept
    <3>3. F[j] = f
      BY <1>2, <1>9, <3>2 DEF f
    <3>4. DOMAIN F[j].code = {}
      BY <2>1, <3>3
    <3>5. QED
      BY <3>2, <3>4
  <2>8. captured' = {}
    BY <2>3, <2>7
  <2>9. back' \in Callers \cup {"none"}
    BY <2>3 DEF Callers
  <2>10. QED
    BY <1>1, <2>6, <2>8, <2>9 DEF Settled, Kept
<1>10. QED
  BY <1>7, <1>8, <1>9

\* The loop at m of the top frame is left for the place dest, with k locals.
LEMMA ExitsLoop ==
  ASSUME NEW s, NEW by, Layout(active, s, by), Len(active) # 0,
         NEW c \in Places, c = Code, NEW m \in 1 .. Len(c), c[m].k \in Loops,
         NEW dest \in Places, Agree(dest, c, m),
         NEW k, k = ArgumentsOf(Top.by) + Wide(c, m),
         Kept(active, captured), exception \in Data, ExitLoop(s, k, dest)
  PROVE  Settled(active', valueStack', back', captured', s, captured) /\ exception' \in Data
<1> DEFINE n == Len(active)
           base == Top.slots + k
           found == {i \in base + 1 .. Len(s) : s[i].op \in Interrupting}
           h == Max(found)
<1>1. /\ exception' = exception
      /\ IF found # {}
         THEN /\ valueStack' = [SubSeq(s, 1, h) EXCEPT ![h] = NewHandler("EXIT_LOOP", dest), ![h - 1] = Count(k)]
              /\ captured' = {p \in captured : p <= h - 1}
              /\ active' = [active EXCEPT ![n].code = s[h].to]
              /\ back' = "none"
         ELSE /\ valueStack' = SubSeq(s, 1, IF base < Len(s) THEN base ELSE Len(s))
              /\ captured' = {p \in captured : p <= base}
              /\ active' = [active EXCEPT ![n].code = dest]
              /\ back' = "none"
  BY DEF ExitLoop, Open, Goto
<1>2. /\ n \in Nat /\ n # 0 /\ n \in 1 .. n /\ active \in Seq(FrameRecord) /\ Len(s) \in Nat /\ s \in Seq(Entry) /\ active # <<>>
      /\ FrameRight(s, Top, Len(s), by) /\ Top \in FrameRecord /\ Top = active[n] /\ Top.code = c
  <2>1. n \in Nat /\ n # 0 /\ active \in Seq(FrameRecord) /\ Len(s) \in Nat /\ s \in Seq(Entry) /\ active # <<>>
    BY LayoutIs
  <2>2. n \in 1 .. n
    <3> HIDE DEF n
    <3>1. QED
      BY <2>1
  <2>3. FrameRight(s, active[n], Len(s), by) /\ active[n] \in FrameRecord
    BY <2>1, <2>2, LayoutIs
  <2>4. QED
    BY <2>1, <2>2, <2>3 DEF Top, Code
<1> HIDE DEF n
<1>3. /\ Top.slots \in Nat /\ ArgumentsOf(Top.by) \in Nat /\ Len(c) \in Nat /\ c[m] \in Place /\ m \in 0 .. Len(c)
      /\ Len(dest) = m /\ (\A l \in 1 .. m - 1 : dest[l] = c[l]) /\ SamePlace(c[m], dest[m]) /\ m \in Nat
  <2>1. Len(c) \in Nat
    BY PlacesAre
  <2>2. QED
    BY <1>2, <2>1, FrameIs, PlacesAre DEF Agree
<1>4. Wide(c, m) \in Nat /\ k \in Nat
  BY <1>3, WideIs
<1>5. base = End(Top, m) /\ base \in Nat
  <2>1. End(Top, m) = Top.slots + ArgumentsOf(Top.by) + Wide(c, m)
    BY <1>2 DEF End
  <2>2. Top.slots \in Nat /\ ArgumentsOf(Top.by) \in Nat /\ Wide(c, m) \in Nat
    BY <1>3, <1>4
  <2>3. QED
    BY <2>1, <2>2
<1>6. base <= Len(s)
  <2>1. m \in 0 .. Len(active[n].code)
    BY <1>2, <1>3
  <2>2. QED
    BY <1>2, <1>5, <2>1, FramesApart DEF n
<1> HIDE DEF base
<1>7. CASE found # {}
  <2>1. found \subseteq 1 .. Len(s)
    BY <1>2, <1>5
  <2>2. h \in found
    <3> HIDE DEF found
    <3>1. QED
      BY <1>2, <1>7, <2>1, MaxIs
  <2>3. h \in 1 .. Len(s) /\ s[h].op \in Interrupting /\ base < h
    BY <1>2, <1>5, <2>1, <2>2
  <2> HIDE DEF h, found
  <2>4. s[h].op \in HandlerOps /\ s[h].op # "EXIT_LOOP"
    BY <2>3, Interruptible
  <2>5. Top.slots < h
    <3>1. m \in 0 .. Len(Top.code)
      BY <1>2, <1>3
    <3>2. Top.slots <= End(Top, m)
      BY <1>2, <3>1, EndIs
    <3>3. h \in Nat
      BY <1>2, <2>3
    <3>4. QED
      BY <1>3, <1>5, <2>3, <3>2, <3>3
  <2>6. PICK i \in 1 .. Len(c) : Handles(c[i]) /\ h = End(Top, i)
    BY <1>2, <2>3, <2>4, <2>5, TopHandler DEF n
  <2>7. m \in 1 .. i - 1
    <3>1. SUFFICES ASSUME ~(m < i) PROVE FALSE
      BY <1>3
    <3>2. i \in 0 .. Len(Top.code) /\ m \in 0 .. Len(Top.code) /\ i <= m
      BY <1>2, <1>3, <3>1
    <3>3. End(Top, i) <= End(Top, m) /\ End(Top, i) \in Nat
      BY <1>2, <3>2, EndIs
    <3>4. QED
      BY <1>5, <2>3, <2>6, <3>3
  <2> DEFINE to == s[h].to
  <2>8. i \in 1 .. Len(active[n].code) /\ Handles(active[n].code[i]) /\ h = End(active[n], i)
    BY <1>2, <2>6
  <2>9. HandlerRight(s, active[n], i) /\ h \in 2 .. Len(s) /\ to \in Places
    BY <1>2, <2>8, HandlerAt DEF n
  <2>10. Agree(to, c, i) /\ Handles(to[i]) /\ to[i].part \in Leaving
    BY <1>2, <2>4, <2>8, <2>9 DEF HandlerRight, StaysAt
  <2>11. /\ valueStack' = [SubSeq(s, 1, h) EXCEPT ![h] = NewHandler("EXIT_LOOP", dest), ![h - 1] = Count(k)]
         /\ captured' = {p \in captured : p <= h - 1}
         /\ active' = [active EXCEPT ![n].code = to]
         /\ back' = "none"
    BY <1>1, <1>7
  <2> HIDE DEF to
  <2>12. Count(k) \in Data
    BY <1>4 DEF Count, Data
  <2>13. NewHandler("EXIT_LOOP", dest) \in Entry /\ Count(k) \in Entry
    BY <2>12, Interruptible, NewHandlerIs DEF Entry
  <2>14. IsCut(valueStack', s, h, NewHandler("EXIT_LOOP", dest), Count(k))
    BY <1>2, <2>9, <2>11, <2>13, Cutting
  <2>15. IsMoved(active', active, n, to)
    BY <1>2, <2>9, <2>11, Going DEF n
  <2> DEFINE o == {p \in captured : p <= h - 1}
  <2>16. \E l \in 1 .. i - 1 : /\ Agree(dest, active[n].code, l) /\ active[n].code[l].k \in Loops
                               /\ Count(k) = Count(ArgumentsOf(active[n].by) + Wide(active[n].code, l))
    BY <1>2, <2>7
  <2>17. n \in 1 .. Len(active) /\ Agree(to, active[n].code, i)
    BY <1>2, <2>10 DEF n
  <2>18. Settled(active', valueStack', "none", o, s, captured)
    <3>1. "EXIT_LOOP" \in HandlerOps /\ "EXIT_LOOP" # "RETURN"
      BY Interruptible
    <3>2. o = {p \in captured : p <= End(active[n], i) - 1}
      BY <2>8
    <3>3. IsCut(valueStack', s, End(active[n], i), NewHandler("EXIT_LOOP", dest), Count(k))
      BY <2>8, <2>14
    <3>4. Settled(active', valueStack', "none", {p \in captured : p <= End(active[n], i) - 1}, s, captured)
      BY <2>8, <2>9, <2>10, <2>12, <2>15, <2>16, <2>17, <3>1, <3>3, Lands
    <3>5. QED
      BY <3>2, <3>4
  <2>19. QED
    BY <1>1, <2>11, <2>18
<1>8. CASE found = {}
  <2> HIDE DEF found
  <2>1. /\ valueStack' = SubSeq(s, 1, base)
        /\ captured' = {p \in captured : p <= base}
        /\ active' = [active EXCEPT ![n].code = dest]
        /\ back' = "none"
    BY <1>1, <1>2, <1>5, <1>6, <1>8
  <2>2. IsFirstPart(valueStack', Entry, s, base)
    <3>1. base \in 0 .. Len(s)
      BY <1>2, <1>5, <1>6
    <3>2. QED
      BY <1>2, <2>1, <3>1, Prefixed
  <2>3. IsMoved(active', active, n, dest)
    BY <1>2, <2>1, Going DEF n
  <2>4. dest[m] \in Place /\ dest[m].k = c[m].k
    <3>1. dest[m] \in Place
      BY <1>3, PlacesAre
    <3>2. QED
      BY <1>3, <3>1, SamePlaceIs
  <2>5. c[m].k # "with" /\ c[m].k # "try"
    BY DEF Loops
  <2>6. Width(dest[m]) = Width(c[m]) /\ ~Handles(dest[m]) /\ ~Handles(c[m])
    BY <1>3, <2>4, <2>5, SamePlaceIs DEF Handles
  <2>7. AtCall(WithCode(Top, dest), "none")
    <3>1. WithCode(Top, dest).code = dest
      BY <1>2, WithCodeIs
    <3>2. ~Entering(dest)
      BY <1>3, <2>4, <2>5 DEF Entering
    <3>3. QED
      BY <3>1, <3>2 DEF AtCall
  <2>8. valueStack' \in Seq(Entry) /\ Len(valueStack') = End(Top, m) /\ \A p \in 1 .. Len(valueStack') : valueStack'[p] = s[p]
    BY <1>5, <2>2 DEF IsFirstPart
  <2>9. captured' \subseteq captured /\ \A p \in captured' : p <= End(Top, m)
    BY <1>5, <2>1
  <2>10. Settled(active', valueStack', "none", captured', s, captured)
    <3>1. active # <<>> /\ Top = active[Len(active)] /\ Len(dest) <= Len(Top.code)
      BY <1>2, <1>3 DEF n
    <3>2. \A l \in 1 .. Len(dest) - 1 : dest[l] = Top.code[l]
      BY <1>2, <1>3
    <3>3. /\ SamePlace(Top.code[Len(dest)], dest[Len(dest)])
          /\ Width(dest[Len(dest)]) = Width(Top.code[Len(dest)])
          /\ Handles(dest[Len(dest)]) <=> Handles(Top.code[Len(dest)])
      BY <1>2, <1>3, <2>6
    <3>4. ~Handles(dest[Len(dest)])
      BY <1>3, <2>6
    <3>5. Len(valueStack') = End(Top, Len(dest)) /\ \A p \in captured' : p <= End(Top, Len(dest))
      BY <1>3, <2>8, <2>9
    <3>6. IsMoved(active', active, Len(active), dest)
      BY <2>3 DEF n
    <3>7. "none" \in Callers \cup {"none"} /\ "none" # "native" /\ "none" # "host"
      OBVIOUS
    <3>8. QED
      BY <2>7, <2>8, <2>9, <3>1, <3>2, <3>3, <3>4, <3>5, <3>6, <3>7, Shrunk
  <2>11. QED
    BY <1>1, <2>1, <2>10
<1>9. QED
  BY <1>7, <1>8

\* The top frame enters a construct.
LEMMA Grown ==
  ASSUME NEW F, NEW s, Layout(F, s, "none"), F # <<>>, NEW f, f = F[Len(F)],
         f.code # <<>> => f.code[Len(f.code)].part \in Inside,
         NEW x \in Place, NEW c \in Places, IsAppended(c, Place, f.code, x),
         NEW b \in Callers \cup {"none"}, b # "native", b # "host", AtCall(WithCode(f, c), b),
         NEW t \in Seq(Entry), Len(t) = Len(s) + Width(x),
         \A p \in 1 .. Len(s) : t[p] = s[p],
         \A p \in Len(s) + 1 .. Len(t) : t[p] \in Data \/ (p = Len(t) /\ Handles(x)),
         Handles(x) => HandlerRight(t, WithCode(f, c), Len(c)),
         NEW G, IsMoved(G, F, Len(F), c),
         NEW o, Kept(F, o)
  PROVE  Settled(G, t, b, o, s, o)
<1> DEFINE n == Len(F)
           m == Len(f.code)
<1>1. n \in Nat /\ n \in 1 .. n /\ f \in FrameRecord /\ Len(s) \in Nat /\ FrameRight(s, f, Len(s), "none")
  <2>1. Len(F) \in Nat /\ Len(F) # 0 /\ Len(s) \in Nat /\ FrameRight(s, F[Len(F)], Len(s), "none")
    BY LayoutIs
  <2>2. Len(F) \in 1 .. Len(F)
    BY <2>1
  <2>3. F[Len(F)] \in FrameRecord
    BY <2>2, LayoutIs
  <2>4. QED
    BY <2>1, <2>2, <2>3
<1>2. FrameRight(t, WithCode(f, c), Len(t), b)
  BY <1>1, Grows
<1>3. m \in Nat /\ f.code \in Places /\ f.out \in Nat /\ m \in 0 .. Len(f.code)
  BY <1>1, FrameIs
<1>4. Len(c) = m + 1 /\ \A i \in 1 .. m : c[i] = f.code[i]
  BY DEF IsAppended
<1>5. \A l \in 1 .. n : \A i \in 0 .. Len(F[l].code) : End(F[l], i) <= Len(s)
  BY FramesApart
<1>6. End(f, m) <= Len(s) /\ f.out <= Len(s)
  <2>1. /\ End(f, m) \in Nat /\ f.out <= f.slots /\ f.slots <= End(f, m) /\ f.slots \in Nat /\ End(f, m) <= Len(s)
    BY <1>1, <1>3, FramesApart
  <2>2. QED
    BY <1>1, <1>3, <2>1
<1> HIDE DEF n, m
<1>7. \A p \in 1 .. f.out : t[p] = s[p]
  BY <1>1, <1>3, <1>6
<1>8. G[n] = WithCode(f, c)
  BY DEF IsMoved, n
<1>9. Layout(G, t, b)
  BY <1>1, <1>2, <1>7, <1>8, Moves DEF n
<1>10. m <= Len(c) /\ m \in 0 .. m
  BY <1>3, <1>4
<1>11. \A i \in 0 .. m : End(WithCode(f, c), i) = End(f, i)
  BY <1>1, <1>3, <1>4, <1>10, EndSame
<1>12. \A i \in 1 .. m : f.code[i].k = "block" => c[i].k = "block" /\ End(WithCode(f, c), i) = End(f, i)
  BY <1>3, <1>4, <1>11
<1>13. ASSUME NEW p \in o PROVE p <= End(f, m) /\ p \in 1 .. Len(s)
  <2>1. PICK j \in 1 .. n : \E i \in 1 .. Len(F[j].code) :
           /\ F[j].code[i].k = "block" /\ p = End(F[j], i)
           /\ p \in Nat /\ F[j].slots + 1 <= p
           /\ \A l \in j + 1 .. n : p <= F[l].out
    BY KeptSlot DEF n
  <2>2. PICK i \in 1 .. Len(F[j].code) :
           /\ F[j].code[i].k = "block" /\ p = End(F[j], i)
           /\ p \in Nat /\ F[j].slots + 1 <= p
           /\ \A l \in j + 1 .. n : p <= F[l].out
    BY <2>1
  <2>3. F[j] \in FrameRecord /\ F[j].slots \in Nat /\ i \in 0 .. Len(F[j].code)
    BY <2>1, <2>2, LayoutIs, FrameIs DEF n
  <2>4. p <= Len(s)
    BY <1>5, <2>1, <2>2, <2>3
  <2>5. Len(s) = End(f, m)
    <3>1. End(f, m) \in Nat
      BY <1>1, <1>3, EndIs
    <3>2. QED
      BY <1>1, <3>1 DEF FrameRight, m
  <2>6. QED
    BY <1>1, <2>2, <2>3, <2>4, <2>5
<1>14. Kept(G, o)
  BY <1>3, <1>10, <1>12, <1>13, MovedKept DEF n, m
<1>15. \A p \in o : p \in DOMAIN t /\ t[p] = s[p]
  <2>1. Width(x) \in Nat /\ DOMAIN t = 1 .. Len(t)
    BY WidthIs, LenProperties
  <2>2. \A p \in 1 .. Len(s) : p \in 1 .. Len(t)
    BY <1>1, <2>1
  <2>3. QED
    BY <1>13, <2>1, <2>2
<1>16. QED
  BY <1>9, <1>14, <1>15 DEF Settled

LEMMA Called ==
  ASSUME NEW F, NEW s, NEW b \in {"run", "native", "enter", "exit"}, Layout(F, s, b),
         NEW r \in FrameRecord, r.code = <<>>, r.by = b, r.out = Len(s), r.out <= r.slots,
         NEW G, IsAppended(G, FrameRecord, F, r),
         NEW t \in Seq(Entry), Len(t) = r.slots + ArgumentsOf(b),
         \A p \in 1 .. Len(s) : t[p] = s[p],
         \A p \in Len(s) + 1 .. Len(t) : t[p] \in Data,
         NEW o, Kept(F, o)
  PROVE  Settled(G, t, "none", o, s, o)
<1>1. Layout(G, t, "none")
  BY Calling
<1>2. Len(F) \in Nat /\ Len(s) \in Nat /\ DOMAIN F = 1 .. Len(F)
  BY LayoutIs
<1>3. G \in Seq(FrameRecord) /\ Len(G) = Len(F) + 1 /\ \A j \in 1 .. Len(F) : G[j] = F[j]
  BY DEF IsAppended
<1>4. DOMAIN G = 1 .. Len(F) + 1
  BY <1>3, LenProperties
<1>5. \A j \in DOMAIN F : j \in DOMAIN G /\ G[j] = F[j]
  BY <1>2, <1>3, <1>4
<1>6. Kept(G, o)
  BY <1>5 DEF Kept
<1>7. ASSUME NEW p \in o PROVE p \in DOMAIN t /\ t[p] = s[p]
  <2>1. PICK j \in 1 .. Len(F) : \E i \in 1 .. Len(F[j].code) :
           p = End(F[j], i) /\ p \in Nat /\ F[j].slots + 1 <= p
    BY KeptSlot
  <2>2. PICK i \in 1 .. Len(F[j].code) : p = End(F[j], i) /\ p \in Nat /\ F[j].slots + 1 <= p
    BY <2>1
  <2>3. F[j] \in FrameRecord /\ F[j].slots \in Nat /\ i \in 0 .. Len(F[j].code)
    BY <2>1, <2>2, LayoutIs, FrameIs
  <2>4. p <= Len(s)
    BY <2>1, <2>2, <2>3, FramesApart
  <2>5. p \in 1 .. Len(s)
    BY <1>2, <2>2, <2>3, <2>4
  <2>6. DOMAIN t = 1 .. Len(t) /\ Len(s) <= Len(t)
    <3>1. DOMAIN t = 1 .. Len(t) /\ ArgumentsOf(b) \in Nat /\ r.slots \in Nat
      BY LenProperties, FrameIs
    <3>2. QED
      BY <1>2, <3>1
  <2>7. QED
    BY <1>2, <2>5, <2>6
<1>8. QED
  BY <1>1, <1>6, <1>7 DEF Settled

LEMMA SettledTwice ==
  ASSUME NEW G, NEW t, NEW b, NEW o, NEW s, NEW old, Settled(G, t, b, o, s, old), o \subseteq old,
         NEW H, NEW u, NEW d, NEW q, Settled(H, u, d, q, t, o), q \subseteq o
  PROVE  Settled(H, u, d, q, s, old)
BY DEF Settled

\* Data is all there is between the handlers.
LEMMA IsData ==
  ASSUME NEW v \in Entry, v.op \notin HandlerOps
  PROVE  v \in Data
BY DEF Entry

\* What is pending below a handler of the top frame.
LEMMA PendingIs ==
  ASSUME NEW F, NEW s, NEW by, Layout(F, s, by), F # <<>>, NEW f, f = F[Len(F)],
         NEW i \in 1 .. Len(f.code), Handles(f.code[i])
  PROVE  s[End(f, i) - 1] \in Data
<1>1. /\ Len(F) \in 1 .. Len(F) /\ f \in FrameRecord /\ Len(s) \in Nat /\ s \in Seq(Entry)
      /\ \A p \in 1 .. Len(s) : s[p] \in Entry
  <2>1. Len(F) \in Nat /\ Len(F) # 0
    BY LayoutIs
  <2>2. Len(F) \in 1 .. Len(F)
    BY <2>1
  <2>3. QED
    BY <2>2, LayoutIs
<1>2. End(f, i) \in 2 .. Len(s)
  BY <1>1, HandlerAt
<1>3. /\ f.slots + 2 <= End(f, i) /\ f.slots \in Nat /\ Len(f.code) \in Nat
  BY <1>1, HandledEnd, FrameIs
<1> DEFINE p == End(f, i) - 1
<1>4. p \in 1 .. Len(s) /\ f.slots < p /\ End(f, i) = p + 1
  BY <1>1, <1>2, <1>3
<1>5. s[p].op \notin HandlerOps
  <2>1. SUFFICES ASSUME s[p].op \in HandlerOps PROVE FALSE
    OBVIOUS
  <2>2. PICK m \in 1 .. Len(f.code) : Handles(f.code[m]) /\ p = End(f, m)
    BY <1>4, <2>1, TopHandler
  <2> HIDE DEF p
  <2>3. CASE m < i
    <3>1. m \in 0 .. i - 1
      BY <1>3, <2>3
    <3>2. End(f, m) + 2 <= End(f, i)
      BY <1>1, <3>1, HandledEnd
    <3>3. QED
      BY <1>1, <1>4, <2>2, <3>2
  <2>4. CASE ~(m < i)
    <3>1. i \in 0 .. Len(f.code) /\ m \in 0 .. Len(f.code) /\ i <= m
      BY <1>3, <2>4
    <3>2. End(f, i) <= End(f, m)
      BY <1>1, <3>1, EndIs
    <3>3. QED
      BY <1>1, <1>4, <2>2, <3>2
  <2>5. QED
    BY <2>3, <2>4
<1>6. s[p] \in Data
  BY <1>1, <1>4, <1>5, IsData
<1>7. QED
  BY <1>6

-----------------------------------------------------------------------------
(* Steps.                                                                  *)

\* The invariant holds after the step, and open upvalues refer to the
\* entries they referred to.
Continues ==
  /\ Settled(active', valueStack', back', captured', valueStack, captured)
  /\ exception' \in Data

\* The top frame.
LEMMA TopIs ==
  ASSUME BlocksInv, active # <<>>
  PROVE  /\ active \in Seq(FrameRecord) /\ Len(active) \in Nat /\ Len(active) # 0 /\ Len(active) \in 1 .. Len(active)
         /\ Top \in FrameRecord /\ Top = active[Len(active)] /\ Code = Top.code /\ Code \in Places
         /\ valueStack \in Seq(Entry) /\ Len(valueStack) \in Nat
         /\ FrameRight(valueStack, Top, Len(valueStack), back)
         /\ WithCode(Top, Code) = Top /\ IsMoved(active, active, Len(active), Code)
         /\ back # "host"
<1>1. /\ active \in Seq(FrameRecord) /\ Len(active) \in Nat /\ Len(active) # 0
      /\ valueStack \in Seq(Entry) /\ Len(valueStack) \in Nat
      /\ FrameRight(valueStack, active[Len(active)], Len(valueStack), back)
  BY LayoutIs DEF BlocksInv
<1>2. Len(active) \in 1 .. Len(active)
  BY <1>1
<1>3. active[Len(active)] \in FrameRecord
  BY <1>1, <1>2
<1>4. Top \in FrameRecord /\ Top = active[Len(active)] /\ Code = Top.code
  BY <1>3 DEF Top, Code
<1>5. Code \in Places
  BY <1>4, FrameIs
<1>6. WithCode(Top, Code) = Top
  BY <1>4 DEF WithCode, FrameRecord
<1>7. IsMoved(active, active, Len(active), Code)
  BY <1>1, <1>4, <1>6 DEF IsMoved
<1>8. back # "host"
  BY DEF BlocksInv, Layout
<1>9. QED
  BY <1>1, <1>2, <1>4, <1>5, <1>6, <1>7, <1>8

\* Its code, and the construct it is in.
LEMMA InnerIs ==
  ASSUME BlocksInv, active # <<>>, Code # <<>>
  PROVE  /\ Len(Code) \in Nat /\ Len(Code) # 0 /\ Len(Code) \in 1 .. Len(Code)
         /\ Inner \in Place /\ Inner = Code[Len(Code)] /\ Inner.part \in Parts(Inner.k) /\ Inner.k \in Kinds
<1>1. Code \in Places
  BY TopIs
<1>2. Len(Code) \in Nat /\ Len(Code) # 0
  BY <1>1, PlacesAre, EmptySeq DEF Places
<1>3. Len(Code) \in 1 .. Len(Code)
  BY <1>2
<1>4. Inner \in Place
  BY <1>1, <1>3, PlacesAre DEF Inner
<1>5. QED
  BY <1>2, <1>3, <1>4 DEF Place, Inner

\* d is the code c with part p of its last construct.
IsAt(d, c, p) ==
  /\ d \in Places /\ Len(d) = Len(c)
  /\ \A l \in 1 .. Len(c) - 1 : d[l] = c[l]
  /\ SamePlace(c[Len(c)], d[Len(c)]) /\ d[Len(c)].part = p /\ d[Len(c)] \in Place
  /\ d[Len(c)] = [c[Len(c)] EXCEPT !.part = p]

LEMMA PartIs ==
  ASSUME NEW c \in Places, Len(c) # 0, NEW p \in Parts(c[Len(c)].k)
  PROVE  IsAt(At(c, p), c, p)
<1> DEFINE n == Len(c)
           x == [c[n] EXCEPT !.part = p]
           d == [c EXCEPT ![n] = x]
<1>1. n \in Nat /\ DOMAIN c = 1 .. n /\ \A i \in 1 .. n : c[i] \in Place
  BY PlacesAre
<1>2. n \in 1 .. n /\ n # 0
  <2>1. n # 0 /\ n \in Nat
    BY <1>1
  <2> HIDE DEF n
  <2>2. QED
    BY <2>1
<1>3. c[n] \in Place
  BY <1>1, <1>2
<1>4. c[n].k \in Kinds /\ p \in UNION {Parts(k) : k \in Kinds}
  BY <1>3 DEF Place
<1>5. x \in Place /\ x.part = p
  BY <1>3, <1>4 DEF Place
<1>6. SamePlace(c[n], x)
  BY <1>5 DEF SamePlace
<1>7. d = [i \in 1 .. n |-> IF i = n THEN x ELSE c[i]]
  <2>1. c = [i \in 1 .. n |-> c[i]]
    BY <1>1, LenProperties DEF Places
  <2> HIDE DEF n, x
  <2>2. QED
    BY <1>1, <1>2, <2>1
<1>8. At(c, p) = d
  BY DEF At
<1> HIDE DEF d
<1>9. d \in Seq(Place) /\ Len(d) = n
  <2>1. d \in [1 .. n -> Place]
    <3> HIDE DEF n, x
    <3>1. QED
      BY <1>1, <1>5, <1>7
  <2> HIDE DEF n
  <2>2. QED
    BY <1>1, <2>1, LenProperties
<1>10. (\A l \in 1 .. n - 1 : d[l] = c[l]) /\ d[n] = x
  <2> HIDE DEF n, x
  <2>1. QED
    BY <1>1, <1>2, <1>7
<1>11. IsAt(d, c, p)
  BY <1>5, <1>6, <1>9, <1>10 DEF IsAt, Places
<1>12. QED
  BY <1>8, <1>11

LEMMA SamePlaceTwice ==
  ASSUME NEW c \in Place, NEW d \in Place, NEW e \in Place, SamePlace(c, d), SamePlace(c, e)
  PROVE  SamePlace(d, e)
<1>1. PICK p : d = [c EXCEPT !.part = p]
  BY DEF SamePlace
<1>2. PICK q : e = [c EXCEPT !.part = q]
  BY DEF SamePlace
<1>3. e.part = q
  BY <1>2 DEF Place
<1>4. [d EXCEPT !.part = q] = [c EXCEPT !.part = q]
  BY <1>1 DEF Place
<1>5. QED
  BY <1>2, <1>3, <1>4 DEF SamePlace

\* The handler of the construct a frame is in stays right when the frame goes
\* on in another part of it and the handler changes to one of the same sort.
LEMMA SameHandler ==
  ASSUME NEW f \in FrameRecord, NEW n, n = Len(f.code), n # 0, Handles(f.code[n]), NEW s, HandlerRight(s, f, n),
         s[End(f, n)].to \in Places,
         NEW c, NEW p, IsAt(c, f.code, p), Handles(c[n]),
         NEW op \in HandlerOps, op = "EXIT_LOOP" <=> s[End(f, n)].op = "EXIT_LOOP",
         op = "RETURN" => s[End(f, n)].op = "RETURN", op = "EXIT_LOOP" => p \in Leaving,
         NEW t, t[End(f, n)] = NewHandler(op, s[End(f, n)].to), t[End(f, n) - 1] = s[End(f, n) - 1]
  PROVE  HandlerRight(t, WithCode(f, c), n)
<1> DEFINE g == WithCode(f, c)
           h == s[End(f, n)]
           k == t[End(f, n)]
<1>1. /\ f.code \in Places /\ n \in Nat /\ f.code[n] \in Place
  <2>1. n \in Nat /\ f.code \in Places
    BY FrameIs
  <2>2. n \in 1 .. n
    BY <2>1
  <2>3. QED
    BY <2>1, <2>2, FrameIs
<1>2. /\ c \in Places /\ Len(c) = n /\ (\A l \in 1 .. n - 1 : c[l] = f.code[l])
      /\ SamePlace(f.code[n], c[n]) /\ c[n] \in Place
  BY DEF IsAt
<1>3. g \in FrameRecord /\ g.code = c /\ g.by = f.by
  BY <1>2, WithCodeIs
<1>4. \A m \in 0 .. n : End(g, m) = End(f, m)
  <2>1. Width(c[n]) = Width(f.code[n])
    BY <1>1, <1>2, SamePlaceIs
  <2>2. /\ Len(c) <= Len(f.code) /\ (\A l \in 1 .. Len(c) - 1 : c[l] = f.code[l])
        /\ Width(c[Len(c)]) = Width(f.code[Len(c)])
    BY <1>1, <1>2, <2>1
  <2>3. \A m \in 0 .. Len(c) : End(g, m) = End(f, m)
    BY <1>2, <2>2, ChangedEnd
  <2>4. QED
    BY <1>2, <2>3
<1>5. End(g, n) = End(f, n)
  BY <1>1, <1>4
<1>6. k.op = op /\ k.to = h.to
  BY DEF NewHandler
<1>7. HandlerOps # {} /\ (f.by = "host" => k.op # "RETURN")
  BY <1>6 DEF HandlerRight
<1>8. CASE op = "EXIT_LOOP"
  <2>1. LeavesTo(f, n, h, s[End(f, n) - 1])
    BY <1>8 DEF HandlerRight
  <2>2. PICK m \in 1 .. n - 1 : /\ Agree(h.to, f.code, m) /\ f.code[m].k \in Loops
                                /\ s[End(f, n) - 1] = Count(ArgumentsOf(f.by) + Wide(f.code, m))
    BY <2>1 DEF LeavesTo
  <2>3. n - 1 \in 0 .. Len(f.code) /\ n - 1 <= Len(c) /\ m \in 0 .. n - 1
    BY <1>1, <1>2
  <2>4. Wide(c, m) = Wide(f.code, m)
    BY <1>2, <2>3, EndSame
  <2>5. c[m] = f.code[m] /\ \A l \in 1 .. m - 1 : c[l] = f.code[l]
    <3>1. \A l \in 1 .. m - 1 : l \in 1 .. n - 1
      BY <1>1
    <3>2. QED
      BY <1>2, <3>1
  <2>6. Agree(k.to, c, m)
    BY <1>6, <2>2, <2>5 DEF Agree
  <2>7. LeavesTo(g, n, k, t[End(f, n) - 1])
    <3>1. g.code[n].part \in Leaving
      BY <1>3, <1>8 DEF IsAt
    <3>2. QED
      BY <1>3, <2>2, <2>4, <2>5, <2>6, <3>1 DEF LeavesTo
  <2> HIDE DEF g, k
  <2>8. QED
    BY <1>3, <1>5, <1>6, <1>7, <1>8, <2>7 DEF HandlerRight, g, k
<1>9. CASE op # "EXIT_LOOP"
  <2>1. StaysAt(f.code, n, h)
    BY <1>9 DEF HandlerRight
  <2>2. Agree(h.to, f.code, n) /\ Handles(h.to[n]) /\ h.to[n].part \in Leaving
    BY <2>1 DEF StaysAt
  <2>3. Len(h.to) = n /\ (\A l \in 1 .. n - 1 : h.to[l] = f.code[l]) /\ SamePlace(f.code[n], h.to[n])
    BY <2>2 DEF Agree
  <2>4. h.to[n] \in Place
    <3>1. n \in 1 .. Len(h.to)
      BY <1>1, <2>3
    <3>2. QED
      BY <3>1, PlacesAre
  <2>5. SamePlace(c[n], h.to[n])
    BY <1>1, <1>2, <2>3, <2>4, SamePlaceTwice
  <2>6. Agree(k.to, c, n)
    BY <1>2, <1>6, <2>3, <2>5 DEF Agree
  <2>7. StaysAt(c, n, k)
    BY <1>6, <2>2, <2>6 DEF StaysAt
  <2> HIDE DEF g, k
  <2>8. QED
    BY <1>3, <1>5, <1>6, <1>7, <1>9, <2>7 DEF HandlerRight, g, k
<1>10. QED
  BY <1>8, <1>9

\* The top of the stack is where the locals of the code end.
LEMMA EndOfCode ==
  ASSUME BlocksInv, active # <<>>, Code # <<>>, back # "native"
  PROVE  /\ End(Top, Len(Code)) = Len(valueStack)
         /\ Handles(Inner) => /\ HandlerRight(valueStack, Top, Len(Code))
                              /\ Len(valueStack) \in 2 .. Len(valueStack)
                              /\ Last(valueStack).op \in HandlerOps /\ Last(valueStack).to \in Places
                              /\ Last(valueStack) = NewHandler(Last(valueStack).op, Last(valueStack).to)
                              /\ valueStack[Len(valueStack) - 1] \in Data
<1> DEFINE z == Len(valueStack)
           n == Len(active)
           m == Len(Code)
<1>1. /\ Top \in FrameRecord /\ Code = Top.code /\ Top = active[n] /\ n \in 1 .. n /\ z \in Nat
      /\ FrameRight(valueStack, Top, z, back)
  BY TopIs
<1>2. m \in 1 .. Len(Top.code) /\ m \in 0 .. Len(Top.code) /\ Inner = Top.code[m]
  <2>1. m \in Nat /\ m \in 1 .. m
    BY InnerIs
  <2> HIDE DEF m
  <2>2. m \in 0 .. m
    BY <2>1
  <2>3. QED
    BY <1>1, <2>1, <2>2, InnerIs DEF m
<1> HIDE DEF z, n, m
<1>3. End(Top, m) = z
  <2>1. End(Top, m) \in Nat
    BY <1>1, <1>2, EndIs
  <2>2. z = End(Top, m) + 0
    BY <1>1 DEF FrameRight, m
  <2>3. QED
    BY <2>1, <2>2
<1>4. ASSUME Handles(Inner)
      PROVE  /\ HandlerRight(valueStack, Top, m) /\ z \in 2 .. z
             /\ valueStack[z].op \in HandlerOps /\ valueStack[z].to \in Places
             /\ valueStack[z] = NewHandler(valueStack[z].op, valueStack[z].to)
             /\ valueStack[z - 1] \in Data
  <2>1. Layout(active, valueStack, back)
    BY DEF BlocksInv
  <2>2. n \in 1 .. Len(active) /\ m \in 1 .. Len(active[n].code) /\ Handles(active[n].code[m]) /\ End(active[n], m) = z
    BY <1>1, <1>2, <1>3, <1>4 DEF n
  <2>3. /\ HandlerRight(valueStack, active[n], m) /\ z \in 2 .. Len(valueStack)
        /\ valueStack[z] \in Entry /\ valueStack[z].op \in HandlerOps /\ valueStack[z].to \in Places
    BY <2>1, <2>2, HandlerAt
  <2>4. valueStack[z - 1] \in Data
    BY <1>1, <1>2, <1>3, <1>4, <2>1, PendingIs DEF n
  <2>5. valueStack[z] = NewHandler(valueStack[z].op, valueStack[z].to)
    BY <2>3, HandlerEntry
  <2>6. QED
    BY <1>1, <2>3, <2>4, <2>5 DEF z
<1>5. QED
  BY <1>3, <1>4 DEF z, m, Last

\* The frame goes on in part p of the construct it is in; a handler changes
\* at most to another of the same sort.
LEMMA GoesOn ==
  ASSUME BlocksInv, active # <<>>, Code # <<>>, back # "native", NEW p \in Parts(Inner.k),
         Inner.k = "with" => Inner.part # "enter" /\ p # "enter",
         NEW c, IsAt(c, Code, p), NEW G, IsMoved(G, active, Len(active), c),
         NEW b \in {"none", "exit"}, b = "exit" => Inner.k = "with" /\ p = "cleanup",
         NEW t \in Seq(Entry), Len(t) = Len(valueStack),
         \A i \in 1 .. Len(t) : i # Len(t) => t[i] = valueStack[i],
         IF Handles(Inner)
         THEN \E op \in HandlerOps :
                /\ op = "EXIT_LOOP" <=> Last(valueStack).op = "EXIT_LOOP"
                /\ op = "EXIT_LOOP" => p \in Leaving
                /\ op = "RETURN" => Last(valueStack).op = "RETURN"
                /\ t[Len(t)] = NewHandler(op, Last(valueStack).to)
         ELSE t = valueStack
  PROVE  Settled(G, t, b, captured, valueStack, captured)
<1> DEFINE z == Len(valueStack)
           m == Len(Code)
<1>1. /\ Top \in FrameRecord /\ Code = Top.code /\ Top = active[Len(active)] /\ Code \in Places /\ z \in Nat
  BY TopIs
<1>2. m \in Nat /\ m # 0 /\ Inner \in Place /\ Inner = Code[m] /\ m \in 1 .. m
  BY InnerIs
<1>3. /\ c \in Places /\ Len(c) = m /\ (\A l \in 1 .. m - 1 : c[l] = Code[l])
      /\ SamePlace(Inner, c[m]) /\ c[m].part = p /\ c[m] \in Place
  BY <1>2 DEF IsAt
<1>4. Width(c[m]) = Width(Inner) /\ (Handles(c[m]) <=> Handles(Inner)) /\ c[m].k = Inner.k
  <2>1. c[m].k = Inner.k /\ (Inner.k # "with" => Width(c[m]) = Width(Inner) /\ (Handles(c[m]) <=> Handles(Inner)))
        /\ (Handles(Inner) /\ Handles(c[m]) => Width(c[m]) = Width(Inner))
    BY <1>2, <1>3, SamePlaceIs
  <2>2. CASE Inner.k # "with"
    BY <2>1, <2>2
  <2>3. CASE Inner.k = "with"
    BY <1>3, <2>1, <2>3 DEF Handles
  <2>4. QED
    BY <2>2, <2>3
<1>5. /\ End(Top, m) = z
      /\ Handles(Inner) => /\ HandlerRight(valueStack, Top, m) /\ z \in 2 .. z
                           /\ valueStack[z].op \in HandlerOps /\ valueStack[z].to \in Places
  BY EndOfCode DEF Last
<1>6. AtCall(WithCode(Top, c), b)
  <2>1. WithCode(Top, c).code = c
    BY <1>1, <1>3, WithCodeIs
  <2>2. c # <<>>
    BY <1>2, <1>3, EmptySeq
  <2>3. ~Entering(c)
    BY <1>3, <1>4 DEF Entering
  <2>4. b \notin {"run", "native", "enter"}
    OBVIOUS
  <2>5. QED
    BY <1>3, <1>4, <2>1, <2>2, <2>3, <2>4 DEF AtCall
<1>7. Handles(c[m]) => HandlerRight(t, WithCode(Top, c), m)
  <2>1. SUFFICES ASSUME Handles(c[m]) PROVE HandlerRight(t, WithCode(Top, c), m)
    OBVIOUS
  <2>2. Handles(Inner)
    BY <1>4, <2>1
  <2>3. PICK op \in HandlerOps :
                /\ op = "EXIT_LOOP" <=> Last(valueStack).op = "EXIT_LOOP"
                /\ op = "EXIT_LOOP" => p \in Leaving
                /\ op = "RETURN" => Last(valueStack).op = "RETURN"
                /\ t[Len(t)] = NewHandler(op, Last(valueStack).to)
    BY <2>2
  <2>4. Last(valueStack) = valueStack[z] /\ Len(t) = z
    BY DEF Last
  <2>5. t[z - 1] = valueStack[z - 1]
    <3>1. \A i \in 1 .. z : i # z => t[i] = valueStack[i]
      OBVIOUS
    <3>2. z \in 2 .. z
      BY <1>5, <2>2
    <3> HIDE DEF z
    <3>3. z - 1 \in 1 .. z /\ z - 1 # z
      BY <1>1, <3>2
    <3>4. QED
      BY <3>1, <3>3
  <2>6. /\ m = Len(Top.code) /\ Handles(Top.code[m]) /\ IsAt(c, Top.code, p) /\ End(Top, m) = z
        /\ HandlerRight(valueStack, Top, m) /\ valueStack[z].to \in Places
    BY <1>1, <1>2, <1>5, <2>2
  <2> HIDE DEF z, m
  <2>7. /\ op = "EXIT_LOOP" <=> valueStack[End(Top, m)].op = "EXIT_LOOP"
        /\ op = "RETURN" => valueStack[End(Top, m)].op = "RETURN"
        /\ op = "EXIT_LOOP" => p \in Leaving
        /\ t[End(Top, m)] = NewHandler(op, valueStack[End(Top, m)].to)
        /\ t[End(Top, m) - 1] = valueStack[End(Top, m) - 1]
        /\ valueStack[End(Top, m)].to \in Places
    BY <2>3, <2>4, <2>5, <2>6
  <2>8. QED
    BY <1>1, <1>2, <2>1, <2>6, <2>7, SameHandler
<1>8. Layout(active, valueStack, back) /\ Kept(active, captured)
  BY DEF BlocksInv
<1>9. \A q \in captured : q <= End(Top, m)
  <2>1. SUFFICES ASSUME NEW q \in captured PROVE q <= z
    BY <1>5
  <2>2. PICK j \in 1 .. Len(active) : \E i \in 1 .. Len(active[j].code) : q = End(active[j], i)
    BY <1>8, KeptSlot
  <2>3. PICK i \in 1 .. Len(active[j].code) : q = End(active[j], i)
    BY <2>2
  <2>4. i \in 0 .. Len(active[j].code)
    BY <1>8, <2>2, <2>3, LayoutIs, FrameIs
  <2>5. QED
    BY <1>8, <2>2, <2>3, <2>4, FramesApart
<1>10. \A i \in 1 .. Len(t) : i # Len(t) \/ Len(c) = 0 \/ ~Handles(c[Len(c)]) => t[i] = valueStack[i]
  <2>1. ~Handles(c[Len(c)]) => t = valueStack
    BY <1>3, <1>4
  <2>2. Len(c) # 0
    BY <1>2, <1>3
  <2>3. QED
    BY <2>1, <2>2
<1>11. /\ Len(c) <= Len(Top.code) /\ (\A l \in 1 .. Len(c) - 1 : c[l] = Top.code[l])
       /\ SamePlace(Top.code[Len(c)], c[Len(c)]) /\ Width(c[Len(c)]) = Width(Top.code[Len(c)])
       /\ (Handles(c[Len(c)]) <=> Handles(Top.code[Len(c)]))
       /\ Len(t) = End(Top, Len(c))
       /\ (Handles(c[Len(c)]) => HandlerRight(t, WithCode(Top, c), Len(c)))
       /\ \A q \in captured : q <= End(Top, Len(c))
  BY <1>1, <1>2, <1>3, <1>4, <1>5, <1>7, <1>9
<1>12. b \in Callers \cup {"none"} /\ b # "native" /\ b # "host"
  BY DEF Callers
<1>13. QED
  BY <1>1, <1>3, <1>6, <1>8, <1>10, <1>11, <1>12, Shrunk

LEMMA MaySettle ==
  ASSUME BlocksInv, captured' = captured, exception' = exception,
         Settled(active', valueStack', back', captured, valueStack, captured)
  PROVE  Continues
BY DEF Continues, BlocksInv

\* The handler of the construct becomes one of type op, and its part p is next.
LEMMA Converts ==
  ASSUME BlocksInv, active # <<>>, Code # <<>>, back # "native", NEW p \in Parts(Inner.k),
         Inner.k = "with" => Inner.part # "enter" /\ p # "enter", Handles(Inner),
         NEW op \in HandlerOps, op = "EXIT_LOOP" <=> Last(valueStack).op = "EXIT_LOOP",
         op = "EXIT_LOOP" => p \in Leaving, op = "RETURN" => Last(valueStack).op = "RETURN",
         valueStack' = SetTop(valueStack, NewHandler(op, Last(valueStack).to)),
         Goto(At(Code, p)), captured' = captured, exception' = exception, back' = "none"
  PROVE  Continues
<1>1. /\ active \in Seq(FrameRecord) /\ Len(active) # 0 /\ Code \in Places /\ Code = Top.code
      /\ valueStack \in Seq(Entry) /\ Len(valueStack) \in Nat
  BY TopIs
<1>2. Len(Code) # 0 /\ Inner = Code[Len(Code)]
  BY InnerIs
<1>3. IsAt(At(Code, p), Code, p)
  BY <1>1, <1>2, PartIs
<1>4. At(Code, p) \in Places
  BY <1>3 DEF IsAt
<1>5. IsMoved(active', active, Len(active), At(Code, p))
  BY <1>1, <1>4, Going DEF Goto
<1>6. Len(valueStack) \in 2 .. Len(valueStack) /\ Last(valueStack).to \in Places
  BY EndOfCode
<1>7. Len(valueStack) # 0 /\ NewHandler(op, Last(valueStack).to) \in Entry
  BY <1>1, <1>6, NewHandlerIs
<1>8. IsTopped(valueStack', valueStack, NewHandler(op, Last(valueStack).to))
  BY <1>1, <1>7, Topping
<1>9. /\ valueStack' \in Seq(Entry) /\ Len(valueStack') = Len(valueStack)
      /\ \A i \in 1 .. Len(valueStack') : i # Len(valueStack') => valueStack'[i] = valueStack[i]
      /\ valueStack'[Len(valueStack')] = NewHandler(op, Last(valueStack).to)
  BY <1>8 DEF IsTopped
<1>10. Settled(active', valueStack', "none", captured, valueStack, captured)
  BY <1>3, <1>5, <1>9, GoesOn
<1>11. QED
  BY <1>10, MaySettle

\* The stack is the same, and part p of the construct is next.
LEMMA StepsOn ==
  ASSUME BlocksInv, active # <<>>, Code # <<>>, back # "native", NEW p \in Parts(Inner.k),
         Inner.k = "with" => Inner.part # "enter" /\ p # "enter",
         Handles(Inner) /\ Last(valueStack).op = "EXIT_LOOP" => p \in Leaving,
         valueStack' = valueStack, Goto(At(Code, p)), captured' = captured, exception' = exception, back' = "none"
  PROVE  Continues
<1>1. /\ active \in Seq(FrameRecord) /\ Len(active) # 0 /\ Code \in Places /\ Code = Top.code
      /\ valueStack \in Seq(Entry) /\ Len(valueStack) \in Nat
  BY TopIs
<1>2. Len(Code) # 0 /\ Inner = Code[Len(Code)]
  BY InnerIs
<1>3. IsAt(At(Code, p), Code, p)
  BY <1>1, <1>2, PartIs
<1>4. At(Code, p) \in Places
  BY <1>3 DEF IsAt
<1>5. IsMoved(active', active, Len(active), At(Code, p))
  BY <1>1, <1>4, Going DEF Goto
<1>6. Handles(Inner) => \E op \in HandlerOps :
                /\ op = "EXIT_LOOP" <=> Last(valueStack).op = "EXIT_LOOP"
                /\ op = "EXIT_LOOP" => p \in Leaving
                /\ op = "RETURN" => Last(valueStack).op = "RETURN"
                /\ valueStack[Len(valueStack)] = NewHandler(op, Last(valueStack).to)
  <2>1. SUFFICES ASSUME Handles(Inner)
                 PROVE  \E op \in HandlerOps :
                          /\ op = "EXIT_LOOP" <=> Last(valueStack).op = "EXIT_LOOP"
                          /\ op = "EXIT_LOOP" => p \in Leaving
                          /\ op = "RETURN" => Last(valueStack).op = "RETURN"
                          /\ valueStack[Len(valueStack)] = NewHandler(op, Last(valueStack).to)
    OBVIOUS
  <2>2. Last(valueStack).op \in HandlerOps /\ Last(valueStack) = NewHandler(Last(valueStack).op, Last(valueStack).to)
    BY <2>1, EndOfCode
  <2>3. valueStack[Len(valueStack)] = Last(valueStack)
    BY DEF Last
  <2>4. QED
    BY <2>1, <2>2, <2>3
<1>7. Settled(active', valueStack, "none", captured, valueStack, captured)
  BY <1>1, <1>3, <1>5, <1>6, GoesOn
<1>8. QED
  BY <1>7, MaySettle

\* What a statement may count on.
LEMMA StatementIs ==
  ASSUME BlocksInv, AtStatement
  PROVE  /\ active # <<>> /\ back = "none" /\ Top.code = Code
         /\ FrameRight(valueStack, Top, Len(valueStack), "none")
         /\ Layout(active, valueStack, "none") /\ Kept(active, captured) /\ exception \in Data
         /\ Code # <<>> => Code[Len(Code)].part \in Inside
<1>1. active # <<>> /\ back = "none"
  BY DEF AtStatement, Running
<1>2. QED
  BY <1>1, TopIs DEF AtStatement, Inner, Inside, BlocksInv

LEMMA InIs ==
  ASSUME BlocksInv, NEW k, NEW parts, In(k, parts)
  PROVE  /\ active # <<>> /\ back = "none" /\ Code # <<>> /\ Inner.k = k /\ Inner.part \in parts
         /\ Layout(active, valueStack, "none") /\ Kept(active, captured) /\ exception \in Data
BY DEF In, Running, BlocksInv

\* A loop is only left in some parts of a construct.
LEMMA LeavingIs ==
  ASSUME BlocksInv, active # <<>>, Code # <<>>, back # "native", Handles(Inner), Last(valueStack).op = "EXIT_LOOP"
  PROVE  /\ Inner.part \in Leaving
         /\ LeavesTo(Top, Len(Code), Last(valueStack), valueStack[Len(valueStack) - 1])
<1>1. HandlerRight(valueStack, Top, Len(Code)) /\ End(Top, Len(Code)) = Len(valueStack)
  BY EndOfCode
<1>2. Last(valueStack) = valueStack[Len(valueStack)]
  BY DEF Last
<1>3. LeavesTo(Top, Len(Code), Last(valueStack), valueStack[Len(valueStack) - 1])
  BY <1>1, <1>2 DEF HandlerRight
<1>4. Inner = Top.code[Len(Code)]
  BY InnerIs, TopIs
<1>5. QED
  BY <1>3, <1>4 DEF LeavesTo

LEMMA TryParts ==
  /\ Parts("try") = {"body", "enter", "filter", "except", "else", "begin", "finally", "end", "out"}
  /\ \A c : TryExit(c) \in {"begin", "out"}
  /\ \A c : AfterEnterExcept(c) \in {"filter", "else", "begin", "out"}
  /\ \A c : TryTarget(c) \in {"enter", "begin", "out"}
<1>1. Parts("try") = {"body", "enter", "filter", "except", "else", "begin", "finally", "end", "out"}
  BY DEF Parts, Loops
<1>2. \A c : TryExit(c) \in {"begin", "out"}
  BY Zenon DEF TryExit
<1>3. \A c : AfterEnterExcept(c) \in {"filter", "else", "begin", "out"}
  BY <1>2, Zenon DEF AfterEnterExcept
<1>4. \A c : TryTarget(c) \in {"enter", "begin", "out"}
  BY <1>2, Zenon DEF TryTarget
<1>5. QED
  BY <1>1, <1>2, <1>3, <1>4

LEMMA TryBodyEndsRight ==
  ASSUME BlocksInv, TryBodyEnds
  PROVE  Continues
<1>1. CASE /\ In("try", {"body"})
           /\ IF Inner.els THEN Step(SetTop(valueStack, NewHandler("FILTER_EXCEPT", Last(valueStack).to)), At(Code, "else"))
              ELSE Step(valueStack, At(Code, TryExit(Inner)))
  <2>1. /\ active # <<>> /\ back = "none" /\ Code # <<>> /\ Inner.k = "try" /\ Inner.part = "body"
    BY <1>1, InIs
  <2>2. Handles(Inner) /\ Last(valueStack).op # "EXIT_LOOP"
    BY <2>1, LeavingIs DEF Handles, Leaving
  <2>3. CASE Inner.els
    <3>1. /\ valueStack' = SetTop(valueStack, NewHandler("FILTER_EXCEPT", Last(valueStack).to))
          /\ Goto(At(Code, "else")) /\ captured' = captured /\ exception' = exception /\ back' = "none"
      BY <1>1, <2>1, <2>3 DEF Step
    <3>2. "FILTER_EXCEPT" \in HandlerOps /\ "else" \in Parts(Inner.k)
      BY <2>1, TryParts DEF HandlerOps, Catching, Interrupting
    <3>3. QED
      BY <2>1, <2>2, <3>1, <3>2, Converts
  <2>4. CASE ~Inner.els
    <3>1. /\ valueStack' = valueStack
          /\ Goto(At(Code, TryExit(Inner))) /\ captured' = captured /\ exception' = exception /\ back' = "none"
      BY <1>1, <2>1, <2>4 DEF Step
    <3>2. TryExit(Inner) \in Parts(Inner.k)
      BY <2>1, TryParts
    <3>3. QED
      BY <2>1, <2>2, <3>1, <3>2, StepsOn
  <2>5. QED
    BY <2>3, <2>4
<1>2. CASE In("try", {"except", "else"}) /\ Step(valueStack, At(Code, TryExit(Inner)))
  <2>1. /\ active # <<>> /\ back = "none" /\ Code # <<>> /\ Inner.k = "try"
    BY <1>2, InIs
  <2>2. /\ valueStack' = valueStack
        /\ Goto(At(Code, TryExit(Inner))) /\ captured' = captured /\ exception' = exception /\ back' = "none"
    BY <1>2, <2>1 DEF Step
  <2>3. TryExit(Inner) \in Parts(Inner.k) /\ TryExit(Inner) \in Leaving
    BY <2>1, TryParts DEF Leaving
  <2>4. QED
    BY <2>1, <2>2, <2>3, StepsOn
<1>3. QED
  BY <1>1, <1>2 DEF TryBodyEnds

\* The slots of construct i that are not its handler's hold data.
LEMMA SlotsOf ==
  ASSUME NEW F, NEW s, NEW by, Layout(F, s, by), F # <<>>, NEW f, f = F[Len(F)],
         NEW i \in 1 .. Len(f.code), NEW p \in End(f, i - 1) + 1 .. End(f, i),
         p # End(f, i) \/ ~Handles(f.code[i])
  PROVE  s[p] \in Data
<1>1. /\ Len(F) \in Nat /\ Len(F) \in 1 .. Len(F) /\ f \in FrameRecord /\ Len(s) \in Nat
      /\ \A q \in 1 .. Len(s) : s[q] \in Entry
  <2>1. Len(F) \in Nat /\ Len(F) # 0
    BY LayoutIs
  <2>2. Len(F) \in 1 .. Len(F)
    BY <2>1
  <2>3. QED
    BY <2>1, <2>2, LayoutIs
<1>2. Len(f.code) \in Nat /\ f.slots \in Nat
  BY <1>1, FrameIs
<1>3. i - 1 \in 0 .. Len(f.code) /\ i \in 0 .. Len(f.code)
  BY <1>2
<1>4. End(f, i) <= Len(s)
  BY <1>1, <1>3, FramesApart
<1>5. End(f, i) \in Nat /\ End(f, i - 1) \in Nat /\ f.slots <= End(f, i - 1)
  BY <1>1, <1>3, EndIs
<1>6. p \in 1 .. Len(s) /\ f.slots < p
  BY <1>1, <1>2, <1>4, <1>5
<1>7. s[p].op \notin HandlerOps
  <2>1. SUFFICES ASSUME s[p].op \in HandlerOps PROVE FALSE
    OBVIOUS
  <2>2. PICK m \in 1 .. Len(f.code) : Handles(f.code[m]) /\ p = End(f, m)
    BY <1>6, <2>1, TopHandler
  <2>3. m \in 0 .. Len(f.code)
    BY <1>2
  <2>4. CASE m <= i - 1
    <3>1. End(f, m) <= End(f, i - 1)
      BY <1>1, <1>3, <2>3, <2>4, EndIs
    <3>2. QED
      BY <1>5, <1>6, <2>2, <3>1
  <2>5. CASE i < m
    <3>1. i \in 0 .. m - 1
      BY <1>2, <2>5
    <3>2. End(f, i) + 2 <= End(f, m)
      BY <1>1, <2>2, <3>1, HandledEnd
    <3>3. QED
      BY <1>5, <2>2, <3>2
  <2>6. CASE i = m
    BY <2>2, <2>6
  <2>7. QED
    BY <1>2, <2>3, <2>4, <2>5, <2>6
<1>8. QED
  BY <1>1, <1>6, <1>7, IsData

LEMMA SettledOver ==
  ASSUME NEW G, NEW t, NEW b, NEW s, NEW old, Settled(G, t, b, old, s, old),
         NEW H, NEW u, NEW d, NEW q, Settled(H, u, d, q, t, old)
  PROVE  Settled(H, u, d, q, s, old)
BY DEF Settled

LEMMA FrontIs ==
  ASSUME NEW c \in Places, c # <<>>
  PROVE  /\ Front(c) \in Places /\ Len(Front(c)) = Len(c) - 1 /\ Len(c) - 1 \in Nat
         /\ \A l \in 1 .. Len(c) - 1 : Front(c)[l] = c[l]
<1>1. Len(c) \in Nat /\ Len(c) # 0
  BY PlacesAre, EmptySeq DEF Places
<1>2. Len(c) - 1 \in 0 .. Len(c) /\ Len(c) - 1 \in Nat
  BY <1>1
<1>3. IsFirstPart(Front(c), Place, c, Len(c) - 1)
  BY <1>2, Prefixed DEF Front, Places
<1>4. QED
  BY <1>2, <1>3 DEF IsFirstPart, Places

\* The slots of the construct the program is in.
LEMMA InnerSlots ==
  ASSUME BlocksInv, active # <<>>, Code # <<>>, back # "native"
  PROVE  /\ Width(Inner) \in 0 .. 3
         /\ Len(valueStack) - Width(Inner) \in 0 .. Len(valueStack)
         /\ End(Top, Len(Code) - 1) = Len(valueStack) - Width(Inner)
         /\ \A p \in Len(valueStack) - Width(Inner) + 1 .. Len(valueStack) :
              p # Len(valueStack) \/ ~Handles(Inner) => valueStack[p] \in Data
         /\ Inner.k # "block" => \A p \in captured : p <= Len(valueStack) - Width(Inner)
<1> DEFINE z == Len(valueStack)
           m == Len(Code)
           n == Len(active)
           w == Width(Inner)
<1>1. /\ Top \in FrameRecord /\ Code = Top.code /\ Top = active[n] /\ z \in Nat /\ n \in Nat
      /\ m \in Nat /\ m # 0 /\ m \in 1 .. m /\ Inner \in Place /\ Inner = Code[m]
  BY TopIs, InnerIs
<1>2. End(Top, m) = z
  BY EndOfCode
<1>3. w \in 0 .. 3
  BY <1>1, WidthIs
<1>4. Layout(active, valueStack, back) /\ Kept(active, captured)
  BY DEF BlocksInv
<1> HIDE DEF m, n, z, w
<1>5. m - 1 \in 0 .. Len(Top.code) /\ m \in 1 .. Len(Top.code)
  BY <1>1 DEF m
<1>6. End(Top, m) = End(Top, m - 1) + w /\ End(Top, m - 1) \in Nat /\ Top.slots <= End(Top, m - 1)
  BY <1>1, <1>5, EndIs DEF w
<1>7. End(Top, m - 1) = z - w /\ z - w \in 0 .. z
  BY <1>1, <1>2, <1>3, <1>6
<1>8. ASSUME NEW p \in z - w + 1 .. z, p # z \/ ~Handles(Inner) PROVE valueStack[p] \in Data
  <2>1. p \in End(Top, m - 1) + 1 .. End(Top, m) /\ (p # End(Top, m) \/ ~Handles(Top.code[m]))
    BY <1>1, <1>2, <1>7, <1>8
  <2>2. QED
    BY <1>1, <1>4, <1>5, <2>1, SlotsOf DEF n
<1>9. ASSUME Inner.k # "block", NEW p \in captured PROVE p <= z - w
  <2>1. PICK j \in 1 .. n : \E i \in 1 .. Len(active[j].code) :
           /\ active[j].code[i].k = "block" /\ p = End(active[j], i)
           /\ p \in Nat /\ active[j].slots + 1 <= p
           /\ \A l \in j + 1 .. n : p <= active[l].out
    BY <1>4, KeptSlot DEF n
  <2>2. PICK i \in 1 .. Len(active[j].code) :
           /\ active[j].code[i].k = "block" /\ p = End(active[j], i)
           /\ p \in Nat /\ active[j].slots + 1 <= p
           /\ \A l \in j + 1 .. n : p <= active[l].out
    BY <2>1
  <2>3. CASE j = n
    <3>1. i \in 1 .. Len(Top.code) /\ Top.code[i].k = "block" /\ p = End(Top, i) /\ i # m
      BY <1>1, <1>9, <2>2, <2>3
    <3>2. Len(Top.code) = m
      BY <1>1 DEF m
    <3>3. i <= m - 1 /\ i \in 0 .. Len(Top.code)
      BY <1>1, <3>1, <3>2
    <3>4. End(Top, i) <= End(Top, m - 1)
      BY <1>1, <1>5, <3>3, EndIs
    <3>5. QED
      BY <1>7, <3>1, <3>4
  <2>4. CASE j # n
    <3>1. n \in j + 1 .. n /\ n \in 1 .. n
      BY <1>1, <2>1, <2>4
    <3>2. p <= Top.out
      BY <1>1, <2>2, <3>1
    <3>3. Top.out <= Top.slots /\ Top.out \in Nat /\ Top.slots \in Nat
      BY <1>1, <1>4, <3>1, LayoutIs, FrameIs DEF n
    <3>4. QED
      BY <1>6, <1>7, <2>2, <3>2, <3>3
  <2>5. QED
    BY <2>3, <2>4
<1>10. QED
  BY <1>3, <1>7, <1>8, <1>9 DEF z, m, w

\* The construct is left, with its slots.
LEMMA Leaves ==
  ASSUME BlocksInv, active # <<>>, Code # <<>>, back # "native",
         NEW G, IsMoved(G, active, Len(active), Front(Code)),
         NEW t, IsFirstPart(t, Entry, valueStack, Len(valueStack) - Width(Inner)),
         NEW o, o \subseteq captured, \A p \in o : p <= Len(valueStack) - Width(Inner)
  PROVE  /\ Settled(G, t, "none", o, valueStack, captured)
         /\ Front(Code) # <<>> => Front(Code)[Len(Front(Code))].part \in Inside
<1> DEFINE m == Len(Code)
           c == Front(Code)
           z == Len(valueStack)
           w == Width(Inner)
<1>1. /\ Top \in FrameRecord /\ Code = Top.code /\ Top = active[Len(active)] /\ Code \in Places
      /\ FrameRight(valueStack, Top, Len(valueStack), back)
      /\ m \in Nat /\ m # 0
  BY TopIs, InnerIs
<1>2. c \in Places /\ Len(c) = m - 1 /\ m - 1 \in Nat /\ \A l \in 1 .. m - 1 : c[l] = Code[l]
  BY <1>1, FrontIs
<1>3. End(Top, m - 1) = z - w
  BY InnerSlots
<1>4. t \in Seq(Entry) /\ Len(t) = z - w /\ \A p \in 1 .. z - w : t[p] = valueStack[p]
  BY DEF IsFirstPart
<1>5. Layout(active, valueStack, back) /\ Kept(active, captured)
  BY DEF BlocksInv
<1>6. \A p \in o : p <= z - w
  OBVIOUS
<1>7. DOMAIN Code = 1 .. m
  BY <1>1, PlacesAre
<1> HIDE DEF m, z, w
<1>8. Len(c) # 0 => /\ Len(c) \in 1 .. m /\ Len(c) < m /\ c[Len(c)] = Code[Len(c)] /\ Code[Len(c)] \in Place
                    /\ Code[Len(c)].part \in Inside
  <2>1. SUFFICES ASSUME m - 1 # 0
                 PROVE  /\ m - 1 \in 1 .. m /\ m - 1 < m /\ c[m - 1] = Code[m - 1] /\ Code[m - 1] \in Place
                        /\ Code[m - 1].part \in Inside
    BY <1>2
  <2>2. m - 1 \in 1 .. m - 1 /\ m - 1 \in 1 .. m /\ m - 1 < m
    BY <1>1, <1>2, <2>1
  <2>3. c[m - 1] = Code[m - 1]
    BY <1>2, <2>2
  <2>4. Code[m - 1] \in Place
    BY <1>1, <2>2, PlacesAre DEF m
  <2>5. Code[m - 1].part \in Inside
    BY <1>1, <1>7, <2>2 DEF FrameRight, m
  <2>6. QED
    BY <2>2, <2>3, <2>4, <2>5
<1> HIDE DEF c
<1>9. Len(c) # 0 => /\ SamePlace(Top.code[Len(c)], c[Len(c)]) /\ Width(c[Len(c)]) = Width(Top.code[Len(c)])
                    /\ Handles(c[Len(c)]) <=> Handles(Top.code[Len(c)])
  <2>1. \A x \in Place : SamePlace(x, x)
    BY DEF Place, SamePlace
  <2>2. QED
    BY <1>1, <1>8, <2>1
<1>10. AtCall(WithCode(Top, c), "none")
  <2>1. WithCode(Top, c).code = c
    BY <1>1, <1>2, WithCodeIs
  <2>2. ~Entering(c)
    <3>1. c # <<>> => Len(c) # 0
      BY <1>2, EmptySeq DEF Places
    <3>2. QED
      BY <1>8, <3>1 DEF Entering, Inside
  <2>3. QED
    BY <2>1, <2>2 DEF AtCall
<1>11. Len(c) # 0 /\ Handles(c[Len(c)]) => HandlerRight(t, WithCode(Top, c), Len(c))
  <2>1. SUFFICES ASSUME Len(c) # 0, Handles(c[Len(c)]) PROVE HandlerRight(t, WithCode(Top, c), Len(c))
    OBVIOUS
  <2> DEFINE i == Len(c)
             h == End(Top, i)
  <2>2. i \in 1 .. Len(Top.code) /\ Handles(Top.code[i]) /\ i \in DOMAIN Top.code
    BY <1>1, <1>7, <1>8, <2>1 DEF m
  <2>3. HandlerRight(valueStack, Top, i)
    BY <1>1, <2>2 DEF FrameRight
  <2>4. h = z - w /\ h \in Nat /\ Top.slots + 2 <= h /\ Top.slots \in Nat
    BY <1>1, <1>2, <1>3, <2>2, HandledEnd, FrameIs
  <2>5. t[h] = valueStack[h] /\ t[h - 1] = valueStack[h - 1]
    <3> HIDE DEF h
    <3>1. h \in 1 .. z - w /\ h - 1 \in 1 .. z - w
      BY <2>4
    <3>2. QED
      BY <1>4, <3>1
  <2>6. \A l \in 1 .. i : c[l] = Top.code[l]
    BY <1>1, <1>2
  <2>7. Len(c) >= i
    BY <1>2
  <2>8. HandlerRight(t, WithCode(Top, c), i)
    <3> HIDE DEF i
    <3>1. QED
      BY <1>1, <1>2, <2>2, <2>3, <2>5, <2>6, <2>7, HandlerKept
  <2>9. QED
    BY <2>8
<1>12. Len(c) <= Len(Top.code) /\ \A l \in 1 .. Len(c) - 1 : c[l] = Top.code[l]
  <2>1. Len(c) <= m /\ \A l \in 1 .. Len(c) - 1 : l \in 1 .. m - 1
    BY <1>1, <1>2
  <2>2. QED
    BY <1>1, <1>2, <2>1 DEF m
<1>13. /\ Len(t) = End(Top, Len(c)) /\ (\A p \in o : p <= End(Top, Len(c)))
       /\ \A p \in 1 .. Len(t) : t[p] = valueStack[p]
  BY <1>2, <1>3, <1>4, <1>6
<1>14. "none" \in Callers \cup {"none"} /\ "none" # "native" /\ "none" # "host"
  OBVIOUS
<1>15. Settled(G, t, "none", o, valueStack, captured)
  BY <1>1, <1>2, <1>4, <1>5, <1>9, <1>10, <1>11, <1>12, <1>13, <1>14, Shrunk DEF c
<1>16. c # <<>> => c[Len(c)].part \in Inside
  <2>1. c # <<>> => Len(c) # 0
    BY <1>2, EmptySeq DEF Places
  <2>2. QED
    BY <1>8, <2>1
<1>17. QED
  BY <1>15, <1>16 DEF c

LEMMA ThrowsNow ==
  ASSUME BlocksInv, active # <<>>, NEW e \in Data, Throw(valueStack, e)
  PROVE  Continues
<1>1. /\ active \in Seq(FrameRecord) /\ Len(active) # 0 /\ Code \in Places
      /\ IsMoved(active, active, Len(active), Code)
  BY TopIs
<1>2. Layout(active, valueStack, back) /\ Kept(active, captured)
  BY DEF BlocksInv
<1>3. Settled(active', valueStack', back', captured', valueStack, captured) /\ exception' \in Data
  BY <1>1, <1>2, Throws
<1>4. QED
  BY <1>3 DEF Continues

\* Control is in the code around a try statement, whose slots are gone.
LEMMA ThrowsPending ==
  ASSUME BlocksInv, active # <<>>, Code # <<>>, back # "native", Inner.k = "try", ThrowPending(valueStack)
  PROVE  Continues
<1> DEFINE z == Len(valueStack)
           F == [active EXCEPT ![Len(active)].code = Front(Code)]
           t == SubSeq(valueStack, 1, z - 2)
<1>1. /\ active \in Seq(FrameRecord) /\ Len(active) # 0 /\ Code \in Places
      /\ valueStack \in Seq(Entry) /\ z \in Nat
  BY TopIs
<1>2. Front(Code) \in Places
  BY <1>1, FrontIs
<1>3. IsMoved(F, active, Len(active), Front(Code))
  BY <1>1, <1>2, Going
<1>4. Width(Inner) = 2 /\ Handles(Inner)
  BY DEF Width, Handles
<1>5. z - Width(Inner) = z - 2 /\ z - 2 \in 0 .. z /\ \A p \in captured : p <= z - 2
  BY <1>4, InnerSlots
<1>6. IsFirstPart(t, Entry, valueStack, z - 2)
  BY <1>1, <1>5, Prefixed
<1> HIDE DEF F, t
<1>7. Settled(F, t, "none", captured, valueStack, captured)
  BY <1>3, <1>5, <1>6, Leaves
<1>8. Layout(F, t, "none") /\ Kept(F, captured)
  BY <1>7 DEF Settled
<1>9. valueStack[z - 1] \in Data
  BY <1>4, EndOfCode
<1>10. Throw(t, valueStack[z - 1])
  BY DEF ThrowPending, t
<1>11. Settled(active', valueStack', back', captured', t, captured) /\ exception' \in Data
  BY <1>1, <1>2, <1>3, <1>8, <1>9, <1>10, Throws
<1>12. Settled(active', valueStack', back', captured', valueStack, captured)
  BY <1>7, <1>11, SettledOver
<1>13. QED
  BY <1>11, <1>12 DEF Continues

\* Control is in the code around a with statement, whose handler is gone and
\* whose manager is not.
LEMMA LeavesManager ==
  ASSUME BlocksInv, active # <<>>, Code # <<>>, back # "native", Inner.k = "with", Inner.part # "enter",
         NEW F, IsMoved(F, active, Len(active), Front(Code)),
         NEW t, IsFirstPart(t, Entry, valueStack, Len(valueStack) - 2)
  PROVE  Settled(F, t, "native", captured, valueStack, captured)
<1> DEFINE z == Len(valueStack)
           u == SubSeq(valueStack, 1, z - 3)
           n == Len(active)
           c == Front(Code)
           f == WithCode(Top, c)
<1>1. /\ active \in Seq(FrameRecord) /\ n \in Nat /\ n # 0 /\ Code \in Places /\ Top \in FrameRecord /\ Top = active[n]
      /\ valueStack \in Seq(Entry) /\ z \in Nat
  BY TopIs
<1>2. c \in Places
  BY <1>1, FrontIs
<1>3. Width(Inner) = 3 /\ Handles(Inner)
  BY DEF Width, Handles
<1>4. z - Width(Inner) = z - 3 /\ z - 3 \in 0 .. z /\ \A p \in captured : p <= z - 3
  BY <1>3, InnerSlots
<1>5. IsFirstPart(u, Entry, valueStack, z - 3)
  BY <1>1, <1>4, Prefixed
<1>6. \A p \in z - 3 + 1 .. z : p # z => valueStack[p] \in Data
  BY <1>3, InnerSlots
<1> HIDE DEF z, u
<1>7. Settled(F, u, "none", captured, valueStack, captured) /\ (c # <<>> => c[Len(c)].part \in Inside)
  BY <1>4, <1>5, Leaves DEF z
<1>8. Layout(F, u, "none") /\ Kept(F, captured)
  BY <1>7 DEF Settled
<1>9. t \in Seq(Entry) /\ Len(t) = z - 2 /\ (\A p \in 1 .. z - 2 : t[p] = valueStack[p]) /\ DOMAIN t = 1 .. z - 2
  BY DEF IsFirstPart, z
<1>10. Len(u) = z - 3 /\ Len(u) \in Nat /\ \A p \in 1 .. z - 3 : u[p] = valueStack[p]
  BY <1>4, <1>5 DEF IsFirstPart
<1>11. Len(t) = Len(u) + 1 /\ \A p \in 1 .. Len(u) : t[p] = u[p]
  BY <1>1, <1>9, <1>10
<1>12. t[Len(u) + 1] \in Data
  <2>1. Len(u) + 1 \in z - 3 + 1 .. z /\ Len(u) + 1 # z /\ Len(u) + 1 \in 1 .. z - 2
    BY <1>1, <1>4, <1>10
  <2>2. QED
    BY <1>6, <1>9, <2>1
<1>13. F \in Seq(FrameRecord) /\ Len(F) = n /\ F[n] = f /\ f.code = c /\ f \in FrameRecord
  BY <1>1, <1>2, WithCodeIs DEF IsMoved
<1> HIDE DEF n, f, c
<1>14. F # <<>> /\ Len(F) \in 1 .. Len(F) /\ FrameRight(u, F[Len(F)], Len(u), "none")
  <2>1. Len(F) # 0 /\ Len(F) \in Nat
    BY <1>1, <1>13
  <2>2. F # <<>>
    BY <1>8, <2>1, LayoutIs
  <2>3. QED
    BY <1>8, <2>1, <2>2, LayoutIs
<1>15. FrameRight(t, f, Len(t), "native")
  BY <1>7, <1>10, <1>11, <1>12, <1>13, <1>14, Pushes
<1>16. IsMoved(F, F, Len(F), c)
  <2>1. WithCode(f, c) = f
    BY <1>13 DEF WithCode, FrameRecord
  <2>2. QED
    BY <1>13, <2>1 DEF IsMoved
<1>17. \A p \in 1 .. F[Len(F)].out : t[p] = u[p]
  <2>1. f.out <= Len(u)
    <3>1. 0 \in 0 .. Len(F[n].code)
      BY <1>13, FrameIs
    <3>2. /\ End(F[n], 0) \in Nat /\ F[n].out \in Nat /\ F[n].slots \in Nat
          /\ F[n].out <= F[n].slots /\ F[n].slots <= End(F[n], 0) /\ End(F[n], 0) <= Len(u)
      BY <1>8, <1>13, <1>14, <3>1, FramesApart
    <3>3. QED
      BY <1>10, <1>13, <3>2
  <2>2. f.out \in Nat
    BY <1>13, FrameIs
  <2>3. QED
    BY <1>10, <1>11, <1>13, <2>1, <2>2
<1>18. Layout(F, t, "native")
  BY <1>2, <1>8, <1>9, <1>13, <1>14, <1>15, <1>16, <1>17, Moves
<1>19. \A p \in captured : p \in DOMAIN t /\ t[p] = valueStack[p]
  <2>1. \A p \in captured : p \in DOMAIN u
    BY <1>7 DEF Settled
  <2>2. \A p \in captured : p \in 1 .. z - 3
    BY <1>5, <2>1 DEF IsFirstPart
  <2>3. \A p \in captured : p \in 1 .. z - 2
    BY <1>1, <1>4, <2>2
  <2>4. QED
    BY <1>9, <2>3
<1>20. QED
  BY <1>8, <1>18, <1>19 DEF Settled, Callers

LEMMA EnterExceptRight ==
  ASSUME BlocksInv, EnterExcept
  PROVE  Continues
<1>1. In("try", {"enter"})
  BY DEF EnterExcept
<1>2. /\ active # <<>> /\ back = "none" /\ Code # <<>> /\ Inner.k = "try"
  BY <1>1, InIs
<1>3. CASE Step(valueStack, At(Code, TryExit(Inner)))
  <2>1. /\ valueStack' = valueStack
        /\ Goto(At(Code, TryExit(Inner))) /\ captured' = captured /\ exception' = exception /\ back' = "none"
    BY <1>2, <1>3 DEF Step
  <2>2. TryExit(Inner) \in Parts(Inner.k) /\ TryExit(Inner) \in Leaving
    BY <1>2, TryParts DEF Leaving
  <2>3. QED
    BY <1>2, <2>1, <2>2, StepsOn
<1>4. CASE ThrowPending(valueStack)
  BY <1>2, <1>4, ThrowsPending
<1>5. CASE Last(valueStack).op # "EXIT_LOOP" /\ Step(valueStack, At(Code, AfterEnterExcept(Inner)))
  <2>1. /\ valueStack' = valueStack
        /\ Goto(At(Code, AfterEnterExcept(Inner))) /\ captured' = captured /\ exception' = exception /\ back' = "none"
    BY <1>2, <1>5 DEF Step
  <2>2. AfterEnterExcept(Inner) \in Parts(Inner.k)
    BY <1>2, TryParts
  <2>3. QED
    BY <1>2, <1>5, <2>1, <2>2, StepsOn
<1>6. \/ Step(valueStack, At(Code, TryExit(Inner)))
      \/ ThrowPending(valueStack)
      \/ Last(valueStack).op # "EXIT_LOOP" /\ Step(valueStack, At(Code, AfterEnterExcept(Inner)))
  <2> DEFINE op == Last(valueStack).op
  <2>1. (CASE op \in {"RETURN", "END_FINALLY", "EXIT_LOOP"} -> Step(valueStack, At(Code, TryExit(Inner)))
           [] op = "RAISE_FROM" -> ThrowPending(valueStack)
           [] OTHER -> Step(valueStack, At(Code, AfterEnterExcept(Inner))))
    BY DEF EnterExcept
  <2> HIDE DEF op
  <2>2. CASE op \in {"RETURN", "END_FINALLY", "EXIT_LOOP"}
    BY <2>1, <2>2
  <2>3. CASE op = "RAISE_FROM"
    BY <2>1, <2>3
  <2>4. CASE op \notin {"RETURN", "END_FINALLY", "EXIT_LOOP"} /\ op # "RAISE_FROM"
    BY <2>1, <2>4 DEF op
  <2>5. QED
    BY <2>2, <2>3, <2>4
<1>7. QED
  BY <1>3, <1>4, <1>5, <1>6

LEMMA ExceptionIs ==
  ASSUME NEW e \in Exceptions
  PROVE  Exception(e) \in Data
BY DEF Exception, Data

LEMMA FilterExceptRight ==
  ASSUME BlocksInv, FilterExcept
  PROVE  Continues
<1>1. In("try", {"filter"})
  BY DEF FilterExcept
<1>2. /\ active # <<>> /\ back = "none" /\ Code # <<>> /\ Inner.k = "try" /\ Inner.part = "filter"
  BY <1>1, InIs
<1>3. CASE Step(SetTop(valueStack, NewHandler("FILTER_EXCEPT", Last(valueStack).to)), At(Code, "except"))
  <2>1. /\ valueStack' = SetTop(valueStack, NewHandler("FILTER_EXCEPT", Last(valueStack).to))
        /\ Goto(At(Code, "except")) /\ captured' = captured /\ exception' = exception /\ back' = "none"
    BY <1>2, <1>3 DEF Step
  <2>2. "FILTER_EXCEPT" \in HandlerOps /\ "except" \in Parts(Inner.k)
    BY <1>2, TryParts DEF HandlerOps, Catching, Interrupting
  <2>3. Handles(Inner) /\ Last(valueStack).op # "EXIT_LOOP"
    BY <1>2, LeavingIs DEF Handles, Leaving
  <2>4. QED
    BY <1>2, <2>1, <2>2, <2>3, Converts
<1>4. CASE Step(valueStack, At(Code, "begin"))
  <2>1. /\ valueStack' = valueStack
        /\ Goto(At(Code, "begin")) /\ captured' = captured /\ exception' = exception /\ back' = "none"
    BY <1>2, <1>4 DEF Step
  <2>2. "begin" \in Parts(Inner.k) /\ "begin" \in Leaving
    BY <1>2, TryParts DEF Leaving
  <2>3. QED
    BY <1>2, <2>1, <2>2, StepsOn
<1>5. CASE \E e \in Exceptions : Throw(valueStack, Exception(e))
  BY <1>2, <1>5, ExceptionIs, ThrowsNow
<1>6. QED
  BY <1>3, <1>4, <1>5 DEF FilterExcept

LEMMA BeginFinallyRight ==
  ASSUME BlocksInv, BeginFinally
  PROVE  Continues
<1> DEFINE h == Last(valueStack)
           op == CASE h.op \in {"PUSH_TRY", "FILTER_EXCEPT"} -> "BEGIN_FINALLY"
                   [] h.op = "RAISE" -> "END_FINALLY"
                   [] OTHER -> h.op
           p == IF Inner.fin THEN "finally" ELSE "end"
<1>1. In("try", {"begin"}) /\ Step(SetTop(valueStack, NewHandler(op, h.to)), At(Code, p))
  BY DEF BeginFinally
<1>2. /\ active # <<>> /\ back = "none" /\ Code # <<>> /\ Inner.k = "try" /\ Inner.part = "begin"
  BY <1>1, InIs
<1>3. Handles(Inner)
  BY <1>2 DEF Handles
<1>4. h.op \in HandlerOps
  BY <1>2, <1>3, EndOfCode
<1>5. /\ op \in HandlerOps /\ (op = "EXIT_LOOP" <=> h.op = "EXIT_LOOP") /\ (op = "RETURN" => h.op = "RETURN")
  <2>1. "BEGIN_FINALLY" \in HandlerOps /\ "END_FINALLY" \in HandlerOps
    BY DEF HandlerOps, Catching
  <2> HIDE DEF h
  <2>2. CASE h.op \in {"PUSH_TRY", "FILTER_EXCEPT"}
    BY <2>1, <2>2
  <2>3. CASE h.op = "RAISE"
    BY <2>1, <2>3
  <2>4. CASE h.op \notin {"PUSH_TRY", "FILTER_EXCEPT"} /\ h.op # "RAISE"
    BY <1>4, <2>4
  <2>5. QED
    BY <2>2, <2>3, <2>4
<1>6. p \in {"finally", "end"}
  BY Zenon
<1>7. p \in Parts(Inner.k) /\ p \in Leaving
  BY <1>2, <1>6, TryParts DEF Leaving
<1> HIDE DEF op, p
<1>8. /\ valueStack' = SetTop(valueStack, NewHandler(op, Last(valueStack).to))
      /\ Goto(At(Code, p)) /\ captured' = captured /\ exception' = exception /\ back' = "none"
  BY <1>1, <1>2 DEF Step
<1>9. QED
  BY <1>2, <1>3, <1>5, <1>7, <1>8, Converts

LEMMA FinallyEndsRight ==
  ASSUME BlocksInv, FinallyEnds
  PROVE  Continues
<1>1. In("try", {"finally"}) /\ Step(valueStack, At(Code, "end"))
  BY DEF FinallyEnds
<1>2. /\ active # <<>> /\ back = "none" /\ Code # <<>> /\ Inner.k = "try"
  BY <1>1, InIs
<1>3. /\ valueStack' = valueStack
      /\ Goto(At(Code, "end")) /\ captured' = captured /\ exception' = exception /\ back' = "none"
  BY <1>1, <1>2 DEF Step
<1>4. "end" \in Parts(Inner.k) /\ "end" \in Leaving
  BY <1>2, TryParts DEF Leaving
<1>5. QED
  BY <1>2, <1>3, <1>4, StepsOn

\* A return from the code the program is in.
LEMMA FinishesNow ==
  ASSUME BlocksInv, active # <<>>, Top.by = "host" => Code = <<>> /\ back # "native",
         NEW v \in Data, Finish(valueStack, v)
  PROVE  Continues
<1>1. /\ active \in Seq(FrameRecord) /\ Len(active) # 0 /\ Code \in Places
      /\ IsMoved(active, active, Len(active), Code)
  BY TopIs
<1>2. Layout(active, valueStack, back) /\ Kept(active, captured) /\ exception \in Data
  BY DEF BlocksInv
<1>3. Settled(active', valueStack', back', captured', valueStack, captured) /\ exception' \in Data
  BY <1>1, <1>2, Finishes
<1>4. QED
  BY <1>3 DEF Continues

\* The loop at m is left for the place dest.
LEMMA ExitsNow ==
  ASSUME BlocksInv, active # <<>>, NEW m \in 1 .. Len(Code), Code[m].k \in Loops,
         NEW dest \in Places, Agree(dest, Code, m),
         NEW k, k = ArgumentsOf(Top.by) + Wide(Code, m), ExitLoop(valueStack, k, dest)
  PROVE  Continues
<1>1. Len(active) # 0 /\ Code \in Places
  BY TopIs
<1>2. Layout(active, valueStack, back) /\ Kept(active, captured) /\ exception \in Data
  BY DEF BlocksInv
<1>3. Settled(active', valueStack', back', captured', valueStack, captured) /\ exception' \in Data
  BY <1>1, <1>2, ExitsLoop
<1>4. QED
  BY <1>3 DEF Continues

\* The loop that a handler remembers is left, the others in it first.
LEMMA ExitsAgain ==
  ASSUME BlocksInv, active # <<>>, Code # <<>>, back # "native", Handles(Inner),
         Last(valueStack).op = "EXIT_LOOP",
         ExitLoop(valueStack, valueStack[Len(valueStack) - 1].n, Last(valueStack).to)
  PROVE  Continues
<1> DEFINE below == valueStack[Len(valueStack) - 1]
           to == Last(valueStack).to
<1>1. LeavesTo(Top, Len(Code), Last(valueStack), below)
  BY LeavingIs
<1>2. Top.code = Code /\ Len(Code) \in Nat /\ to \in Places
  BY TopIs, InnerIs, EndOfCode
<1>3. PICK m \in 1 .. Len(Code) - 1 : /\ Agree(to, Code, m) /\ Code[m].k \in Loops
                                     /\ below = Count(ArgumentsOf(Top.by) + Wide(Code, m))
  BY <1>1, <1>2 DEF LeavesTo
<1>4. below.n = ArgumentsOf(Top.by) + Wide(Code, m)
  BY <1>3 DEF Count
<1>5. m \in 1 .. Len(Code)
  BY <1>2
<1>6. ExitLoop(valueStack, below.n, to)
  OBVIOUS
<1> HIDE DEF below, to
<1>7. QED
  BY <1>2, <1>3, <1>4, <1>5, <1>6, ExitsNow

LEMMA EndFinallyRight ==
  ASSUME BlocksInv, EndFinally
  PROVE  Continues
<1> DEFINE op == Last(valueStack).op
           pending == valueStack[Len(valueStack) - 1]
<1>1. In("try", {"end"})
  BY DEF EndFinally
<1>2. /\ active # <<>> /\ back = "none" /\ Code # <<>> /\ Inner.k = "try"
  BY <1>1, InIs
<1>3. Handles(Inner)
  BY <1>2 DEF Handles
<1>4. (CASE op \in {"RAISE", "END_FINALLY"} -> ThrowPending(valueStack)
         [] op = "EXIT_LOOP" -> ExitLoop(valueStack, pending.n, Last(valueStack).to)
         [] op = "RETURN" -> Finish(valueStack, pending)
         [] OTHER -> Step(valueStack, At(Code, "out")))
  BY DEF EndFinally
<1> HIDE DEF op
<1>5. CASE op \in {"RAISE", "END_FINALLY"}
  <2>1. ThrowPending(valueStack)
    BY <1>4, <1>5
  <2>2. QED
    BY <1>2, <2>1, ThrowsPending
<1>6. CASE op = "EXIT_LOOP"
  <2>1. ExitLoop(valueStack, valueStack[Len(valueStack) - 1].n, Last(valueStack).to)
    BY <1>4, <1>6
  <2>2. Last(valueStack).op = "EXIT_LOOP"
    BY <1>6 DEF op
  <2>3. QED
    BY <1>2, <1>3, <2>1, <2>2, ExitsAgain
<1>7. CASE op = "RETURN"
  <2>1. Finish(valueStack, pending)
    BY <1>4, <1>7
  <2>2. pending \in Data /\ HandlerRight(valueStack, Top, Len(Code)) /\ End(Top, Len(Code)) = Len(valueStack)
    BY <1>2, <1>3, EndOfCode
  <2>3. Top.by # "host"
    BY <1>7, <2>2 DEF HandlerRight, Last, op
  <2> HIDE DEF pending
  <2>4. QED
    BY <1>2, <2>1, <2>2, <2>3, FinishesNow
<1>8. CASE op \notin {"RAISE", "END_FINALLY", "EXIT_LOOP", "RETURN"}
  <2>1. Step(valueStack, At(Code, "out"))
    BY <1>4, <1>8
  <2>2. /\ valueStack' = valueStack
        /\ Goto(At(Code, "out")) /\ captured' = captured /\ exception' = exception /\ back' = "none"
    BY <1>2, <2>1 DEF Step
  <2>3. "out" \in Parts(Inner.k) /\ "out" \in Leaving
    BY <1>2, TryParts DEF Leaving
  <2>4. QED
    BY <1>2, <2>2, <2>3, StepsOn
<1>9. QED
  BY <1>5, <1>6, <1>7, <1>8

LEMMA OtherParts ==
  /\ Parts("with") = {"enter", "body", "cleanup", "out"}
  /\ Parts("block") = {"body", "out"}
  /\ \A k \in Loops : Parts(k) = {"cond", "body", "else", "out"}
  /\ "try" \notin Loops /\ "with" \notin Loops /\ "block" \notin Loops
<1>1. Parts("with") = {"enter", "body", "cleanup", "out"}
  BY DEF Parts, Loops
<1>2. Parts("block") = {"body", "out"}
  BY DEF Parts, Loops
<1>3. Parts("while") = {"cond", "body", "else", "out"}
  BY DEF Parts, Loops
<1>4. Parts("for") = {"cond", "body", "else", "out"}
  BY DEF Parts, Loops
<1>5. QED
  BY <1>1, <1>2, <1>3, <1>4 DEF Loops

LEMMA WithBodyEndsRight ==
  ASSUME BlocksInv, WithBodyEnds
  PROVE  Continues
<1>1. In("with", {"body"}) /\ Step(valueStack, At(Code, "cleanup"))
  BY DEF WithBodyEnds
<1>2. /\ active # <<>> /\ back = "none" /\ Code # <<>> /\ Inner.k = "with" /\ Inner.part = "body"
  BY <1>1, InIs
<1>3. /\ valueStack' = valueStack
      /\ Goto(At(Code, "cleanup")) /\ captured' = captured /\ exception' = exception /\ back' = "none"
  BY <1>1, <1>2 DEF Step
<1>4. "cleanup" \in Parts(Inner.k) /\ "cleanup" \in Leaving
  BY <1>2, OtherParts DEF Leaving
<1>5. QED
  BY <1>2, <1>3, <1>4, StepsOn

\* The step to another part of a loop or a block.
LEMMA StepsInside ==
  ASSUME BlocksInv, active # <<>>, Code # <<>>, back = "none", Inner.k \in Loops \cup {"block"},
         NEW p \in Parts(Inner.k), Step(valueStack, At(Code, p))
  PROVE  Continues
<1>1. /\ valueStack' = valueStack
      /\ Goto(At(Code, p)) /\ captured' = captured /\ exception' = exception /\ back' = "none"
  BY DEF Step
<1>2. ~Handles(Inner) /\ Inner.k # "with"
  BY OtherParts DEF Handles, Loops
<1>3. QED
  BY <1>1, <1>2, StepsOn

LEMMA LoopTestRight ==
  ASSUME BlocksInv, LoopTest
  PROVE  Continues
<1>1. PICK k \in Loops : In(k, {"cond"})
  BY DEF LoopTest
<1>2. /\ active # <<>> /\ back = "none" /\ Code # <<>> /\ Inner.k \in Loops
  BY <1>1, InIs
<1>3. {"cond", "body", "else", "out"} = Parts(Inner.k) /\ Inner.k \in Loops \cup {"block"}
  BY <1>2, OtherParts
<1>4. CASE Step(valueStack, At(Code, "body"))
  BY <1>2, <1>3, <1>4, StepsInside
<1>5. CASE Step(valueStack, At(Code, IF Inner.els THEN "else" ELSE "out"))
  <2> DEFINE p == IF Inner.els THEN "else" ELSE "out"
  <2>1. p \in {"else", "out"}
    BY Zenon
  <2>2. p \in Parts(Inner.k)
    BY <1>3, <2>1
  <2>3. Step(valueStack, At(Code, p))
    BY <1>5
  <2> HIDE DEF p
  <2>4. QED
    BY <1>2, <1>3, <2>2, <2>3, StepsInside
<1>6. CASE \E e \in Exceptions : Throw(valueStack, Exception(e))
  BY <1>2, <1>6, ExceptionIs, ThrowsNow
<1>7. QED
  BY <1>4, <1>5, <1>6 DEF LoopTest

LEMMA LoopBodyEndsRight ==
  ASSUME BlocksInv, LoopBodyEnds
  PROVE  Continues
<1>1. PICK k \in Loops : \/ In(k, {"body"}) /\ Step(valueStack, At(Code, "cond"))
                         \/ In(k, {"else"}) /\ Step(valueStack, At(Code, "out"))
  BY DEF LoopBodyEnds
<1>2. PICK parts : In(k, parts)
  BY <1>1
<1>3. /\ active # <<>> /\ back = "none" /\ Code # <<>> /\ Inner.k \in Loops
  BY <1>2, InIs
<1>4. "cond" \in Parts(Inner.k) /\ "out" \in Parts(Inner.k) /\ Inner.k \in Loops \cup {"block"}
  BY <1>3, OtherParts
<1>5. QED
  BY <1>1, <1>3, <1>4, StepsInside

LEMMA BlockEndsRight ==
  ASSUME BlocksInv, BlockEnds
  PROVE  Continues
<1>1. In("block", {"body"}) /\ Step(valueStack, At(Code, "out"))
  BY DEF BlockEnds
<1>2. /\ active # <<>> /\ back = "none" /\ Code # <<>> /\ Inner.k = "block"
  BY <1>1, InIs
<1>3. "out" \in Parts(Inner.k) /\ Inner.k \in Loops \cup {"block"}
  BY <1>2, OtherParts
<1>4. QED
  BY <1>1, <1>2, <1>3, StepsInside

LEMMA EndScopeRight ==
  ASSUME BlocksInv, EndScope
  PROVE  Continues
<1> DEFINE left == Len(valueStack) - Width(Inner)
           F == [active EXCEPT ![Len(active)].code = Front(Code)]
           t == SubSeq(valueStack, 1, left)
<1>1. active # <<>> /\ back = "none" /\ Code # <<>>
  BY DEF EndScope, Running
<1>2. active' = F /\ valueStack' = t /\ captured' = Open(left) /\ exception' = exception /\ back' = "none"
  BY <1>1 DEF EndScope, Goto
<1>3. /\ active \in Seq(FrameRecord) /\ Len(active) # 0 /\ Code \in Places /\ valueStack \in Seq(Entry)
  BY <1>1, TopIs
<1>4. Front(Code) \in Places
  BY <1>1, <1>3, FrontIs
<1>5. IsMoved(F, active, Len(active), Front(Code))
  BY <1>3, <1>4, Going
<1>6. left \in 0 .. Len(valueStack)
  BY <1>1, InnerSlots
<1>7. IsFirstPart(t, Entry, valueStack, left)
  BY <1>3, <1>6, Prefixed
<1>8. Open(left) \subseteq captured /\ \A p \in Open(left) : p <= left
  BY DEF Open
<1> HIDE DEF F, t
<1>9. Settled(F, t, "none", Open(left), valueStack, captured)
  BY <1>1, <1>5, <1>7, <1>8, Leaves
<1>10. exception \in Data
  BY DEF BlocksInv
<1>11. QED
  BY <1>2, <1>9, <1>10 DEF Continues

LEMMA RaiseStatementRight ==
  ASSUME BlocksInv, RaiseStatement
  PROVE  Continues
<1>1. AtStatement /\ \E e \in Exceptions : Throw(valueStack, Exception(e))
  BY DEF RaiseStatement
<1>2. active # <<>>
  BY <1>1, StatementIs
<1>3. QED
  BY <1>1, <1>2, ExceptionIs, ThrowsNow

\* Break in the else part of a loop, return from inside a statement of a module
\* and the capture of the variable of an except break the layout, as TLC shows;
\* an exception in a manager's own code, where it lands elsewhere than it
\* should, does not.
Sound == Unsound \cap {"jump", "module", "capture"} = {}

LEMMA ReturnStatementRight ==
  ASSUME BlocksInv, Sound, ReturnStatement
  PROVE  Continues
<1>1. AtStatement /\ (Len(active) > 1 \/ Code = <<>>)
  BY DEF ReturnStatement, Sound
<1>2. PICK v \in Results : Finish(valueStack, Result(v))
  BY DEF ReturnStatement
<1>3. active # <<>> /\ back = "none"
  BY <1>1, StatementIs
<1>4. Result(v) \in Data
  BY DEF Result, Data
<1>5. Top.by = "host" => Code = <<>>
  <2>1. Len(active) \in 1 .. Len(active) /\ Top = active[Len(active)] /\ Len(active) \in Nat /\ DOMAIN active = 1 .. Len(active)
    BY <1>3, TopIs
  <2>2. Top.by = "host" <=> Len(active) = 1
    BY <2>1 DEF BlocksInv, Layout
  <2>3. Len(active) \in Nat /\ (Len(active) = 1 => ~(Len(active) > 1))
    BY <2>1
  <2>4. QED
    BY <1>1, <2>2, <2>3
<1>6. QED
  BY <1>2, <1>3, <1>4, <1>5, FinishesNow

\* The loop at m is left, or begun again, at the place dest in it.
LEMMA LeavesLoop ==
  ASSUME BlocksInv, active # <<>>, back = "none", NEW m \in 1 .. Len(Code), Code[m].k \in Loops,
         NEW p \in {"cond", "out"}, NEW dest, dest = At(SubSeq(Code, 1, m), p),
         NEW n, n = ArgumentsOf(Top.by) + Wide(Code, m),
         IF n # LocalCount(Top) THEN ExitLoop(valueStack, n, dest) ELSE Step(valueStack, dest)
  PROVE  Continues
<1>1. /\ Code \in Places /\ Top \in FrameRecord /\ Top.code = Code /\ Top = active[Len(active)]
      /\ active \in Seq(FrameRecord) /\ Len(active) # 0 /\ Len(active) \in Nat
      /\ valueStack \in Seq(Entry) /\ Len(valueStack) \in Nat
      /\ FrameRight(valueStack, Top, Len(valueStack), back)
  BY TopIs
<1>2. Len(Code) \in Nat /\ Code[m] \in Place
  BY <1>1, PlacesAre
<1>3. IsFirstPart(SubSeq(Code, 1, m), Place, Code, m)
  <2>1. m \in 0 .. Len(Code)
    BY <1>2
  <2>2. QED
    BY <1>1, <2>1, Prefixed DEF Places
<1> DEFINE c == SubSeq(Code, 1, m)
<1>4. c \in Places /\ Len(c) = m /\ Len(c) # 0 /\ \A l \in 1 .. m : c[l] = Code[l]
  BY <1>3 DEF IsFirstPart, Places
<1> HIDE DEF c
<1>5. c[m] = Code[m]
  BY <1>4
<1>6. p \in Parts(c[m].k)
  BY <1>5, OtherParts
<1>7. IsAt(dest, c, p)
  <2>1. p \in Parts(c[Len(c)].k)
    BY <1>4, <1>6
  <2>2. IsAt(At(c, p), c, p)
    BY <1>4, <2>1, PartIs
  <2>3. QED
    BY <2>2 DEF c
<1>8. dest \in Places /\ Len(dest) = m /\ dest[m] \in Place /\ SamePlace(Code[m], dest[m])
  BY <1>4, <1>5, <1>7 DEF IsAt
<1>9. \A l \in 1 .. m - 1 : dest[l] = Code[l]
  BY <1>2, <1>4, <1>7 DEF IsAt
<1>10. Agree(dest, Code, m)
  BY <1>8, <1>9 DEF Agree
<1>11. CASE n # LocalCount(Top)
  <2>1. ExitLoop(valueStack, n, dest)
    BY <1>11
  <2>2. QED
    BY <1>8, <1>10, <2>1, ExitsNow
<1>12. CASE n = LocalCount(Top)
  <2>1. valueStack' = valueStack /\ Goto(dest) /\ captured' = captured /\ exception' = exception /\ back' = "none"
    BY <1>12 DEF Step
  <2>2. End(Top, m) = Len(valueStack)
    <3>1. LocalCount(Top) = ArgumentsOf(Top.by) + Wide(Code, Len(Code))
      BY <1>1, WideIs DEF LocalCount
    <3>2. Len(valueStack) = End(Top, Len(Code))
      <4>1. Len(valueStack) = End(Top, Len(Code)) + 0
        BY <1>1 DEF FrameRight
      <4>2. End(Top, Len(Code)) \in Nat
        BY <1>1, <1>2, EndIs
      <4>3. QED
        BY <4>1, <4>2
    <3>3. End(Top, Len(Code)) = Top.slots + ArgumentsOf(Top.by) + Wide(Code, Len(Code))
      BY <1>1 DEF End
    <3>4. End(Top, m) = Top.slots + ArgumentsOf(Top.by) + Wide(Code, m)
      BY <1>1 DEF End
    <3>5. /\ Top.slots \in Nat /\ ArgumentsOf(Top.by) \in Nat
          /\ Wide(Code, m) \in Nat /\ Wide(Code, Len(Code)) \in Nat
      <4>1. m \in 0 .. Len(Code) /\ Len(Code) \in 0 .. Len(Code)
        BY <1>2
      <4>2. QED
        BY <1>1, <4>1, FrameIs, WideIs
    <3>6. Top.slots + ArgumentsOf(Top.by) + Wide(Code, m) = Top.slots + (ArgumentsOf(Top.by) + Wide(Code, m))
      BY <3>5
    <3>7. Top.slots + ArgumentsOf(Top.by) + Wide(Code, Len(Code)) = Top.slots + (ArgumentsOf(Top.by) + Wide(Code, Len(Code)))
      BY <3>5
    <3>8. QED
      BY <1>12, <3>1, <3>2, <3>3, <3>4, <3>6, <3>7
  <2>3. Layout(active, valueStack, back) /\ Kept(active, captured) /\ exception \in Data
    BY DEF BlocksInv
  <2>4. \A q \in captured : q <= Len(valueStack)
    <3>1. SUFFICES ASSUME NEW q \in captured PROVE q <= Len(valueStack)
      OBVIOUS
    <3>2. PICK j \in 1 .. Len(active) : \E i \in 1 .. Len(active[j].code) : q = End(active[j], i)
      BY <2>3, KeptSlot
    <3>3. PICK i \in 1 .. Len(active[j].code) : q = End(active[j], i)
      BY <3>2
    <3>4. i \in 0 .. Len(active[j].code)
      BY <1>1, FrameIs
    <3>5. QED
      BY <2>3, <3>3, <3>4, FramesApart
  <2>5. Width(dest[m]) = Width(Code[m]) /\ ~Handles(Code[m]) /\ ~Handles(dest[m])
    <3>1. Code[m].k # "with" /\ Code[m].k # "try"
      BY OtherParts
    <3>2. ~Handles(Code[m])
      BY <3>1 DEF Handles
    <3>3. QED
      BY <1>2, <1>8, <3>1, <3>2, SamePlaceIs
  <2>6. AtCall(WithCode(Top, dest), "none")
    <3>1. WithCode(Top, dest).code = dest
      BY <1>1, <1>8, WithCodeIs
    <3>2. dest[Len(dest)].k = Code[m].k
      BY <1>2, <1>8, SamePlaceIs
    <3>3. dest[Len(dest)].k # "with"
      BY <3>2, OtherParts
    <3>4. QED
      BY <3>1, <3>3 DEF AtCall, Entering
  <2>7. IsMoved(active', active, Len(active), dest)
    BY <1>1, <1>8, <2>1, Going DEF Goto
  <2>8. Len(dest) <= Len(Top.code) /\ (\A l \in 1 .. Len(dest) - 1 : dest[l] = Top.code[l])
    BY <1>1, <1>2, <1>8, <1>9
  <2>9. /\ SamePlace(Top.code[Len(dest)], dest[Len(dest)])
        /\ Width(dest[Len(dest)]) = Width(Top.code[Len(dest)])
        /\ Handles(dest[Len(dest)]) <=> Handles(Top.code[Len(dest)])
        /\ ~Handles(dest[Len(dest)])
    BY <1>1, <1>8, <2>5
  <2>10. Len(valueStack) = End(Top, Len(dest)) /\ \A q \in captured : q <= End(Top, Len(dest))
    BY <1>8, <2>2, <2>4
  <2>11. "none" \in Callers \cup {"none"} /\ "none" # "native" /\ "none" # "host"
    OBVIOUS
  <2>12. Settled(active', valueStack, "none", captured, valueStack, captured)
    BY <1>1, <1>8, <2>3, <2>6, <2>7, <2>8, <2>9, <2>10, <2>11, Shrunk
  <2>13. QED
    BY <2>1, <2>3, <2>12 DEF Continues
<1>13. QED
  BY <1>11, <1>12

\* What the compiler counts for the innermost loop.
LEMMA CountsLoop ==
  ASSUME BlocksInv, active # <<>>, Bodies(Code) # {}
  PROVE  /\ Max(Bodies(Code)) \in Bodies(Code) /\ Bodies(Code) \subseteq 1 .. Len(Code) /\ Len(Code) \in Nat
         /\ \A i \in Bodies(Code) : i <= Max(Bodies(Code))
         /\ LoopLocalCount(Top) = ArgumentsOf(Top.by) + Wide(Code, Max(Bodies(Code)))
<1> DEFINE m == Max(Bodies(Code))
           g == [Top EXCEPT !.code = SubSeq(Code, 1, m)]
<1>1. Code \in Places /\ Top \in FrameRecord /\ Top.code = Code
  BY TopIs
<1>2. Len(Code) \in Nat /\ Bodies(Code) \subseteq 1 .. Len(Code)
  BY <1>1, PlacesAre DEF Bodies
<1>3. m \in Bodies(Code) /\ \A i \in Bodies(Code) : i <= m
  BY <1>2, MaxIs
<1>4. LoopLocalCount(Top) = LocalCount(g)
  BY <1>1 DEF LoopLocalCount
<1>5. g.by = Top.by /\ g.code = SubSeq(Code, 1, m)
  BY <1>1 DEF FrameRecord
<1>6. LocalCount(g) = ArgumentsOf(Top.by) + Wide(Code, m)
  BY <1>5 DEF LocalCount, Wide
<1>7. QED
  BY <1>2, <1>3, <1>4, <1>6

LEMMA ContinueRight ==
  ASSUME BlocksInv, Continue
  PROVE  Continues
<1> DEFINE m == Max(Bodies(Code))
           n == LoopLocalCount(Top)
           dest == At(SubSeq(Code, 1, m), "cond")
<1>1. /\ AtStatement /\ Bodies(Code) # {}
      /\ IF n # LocalCount(Top) THEN ExitLoop(valueStack, n, dest) ELSE Step(valueStack, dest)
  BY DEF Continue
<1>2. active # <<>> /\ back = "none"
  BY <1>1, StatementIs
<1>3. m \in Bodies(Code) /\ m \in 1 .. Len(Code) /\ n = ArgumentsOf(Top.by) + Wide(Code, m)
  BY <1>1, <1>2, CountsLoop
<1>4. Code[m].k \in Loops
  BY <1>3 DEF Bodies
<1>5. dest = At(SubSeq(Code, 1, m), "cond") /\ "cond" \in {"cond", "out"}
  OBVIOUS
<1> HIDE DEF m, n, dest
<1>6. QED
  BY <1>1, <1>2, <1>3, <1>4, <1>5, LeavesLoop

LEMMA BreakRight ==
  ASSUME BlocksInv, Sound, Break
  PROVE  Continues
<1> DEFINE m == Max(Breakable(Code))
           n == LoopLocalCount(Top)
           dest == At(SubSeq(Code, 1, m), "out")
<1>1. /\ AtStatement /\ Breakable(Code) # {}
      /\ Code[m].part = "body"
      /\ IF n # LocalCount(Top) THEN ExitLoop(valueStack, n, dest) ELSE Step(valueStack, dest)
  BY DEF Break, Sound
<1>2. active # <<>> /\ back = "none"
  BY <1>1, StatementIs
<1>3. Code \in Places
  BY <1>2, TopIs
<1>4. Len(Code) \in Nat /\ Breakable(Code) \subseteq 1 .. Len(Code)
  BY <1>3, PlacesAre DEF Breakable
<1>5. m \in Breakable(Code) /\ \A i \in Breakable(Code) : i <= m
  BY <1>1, <1>4, MaxIs
<1> HIDE DEF m
<1>6. m \in Bodies(Code) /\ Bodies(Code) \subseteq Breakable(Code)
  BY <1>1, <1>5 DEF Bodies, Breakable
<1>7. /\ Max(Bodies(Code)) \in Bodies(Code) /\ Bodies(Code) \subseteq 1 .. Len(Code)
      /\ \A i \in Bodies(Code) : i <= Max(Bodies(Code))
      /\ n = ArgumentsOf(Top.by) + Wide(Code, Max(Bodies(Code)))
  BY <1>2, <1>6, CountsLoop
<1>8. m = Max(Bodies(Code))
  <2>1. Max(Bodies(Code)) <= m /\ m <= Max(Bodies(Code))
    BY <1>5, <1>6, <1>7
  <2>2. Max(Bodies(Code)) \in 1 .. Len(Code) /\ m \in 1 .. Len(Code)
    BY <1>6, <1>7
  <2>3. QED
    BY <1>4, <2>1, <2>2
<1>9. m \in 1 .. Len(Code) /\ Code[m].k \in Loops
  BY <1>6, <1>7 DEF Bodies
<1>10. n = ArgumentsOf(Top.by) + Wide(Code, m) /\ dest = At(SubSeq(Code, 1, m), "out") /\ "out" \in {"cond", "out"}
  BY <1>7, <1>8
<1> HIDE DEF n, dest
<1>11. QED
  BY <1>1, <1>2, <1>9, <1>10, LeavesLoop

\* r is s with the data x on top.
IsPiled(r, s, x) ==
  /\ r \in Seq(Entry) /\ Len(r) = Len(s) + Len(x)
  /\ \A p \in 1 .. Len(s) : r[p] = s[p]
  /\ \A i \in 1 .. Len(x) : r[Len(s) + i] = x[i]
  /\ \A p \in Len(s) + 1 .. Len(r) : \E i \in 1 .. Len(x) : p = Len(s) + i

LEMMA Piled ==
  ASSUME NEW s \in Seq(Entry), NEW x \in Seq(Entry)
  PROVE  IsPiled(s \o x, s, x)
<1>1. s \o x \in Seq(Entry) /\ Len(s \o x) = Len(s) + Len(x)
  BY ConcatProperties
<1>2. \A p \in 1 .. Len(s) : (s \o x)[p] = s[p]
  OBVIOUS
<1>3. \A i \in 1 .. Len(x) : (s \o x)[Len(s) + i] = x[i]
  OBVIOUS
<1>4. \A p \in Len(s) + 1 .. Len(s \o x) : \E i \in 1 .. Len(x) : p = Len(s) + i
  <2>1. SUFFICES ASSUME NEW p \in Len(s) + 1 .. Len(s) + Len(x)
                 PROVE  p - Len(s) \in 1 .. Len(x) /\ p = Len(s) + (p - Len(s))
    BY <1>1
  <2>2. Len(s) \in Nat /\ Len(x) \in Nat
    OBVIOUS
  <2>3. QED
    BY <2>2
<1>5. QED
  BY <1>1, <1>2, <1>3, <1>4 DEF IsPiled

\* With data alone, all that is new is data.
LEMMA PiledData ==
  ASSUME NEW r, NEW s \in Seq(Entry), NEW x \in Seq(Data), IsPiled(r, s, x)
  PROVE  \A p \in Len(s) + 1 .. Len(r) : r[p] \in Data
<1>1. \A i \in 1 .. Len(x) : x[i] \in Data
  OBVIOUS
<1>2. QED
  BY <1>1 DEF IsPiled

LEMMA SimpleData ==
  /\ None \in Data /\ Local \in Data /\ Callee \in Data /\ Manager \in Data
  /\ <<Local>> \in Seq(Data) /\ <<Callee>> \in Seq(Data) /\ <<Manager>> \in Seq(Data)
  /\ <<Local, Local>> \in Seq(Data) /\ <<Callee, Callee>> \in Seq(Data) /\ <<Manager, Manager>> \in Seq(Data)
  /\ <<Manager, Local, Local, Local>> \in Seq(Data) /\ <<>> \in Seq(Data)
  /\ Data \subseteq Entry /\ Seq(Data) \subseteq Seq(Entry)
<1>1. None \in Data /\ Local \in Data /\ Callee \in Data /\ Manager \in Data
  BY DEF Data, None, Local, Callee, Manager
<1>2. Data \subseteq Entry
  BY DEF Entry
<1> HIDE DEF Data, Entry
<1>3. <<Local>> \in Seq(Data) /\ <<Callee>> \in Seq(Data) /\ <<Manager>> \in Seq(Data)
  BY <1>1
<1>4. <<Local, Local>> \in Seq(Data) /\ <<Callee, Callee>> \in Seq(Data) /\ <<Manager, Manager>> \in Seq(Data)
  BY <1>1
<1>5. <<Manager, Local, Local, Local>> \in Seq(Data) /\ <<>> \in Seq(Data)
  BY <1>1
<1>6. Seq(Data) \subseteq Seq(Entry)
  <2>1. SUFFICES ASSUME NEW x \in Seq(Data) PROVE x \in Seq(Entry)
    OBVIOUS
  <2>2. QED
    BY <1>2
<1>7. QED
  BY <1>1, <1>2, <1>3, <1>4, <1>5, <1>6

\* Where the locals of a frame end when it has entered construct x.
LEMMA GrownEnd ==
  ASSUME NEW f \in FrameRecord, NEW x \in Place, NEW c \in Places, IsAppended(c, Place, f.code, x)
  PROVE  End(WithCode(f, c), Len(c)) = End(f, Len(f.code)) + Width(x)
<1> DEFINE n == Len(f.code)
           g == WithCode(f, c)
<1>1. n \in Nat /\ f.code \in Places
  BY FrameIs
<1>2. Len(c) = n + 1 /\ (\A i \in 1 .. n : c[i] = f.code[i]) /\ c[n + 1] = x
  BY DEF IsAppended
<1>3. g \in FrameRecord /\ g.code = c
  BY WithCodeIs
<1> HIDE DEF n, g
<1>4. End(g, n) = End(f, n)
  <2>1. n \in 0 .. Len(f.code) /\ n <= Len(c) /\ n \in 0 .. n
    BY <1>1, <1>2 DEF n
  <2>2. QED
    BY <1>2, <2>1, EndSame DEF g
<1> DEFINE m == Len(c)
<1>5. m \in 1 .. Len(g.code) /\ m - 1 = n /\ g.code[m] = x
  BY <1>1, <1>2, <1>3
<1> HIDE DEF m
<1>6. End(g, m) = End(g, n) + Width(x)
  <2>1. End(g, m) = End(g, m - 1) + Width(g.code[m])
    BY <1>3, <1>5, EndIs
  <2>2. QED
    BY <1>5, <2>1
<1>7. QED
  BY <1>4, <1>6 DEF n, g, m

\* A statement has begun another construct, with its slots on the stack.
LEMMA Begins ==
  ASSUME BlocksInv, AtStatement, NEW x \in Place, x.k # "with",
         NEW t \in Seq(Entry), Len(t) = Len(valueStack) + Width(x),
         \A p \in 1 .. Len(valueStack) : t[p] = valueStack[p],
         \A p \in Len(valueStack) + 1 .. Len(t) : t[p] \in Data \/ (p = Len(t) /\ Handles(x)),
         Handles(x) => \E to : /\ t[Len(t)] = NewHandler("PUSH_TRY", to)
                               /\ StaysAt(Append(Code, x), Len(Append(Code, x)), t[Len(t)]),
         Step(t, Append(Code, x))
  PROVE  Continues
<1> DEFINE c == Append(Code, x)
           F == [active EXCEPT ![Len(active)].code = c]
<1>1. /\ active # <<>> /\ back = "none" /\ Top.code = Code
      /\ FrameRight(valueStack, Top, Len(valueStack), "none")
      /\ Layout(active, valueStack, "none") /\ Kept(active, captured) /\ exception \in Data
      /\ Code # <<>> => Code[Len(Code)].part \in Inside
  BY StatementIs
<1>2. /\ active \in Seq(FrameRecord) /\ Len(active) # 0 /\ Code \in Places /\ Top \in FrameRecord /\ Top = active[Len(active)]
      /\ valueStack \in Seq(Entry) /\ Len(valueStack) \in Nat
  BY <1>1, TopIs
<1>3. valueStack' = t /\ active' = F /\ captured' = captured /\ exception' = exception /\ back' = "none"
  BY <1>1 DEF Step, Goto
<1>4. IsAppended(c, Place, Code, x) /\ c \in Places
  BY <1>2, Appended DEF IsAppended, Places
<1>5. c # <<>> /\ Len(c) = Len(Code) + 1 /\ c[Len(c)] = x
  BY <1>2, <1>4 DEF IsAppended
<1> HIDE DEF c
<1>6. IsMoved(F, active, Len(active), c)
  BY <1>2, <1>4, Going
<1>7. WithCode(Top, c).code = c /\ WithCode(Top, c).by = Top.by
  BY <1>2, <1>4, WithCodeIs
<1>8. AtCall(WithCode(Top, c), "none")
  BY <1>5, <1>7 DEF AtCall, Entering
<1>9. End(WithCode(Top, c), Len(c)) = Len(t)
  <2>1. Len(valueStack) = End(Top, Len(Code)) + 0
    BY <1>1 DEF FrameRight
  <2>2. Len(Code) \in 0 .. Len(Code)
    BY <1>2, PlacesAre
  <2>3. End(Top, Len(Code)) \in Nat
    BY <1>1, <1>2, <2>2, EndIs
  <2>4. End(WithCode(Top, c), Len(c)) = End(Top, Len(Code)) + Width(x)
    BY <1>1, <1>2, <1>4, GrownEnd
  <2>5. QED
    BY <2>1, <2>3, <2>4
<1>10. Handles(x) => HandlerRight(t, WithCode(Top, c), Len(c))
  <2>1. SUFFICES ASSUME Handles(x) PROVE HandlerRight(t, WithCode(Top, c), Len(c))
    OBVIOUS
  <2>2. PICK to : t[Len(t)] = NewHandler("PUSH_TRY", to) /\ StaysAt(c, Len(c), t[Len(t)])
    BY <2>1 DEF c
  <2>3. t[Len(t)].op = "PUSH_TRY"
    BY <2>2 DEF NewHandler
  <2>4. "PUSH_TRY" \in HandlerOps
    BY DEF HandlerOps, Catching, Interrupting
  <2>5. QED
    BY <1>7, <1>9, <2>2, <2>3, <2>4 DEF HandlerRight
<1> HIDE DEF F
<1>11. Settled(F, t, "none", captured, valueStack, captured)
  BY <1>1, <1>2, <1>4, <1>6, <1>8, <1>10, Grown
<1>12. QED
  BY <1>1, <1>3, <1>11 DEF Continues

LEMMA BlockRight ==
  ASSUME BlocksInv, Block
  PROVE  Continues
<1> DEFINE x == Construct("block", FALSE, FALSE, FALSE, "body")
           t == Append(valueStack, Local)
<1>1. AtStatement /\ Step(t, Append(Code, x))
  BY DEF Block
<1>2. active # <<>>
  BY <1>1, StatementIs
<1>3. valueStack \in Seq(Entry) /\ Len(valueStack) \in Nat
  BY <1>2, TopIs
<1>4. x \in Place /\ x.k = "block" /\ Width(x) = 1 /\ ~Handles(x)
  <2>1. x \in [k : Kinds, exc : BOOLEAN, els : BOOLEAN, fin : BOOLEAN, part : UNION {Parts(k) : k \in Kinds}]
    BY OtherParts DEF Construct, Kinds
  <2>2. x.k = "block" /\ x.part \in Parts(x.k)
    BY OtherParts DEF Construct
  <2>3. QED
    BY <2>1, <2>2 DEF Place, Handles, Width
<1>5. IsAppended(t, Entry, valueStack, Local)
  BY <1>3, SimpleData, Appended
<1> HIDE DEF x, t
<1>6. t \in Seq(Entry) /\ Len(t) = Len(valueStack) + Width(x) /\ \A p \in 1 .. Len(valueStack) : t[p] = valueStack[p]
  BY <1>4, <1>5 DEF IsAppended
<1>7. \A p \in Len(valueStack) + 1 .. Len(t) : t[p] \in Data \/ (p = Len(t) /\ Handles(x))
  <2>1. Len(t) = Len(valueStack) + 1
    BY <1>5 DEF IsAppended
  <2>2. \A p \in Len(valueStack) + 1 .. Len(t) : p = Len(valueStack) + 1
    BY <1>3, <2>1
  <2>3. QED
    BY <1>5, <2>2, SimpleData DEF IsAppended
<1>8. x.k # "with"
  BY <1>4
<1>9. QED
  BY <1>1, <1>4, <1>6, <1>7, <1>8, Begins

LEMMA LoopRight ==
  ASSUME BlocksInv, Loop
  PROVE  Continues
<1>1. PICK l \in LoopForms :
        Step(IF l.k = "for" THEN valueStack \o <<Local, Local>> ELSE valueStack,
             Append(Code, Construct(l.k, FALSE, l.els, FALSE, "cond")))
  BY DEF Loop
<1> DEFINE x == Construct(l.k, FALSE, l.els, FALSE, "cond")
           t == IF l.k = "for" THEN valueStack \o <<Local, Local>> ELSE valueStack
<1>2. AtStatement
  BY DEF Loop
<1>3. active # <<>>
  BY <1>2, StatementIs
<1>4. valueStack \in Seq(Entry) /\ Len(valueStack) \in Nat
  BY <1>3, TopIs
<1>5. l.k \in Loops /\ l.els \in BOOLEAN
  BY FormAssumption
<1>6. x \in Place /\ x.k = l.k /\ ~Handles(x)
  <2>1. l.k \in Kinds
    BY <1>5 DEF Loops, Kinds
  <2>2. "cond" \in Parts(l.k)
    BY <1>5, OtherParts
  <2>3. "cond" \in UNION {Parts(k) : k \in Kinds}
    BY <2>1, <2>2
  <2>4. x \in [k : Kinds, exc : BOOLEAN, els : BOOLEAN, fin : BOOLEAN, part : UNION {Parts(k) : k \in Kinds}]
    BY <1>5, <2>1, <2>3, Zenon DEF Construct
  <2>5. x.k = l.k /\ x.part = "cond"
    BY DEF Construct
  <2>6. x \in Place
    BY <2>2, <2>4, <2>5, Zenon DEF Place
  <2>7. ~Handles(x)
    BY <1>5, <2>5, OtherParts DEF Handles
  <2>8. QED
    BY <2>5, <2>6, <2>7
<1>7. Step(t, Append(Code, x))
  BY <1>1
<1>8. /\ t \in Seq(Entry) /\ Len(t) = Len(valueStack) + Width(x)
      /\ \A p \in 1 .. Len(valueStack) : t[p] = valueStack[p]
      /\ \A p \in Len(valueStack) + 1 .. Len(t) : t[p] \in Data
  <2>1. CASE l.k = "for"
    <3>1. t = valueStack \o <<Local, Local>>
      BY <2>1
    <3>2. <<Local, Local>> \in Seq(Data) /\ <<Local, Local>> \in Seq(Entry) /\ Len(<<Local, Local>>) = 2
      BY SimpleData
    <3>3. IsPiled(t, valueStack, <<Local, Local>>)
      BY <1>4, <3>1, <3>2, Piled
    <3>4. Width(x) = 2
      BY <1>6, <2>1 DEF Width
    <3>5. \A p \in Len(valueStack) + 1 .. Len(t) : t[p] \in Data
      BY <1>4, <3>2, <3>3, PiledData
    <3>6. t \in Seq(Entry) /\ Len(t) = Len(valueStack) + 2 /\ \A p \in 1 .. Len(valueStack) : t[p] = valueStack[p]
      BY <3>2, <3>3 DEF IsPiled
    <3>7. QED
      BY <3>4, <3>5, <3>6
  <2>2. CASE l.k # "for"
    <3>1. t = valueStack
      BY <2>2
    <3>2. Width(x) = 0
      BY <1>5, <1>6, <2>2 DEF Width, Loops
    <3>3. Len(valueStack) + 0 = Len(valueStack) /\ Len(valueStack) + 1 .. Len(valueStack) = {}
      BY <1>4
    <3> HIDE DEF x, t
    <3>4. Len(t) = Len(valueStack) + Width(x) /\ Len(valueStack) + 1 .. Len(t) = {}
      BY <3>1, <3>2, <3>3
    <3>5. QED
      BY <1>4, <3>1, <3>4
  <2>3. QED
    BY <2>1, <2>2
<1>9. x.k # "with"
  BY <1>5, <1>6, OtherParts
<1> HIDE DEF x, t
<1>10. QED
  BY <1>2, <1>6, <1>7, <1>8, <1>9, Begins

LEMMA TryStatementRight ==
  ASSUME BlocksInv, TryStatement
  PROVE  Continues
<1>1. PICK y \in Tries :
        LET c == Construct("try", y.exc, y.els, y.fin, "body")
        IN Step(valueStack \o <<None, NewHandler("PUSH_TRY", Append(Code, [c EXCEPT !.part = TryTarget(c)]))>>,
                Append(Code, c))
  BY DEF TryStatement
<1> DEFINE x == Construct("try", y.exc, y.els, y.fin, "body")
           d == [x EXCEPT !.part = TryTarget(x)]
           to == Append(Code, d)
           h == NewHandler("PUSH_TRY", to)
           t == valueStack \o <<None, h>>
           c == Append(Code, x)
<1>2. AtStatement /\ Step(t, Append(Code, x))
  BY <1>1 DEF TryStatement
<1>3. active # <<>>
  BY <1>2, StatementIs
<1>4. /\ valueStack \in Seq(Entry) /\ Len(valueStack) \in Nat /\ Code \in Places
  BY <1>3, TopIs
<1>5. y.exc \in BOOLEAN /\ y.els \in BOOLEAN /\ y.fin \in BOOLEAN
  BY FormAssumption
<1> DEFINE Shape == [k : Kinds, exc : BOOLEAN, els : BOOLEAN, fin : BOOLEAN, part : UNION {Parts(k) : k \in Kinds}]
<1>6. x \in Place /\ x.k = "try" /\ Width(x) = 2 /\ Handles(x)
  <2>1. "try" \in Kinds /\ "body" \in Parts("try")
    BY TryParts DEF Kinds
  <2>2. "body" \in UNION {Parts(k) : k \in Kinds}
    BY <2>1
  <2>3. x \in Shape
    BY <1>5, <2>1, <2>2, Zenon DEF Construct
  <2>4. x.k = "try" /\ x.part = "body"
    BY DEF Construct
  <2>5. x \in Place
    BY <2>1, <2>3, <2>4, Zenon DEF Place
  <2>6. Width(x) = 2 /\ Handles(x)
    BY <2>4 DEF Width, Handles
  <2>7. QED
    BY <2>4, <2>5, <2>6
<1>7. TryTarget(x) \in Leaving /\ TryTarget(x) \in Parts("try")
  BY TryParts DEF Leaving
<1> HIDE DEF x
<1>8. d \in Place /\ SamePlace(x, d) /\ d.part = TryTarget(x) /\ d.k = "try"
  <2>1. TryTarget(x) \in UNION {Parts(k) : k \in Kinds}
    BY <1>7 DEF Kinds
  <2>2. x \in Shape
    BY <1>6 DEF Place
  <2>3. d \in Shape /\ d.part = TryTarget(x) /\ d.k = x.k
    BY <2>1, <2>2
  <2>4. d \in Place
    BY <1>6, <1>7, <2>3, Zenon DEF Place
  <2>5. QED
    BY <1>6, <2>3, <2>4 DEF SamePlace
<1> HIDE DEF d
<1>9. IsAppended(to, Place, Code, d) /\ to \in Places /\ IsAppended(c, Place, Code, x)
  BY <1>4, <1>6, <1>8, Appended DEF IsAppended, Places
<1> HIDE DEF to, c
<1>10. /\ Len(to) = Len(c) /\ (\A l \in 1 .. Len(c) - 1 : to[l] = c[l])
       /\ to[Len(c)] = d /\ c[Len(c)] = x
  <2>1. Len(Code) \in Nat
    BY <1>4, PlacesAre
  <2>2. Len(to) = Len(Code) + 1 /\ Len(c) = Len(Code) + 1 /\ Len(c) - 1 = Len(Code)
    BY <1>9, <2>1 DEF IsAppended
  <2>3. QED
    BY <1>9, <2>2 DEF IsAppended
<1>11. h \in Entry /\ h.to = to
  BY <1>9, NewHandlerIs, TryParts DEF HandlerOps, Catching, Interrupting
<1>12. StaysAt(c, Len(c), h)
  BY <1>7, <1>8, <1>10, <1>11 DEF StaysAt, Agree, Handles
<1> DEFINE z == <<None, h>>
<1>13. z \in Seq(Entry) /\ Len(z) = 2 /\ z[1] = None /\ z[2] = h
  BY <1>11, SimpleData
<1>14. IsPiled(t, valueStack, z)
  BY <1>4, <1>13, Piled
<1> HIDE DEF h, t, z
<1>15. t \in Seq(Entry) /\ Len(t) = Len(valueStack) + Width(x) /\ \A p \in 1 .. Len(valueStack) : t[p] = valueStack[p]
  BY <1>6, <1>13, <1>14 DEF IsPiled
<1>16. t[Len(valueStack) + 1] = None /\ t[Len(valueStack) + 2] = h /\ Len(t) = Len(valueStack) + 2
  BY <1>13, <1>14 DEF IsPiled
<1>17. \A p \in Len(valueStack) + 1 .. Len(t) : t[p] \in Data \/ (p = Len(t) /\ Handles(x))
  <2>1. \A p \in Len(valueStack) + 1 .. Len(t) : p = Len(valueStack) + 1 \/ p = Len(t)
    BY <1>4, <1>16
  <2>2. QED
    BY <1>6, <1>16, <2>1, SimpleData
<1>18. t[Len(t)] = NewHandler("PUSH_TRY", to) /\ StaysAt(Append(Code, x), Len(Append(Code, x)), t[Len(t)])
  BY <1>12, <1>16 DEF h, c
<1>19. x.k # "with"
  BY <1>6
<1>20. QED
  BY <1>2, <1>6, <1>15, <1>17, <1>18, <1>19, Begins

\* The active frames, the top one at place c.
AtPlace(c) == [active EXCEPT ![Len(active)].code = c]

\* A function is entered, with its arguments on the stack t of its caller.
LEMMA Enters ==
  ASSUME BlocksInv, active # <<>>, NEW b \in {"run", "native", "enter", "exit"}, NEW c \in Places,
         NEW s \in Seq(Entry), NEW depth \in Nat, Enter(c, s, b, depth),
         NEW t, Settled(AtPlace(c), t, b, captured, valueStack, captured),
         Len(s) = Len(t) + depth + ArgumentsOf(b),
         \A p \in 1 .. Len(t) : s[p] = t[p],
         \A p \in Len(t) + 1 .. Len(s) : s[p] \in Data
  PROVE  Continues
<1> DEFINE r == NewFrame(s, b, depth)
           n == ArgumentsOf(b)
           F == AtPlace(c)
<1>1. /\ valueStack' = s /\ active' = Append(F, r) /\ captured' = captured /\ exception' = exception /\ back' = "none"
  BY DEF Enter, AtPlace
<1> HIDE DEF F
<1>2. Layout(F, t, b) /\ Kept(F, captured)
  BY DEF Settled, F
<1>3. t \in Seq(Entry) /\ Len(t) \in Nat /\ F \in Seq(FrameRecord)
  BY <1>2, LayoutIs
<1>4. n \in Nat
  BY DEF ArgumentsOf
<1>5. r.code = <<>> /\ r.by = b /\ r.slots = Len(s) - n /\ r.out = Len(s) - n - depth
  BY DEF NewFrame
<1>6. Len(s) - n = Len(t) + depth /\ Len(s) - n - depth = Len(t) /\ Len(t) <= Len(t) + depth /\ Len(t) + depth \in Nat
  BY <1>3, <1>4
<1>7. r \in FrameRecord
  <2>1. r = [code |-> <<>>, slots |-> Len(s) - n, out |-> Len(s) - n - depth, by |-> b]
    BY DEF NewFrame
  <2>2. <<>> \in Places /\ b \in Callers
    BY DEF Places, Callers
  <2> HIDE DEF r, n
  <2>3. QED
    BY <1>3, <1>6, <2>1, <2>2 DEF FrameRecord
<1> HIDE DEF r
<1>8. r.out = Len(t) /\ r.out <= r.slots /\ Len(s) = r.slots + ArgumentsOf(b)
  BY <1>3, <1>4, <1>5, <1>6
<1>9. IsAppended(Append(F, r), FrameRecord, F, r)
  BY <1>3, <1>7, Appended
<1>10. Settled(Append(F, r), s, "none", captured, t, captured)
  BY <1>2, <1>5, <1>7, <1>8, <1>9, Called
<1>11. Settled(Append(F, r), s, "none", captured, valueStack, captured)
  BY <1>10, SettledOver DEF F
<1>12. exception \in Data
  BY DEF BlocksInv
<1>13. QED
  BY <1>1, <1>11, <1>12 DEF Continues

\* What stays as it is while native code is called.
LEMMA Stays ==
  ASSUME BlocksInv, AtStatement, NEW t \in Seq(Entry), NEW b \in {"run", "native"},
         \A p \in 1 .. Len(valueStack) : t[p] = valueStack[p],
         IF b = "run" THEN t = valueStack ELSE Len(t) = Len(valueStack) + 1 /\ t[Len(valueStack) + 1] \in Data
  PROVE  Settled(AtPlace(Code), t, b, captured, valueStack, captured)
<1> DEFINE F == AtPlace(Code)
           z == Len(valueStack)
<1>1. /\ active # <<>> /\ back = "none" /\ Top.code = Code
      /\ FrameRight(valueStack, Top, z, "none")
      /\ Layout(active, valueStack, "none") /\ Kept(active, captured) /\ exception \in Data
      /\ Code # <<>> => Code[Len(Code)].part \in Inside
  BY StatementIs
<1>2. /\ active \in Seq(FrameRecord) /\ Len(active) # 0 /\ Len(active) \in Nat /\ Len(active) \in 1 .. Len(active)
      /\ Code \in Places /\ Top \in FrameRecord /\ Top = active[Len(active)] /\ WithCode(Top, Code) = Top
      /\ valueStack \in Seq(Entry) /\ z \in Nat
  BY <1>1, TopIs
<1>3. IsMoved(F, active, Len(active), Code)
  BY <1>2, Going DEF AtPlace
<1> HIDE DEF F, z
<1>4. F \in Seq(FrameRecord) /\ Len(F) = Len(active) /\ F[Len(active)] = Top
      /\ \A l \in 1 .. Len(active) : F[l] = active[l]
  BY <1>2, <1>3 DEF IsMoved
<1>5. FrameRight(t, Top, Len(t), b)
  <2>1. CASE b = "native"
    <3>1. Len(t) = z + 1 /\ t[z + 1] \in Data /\ \A p \in 1 .. z : t[p] = valueStack[p]
      BY <2>1 DEF z
    <3>2. QED
      BY <1>1, <1>2, <2>1, <3>1, Pushes DEF z
  <2>2. CASE b = "run"
    <3>1. t = valueStack /\ Len(t) = z
      BY <2>2 DEF z
    <3>2. AtCall(Top, "run")
      BY <1>1 DEF FrameRight, AtCall
    <3>3. FrameRight(valueStack, Top, z, "run")
      BY <1>1, <3>2 DEF FrameRight
    <3>4. QED
      BY <2>2, <3>1, <3>3
  <2>3. QED
    BY <2>1, <2>2
<1>6. \A p \in 1 .. active[Len(active)].out : t[p] = valueStack[p]
  <2>1. 0 \in 0 .. Len(active[Len(active)].code)
    BY <1>2, FrameIs
  <2>2. /\ End(active[Len(active)], 0) \in Nat /\ active[Len(active)].out \in Nat /\ active[Len(active)].slots \in Nat
        /\ active[Len(active)].out <= active[Len(active)].slots
        /\ active[Len(active)].slots <= End(active[Len(active)], 0) /\ End(active[Len(active)], 0) <= z
    BY <1>1, <1>2, <2>1, FramesApart DEF z
  <2>3. active[Len(active)].out \in Nat /\ active[Len(active)].out <= z
    BY <1>2, <2>2
  <2>4. QED
    BY <1>2, <2>3 DEF z
<1>7. Layout(F, t, b)
  <2>1. b # "host"
    OBVIOUS
  <2>2. FrameRight(t, F[Len(active)], Len(t), b)
    BY <1>4, <1>5
  <2>3. QED
    BY <1>1, <1>2, <1>3, <1>6, <2>1, <2>2, Moves
<1>8. Kept(F, captured)
  <2>1. F = active
    BY <1>2, <1>4, SameSeq
  <2>2. QED
    BY <1>1, <2>1
<1>9. \A p \in captured : p \in DOMAIN t /\ t[p] = valueStack[p]
  <2>1. SUFFICES ASSUME NEW p \in captured PROVE p \in DOMAIN t /\ t[p] = valueStack[p]
    OBVIOUS
  <2>2. PICK j \in 1 .. Len(active) : \E i \in 1 .. Len(active[j].code) :
          active[j].code[i].k = "block" /\ p = End(active[j], i) /\ p \in Nat /\ active[j].slots + 1 <= p
    BY <1>1, KeptSlot
  <2>3. PICK i \in 1 .. Len(active[j].code) : p = End(active[j], i) /\ p \in Nat /\ active[j].slots + 1 <= p
    BY <2>2
  <2>4. i \in 0 .. Len(active[j].code)
    BY <1>2, FrameIs
  <2>5. End(active[j], i) <= z /\ active[j].slots \in Nat
    BY <1>1, <2>4, FramesApart DEF z
  <2>6. p \in 1 .. z
    BY <1>2, <2>3, <2>5
  <2>7. z <= Len(t) /\ Len(t) \in Nat
    BY <1>2 DEF z
  <2>8. p \in 1 .. Len(t)
    BY <1>2, <2>6, <2>7
  <2>9. QED
    BY <2>6, <2>8 DEF z
<1>10. b \in Callers \cup {"none"}
  BY DEF Callers
<1>11. QED
  BY <1>7, <1>8, <1>9, <1>10 DEF Settled, F

LEMMA CallFunctionRight ==
  ASSUME BlocksInv, CallFunction
  PROVE  Continues
<1> DEFINE z == Len(valueStack)
           s == Append(valueStack, Callee)
<1>1. AtStatement /\ Enter(Code, s, "run", 1)
  BY DEF CallFunction
<1>2. active # <<>>
  BY <1>1, StatementIs
<1>3. valueStack \in Seq(Entry) /\ z \in Nat /\ Code \in Places
  BY <1>2, TopIs
<1>4. IsAppended(s, Entry, valueStack, Callee)
  BY <1>3, SimpleData, Appended
<1> HIDE DEF s
<1>5. Settled(AtPlace(Code), valueStack, "run", captured, valueStack, captured)
  BY <1>1, <1>3, Stays
<1>6. s \in Seq(Entry) /\ Len(s) = z + 1 /\ (\A p \in 1 .. z : s[p] = valueStack[p]) /\ s[z + 1] = Callee
  BY <1>4 DEF IsAppended
<1>7. Len(s) = z + 1 + ArgumentsOf("run")
  <2>1. ArgumentsOf("run") = 0
    BY DEF ArgumentsOf
  <2>2. QED
    BY <1>3, <1>6, <2>1
<1>8. \A p \in z + 1 .. Len(s) : s[p] \in Data
  <2>1. \A p \in z + 1 .. Len(s) : p = z + 1
    BY <1>3, <1>6
  <2>2. QED
    BY <1>6, <2>1, SimpleData
<1>9. QED
  BY <1>1, <1>2, <1>3, <1>5, <1>6, <1>7, <1>8, Enters

LEMMA CallOfNativeRight ==
  ASSUME BlocksInv, CallOfNative
  PROVE  Continues
<1> DEFINE z == Len(valueStack)
           x == <<Callee, Callee>>
           s == valueStack \o x
           t == Append(valueStack, Callee)
<1>1. AtStatement /\ Enter(Code, s, "native", 1)
  BY DEF CallOfNative
<1>2. active # <<>>
  BY <1>1, StatementIs
<1>3. valueStack \in Seq(Entry) /\ z \in Nat /\ Code \in Places
  BY <1>2, TopIs
<1>4. IsAppended(t, Entry, valueStack, Callee)
  BY <1>3, SimpleData, Appended
<1>5. x \in Seq(Data) /\ x \in Seq(Entry) /\ Len(x) = 2 /\ x[1] = Callee
  BY SimpleData
<1>6. IsPiled(s, valueStack, x)
  BY <1>3, <1>5, Piled
<1>7. \A p \in z + 1 .. Len(s) : s[p] \in Data
  BY <1>3, <1>5, <1>6, PiledData
<1> HIDE DEF s, t, x
<1>8. t \in Seq(Entry) /\ Len(t) = z + 1 /\ (\A p \in 1 .. z : t[p] = valueStack[p]) /\ t[z + 1] = Callee
  BY <1>4 DEF IsAppended
<1>9. s \in Seq(Entry) /\ Len(s) = z + 2 /\ (\A p \in 1 .. z : s[p] = valueStack[p]) /\ s[z + 1] = Callee
  BY <1>5, <1>6 DEF IsPiled
<1>10. Settled(AtPlace(Code), t, "native", captured, valueStack, captured)
  BY <1>1, <1>3, <1>8, SimpleData, Stays
<1>11. Len(s) = Len(t) + 1 + ArgumentsOf("native")
  <2>1. ArgumentsOf("native") = 0
    BY DEF ArgumentsOf
  <2>2. QED
    BY <1>3, <1>8, <1>9, <2>1
<1>12. \A p \in 1 .. Len(t) : s[p] = t[p]
  <2>1. \A p \in 1 .. Len(t) : p \in 1 .. z \/ p = z + 1
    BY <1>3, <1>8
  <2>2. QED
    BY <1>8, <1>9, <2>1
<1>13. \A p \in Len(t) + 1 .. Len(s) : s[p] \in Data
  <2>1. \A p \in Len(t) + 1 .. Len(s) : p \in z + 1 .. Len(s)
    BY <1>3, <1>8, <1>9
  <2>2. QED
    BY <1>7, <2>1
<1>14. QED
  BY <1>1, <1>2, <1>3, <1>9, <1>10, <1>11, <1>12, <1>13, Enters

LEMMA WithRight ==
  ASSUME BlocksInv, With
  PROVE  Continues
<1> DEFINE x == Construct("with", FALSE, FALSE, FALSE, "enter")
           c == Append(Code, x)
           y == <<Manager, Manager>>
           s == valueStack \o y
           t == Append(valueStack, Manager)
           z == Len(valueStack)
<1>1. AtStatement /\ Enter(c, s, "enter", 0)
  BY DEF With
<1>2. /\ active # <<>> /\ Top.code = Code
      /\ Layout(active, valueStack, "none") /\ Kept(active, captured)
      /\ Code # <<>> => Code[Len(Code)].part \in Inside
  BY <1>1, StatementIs
<1>3. /\ active \in Seq(FrameRecord) /\ Len(active) # 0 /\ Code \in Places /\ Top \in FrameRecord /\ Top = active[Len(active)]
      /\ valueStack \in Seq(Entry) /\ z \in Nat
  BY <1>2, TopIs
<1>4. x \in Place /\ x.k = "with" /\ x.part = "enter" /\ Width(x) = 1 /\ ~Handles(x)
  <2>1. x \in [k : Kinds, exc : BOOLEAN, els : BOOLEAN, fin : BOOLEAN, part : UNION {Parts(k) : k \in Kinds}]
    BY OtherParts DEF Construct, Kinds
  <2>2. x.k = "with" /\ x.part = "enter" /\ x.part \in Parts(x.k)
    BY OtherParts DEF Construct
  <2>3. QED
    BY <2>1, <2>2 DEF Place, Handles, Width
<1>5. IsAppended(t, Entry, valueStack, Manager)
  BY <1>3, SimpleData, Appended
<1>6. y \in Seq(Data) /\ y \in Seq(Entry) /\ Len(y) = 2 /\ y[1] = Manager
  BY SimpleData
<1>7. IsPiled(s, valueStack, y)
  BY <1>3, <1>6, Piled
<1>8. \A p \in z + 1 .. Len(s) : s[p] \in Data
  BY <1>3, <1>6, <1>7, PiledData
<1> HIDE DEF x
<1>9. IsAppended(c, Place, Code, x) /\ c \in Places
  BY <1>3, <1>4, Appended DEF IsAppended, Places
<1> HIDE DEF c, s, t, y
<1>10. c # <<>> /\ c[Len(c)] = x
  BY <1>3, <1>9 DEF IsAppended
<1>11. t \in Seq(Entry) /\ Len(t) = z + 1 /\ (\A p \in 1 .. z : t[p] = valueStack[p]) /\ t[z + 1] = Manager
  BY <1>5 DEF IsAppended
<1>12. s \in Seq(Entry) /\ Len(s) = z + 2 /\ (\A p \in 1 .. z : s[p] = valueStack[p]) /\ s[z + 1] = Manager
  BY <1>6, <1>7 DEF IsPiled
<1>13. IsMoved(AtPlace(c), active, Len(active), c)
  BY <1>3, <1>9, Going DEF AtPlace
<1>14. AtCall(WithCode(Top, c), "enter")
  <2>1. WithCode(Top, c).code = c
    BY <1>3, <1>9, WithCodeIs
  <2>2. QED
    BY <1>4, <1>10, <2>1 DEF AtCall, Entering
<1>15. \A p \in z + 1 .. Len(t) : t[p] \in Data
  <2>1. \A p \in z + 1 .. Len(t) : p = z + 1
    BY <1>3, <1>11
  <2>2. QED
    BY <1>11, <2>1, SimpleData
<1>16. Settled(AtPlace(c), t, "enter", captured, valueStack, captured)
  <2>1. "enter" \in Callers \cup {"none"} /\ "enter" # "native" /\ "enter" # "host"
    BY DEF Callers
  <2>2. IsAppended(c, Place, Top.code, x) /\ Len(t) = Len(valueStack) + Width(x)
    BY <1>2, <1>4, <1>9, <1>11
  <2>3. \A p \in Len(valueStack) + 1 .. Len(t) : t[p] \in Data \/ (p = Len(t) /\ Handles(x))
    BY <1>15
  <2>4. Top.code # <<>> => Top.code[Len(Top.code)].part \in Inside
    BY <1>2
  <2>5. QED
    BY <1>2, <1>3, <1>4, <1>9, <1>11, <1>13, <1>14, <2>1, <2>2, <2>3, <2>4, Grown
<1>17. Len(s) = Len(t) + 0 + ArgumentsOf("enter")
  <2>1. ArgumentsOf("enter") = 1
    BY DEF ArgumentsOf
  <2>2. QED
    BY <1>3, <1>11, <1>12, <2>1
<1>18. \A p \in 1 .. Len(t) : s[p] = t[p]
  <2>1. \A p \in 1 .. Len(t) : p \in 1 .. z \/ p = z + 1
    BY <1>3, <1>11
  <2>2. QED
    BY <1>11, <1>12, <2>1
<1>19. \A p \in Len(t) + 1 .. Len(s) : s[p] \in Data
  <2>1. \A p \in Len(t) + 1 .. Len(s) : p \in z + 1 .. Len(s)
    BY <1>3, <1>11, <1>12
  <2>2. QED
    BY <1>8, <2>1
<1>20. QED
  BY <1>1, <1>2, <1>9, <1>12, <1>16, <1>17, <1>18, <1>19, Enters

LEMMA CleanupWithRight ==
  ASSUME BlocksInv, CleanupWith
  PROVE  Continues
<1> DEFINE h == Last(valueStack)
           n == NewHandler("CLEANUP_WITH", h.to)
           t == IF h.op = "RAISE" THEN SetTop(valueStack, n) ELSE valueStack
           y == <<Manager, Local, Local, Local>>
           s == t \o y
           z == Len(valueStack)
<1>1. In("with", {"cleanup"}) /\ Enter(Code, s, "exit", 0)
  BY DEF CleanupWith
<1>2. active # <<>> /\ back = "none" /\ Code # <<>> /\ Inner.k = "with" /\ Inner.part = "cleanup"
  BY <1>1, InIs
<1>3. /\ active \in Seq(FrameRecord) /\ Len(active) # 0 /\ Code \in Places /\ Top \in FrameRecord /\ Top = active[Len(active)]
      /\ valueStack \in Seq(Entry) /\ z \in Nat
  BY <1>2, TopIs
<1>4. Handles(Inner)
  BY <1>2 DEF Handles
<1>5. z \in 2 .. z /\ h.op \in HandlerOps /\ h.to \in Places /\ h = NewHandler(h.op, h.to)
  BY <1>2, <1>4, EndOfCode
<1>6. "CLEANUP_WITH" \in HandlerOps /\ n \in Entry
  BY <1>5, NewHandlerIs DEF HandlerOps
<1> HIDE DEF n
<1>7. /\ t \in Seq(Entry) /\ Len(t) = z /\ (\A i \in 1 .. Len(t) : i # Len(t) => t[i] = valueStack[i])
      /\ \E op \in HandlerOps :
           /\ op = "EXIT_LOOP" <=> h.op = "EXIT_LOOP"
           /\ op = "EXIT_LOOP" => "cleanup" \in Leaving
           /\ op = "RETURN" => h.op = "RETURN"
           /\ t[Len(t)] = NewHandler(op, h.to)
  <2>1. "cleanup" \in Leaving
    BY DEF Leaving
  <2>2. CASE h.op = "RAISE"
    <3>1. t = SetTop(valueStack, n)
      BY <2>2
    <3>2. IsTopped(t, valueStack, n)
      BY <1>3, <1>5, <1>6, <3>1, Topping
    <3> HIDE DEF t, h
    <3>3. t \in Seq(Entry) /\ Len(t) = z /\ (\A i \in 1 .. Len(t) : i # Len(t) => t[i] = valueStack[i]) /\ t[Len(t)] = n
      BY <3>2 DEF IsTopped
    <3>4. n = NewHandler("CLEANUP_WITH", h.to)
      BY DEF n
    <3>5. QED
      BY <1>6, <2>1, <2>2, <3>3, <3>4
  <2>3. CASE h.op # "RAISE"
    <3>1. t = valueStack
      BY <2>3
    <3>2. t[Len(t)] = h
      BY <3>1 DEF Last
    <3> HIDE DEF t, h
    <3>3. QED
      BY <1>3, <1>5, <2>1, <3>1, <3>2
  <2>4. QED
    BY <2>2, <2>3
<1>8. IsAt(Code, Code, "cleanup")
  <2>1. Inner \in Place /\ Inner = Code[Len(Code)]
    BY <1>2, InnerIs
  <2>2. Inner = [Inner EXCEPT !.part = "cleanup"]
    BY <1>2, <2>1 DEF Place
  <2>3. QED
    BY <1>2, <1>3, <2>1, <2>2 DEF IsAt, SamePlace
<1>9. IsMoved(AtPlace(Code), active, Len(active), Code)
  BY <1>3, Going DEF AtPlace
<1> HIDE DEF t, y
<1>10. "cleanup" \in Parts(Inner.k) /\ "exit" \in {"none", "exit"} /\ back # "native"
  BY <1>2, OtherParts
<1>11. Settled(AtPlace(Code), t, "exit", captured, valueStack, captured)
  BY <1>2, <1>4, <1>7, <1>8, <1>9, <1>10, GoesOn
<1>12. y \in Seq(Data) /\ y \in Seq(Entry) /\ Len(y) = 4
  BY SimpleData DEF y
<1>13. IsPiled(s, t, y)
  BY <1>7, <1>12, Piled
<1>14. \A p \in Len(t) + 1 .. Len(s) : s[p] \in Data
  BY <1>7, <1>12, <1>13, PiledData
<1> HIDE DEF s
<1>15. s \in Seq(Entry) /\ Len(s) = Len(t) + 4 /\ (\A p \in 1 .. Len(t) : s[p] = t[p])
  BY <1>12, <1>13 DEF IsPiled
<1>16. Len(s) = Len(t) + 0 + ArgumentsOf("exit")
  <2>1. ArgumentsOf("exit") = 4
    BY DEF ArgumentsOf
  <2>2. QED
    BY <1>3, <1>7, <1>15, <2>1
<1>17. QED
  BY <1>1, <1>2, <1>3, <1>11, <1>14, <1>15, <1>16, Enters

\* Captured variables are among the locals of the frames.
LEMMA KeptIn ==
  ASSUME NEW F, NEW s, NEW by, Layout(F, s, by), NEW o, Kept(F, o), NEW p \in o
  PROVE  /\ p \in 1 .. Len(s) /\ Len(s) \in Nat /\ DOMAIN s = 1 .. Len(s)
         /\ Len(F) \in 1 .. Len(F) /\ p <= End(F[Len(F)], Len(F[Len(F)].code))
<1> DEFINE n == Len(F)
<1>1. /\ F \in Seq(FrameRecord) /\ n \in Nat /\ DOMAIN F = 1 .. n /\ (\A j \in 1 .. n : F[j] \in FrameRecord)
      /\ Len(s) \in Nat /\ DOMAIN s = 1 .. Len(s)
  BY LayoutIs
<1>2. PICK j \in 1 .. n : \E i \in 1 .. Len(F[j].code) :
        /\ F[j].code[i].k = "block" /\ p = End(F[j], i)
        /\ p \in Nat /\ F[j].slots + 1 <= p
        /\ \A l \in j + 1 .. n : p <= F[l].out
  BY KeptSlot
<1>3. PICK i \in 1 .. Len(F[j].code) :
        /\ p = End(F[j], i) /\ p \in Nat /\ F[j].slots + 1 <= p
        /\ \A l \in j + 1 .. n : p <= F[l].out
  BY <1>2
<1>4. i \in 0 .. Len(F[j].code) /\ Len(F[j].code) \in 0 .. Len(F[j].code) /\ i <= Len(F[j].code)
  BY <1>1, FrameIs
<1>5. End(F[j], i) <= Len(s) /\ F[j].slots \in Nat
  BY <1>4, FramesApart
<1>6. p \in 1 .. Len(s)
  BY <1>1, <1>3, <1>5
<1>7. n \in 1 .. n
  BY <1>1
<1> HIDE DEF n
<1>8. p <= End(F[n], Len(F[n].code))
  <2>1. CASE j = n
    <3>1. \A a, b \in 0 .. Len(F[j].code) : a <= b => End(F[j], a) <= End(F[j], b)
      BY <1>1, EndIs
    <3>2. QED
      BY <1>3, <1>4, <2>1, <3>1
  <2>2. CASE j # n
    <3>1. n \in j + 1 .. n
      BY <1>1, <2>2
    <3>2. p <= F[n].out
      BY <1>3, <3>1
    <3>3. Len(F[n].code) \in 0 .. Len(F[n].code)
      BY <1>1, <1>7, FrameIs
    <3>4. /\ End(F[n], Len(F[n].code)) \in Nat /\ F[n].out \in Nat /\ F[n].slots \in Nat
          /\ F[n].out <= F[n].slots /\ F[n].slots <= End(F[n], Len(F[n].code))
      BY <1>7, <3>3, FramesApart DEF n
    <3>5. QED
      BY <1>3, <3>2, <3>4
  <2>3. QED
    BY <2>1, <2>2
<1>9. QED
  BY <1>1, <1>6, <1>7, <1>8 DEF n

LEMMA SomeActive ==
  ASSUME BlocksInv, back \notin {"none", "host"}
  PROVE  active # <<>>
BY DEF BlocksInv, Layout

\* The slot of a native function is gone.
LEMMA EndsNative ==
  ASSUME BlocksInv, back = "native"
  PROVE  active # <<>> /\ Settled(active, Front(valueStack), "none", captured, valueStack, captured)
<1> DEFINE z == Len(valueStack)
           n == Len(Code)
           t == Front(valueStack)
<1>1. active # <<>>
  BY SomeActive
<1>2. /\ active \in Seq(FrameRecord) /\ Len(active) \in Nat /\ Len(active) # 0 /\ Len(active) \in 1 .. Len(active)
      /\ Top \in FrameRecord /\ Top = active[Len(active)] /\ Top.code = Code /\ Code \in Places
      /\ valueStack \in Seq(Entry) /\ z \in Nat
      /\ FrameRight(valueStack, Top, z, "native")
      /\ WithCode(Top, Code) = Top /\ IsMoved(active, active, Len(active), Code)
  BY <1>1, TopIs
<1>3. Layout(active, valueStack, "native") /\ Kept(active, captured)
  BY DEF BlocksInv
<1>4. n \in Nat /\ n \in 0 .. n /\ (n # 0 => n \in 1 .. n)
  BY <1>2, PlacesAre
<1>5. z = End(Top, n) + 1 /\ AtCall(Top, "native")
  BY <1>2 DEF FrameRight
<1>6. End(Top, n) \in Nat
  BY <1>2, <1>4, EndIs
<1>7. IsFirstPart(t, Entry, valueStack, z - 1)
  <2>1. z - 1 \in 0 .. z
    BY <1>5, <1>6
  <2>2. QED
    BY <1>2, <2>1, Prefixed DEF Front
<1> HIDE DEF z, t, n
<1>8. t \in Seq(Entry) /\ Len(t) = End(Top, n) /\ \A p \in 1 .. Len(t) : t[p] = valueStack[p]
  <2>1. z - 1 = End(Top, n)
    BY <1>5, <1>6
  <2>2. QED
    BY <1>7, <2>1 DEF IsFirstPart
<1>9. AtCall(WithCode(Top, Code), "none")
  BY <1>2, <1>5 DEF AtCall
<1>10. n # 0 /\ Handles(Code[n]) => HandlerRight(t, WithCode(Top, Code), n)
  <2>1. SUFFICES ASSUME n # 0, Handles(Code[n]) PROVE HandlerRight(t, WithCode(Top, Code), n)
    OBVIOUS
  <2>2. n \in 1 .. Len(Top.code) /\ Handles(Top.code[n])
    BY <1>2, <1>4, <2>1 DEF n
  <2>3. HandlerRight(valueStack, Top, n)
    BY <1>2, <1>3, <2>2, HandlerOf
  <2>4. End(Top, n) \in 2 .. z
    BY <1>2, <1>3, <2>2, HandlerAt DEF z
  <2>5. End(Top, n) \in 1 .. Len(t) /\ End(Top, n) - 1 \in 1 .. Len(t)
    BY <1>6, <1>8, <2>4
  <2>6. t[End(Top, n)] = valueStack[End(Top, n)] /\ t[End(Top, n) - 1] = valueStack[End(Top, n) - 1]
    BY <1>8, <2>5
  <2>7. Len(Code) >= n /\ \A m \in 1 .. n : Code[m] = Top.code[m]
    BY <1>2, <1>4 DEF n
  <2>8. QED
    BY <1>2, <2>2, <2>3, <2>6, <2>7, HandlerKept
<1>11. \A p \in captured : p <= End(Top, n)
  BY <1>2, <1>3, KeptIn DEF n
<1>12. n # 0 => SamePlace(Code[n], Code[n])
  <2>1. n # 0 => Code[n] \in Place
    BY <1>2, <1>4, PlacesAre DEF n
  <2>2. QED
    BY <2>1 DEF SamePlace, Place
<1>13. "none" \in Callers \cup {"none"} /\ "none" # "native" /\ "none" # "host" /\ captured \subseteq captured
  OBVIOUS
<1>14. Len(Code) <= Len(Top.code) /\ \A l \in 1 .. Len(Code) - 1 : Code[l] = Top.code[l]
  BY <1>2, <1>4 DEF n
<1>15. Settled(active, t, "none", captured, valueStack, captured)
  <2>1. Len(Code) # 0 => /\ SamePlace(Top.code[Len(Code)], Code[Len(Code)])
                         /\ Width(Code[Len(Code)]) = Width(Top.code[Len(Code)])
                         /\ Handles(Code[Len(Code)]) <=> Handles(Top.code[Len(Code)])
    BY <1>2, <1>12 DEF n
  <2>2. Len(t) = End(Top, Len(Code)) /\ (\A p \in captured : p <= End(Top, Len(Code)))
    BY <1>8, <1>11 DEF n
  <2>3. \A p \in 1 .. Len(t) : p # Len(t) \/ Len(Code) = 0 \/ ~Handles(Code[Len(Code)]) => t[p] = valueStack[p]
    BY <1>8
  <2>4. Len(Code) # 0 /\ Handles(Code[Len(Code)]) => HandlerRight(t, WithCode(Top, Code), Len(Code))
    BY <1>10 DEF n
  <2>5. t \in Seq(Entry)
    BY <1>8
  <2> HIDE DEF Code, Top
  <2>6. QED
    BY <1>1, <1>2, <1>3, <1>9, <1>13, <1>14, <2>1, <2>2, <2>3, <2>4, <2>5, Shrunk
<1>16. QED
  BY <1>1, <1>15 DEF t

LEMMA BackInNativeRight ==
  ASSUME BlocksInv, BackInNative
  PROVE  Continues
<1> DEFINE t == Front(valueStack)
<1>1. back = "native"
  BY DEF BackInNative
<1>2. active # <<>> /\ Settled(active, t, "none", captured, valueStack, captured)
  BY <1>1, EndsNative
<1>3. /\ active \in Seq(FrameRecord) /\ Len(active) # 0 /\ Code \in Places
      /\ IsMoved(active, active, Len(active), Code)
  BY <1>2, TopIs
<1>4. exception \in Data
  BY DEF BlocksInv
<1>5. CASE exception # None
  <2>1. Throw(t, exception)
    BY <1>5 DEF BackInNative
  <2> HIDE DEF t
  <2>2. Layout(active, t, "none") /\ Kept(active, captured)
    BY <1>2 DEF Settled
  <2>3. Settled(active', valueStack', back', captured', t, captured) /\ exception' \in Data
    BY <1>3, <1>4, <2>1, <2>2, Throws
  <2>4. Settled(active', valueStack', back', captured', valueStack, captured)
    BY <1>2, <2>3, SettledOver
  <2>5. QED
    BY <2>3, <2>4 DEF Continues
<1>6. CASE exception = None
  <2>1. valueStack' = t /\ back' = "none" /\ active' = active /\ captured' = captured /\ exception' = exception
    BY <1>6 DEF BackInNative
  <2>2. QED
    BY <1>2, <1>4, <2>1 DEF Continues
<1>7. QED
  BY <1>5, <1>6

\* Nothing runs and nothing is left.
LEMMA Nothing ==
  ASSUME NEW s, NEW old
  PROVE  Settled(<<>>, <<>>, "none", {}, s, old)
<1>1. <<>> \in Seq(FrameRecord) /\ <<>> \in Seq(Entry) /\ DOMAIN <<>> = {}
  OBVIOUS
<1>2. Layout(<<>>, <<>>, "none")
  BY <1>1 DEF Layout
<1>3. QED
  BY <1>2 DEF Settled, Kept

LEMMA Idle ==
  ASSUME BlocksInv, active = <<>>
  PROVE  valueStack = <<>> /\ captured = {}
<1>1. valueStack = <<>> /\ Kept(<<>>, captured)
  BY DEF BlocksInv, Layout
<1>2. DOMAIN <<>> = {}
  OBVIOUS
<1>3. QED
  BY <1>1, <1>2 DEF Kept

LEMMA BackInHostRight ==
  ASSUME BlocksInv, BackInHost
  PROVE  Continues
<1>1. active = <<>>
  BY DEF BlocksInv, Layout, BackInHost
<1>2. valueStack = <<>> /\ captured = {}
  BY <1>1, Idle
<1>3. valueStack' = <<>> /\ captured' = {} /\ active' = <<>> /\ back' = "none" /\ exception' = None
  BY <1>1, <1>2 DEF BackInHost
<1>4. QED
  BY <1>3, Nothing, SimpleData DEF Continues

LEMMA InterpretRight ==
  ASSUME BlocksInv, Interpret
  PROVE  Continues
<1> DEFINE r == NewFrame(valueStack', "host", 1)
<1>1. active = <<>> /\ back = "none"
  BY DEF Interpret
<1>2. valueStack = <<>> /\ captured = {}
  BY <1>1, Idle
<1>3. /\ valueStack' = Append(<<>>, Callee) /\ active' = <<r>> /\ captured' = {}
      /\ exception' = exception /\ back' = "none"
  BY <1>1, <1>2 DEF Interpret
<1>4. valueStack' = <<Callee>> /\ Len(valueStack') = 1 /\ valueStack'[1] = Callee /\ valueStack' \in Seq(Entry)
  BY <1>3, SimpleData
<1>5. ArgumentsOf("host") = 0
  BY DEF ArgumentsOf
<1>6. r = [code |-> <<>>, slots |-> Len(valueStack') - ArgumentsOf("host"), out |-> Len(valueStack') - ArgumentsOf("host") - 1, by |-> "host"]
  BY DEF NewFrame
<1>7. r = [code |-> <<>>, slots |-> 1, out |-> 0, by |-> "host"]
  <2>1. Len(valueStack') - ArgumentsOf("host") = 1 /\ Len(valueStack') - ArgumentsOf("host") - 1 = 0
    BY <1>4, <1>5
  <2>2. QED
    BY <1>6, <2>1
<1> HIDE DEF r
<1>8. r.code = <<>> /\ r.slots = 1 /\ r.out = 0 /\ r.by = "host" /\ r \in FrameRecord
  BY <1>7 DEF FrameRecord, Places, Callers
<1>9. End(r, 0) = 1
  BY <1>5, <1>8, EndIs
<1>10. FrameRight(valueStack', r, 1, "none")
  <2>1. Len(r.code) = 0 /\ DOMAIN r.code = {}
    BY <1>8
  <2>2. AtCall(r, "none")
    BY <1>8 DEF AtCall, Entering
  <2>3. \A p \in r.out + 1 .. 1 : p = 1
    BY <1>8
  <2>4. valueStack'[1].op \notin HandlerOps
    BY <1>4, SimpleData, DataIs
  <2>5. 1 = End(r, Len(r.code)) + 0
    BY <1>9, <2>1
  <2>6. QED
    BY <1>8, <2>1, <2>2, <2>3, <2>4, <2>5 DEF FrameRight
<1> DEFINE F == <<r>>
<1>11. F \in Seq(FrameRecord) /\ Len(F) = 1 /\ F[1] = r /\ F # <<>> /\ 1 .. Len(F) = {1} /\ 1 .. Len(F) - 1 = {}
  BY <1>8
<1> HIDE DEF F
<1>12. Layout(F, valueStack', "none")
  <2>1. \A j \in 1 .. Len(F) : F[j].by = "host" <=> j = 1
    BY <1>8, <1>11
  <2>2. \A j, l \in 1 .. Len(F) : j < l => End(F[j], Len(F[j].code)) <= F[l].out
    BY <1>11
  <2>3. FrameRight(valueStack', F[Len(F)], Len(valueStack'), "none")
    BY <1>4, <1>10, <1>11
  <2>4. F[1].out = 0 /\ F[1].slots = 1 /\ "none" # "host"
    BY <1>8, <1>11
  <2>5. \A j \in 1 .. Len(F) - 1 : FrameRight(valueStack', F[j], F[j + 1].out, F[j + 1].by)
    BY <1>11
  <2>6. QED
    BY <1>4, <1>11, <2>1, <2>2, <2>3, <2>4, <2>5, LaysOut
<1>13. Settled(active', valueStack', back', captured', valueStack, captured)
  BY <1>3, <1>12 DEF Settled, Kept, F
<1>14. exception \in Data
  BY DEF BlocksInv
<1>15. QED
  BY <1>3, <1>13, <1>14 DEF Continues

LEMMA CaptureLocalRight ==
  ASSUME BlocksInv, Sound, CaptureLocal
  PROVE  Continues
<1>1. /\ AtStatement /\ active' = active /\ valueStack' = valueStack /\ exception' = exception /\ back' = back
      /\ \E i \in DOMAIN Code : /\ Code[i].k = "block"
                                /\ captured' = captured \cup {Top.slots + LocalCount([Top EXCEPT !.code = SubSeq(Code, 1, i)])}
  BY DEF CaptureLocal, Capturable, Sound
<1>2. PICK i \in DOMAIN Code : /\ Code[i].k = "block"
                               /\ captured' = captured \cup {Top.slots + LocalCount([Top EXCEPT !.code = SubSeq(Code, 1, i)])}
  BY <1>1
<1>3. active # <<>> /\ back = "none" /\ Layout(active, valueStack, "none") /\ Kept(active, captured) /\ exception \in Data
  BY <1>1, StatementIs
<1>4. /\ Code \in Places /\ Top \in FrameRecord /\ Top = active[Len(active)] /\ Top.code = Code
      /\ active \in Seq(FrameRecord) /\ Len(active) \in 1 .. Len(active)
  BY <1>3, TopIs
<1>5. i \in 1 .. Len(Code) /\ Len(Code) \in Nat
  BY <1>4, PlacesAre
<1> DEFINE g == [Top EXCEPT !.code = SubSeq(Code, 1, i)]
           p == Top.slots + LocalCount(g)
<1>6. p = End(Top, i)
  <2>1. g.by = Top.by /\ g.code = SubSeq(Code, 1, i)
    BY <1>4 DEF FrameRecord
  <2> HIDE DEF g
  <2>2. LocalCount(g) = ArgumentsOf(Top.by) + Wide(Code, i)
    BY <2>1 DEF LocalCount, Wide
  <2>3. ArgumentsOf(Top.by) \in Nat /\ Top.slots \in Nat /\ Wide(Code, i) \in Nat
    <3>1. i \in 0 .. Len(Code)
      BY <1>5
    <3>2. QED
      BY <1>4, <3>1, FrameIs, WideIs
  <2>4. Top.slots + (ArgumentsOf(Top.by) + Wide(Code, i)) = Top.slots + ArgumentsOf(Top.by) + Wide(Code, i)
    BY <2>3
  <2>5. QED
    BY <1>4, <2>2, <2>4 DEF End
<1>7. captured' = captured \cup {p}
  BY <1>2
<1> HIDE DEF p
<1>8. Kept(active, captured')
  <2>1. DOMAIN active = 1 .. Len(active)
    BY <1>4
  <2>2. \E j \in DOMAIN active : \E m \in DOMAIN active[j].code : active[j].code[m].k = "block" /\ p = End(active[j], m)
    BY <1>2, <1>4, <1>6, <2>1
  <2>3. QED
    BY <1>3, <1>7, <2>2 DEF Kept
<1>9. \A q \in captured : q \in DOMAIN valueStack
  BY <1>3, KeptIn
<1>10. Settled(active', valueStack', back', captured', valueStack, captured)
  BY <1>1, <1>3, <1>8, <1>9 DEF Settled
<1>11. QED
  BY <1>1, <1>3, <1>10 DEF Continues

\* The code goes on in the body of the with statement, the handler on top.
LEMMA EntersBody ==
  ASSUME BlocksInv, back = "enter"
  PROVE  /\ active # <<>> /\ At(Code, "body") \in Places
         /\ IsMoved(AtPlace(At(Code, "body")), active, Len(active), At(Code, "body"))
         /\ Settled(AtPlace(At(Code, "body")), valueStack \o <<None, NewHandler("PUSH_WITH", At(Code, "cleanup"))>>,
                    "none", captured, valueStack, captured)
<1> DEFINE to == At(Code, "cleanup")
           c == At(Code, "body")
           h == NewHandler("PUSH_WITH", to)
           y == <<None, h>>
           s == valueStack \o y
           z == Len(valueStack)
           u == SubSeq(valueStack, 1, z - 1)
           n == Len(Code)
           x == c[n]
           d == Front(Code)
           F == AtPlace(d)
           f == F[Len(F)]
<1>1. active # <<>>
  BY SomeActive
<1>2. /\ active \in Seq(FrameRecord) /\ Len(active) \in Nat /\ Len(active) # 0 /\ Len(active) \in 1 .. Len(active)
      /\ Top \in FrameRecord /\ Top = active[Len(active)] /\ Top.code = Code /\ Code \in Places
      /\ valueStack \in Seq(Entry) /\ z \in Nat
      /\ FrameRight(valueStack, Top, z, "enter")
  BY <1>1, TopIs
<1>3. Entering(Code)
  BY <1>2 DEF FrameRight, AtCall
<1>4. Code # <<>> /\ Inner.k = "with" /\ Inner.part = "enter" /\ Inner = Code[n]
  BY <1>3 DEF Entering, Inner
<1>5. n \in Nat /\ n # 0 /\ n \in 1 .. n /\ Inner \in Place
  BY <1>1, <1>4, InnerIs
<1>6. Width(Inner) = 1 /\ ~Handles(Inner) /\ Inner.k # "block"
  BY <1>4 DEF Width, Handles
<1>7. /\ z - 1 \in 0 .. z /\ (\A p \in z - 1 + 1 .. z : valueStack[p] \in Data)
      /\ \A p \in captured : p <= z - 1
  <2>1. /\ z - Width(Inner) \in 0 .. z
        /\ \A p \in z - Width(Inner) + 1 .. z : p # z \/ ~Handles(Inner) => valueStack[p] \in Data
        /\ Inner.k # "block" => \A p \in captured : p <= z - Width(Inner)
    BY <1>1, <1>4, InnerSlots
  <2>2. QED
    BY <1>6, <2>1
<1>8. IsAt(c, Code, "body") /\ IsAt(to, Code, "cleanup")
  BY <1>2, <1>4, <1>5, OtherParts, PartIs
<1>9. c \in Places /\ to \in Places /\ d \in Places
  BY <1>2, <1>4, <1>8, FrontIs DEF IsAt
<1>10. IsMoved(AtPlace(c), active, Len(active), c) /\ IsMoved(F, active, Len(active), d)
  BY <1>2, <1>9, Going DEF AtPlace
<1>11. IsFirstPart(u, Entry, valueStack, z - 1)
  BY <1>2, <1>7, Prefixed
<1>12. h \in Entry /\ h.op = "PUSH_WITH" /\ h.to = to /\ "PUSH_WITH" \in HandlerOps
  BY <1>9, NewHandlerIs DEF HandlerOps, Catching, Interrupting
<1> HIDE DEF h
<1>13. y \in Seq(Entry) /\ Len(y) = 2 /\ y[1] = None /\ y[2] = h
  BY <1>12, SimpleData
<1>14. IsPiled(s, valueStack, y)
  BY <1>2, <1>13, Piled
<1> HIDE DEF s, y, u, F
<1>15. Settled(F, u, "none", captured, valueStack, captured) /\ (d # <<>> => d[Len(d)].part \in Inside)
  <2>1. z - Width(Inner) = z - 1
    BY <1>6
  <2>2. IsFirstPart(u, Entry, valueStack, Len(valueStack) - Width(Inner)) /\ \A p \in captured : p <= Len(valueStack) - Width(Inner)
    BY <1>7, <1>11, <2>1
  <2>3. back # "native" /\ captured \subseteq captured
    OBVIOUS
  <2>4. QED
    BY <1>1, <1>4, <1>10, <2>2, <2>3, Leaves
<1>16. Layout(F, u, "none") /\ Kept(F, captured)
  BY <1>15 DEF Settled
<1>17. /\ Len(u) = z - 1 /\ Len(u) \in Nat /\ \A p \in 1 .. z - 1 : u[p] = valueStack[p]
  BY <1>7, <1>11 DEF IsFirstPart
<1>18. /\ s \in Seq(Entry) /\ Len(s) = z + 2 /\ (\A p \in 1 .. z : s[p] = valueStack[p])
       /\ s[z + 1] = None /\ s[z + 2] = h
  BY <1>13, <1>14 DEF IsPiled
<1>19. F \in Seq(FrameRecord) /\ Len(F) = Len(active) /\ f = WithCode(Top, d) /\ f.code = d /\ f \in FrameRecord
  <2>1. F \in Seq(FrameRecord) /\ Len(F) = Len(active) /\ f = WithCode(Top, d)
    BY <1>2, <1>10 DEF IsMoved
  <2>2. WithCode(Top, d) \in FrameRecord /\ WithCode(Top, d).code = d
    BY <1>2, <1>9, WithCodeIs
  <2>3. QED
    BY <2>1, <2>2
<1>20. x \in Place /\ x = [Inner EXCEPT !.part = "body"] /\ Len(c) = n /\ (\A l \in 1 .. n - 1 : c[l] = Code[l])
  BY <1>4, <1>8 DEF IsAt
<1>21. x.k = "with" /\ x.part = "body" /\ Width(x) = 3 /\ Handles(x)
  <2>1. x.k = "with" /\ x.part = "body"
    BY <1>4, <1>5, <1>20 DEF Place
  <2>2. QED
    BY <2>1 DEF Width, Handles
<1>22. /\ to[n].k = "with" /\ to[n].part = "cleanup" /\ Len(to) = n /\ (\A l \in 1 .. n - 1 : to[l] = Code[l])
       /\ to[n] \in Place /\ SamePlace(Inner, to[n])
  <2>1. to[n] = [Inner EXCEPT !.part = "cleanup"]
    BY <1>4, <1>8 DEF IsAt
  <2>2. to[n].k = "with" /\ to[n].part = "cleanup"
    BY <1>4, <1>5, <2>1 DEF Place
  <2>3. QED
    BY <1>4, <1>8, <2>2 DEF IsAt
<1> HIDE DEF c, to, x, d
<1>23. Len(d) = n - 1 /\ n - 1 \in Nat /\ \A l \in 1 .. n - 1 : d[l] = Code[l]
  BY <1>2, <1>4, FrontIs DEF d
<1>24. IsAppended(c, Place, d, x)
  <2>1. c \in Seq(Place)
    BY <1>9 DEF Places
  <2>2. Len(c) = Len(d) + 1 /\ Len(d) + 1 = n
    BY <1>5, <1>20, <1>23
  <2>3. \A l \in 1 .. Len(d) : c[l] = d[l]
    BY <1>20, <1>23
  <2>4. c[Len(d) + 1] = x
    BY <2>2 DEF x
  <2>5. QED
    BY <2>1, <2>2, <2>3, <2>4 DEF IsAppended
<1> HIDE DEF f
<1>25. WithCode(f, c).code = c /\ WithCode(f, c).by = f.by
  BY <1>9, <1>19, WithCodeIs
<1>26. Len(s) = Len(u) + Width(x)
  <2>1. Len(u) + 3 = z + 2
    BY <1>2, <1>17
  <2>2. QED
    BY <1>18, <1>21, <2>1
<1>27. End(WithCode(f, c), Len(c)) = Len(s)
  <2>1. F # <<>> /\ Len(F) \in Nat
    <3>1. Len(F) # 0 /\ Len(F) \in Nat
      BY <1>2, <1>19
    <3>2. QED
      BY <1>16, <3>1, LayoutIs
  <2>2. FrameRight(u, f, Len(u), "none")
    BY <1>16, <2>1, LayoutIs DEF f
  <2>3. Len(u) = End(f, Len(f.code)) + 0
    BY <2>2 DEF FrameRight
  <2>4. End(f, Len(f.code)) \in Nat
    <3>1. Len(f.code) \in 0 .. Len(f.code)
      BY <1>19, FrameIs
    <3>2. QED
      BY <1>19, <3>1, EndIs
  <2>5. End(WithCode(f, c), Len(c)) = End(f, Len(f.code)) + Width(x)
    BY <1>9, <1>19, <1>20, <1>24, GrownEnd DEF x
  <2>6. QED
    BY <1>26, <2>3, <2>4, <2>5
<1>28. HandlerRight(s, WithCode(f, c), Len(c))
  <2>1. Len(s) = z + 2 /\ s[Len(s)] = h
    BY <1>18
  <2>2. SamePlace(x, to[n])
    <3>1. SamePlace(Inner, x)
      BY <1>5, <1>20, <1>21 DEF SamePlace, Place
    <3>2. QED
      BY <1>5, <1>20, <1>22, <3>1, SamePlaceTwice
  <2>3. \A l \in 1 .. n - 1 : to[l] = c[l]
    BY <1>20, <1>22
  <2>4. Agree(to, c, n)
    BY <1>22, <2>2, <2>3 DEF Agree, x
  <2>5. StaysAt(c, n, h)
    BY <1>12, <1>22, <2>4 DEF StaysAt, Handles, Leaving
  <2>6. h.op # "EXIT_LOOP" /\ h.op # "RETURN" /\ h.op \in HandlerOps
    BY <1>12
  <2>7. QED
    BY <1>20, <1>25, <1>27, <2>1, <2>5, <2>6 DEF HandlerRight
<1>29. AtCall(WithCode(f, c), "none")
  <2>1. c[Len(c)] = x
    BY <1>20 DEF x
  <2>2. QED
    BY <1>21, <1>25, <2>1 DEF AtCall, Entering
<1>30. \A p \in 1 .. Len(u) : s[p] = u[p]
  <2>1. \A p \in 1 .. Len(u) : p \in 1 .. z
    BY <1>2, <1>17
  <2>2. QED
    BY <1>17, <1>18, <2>1
<1>31. \A p \in Len(u) + 1 .. Len(s) : s[p] \in Data \/ (p = Len(s) /\ Handles(x))
  <2>1. \A p \in Len(u) + 1 .. Len(s) : p = z \/ p = z + 1 \/ p = Len(s)
    BY <1>2, <1>17, <1>18
  <2>2. z \in z - 1 + 1 .. z /\ (z \in Len(u) + 1 .. Len(s) => z \in 1 .. z)
    BY <1>2, <1>17
  <2>3. valueStack[z] \in Data
    BY <1>7, <2>2
  <2>4. s[z + 1] \in Data
    BY <1>18, SimpleData
  <2>5. z \in Len(u) + 1 .. Len(s) => s[z] \in Data
    BY <1>18, <2>2, <2>3
  <2>6. QED
    BY <1>21, <2>1, <2>4, <2>5
<1>32. IsMoved(AtPlace(c), F, Len(F), c)
  <2>1. IsMoved(AtPlace(c), F, Len(active), c)
    BY <1>2, <1>9, <1>10, MovedTwice
  <2>2. QED
    BY <1>19, <2>1
<1>33. Settled(AtPlace(c), s, "none", captured, u, captured)
  <2>1. F # <<>>
    BY <1>2, <1>16, <1>19, LayoutIs
  <2>2. f = F[Len(F)]
    BY DEF f
  <2>3. "none" \in Callers \cup {"none"} /\ "none" # "native" /\ "none" # "host"
    OBVIOUS
  <2>4. f.code # <<>> => f.code[Len(f.code)].part \in Inside
    BY <1>15, <1>19
  <2>5. IsAppended(c, Place, f.code, x)
    BY <1>19, <1>24
  <2>6. Handles(x) => HandlerRight(s, WithCode(f, c), Len(c))
    BY <1>28
  <2>7. x \in Place /\ c \in Places /\ s \in Seq(Entry)
    BY <1>9, <1>18, <1>20
  <2>8. QED
    BY <1>16, <1>26, <1>29, <1>30, <1>31, <1>32, <2>1, <2>2, <2>3, <2>4, <2>5, <2>6, <2>7, Grown
<1>34. Settled(AtPlace(c), s, "none", captured, valueStack, captured)
  BY <1>15, <1>33, SettledOver
<1>35. QED
  BY <1>1, <1>9, <1>10, <1>34 DEF c, s, y, h, to

LEMMA BackInEnterRight ==
  ASSUME BlocksInv, BackInEnter
  PROVE  Continues
<1> DEFINE c == At(Code, "body")
           F == AtPlace(c)
           s == valueStack \o <<None, NewHandler("PUSH_WITH", At(Code, "cleanup"))>>
<1>1. back = "enter"
  BY DEF BackInEnter
<1>2. /\ active # <<>> /\ c \in Places /\ IsMoved(F, active, Len(active), c)
      /\ Settled(F, s, "none", captured, valueStack, captured)
  BY <1>1, EntersBody
<1>3. active \in Seq(FrameRecord) /\ Len(active) # 0
  BY <1>2, TopIs
<1>4. exception \in Data
  BY DEF BlocksInv
<1>5. IF exception # None THEN Throw(s, exception)
      ELSE valueStack' = s /\ active' = F /\ back' = "none" /\ captured' = captured /\ exception' = exception
  BY DEF BackInEnter, Goto, AtPlace
<1> HIDE DEF c, F, s
<1>6. CASE exception # None
  <2>1. Throw(s, exception)
    BY <1>5, <1>6
  <2>2. Layout(F, s, "none") /\ Kept(F, captured)
    BY <1>2 DEF Settled
  <2>3. Settled(active', valueStack', back', captured', s, captured) /\ exception' \in Data
    BY <1>2, <1>3, <1>4, <2>1, <2>2, Throws
  <2>4. Settled(active', valueStack', back', captured', valueStack, captured)
    BY <1>2, <2>3, SettledOver
  <2>5. QED
    BY <2>3, <2>4 DEF Continues
<1>7. CASE exception = None
  BY <1>2, <1>4, <1>5, <1>7 DEF Continues
<1>8. QED
  BY <1>6, <1>7

LEMMA BackInExitRight ==
  ASSUME BlocksInv, BackInExit
  PROVE  Continues
<1> DEFINE op == Last(valueStack).op
           pending == valueStack[Len(valueStack) - 1]
           t == SubSeq(valueStack, 1, Len(valueStack) - 2)
           F == AtPlace(Front(Code))
<1>1. back = "exit"
  BY DEF BackInExit
<1>2. active # <<>>
  BY <1>1, SomeActive
<1>3. /\ active \in Seq(FrameRecord) /\ Len(active) # 0
      /\ Top \in FrameRecord /\ Top.code = Code /\ Code \in Places
      /\ valueStack \in Seq(Entry) /\ Len(valueStack) \in Nat
      /\ FrameRight(valueStack, Top, Len(valueStack), "exit")
  BY <1>1, <1>2, TopIs
<1>4. Code # <<>> /\ Inner.k = "with" /\ Inner.part = "cleanup"
  BY <1>3 DEF FrameRight, AtCall, Inner
<1>5. Handles(Inner) /\ Inner.part # "enter"
  BY <1>4 DEF Handles
<1>6. exception \in Data
  BY DEF BlocksInv
<1>7. /\ HandlerRight(valueStack, Top, Len(Code)) /\ End(Top, Len(Code)) = Len(valueStack)
      /\ Len(valueStack) \in 2 .. Len(valueStack) /\ pending \in Data
  BY <1>1, <1>2, <1>4, <1>5, EndOfCode
<1>8. IsFirstPart(t, Entry, valueStack, Len(valueStack) - 2)
  <2>1. Len(valueStack) - 2 \in 0 .. Len(valueStack)
    BY <1>3, <1>7
  <2>2. QED
    BY <1>3, <2>1, Prefixed
<1>9. Front(Code) \in Places
  BY <1>3, <1>4, FrontIs
<1>10. IsMoved(F, active, Len(active), Front(Code))
  BY <1>3, <1>9, Going DEF AtPlace
<1>11. Settled(F, t, "native", captured, valueStack, captured)
  BY <1>1, <1>2, <1>4, <1>5, <1>8, <1>10, LeavesManager
<1>12. Layout(F, t, "native") /\ Kept(F, captured)
  BY <1>11 DEF Settled
<1>13. IF exception # None THEN Throw(valueStack, exception)
       ELSE (CASE op = "CLEANUP_WITH" -> Throw(t, pending)
               [] op = "EXIT_LOOP" -> ExitLoop(valueStack, pending.n, Last(valueStack).to)
               [] op = "RETURN" -> Finish(t, pending)
               [] OTHER -> /\ Goto(At(Code, "out")) /\ back' = "none"
                           /\ valueStack' = valueStack /\ captured' = captured /\ exception' = exception)
  BY DEF BackInExit, ThrowPending
<1> HIDE DEF op, pending, t, F
<1>14. CASE exception # None
  BY <1>2, <1>6, <1>13, <1>14, ThrowsNow
<1>15. CASE exception = None /\ op = "CLEANUP_WITH"
  <2>1. Throw(t, pending)
    BY <1>13, <1>15
  <2>2. Settled(active', valueStack', back', captured', t, captured) /\ exception' \in Data
    BY <1>3, <1>7, <1>9, <1>10, <1>12, <2>1, Throws
  <2>3. Settled(active', valueStack', back', captured', valueStack, captured)
    BY <1>11, <2>2, SettledOver
  <2>4. QED
    BY <2>2, <2>3 DEF Continues
<1>16. CASE exception = None /\ op = "EXIT_LOOP"
  <2>1. ExitLoop(valueStack, valueStack[Len(valueStack) - 1].n, Last(valueStack).to)
    BY <1>13, <1>16 DEF pending
  <2>2. Last(valueStack).op = "EXIT_LOOP" /\ back # "native"
    BY <1>1, <1>16 DEF op
  <2>3. QED
    BY <1>2, <1>4, <1>5, <2>1, <2>2, ExitsAgain
<1>17. CASE exception = None /\ op = "RETURN"
  <2>1. Finish(t, pending)
    BY <1>13, <1>17
  <2>2. Top.by # "host"
    BY <1>7, <1>17 DEF HandlerRight, Last, op
  <2>3. Settled(active', valueStack', back', captured', t, captured) /\ exception' \in Data
    BY <1>3, <1>6, <1>7, <1>9, <1>10, <1>12, <2>1, <2>2, Finishes
  <2>4. Settled(active', valueStack', back', captured', valueStack, captured)
    BY <1>11, <2>3, SettledOver
  <2>5. QED
    BY <2>3, <2>4 DEF Continues
<1>18. CASE exception = None /\ op \notin {"CLEANUP_WITH", "EXIT_LOOP", "RETURN"}
  <2>1. /\ Goto(At(Code, "out")) /\ back' = "none"
        /\ valueStack' = valueStack /\ captured' = captured /\ exception' = exception
    BY <1>13, <1>18
  <2>2. "out" \in Parts(Inner.k) /\ "out" \in Leaving /\ "out" # "enter" /\ back # "native"
    BY <1>1, <1>4, OtherParts DEF Leaving
  <2>3. QED
    BY <1>2, <1>4, <1>5, <2>1, <2>2, StepsOn
<1>19. QED
  BY <1>14, <1>15, <1>16, <1>17, <1>18

LEMMA StepRight ==
  ASSUME BlocksInv, Sound, BlocksNext
  PROVE  Continues
<1>1. CASE Interpret
  BY <1>1, InterpretRight
<1>2. CASE BackInHost
  BY <1>2, BackInHostRight
<1>3. CASE CallFunction
  BY <1>3, CallFunctionRight
<1>4. CASE CallOfNative
  BY <1>4, CallOfNativeRight
<1>5. CASE BackInNative
  BY <1>5, BackInNativeRight
<1>6. CASE Block
  BY <1>6, BlockRight
<1>7. CASE CaptureLocal
  BY <1>7, CaptureLocalRight
<1>8. CASE TryStatement
  BY <1>8, TryStatementRight
<1>9. CASE With
  BY <1>9, WithRight
<1>10. CASE BackInEnter
  BY <1>10, BackInEnterRight
<1>11. CASE Loop
  BY <1>11, LoopRight
<1>12. CASE RaiseStatement
  BY <1>12, RaiseStatementRight
<1>13. CASE ReturnStatement
  BY <1>13, ReturnStatementRight
<1>14. CASE Break
  BY <1>14, BreakRight
<1>15. CASE Continue
  BY <1>15, ContinueRight
<1>16. CASE TryBodyEnds
  BY <1>16, TryBodyEndsRight
<1>17. CASE EnterExcept
  BY <1>17, EnterExceptRight
<1>18. CASE FilterExcept
  BY <1>18, FilterExceptRight
<1>19. CASE BeginFinally
  BY <1>19, BeginFinallyRight
<1>20. CASE FinallyEnds
  BY <1>20, FinallyEndsRight
<1>21. CASE EndFinally
  BY <1>21, EndFinallyRight
<1>22. CASE WithBodyEnds
  BY <1>22, WithBodyEndsRight
<1>23. CASE CleanupWith
  BY <1>23, CleanupWithRight
<1>24. CASE BackInExit
  BY <1>24, BackInExitRight
<1>25. CASE LoopTest
  BY <1>25, LoopTestRight
<1>26. CASE LoopBodyEnds
  BY <1>26, LoopBodyEndsRight
<1>27. CASE BlockEnds
  BY <1>27, BlockEndsRight
<1>28. CASE EndScope
  BY <1>28, EndScopeRight
<1>29. QED
  BY <1>1, <1>2, <1>3, <1>4, <1>5, <1>6, <1>7, <1>8, <1>9, <1>10, <1>11, <1>12, <1>13, <1>14,
     <1>15, <1>16, <1>17, <1>18, <1>19, <1>20, <1>21, <1>22, <1>23, <1>24, <1>25, <1>26, <1>27, <1>28
  DEF BlocksNext

LEMMA InitRight ==
  ASSUME BlocksInit
  PROVE  BlocksInv
<1>1. active = <<>> /\ valueStack = <<>> /\ captured = {} /\ exception = None /\ back = "none"
  BY DEF BlocksInit
<1>2. Settled(active, valueStack, back, captured, valueStack, captured)
  BY <1>1, Nothing
<1>3. exception \in Data
  BY <1>1, SimpleData
<1>4. QED
  BY <1>2, <1>3 DEF Settled, BlocksInv

LEMMA NextRight ==
  ASSUME BlocksInv, Sound, [BlocksNext]_blockVars
  PROVE  BlocksInv'
<1>1. CASE BlocksNext
  <2>1. Settled(active', valueStack', back', captured', valueStack, captured) /\ exception' \in Data
    BY <1>1, StepRight DEF Continues
  <2>2. Layout(active', valueStack', back') /\ back' \in Callers \cup {"none"} /\ Kept(active', captured')
    BY <2>1 DEF Settled
  <2>3. QED
    BY <2>1, <2>2 DEF BlocksInv
<1>2. CASE UNCHANGED blockVars
  <2>1. active' = active /\ valueStack' = valueStack /\ captured' = captured /\ exception' = exception /\ back' = back
    BY <1>2 DEF blockVars
  <2>2. QED
    BY <2>1 DEF BlocksInv
<1>3. QED
  BY <1>1, <1>2

-----------------------------------------------------------------------------
(* What the invariant means.                                               *)

LEMMA EndOfLocalsIs ==
  ASSUME BlocksInv, NEW j \in DOMAIN active
  PROVE  /\ active[j] \in FrameRecord /\ j \in 1 .. Len(active) /\ DOMAIN active[j].code = 1 .. Len(active[j].code)
         /\ \A i \in 0 .. Len(active[j].code) : EndOfLocals(j, i) = End(active[j], i)
<1> DEFINE f == active[j]
<1>1. j \in 1 .. Len(active) /\ f \in FrameRecord
  BY LayoutIs DEF BlocksInv
<1>2. f.code \in Places /\ DOMAIN f.code = 1 .. Len(f.code)
  BY <1>1, FrameIs
<1>3. ASSUME NEW i \in 0 .. Len(f.code) PROVE EndOfLocals(j, i) = End(f, i)
  <2> DEFINE g == [f EXCEPT !.code = SubSeq(@, 1, i)]
  <2>1. g.by = f.by /\ g.code = SubSeq(f.code, 1, i)
    BY <1>1 DEF FrameRecord
  <2>2. EndOfLocals(j, i) = f.slots + LocalCount(g)
    BY DEF EndOfLocals
  <2> HIDE DEF g, f
  <2>3. LocalCount(g) = ArgumentsOf(f.by) + Wide(f.code, i)
    BY <2>1 DEF LocalCount, Wide
  <2>4. ArgumentsOf(f.by) \in Nat /\ f.slots \in Nat /\ Wide(f.code, i) \in Nat
    BY <1>1, <1>2, FrameIs, WideIs
  <2>5. f.slots + (ArgumentsOf(f.by) + Wide(f.code, i)) = f.slots + ArgumentsOf(f.by) + Wide(f.code, i)
    BY <2>4
  <2>6. QED
    BY <2>2, <2>3, <2>5 DEF End
<1>4. QED
  BY <1>1, <1>2, <1>3

LEMMA HeightsRight ==
  ASSUME BlocksInv
  PROVE  HeightsAsCompiled
<1>1. ASSUME NEW j \in DOMAIN active
      PROVE  LET inner == j = Len(active)
                 by == IF inner THEN back ELSE active[j + 1].by
             IN (IF inner THEN Len(valueStack) ELSE active[j + 1].out)
                  = EndOfLocals(j, Len(active[j].code)) + (IF by = "native" THEN 1 ELSE 0)
  <2>1. active[j] \in FrameRecord /\ EndOfLocals(j, Len(active[j].code)) = End(active[j], Len(active[j].code))
    <3>1. Len(active[j].code) \in 0 .. Len(active[j].code)
      BY EndOfLocalsIs, FrameIs
    <3>2. QED
      BY <3>1, EndOfLocalsIs
  <2>2. CASE j = Len(active)
    <3>1. FrameRight(valueStack, active[j], Len(valueStack), back)
      BY <2>2 DEF BlocksInv, Layout
    <3>2. Len(valueStack) = End(active[j], Len(active[j].code)) + (IF back = "native" THEN 1 ELSE 0)
      BY <3>1 DEF FrameRight
    <3>3. QED
      BY <2>1, <2>2, <3>2
  <2>3. CASE j # Len(active)
    <3>1. FrameRight(valueStack, active[j], active[j + 1].out, active[j + 1].by)
      BY <2>3 DEF BlocksInv, Layout
    <3>2. active[j + 1].out = End(active[j], Len(active[j].code)) + (IF active[j + 1].by = "native" THEN 1 ELSE 0)
      BY <3>1 DEF FrameRight
    <3>3. QED
      BY <2>1, <2>3, <3>2
  <2>4. QED
    BY <2>2, <2>3
<1>2. QED
  BY <1>1 DEF HeightsAsCompiled

LEMMA HandlersRight ==
  ASSUME BlocksInv
  PROVE  HandlersInPlace
<1> DEFINE own == {o \in Nested : o[2] \in Handled(active[o[1]].code)}
<1>1. Layout(active, valueStack, back)
  BY DEF BlocksInv
<1>2. DOMAIN active = 1 .. Len(active) /\ DOMAIN valueStack = 1 .. Len(valueStack) /\ Len(valueStack) \in Nat
  BY <1>1, LayoutIs
<1>3. ASSUME NEW j \in DOMAIN active, NEW i \in DOMAIN active[j].code
      PROVE  <<j, i>> \in own <=> Handles(active[j].code[i])
  BY DEF Nested, Handled, Handles
<1>4. ASSUME NEW o \in own
      PROVE  \E j \in DOMAIN active : \E i \in DOMAIN active[j].code : o = <<j, i>> /\ Handles(active[j].code[i])
  <2>1. o \in Nested /\ o[2] \in Handled(active[o[1]].code)
    OBVIOUS
  <2>2. PICK j \in DOMAIN active : \E i \in DOMAIN active[j].code : o = <<j, i>>
    BY <2>1 DEF Nested
  <2>3. PICK i \in DOMAIN active[j].code : o = <<j, i>>
    BY <2>2
  <2>4. o[1] = j /\ o[2] = i
    BY <2>3
  <2>5. Handles(active[j].code[i])
    BY <2>1, <2>4 DEF Handled, Handles
  <2>6. QED
    BY <2>3, <2>5
<1> HIDE DEF own
<1>5. ASSUME NEW j \in DOMAIN active, NEW i \in DOMAIN active[j].code, Handles(active[j].code[i])
      PROVE  /\ EndOfLocals(j, i) = End(active[j], i)
             /\ EndOfLocals(j, i) \in DOMAIN valueStack /\ valueStack[EndOfLocals(j, i)].op \in HandlerOps
             /\ valueStack[EndOfLocals(j, i)].op # "EXIT_LOOP" =>
                  /\ Front(valueStack[EndOfLocals(j, i)].to) = SubSeq(active[j].code, 1, i - 1)
                  /\ [Last(valueStack[EndOfLocals(j, i)].to) EXCEPT !.part = active[j].code[i].part] = active[j].code[i]
  <2> DEFINE f == active[j]
             code == f.code
             p == End(f, i)
             to == valueStack[p].to
  <2>1. f \in FrameRecord /\ j \in 1 .. Len(active) /\ i \in 1 .. Len(code) /\ Len(code) \in Nat /\ code \in Places
    BY EndOfLocalsIs, FrameIs
  <2>2. i \in 0 .. Len(code)
    BY <2>1
  <2>3. EndOfLocals(j, i) = p
    BY <2>2, EndOfLocalsIs
  <2>4. HandlerRight(valueStack, f, i) /\ p \in 2 .. Len(valueStack) /\ valueStack[p].op \in HandlerOps /\ to \in Places
    BY <1>1, <1>5, <2>1, HandlerAt
  <2>5. p \in DOMAIN valueStack
    BY <1>2, <2>4
  <2>6. ASSUME valueStack[p].op # "EXIT_LOOP"
        PROVE  Front(to) = SubSeq(code, 1, i - 1) /\ [Last(to) EXCEPT !.part = code[i].part] = code[i]
    <3>1. StaysAt(code, i, valueStack[p])
      BY <2>4, <2>6 DEF HandlerRight
    <3>2. Len(to) = i /\ (\A l \in 1 .. i - 1 : to[l] = code[l]) /\ SamePlace(code[i], to[i])
      BY <3>1 DEF StaysAt, Agree
    <3> HIDE DEF code, to, f
    <3>3. code[i] \in Place /\ to[i] \in Place
      BY <2>1, <2>4, <3>2, PlacesAre
    <3>4. Last(to) = to[i]
      BY <3>2 DEF Last
    <3>5. [to[i] EXCEPT !.part = code[i].part] = code[i]
      <4>1. to[i] = [code[i] EXCEPT !.part = to[i].part]
        BY <3>2 DEF SamePlace
      <4>2. QED
        BY <3>3, <4>1 DEF Place
    <3>6. Front(to) = SubSeq(code, 1, i - 1)
      <4>1. i - 1 \in 0 .. Len(code) /\ i - 1 \in 0 .. Len(to)
        BY <2>1, <3>2
      <4>2. IsFirstPart(SubSeq(to, 1, i - 1), Place, to, i - 1) /\ IsFirstPart(SubSeq(code, 1, i - 1), Place, code, i - 1)
        BY <2>1, <2>4, <4>1, Prefixed DEF Places
      <4>3. SubSeq(to, 1, i - 1) = SubSeq(code, 1, i - 1)
        <5> DEFINE a == SubSeq(to, 1, i - 1)
                   b == SubSeq(code, 1, i - 1)
        <5>1. a \in Seq(Place) /\ b \in Seq(Place) /\ Len(a) = i - 1 /\ Len(b) = i - 1
          BY <4>2 DEF IsFirstPart
        <5>2. \A l \in 1 .. i - 1 : a[l] = b[l]
          BY <3>2, <4>2 DEF IsFirstPart
        <5> HIDE DEF a, b
        <5>3. a = b
          BY <5>1, <5>2, SameSeq
        <5>4. QED
          BY <5>3 DEF a, b
      <4>4. QED
        BY <3>2, <4>3 DEF Front
    <3>7. QED
      BY <3>4, <3>5, <3>6
  <2> HIDE DEF p, to, code, f
  <2>7. QED
    BY <2>3, <2>4, <2>5, <2>6 DEF p, to, code, f
<1>6. ASSUME NEW o \in own
      PROVE  /\ EndOfLocals(o[1], o[2]) \in DOMAIN valueStack /\ valueStack[EndOfLocals(o[1], o[2])].op \in HandlerOps
             /\ valueStack[EndOfLocals(o[1], o[2])].op # "EXIT_LOOP" =>
                  /\ Front(valueStack[EndOfLocals(o[1], o[2])].to) = SubSeq(active[o[1]].code, 1, o[2] - 1)
                  /\ [Last(valueStack[EndOfLocals(o[1], o[2])].to) EXCEPT !.part = active[o[1]].code[o[2]].part]
                       = active[o[1]].code[o[2]]
  <2>1. PICK j \in DOMAIN active : \E i \in DOMAIN active[j].code : o = <<j, i>> /\ Handles(active[j].code[i])
    BY <1>4
  <2>2. PICK i \in DOMAIN active[j].code : o = <<j, i>> /\ Handles(active[j].code[i])
    BY <2>1
  <2>3. o[1] = j /\ o[2] = i
    BY <2>2
  <2>4. QED
    BY <1>5, <2>2, <2>3
<1>7. ASSUME NEW p \in DOMAIN valueStack, valueStack[p].op \in HandlerOps
      PROVE  \E o \in own : p = EndOfLocals(o[1], o[2])
  <2>1. p \in 1 .. Len(valueStack)
    BY <1>2
  <2>2. PICK j \in 1 .. Len(active) : \E i \in 1 .. Len(active[j].code) : Handles(active[j].code[i]) /\ p = End(active[j], i)
    BY <1>1, <1>7, <2>1, Owner
  <2>3. PICK i \in 1 .. Len(active[j].code) : Handles(active[j].code[i]) /\ p = End(active[j], i)
    BY <2>2
  <2>4. j \in DOMAIN active /\ i \in DOMAIN active[j].code
    BY <1>2, EndOfLocalsIs
  <2>5. <<j, i>> \in own /\ p = EndOfLocals(j, i)
    BY <1>3, <1>5, <2>3, <2>4
  <2> DEFINE o == <<j, i>>
  <2>6. o[1] = j /\ o[2] = i /\ o \in own
    BY <2>5
  <2> HIDE DEF o
  <2>7. QED
    BY <2>5, <2>6
<1>8. {p \in DOMAIN valueStack : valueStack[p].op \in HandlerOps} = {EndOfLocals(o[1], o[2]) : o \in own}
  BY <1>6, <1>7
<1>9. QED
  BY <1>6, <1>8 DEF HandlersInPlace, own

LEMMA Compiled ==
  ASSUME BlocksInv
  PROVE  StackAsCompiled
<1>1. HeightsAsCompiled /\ HandlersInPlace
  BY HeightsRight, HandlersRight
<1>2. IdleIsClean
  BY Idle DEF IdleIsClean
<1>3. QED
  BY <1>1, <1>2 DEF StackAsCompiled

-----------------------------------------------------------------------------
\* Whatever statements a program nests, and however it leaves them - by their
\* ends, with exceptions, return, break or continue, out of calls and native
\* functions - the stack is as high as the compiler counts, has the handlers
\* of the statements the program is in and no others, and is empty in the end
\* (krk_finishException, _finishReturn, _finishPopBlock, endScope).
THEOREM StackKept == ASSUME Sound PROVE BlocksSpec => []StackAsCompiled
<1>1. BlocksInit => BlocksInv
  BY InitRight
<1>2. BlocksInv /\ [BlocksNext]_blockVars => BlocksInv'
  BY NextRight
<1>3. BlocksInv => StackAsCompiled
  BY Compiled
<1>4. QED
  BY <1>1, <1>2, <1>3, PTL DEF BlocksSpec

\* No step takes or changes the slot of a variable that a closure has captured
\* while its upvalue is open (closeUpvalues).
THEOREM CapturedStay == ASSUME Sound PROVE BlocksSpec => CapturedKept
<1> DEFINE Keeps == \A p \in captured \cap captured' : p \in DOMAIN valueStack' /\ valueStack'[p] = valueStack[p]
<1>1. BlocksInit => BlocksInv
  BY InitRight
<1>2. BlocksInv /\ [BlocksNext]_blockVars => BlocksInv'
  BY NextRight
<1>3. BlocksInv /\ [BlocksNext]_blockVars => [Keeps]_blockVars
  <2>1. SUFFICES ASSUME BlocksInv, BlocksNext PROVE Keeps
    OBVIOUS
  <2>2. Settled(active', valueStack', back', captured', valueStack, captured)
    BY <2>1, StepRight DEF Continues
  <2>3. QED
    BY <2>2 DEF Settled
<1>4. QED
  BY <1>1, <1>2, <1>3, PTL DEF BlocksSpec, CapturedKept
===============================================================================
