-------------------------- MODULE KrkClosures_proofs --------------------------
(***************************************************************************)
(* Proofs about KrkClosures, for every program: any number of variables,   *)
(* closures, generators and calls.                                         *)
(*                                                                         *)
(* Where variables live is a matter of places: entries of the stack, and   *)
(* entries of the arrays of generators that wait.  A variable has at most  *)
(* one place, which has its value.  Each upvalue is for one variable, and  *)
(* no two are for the same; it points to the place of its variable, or has *)
(* the value itself when the variable has no place any more.  The witness  *)
(* w says which variable each upvalue is for; no step changes it, and only *)
(* a capture that finds no upvalue on the list extends it.                 *)
(***************************************************************************)
EXTENDS KrkClosures, KrkStack, FiniteSetTheorems, SequenceTheorems, WellFoundedInduction, TLAPS

Entry == {Handler, Spent, Other} \cup Value
Status == {"new", "suspended", "running", "done", "freed"}
FrameRecord == [slots : Nat, closure : Nat, gen : Nat]
UpvalueRecord == [location : Int, closed : Entry, owner : Nat]
ClosureRecord == [upvalues : Seq(Nat), names : Seq(Nat)]
GeneratorRecord == [status : Status, args : Seq(Entry), captured : Seq(Nat), closure : Nat, names : Seq(Nat)]

Typed ==
  /\ stack \in Seq(Entry) /\ names \in Seq(Nat) /\ cell \in Seq(Value)
  /\ frames \in Seq(FrameRecord) /\ open \in Seq(Nat) /\ upvalues \in Seq(UpvalueRecord)
  /\ closures \in Seq(ClosureRecord) /\ gens \in Seq(GeneratorRecord)
  /\ raising \in BOOLEAN

\* The frames: each has its part of the stack above those before it, and each
\* generator that runs has one.
Framed ==
  /\ frames # <<>> /\ frames[1] = Main
  /\ 1 \in DOMAIN closures
  /\ \A i \in DOMAIN frames :
       /\ frames[i].slots <= Len(stack)
       /\ frames[i].closure \in DOMAIN closures
       /\ frames[i].gen # 0 => frames[i].gen \in DOMAIN gens /\ gens[frames[i].gen].status = "running"
  /\ \A i, j \in DOMAIN frames : i < j => frames[i].slots <= frames[j].slots
  /\ \A i, j \in DOMAIN frames : frames[i].gen = frames[j].gen /\ frames[i].gen # 0 => i = j
  /\ \A g \in DOMAIN gens :
       /\ gens[g].closure \in DOMAIN closures
       /\ gens[g].status = "running" => \E i \in DOMAIN frames : frames[i].gen = g

\* The generators whose variables are in their own array.
Waiting == {g \in DOMAIN gens : gens[g].status \in {"new", "suspended"}}

\* Places have the values of their variables, and a variable has one place.
Shaped ==
  /\ Len(names) = Len(stack)
  /\ \A g \in Waiting :
       /\ Len(gens[g].names) = Len(gens[g].args)
       /\ gens[g].args # <<>>
       /\ gens[g].status = "suspended" => gens[g].names[Len(gens[g].args)] = 0
  /\ \A g \in DOMAIN gens : gens[g].status = "freed" => gens[g].args = <<>>
Valued ==
  /\ \A k \in DOMAIN stack : names[k] # 0 => names[k] \in DOMAIN cell /\ stack[k] = cell[names[k]]
  /\ \A g \in Waiting : \A k \in DOMAIN gens[g].args : gens[g].names[k] # 0 =>
       gens[g].names[k] \in DOMAIN cell /\ gens[g].args[k] = cell[gens[g].names[k]]
OnePlace ==
  /\ \A k, l \in DOMAIN stack : names[k] = names[l] /\ names[k] # 0 => k = l
  /\ \A g \in Waiting : \A k \in DOMAIN gens[g].args : \A l \in DOMAIN stack :
       gens[g].names[k] # 0 => names[l] # gens[g].names[k]
  /\ \A g, h \in Waiting : \A k \in DOMAIN gens[g].args : \A l \in DOMAIN gens[h].args :
       gens[g].names[k] = gens[h].names[l] /\ gens[g].names[k] # 0 => g = h /\ k = l
Placed == Shaped /\ Valued /\ OnePlace

\* The lists of upvalues.
Sorted ==
  /\ \A j \in DOMAIN open :
       /\ open[j] \in DOMAIN upvalues
       /\ upvalues[open[j]].owner = 0 /\ upvalues[open[j]].location >= 0
  /\ \A i, j \in DOMAIN open : i < j => upvalues[open[i]].location > upvalues[open[j]].location
  /\ \A g \in DOMAIN gens :
       /\ gens[g].status # "suspended" => gens[g].captured = <<>>
       /\ \A j \in DOMAIN gens[g].captured :
            /\ gens[g].captured[j] \in DOMAIN upvalues
            /\ upvalues[gens[g].captured[j]].owner = g /\ upvalues[gens[g].captured[j]].location >= 0
       /\ \A i, j \in DOMAIN gens[g].captured :
            i < j => upvalues[gens[g].captured[i]].location < upvalues[gens[g].captured[j]].location

\* Upvalue u gives access to variable v.
Nowhere(v) ==
  /\ \A k \in DOMAIN stack : names[k] # v
  /\ \A g \in Waiting : \A k \in DOMAIN gens[g].args : gens[g].names[k] # v
OnStack(u, v) ==
  /\ upvalues[u].location + 1 \in DOMAIN stack
  /\ names[upvalues[u].location + 1] = v
  /\ Contains(open, u)
InGenerator(u, v, g) ==
  /\ g \in DOMAIN gens /\ gens[g].status = "suspended"
  /\ upvalues[u].location + 1 \in DOMAIN gens[g].args
  /\ gens[g].names[upvalues[u].location + 1] = v
  /\ Contains(gens[g].captured, u)
Located(u, v) ==
  \/ upvalues[u].location = Closed /\ upvalues[u].closed = cell[v] /\ Nowhere(v)
  \/ upvalues[u].location >= 0 /\ upvalues[u].owner = 0 /\ OnStack(u, v)
  \/ upvalues[u].location >= 0 /\ upvalues[u].owner # 0 /\ InGenerator(u, v, upvalues[u].owner)

For(w) ==
  /\ w \in [DOMAIN upvalues -> DOMAIN cell]
  /\ \A u, x \in DOMAIN upvalues : w[u] = w[x] => u = x
  /\ \A c \in DOMAIN closures :
       /\ Len(closures[c].names) = Len(closures[c].upvalues)
       /\ \A j \in DOMAIN closures[c].upvalues :
            /\ closures[c].upvalues[j] \in DOMAIN upvalues
            /\ closures[c].names[j] = w[closures[c].upvalues[j]]
  /\ \A u \in DOMAIN upvalues : Located(u, w[u])

Good == Typed /\ Framed /\ Placed /\ Sorted
IInv == Good /\ \E w \in [DOMAIN upvalues -> DOMAIN cell] : For(w)

-----------------------------------------------------------------------------
(* Numbers and sequences.                                                  *)

\* r is s and x after it.
IsAppended(r, S, s, x) ==
  /\ r \in Seq(S) /\ Len(r) = Len(s) + 1 /\ DOMAIN r = 1 .. Len(s) + 1
  /\ \A i \in 1 .. Len(s) : r[i] = s[i]
  /\ r[Len(s) + 1] = x

LEMMA Appended ==
  ASSUME NEW S, NEW s \in Seq(S), NEW x \in S
  PROVE  IsAppended(Append(s, x), S, s, x)
BY AppendProperties, LenProperties DEF IsAppended

LEMMA Least ==
  ASSUME NEW T, T \subseteq Nat, T # {}
  PROVE  \E m \in T : \A n \in T : m <= n
<1>1. PICK m \in T : \A n \in T : ~ (<<n, m>> \in OpToRel(<, Nat))
  BY WFMin, NatLessThanWellFounded
<1>2. \A n \in T : ~ (n < m)
  BY <1>1 DEF OpToRel
<1>3. QED
  BY <1>2

LEMMA Greatest ==
  ASSUME NEW n \in Nat, NEW S, S \subseteq 1 .. n, S # {}
  PROVE  \E k \in S : \A j \in S : j <= k
<1> DEFINE T == {m \in Nat : \A j \in S : j <= m}
<1>1. n \in T
  OBVIOUS
<1>2. PICK m \in T : \A t \in T : m <= t
  BY <1>1, Least
<1>3. CASE m \in S
  BY <1>2, <1>3
<1>4. CASE m \notin S
  <2>1. m # 0
    <3>1. PICK j \in S : TRUE
      OBVIOUS
    <3>2. j >= 1 /\ j <= m
      BY <1>2, <3>1
    <3>3. QED
      BY <1>2, <3>2
  <2>2. m - 1 \in Nat /\ m - 1 < m
    BY <1>2, <2>1
  <2>3. \A j \in S : j <= m - 1
    BY <1>2, <1>4
  <2>4. QED
    BY <1>2, <2>2, <2>3
<1>5. QED
  BY <1>3, <1>4

LEMMA FunIsSeq ==
  ASSUME NEW S, NEW n \in Nat, NEW f \in [1 .. n -> S]
  PROVE  f \in Seq(S) /\ Len(f) = n
<1>1. f \in Seq(S)
  BY SeqDef
<1>2. DOMAIN f = 1 .. n /\ DOMAIN f = 1 .. Len(f) /\ Len(f) \in Nat
  BY <1>1, LenProperties
<1>3. QED
  BY <1>1, <1>2

\* The part of a sequence up to n, and the part after n.
LEMMA Parts ==
  ASSUME NEW S, NEW s \in Seq(S), NEW n \in 0 .. Len(s)
  PROVE  /\ SubSeq(s, 1, n) \in Seq(S) /\ Len(SubSeq(s, 1, n)) = n
         /\ \A i \in 1 .. n : SubSeq(s, 1, n)[i] = s[i]
         /\ SubSeq(s, n + 1, Len(s)) \in Seq(S) /\ Len(SubSeq(s, n + 1, Len(s))) = Len(s) - n
         /\ \A i \in 1 .. Len(s) - n : SubSeq(s, n + 1, Len(s))[i] = s[n + i]
<1>1. Len(s) \in Nat /\ \A i \in 1 .. Len(s) : s[i] \in S
  BY LenProperties
<1>2. /\ SubSeq(s, 1, n) \in Seq(S)
      /\ Len(SubSeq(s, 1, n)) = IF 1 <= n THEN n - 1 + 1 ELSE 0
      /\ \A i \in 1 .. n - 1 + 1 : SubSeq(s, 1, n)[i] = s[1 + i - 1]
  <2>1. 1 \in Int /\ n \in Int /\ \A i \in 1 .. n : s[i] \in S
    BY <1>1
  <2> HIDE <1>1
  <2>2. QED
    BY <2>1, SubSeqProperties
<1>3. /\ SubSeq(s, n + 1, Len(s)) \in Seq(S)
      /\ Len(SubSeq(s, n + 1, Len(s))) = IF n + 1 <= Len(s) THEN Len(s) - (n + 1) + 1 ELSE 0
      /\ \A i \in 1 .. Len(s) - (n + 1) + 1 : SubSeq(s, n + 1, Len(s))[i] = s[(n + 1) + i - 1]
  <2>1. n + 1 \in Int /\ Len(s) \in Int /\ \A i \in n + 1 .. Len(s) : s[i] \in S
    BY <1>1
  <2>2. QED
    BY <2>1, SubSeqProperties
<1>4. \A i \in 1 .. n : 1 + i - 1 = i
  OBVIOUS
<1>5. \A i \in 1 .. Len(s) - n : (n + 1) + i - 1 = n + i /\ i \in 1 .. Len(s) - (n + 1) + 1
  BY <1>1
<1>6. QED
  BY <1>1, <1>2, <1>3, <1>4, <1>5

LEMMA TypedFacts ==
  ASSUME Typed
  PROVE  /\ Len(stack) \in Nat /\ DOMAIN stack = 1 .. Len(stack) /\ \A k \in DOMAIN stack : stack[k] \in Entry
         /\ Len(names) \in Nat /\ DOMAIN names = 1 .. Len(names) /\ \A k \in DOMAIN names : names[k] \in Nat
         /\ Len(cell) \in Nat /\ DOMAIN cell = 1 .. Len(cell) /\ \A k \in DOMAIN cell : cell[k] \in Value
         /\ Len(frames) \in Nat /\ DOMAIN frames = 1 .. Len(frames) /\ \A k \in DOMAIN frames : frames[k] \in FrameRecord
         /\ Len(open) \in Nat /\ DOMAIN open = 1 .. Len(open) /\ \A k \in DOMAIN open : open[k] \in Nat
         /\ Len(upvalues) \in Nat /\ DOMAIN upvalues = 1 .. Len(upvalues)
         /\ \A k \in DOMAIN upvalues : upvalues[k] \in UpvalueRecord
         /\ Len(closures) \in Nat /\ DOMAIN closures = 1 .. Len(closures)
         /\ \A k \in DOMAIN closures : closures[k] \in ClosureRecord
         /\ Len(gens) \in Nat /\ DOMAIN gens = 1 .. Len(gens) /\ \A k \in DOMAIN gens : gens[k] \in GeneratorRecord
  BY LenProperties DEF Typed

LEMMA GeneratorFacts ==
  ASSUME NEW r \in GeneratorRecord
  PROVE  /\ Len(r.args) \in Nat /\ DOMAIN r.args = 1 .. Len(r.args) /\ \A k \in DOMAIN r.args : r.args[k] \in Entry
         /\ Len(r.names) \in Nat /\ DOMAIN r.names = 1 .. Len(r.names) /\ \A k \in DOMAIN r.names : r.names[k] \in Nat
         /\ Len(r.captured) \in Nat /\ DOMAIN r.captured = 1 .. Len(r.captured)
         /\ \A k \in DOMAIN r.captured : r.captured[k] \in Nat
  BY LenProperties DEF GeneratorRecord

-----------------------------------------------------------------------------
(* Walking down the list of open upvalues.                                 *)

LEMMA PassedRight ==
  ASSUME Typed, Sorted, NEW l \in Nat
  PROVE  /\ Passed(l) \in 0 .. Len(open)
         /\ \A j \in 1 .. Passed(l) : upvalues[open[j]].location >= l
         /\ \A j \in Passed(l) + 1 .. Len(open) : upvalues[open[j]].location < l
<1> DEFINE Low == {j \in 1 .. Len(open) : upvalues[open[j]].location < l}
           Stop(n) == StopsAfter(n, l)
<1>1. Len(open) \in Nat /\ DOMAIN open = 1 .. Len(open)
  BY LenProperties DEF Typed
<1>2. \A j \in 1 .. Len(open) : open[j] \in DOMAIN upvalues /\ upvalues[open[j]].location \in Int
  BY <1>1, TypedFacts DEF Sorted, UpvalueRecord
<1>3. \E n \in 0 .. Len(open) : Stop(n)
  <2>1. CASE Low = {}
    <3>1. \A j \in 1 .. Len(open) : upvalues[open[j]].location >= l
      BY <1>2, <2>1
    <3>2. Stop(Len(open)) /\ Len(open) \in 0 .. Len(open)
      BY <1>1, <3>1 DEF StopsAfter
    <3>3. QED
      BY <3>2
  <2>2. CASE Low # {}
    <3>1. PICK m \in Low : \A j \in Low : m <= j
      <4>1. Low \subseteq Nat
        OBVIOUS
      <4>2. QED
        BY <2>2, <4>1, Least
    <3>2. m - 1 \in 0 .. Len(open) /\ (m - 1) + 1 = m
      BY <1>1, <3>1
    <3>3. \A j \in 1 .. m - 1 : j \in 1 .. Len(open) /\ ~(m <= j)
      BY <1>1, <3>1
    <3>4. \A j \in 1 .. m - 1 : upvalues[open[j]].location >= l
      BY <1>2, <3>1, <3>3
    <3>5. Stop(m - 1)
      BY <3>1, <3>2, <3>4 DEF StopsAfter
    <3>6. QED
      BY <3>2, <3>5
  <2>3. QED
    BY <2>1, <2>2
<1>4. Passed(l) \in 0 .. Len(open) /\ Stop(Passed(l))
  BY <1>3 DEF Passed
<1>5. ASSUME NEW j \in Passed(l) + 1 .. Len(open)
      PROVE  upvalues[open[j]].location < l
  <2> DEFINE n == Passed(l)
  <2>1. n + 1 \in 1 .. Len(open) /\ j \in 1 .. Len(open) /\ upvalues[open[n + 1]].location < l /\ (j = n + 1 \/ n + 1 < j)
    BY <1>1, <1>4, <1>5 DEF StopsAfter
  <2> HIDE DEF n
  <2>2. CASE j = n + 1
    BY <2>1, <2>2
  <2>3. CASE n + 1 < j
    <3>1. upvalues[open[n + 1]].location > upvalues[open[j]].location
      BY <1>1, <2>1, <2>3 DEF Sorted
    <3>2. QED
      BY <1>2, <2>1, <3>1
  <2>4. QED
    BY <2>1, <2>2, <2>3
<1>6. QED
  BY <1>4, <1>5 DEF StopsAfter

\* closeUpvalues moves the values of the slots from n up into their upvalues,
\* and leaves the rest of the list.
LEMMA CloseEffect ==
  ASSUME Typed, Sorted, NEW n \in Nat, CloseUpvalues(n),
         \A u \in DOMAIN upvalues : Contains(open, u) => upvalues[u].location + 1 \in DOMAIN stack
  PROVE  /\ upvalues' \in Seq(UpvalueRecord) /\ Len(upvalues') = Len(upvalues)
         /\ DOMAIN upvalues' = DOMAIN upvalues
         /\ open' \in Seq(Nat)
         /\ \A u \in DOMAIN upvalues :
              IF Contains(open, u) /\ upvalues[u].location >= n
              THEN /\ upvalues'[u].location = Closed
                   /\ upvalues'[u].closed = stack[upvalues[u].location + 1]
              ELSE /\ upvalues'[u] = upvalues[u]
                   /\ Contains(open, u) => Contains(open', u)
         /\ \A j \in DOMAIN open' :
              /\ open'[j] \in DOMAIN upvalues /\ upvalues'[open'[j]] = upvalues[open'[j]]
              /\ Contains(open, open'[j]) /\ upvalues[open'[j]].location < n
         /\ \A i, j \in DOMAIN open' : i < j => upvalues[open'[i]].location > upvalues[open'[j]].location
<1> DEFINE p == Passed(n)
           us == ToSet(Closing(n))
<1>1. /\ p \in 0 .. Len(open)
      /\ \A j \in 1 .. p : upvalues[open[j]].location >= n
      /\ \A j \in p + 1 .. Len(open) : upvalues[open[j]].location < n
  BY PassedRight
<1>2. open \in Seq(Nat) /\ DOMAIN open = 1 .. Len(open) /\ Len(open) \in Nat
  BY TypedFacts DEF Typed
<1>3. /\ Closing(n) \in Seq(Nat) /\ Len(Closing(n)) = p /\ \A i \in 1 .. p : Closing(n)[i] = open[i]
      /\ open' \in Seq(Nat) /\ Len(open') = Len(open) - p /\ \A i \in 1 .. Len(open) - p : open'[i] = open[p + i]
  BY <1>1, <1>2, Parts, ZenonT(40) DEF Closing, CloseUpvalues
<1>4. DOMAIN Closing(n) = 1 .. p /\ DOMAIN open' = 1 .. Len(open) - p
  BY <1>3, LenProperties
<1>5. upvalues' = [u \in DOMAIN upvalues |->
        IF u \in us THEN [upvalues[u] EXCEPT !.closed = stack[upvalues[u].location + 1], !.location = Closed]
        ELSE upvalues[u]]
  BY DEF CloseUpvalues, Close
<1>6. \A u : u \in us <=> \E j \in 1 .. p : u = open[j]
  BY <1>3, <1>4 DEF ToSet
<1> HIDE DEF us, p
<1>7. \A u : u \in us <=> Contains(open, u) /\ upvalues[u].location >= n
  <2>1. ASSUME NEW u, u \in us
        PROVE  Contains(open, u) /\ upvalues[u].location >= n
    BY <1>1, <1>2, <1>6, <2>1 DEF Contains
  <2>2. ASSUME NEW u, Contains(open, u), upvalues[u].location >= n
        PROVE  u \in us
    <3>1. PICK j \in 1 .. Len(open) : open[j] = u
      BY <2>2 DEF Contains
    <3>2. upvalues[u] \in UpvalueRecord
      BY <1>2, <3>1, TypedFacts DEF Sorted
    <3>3. j \in 1 .. p
      <4>1. CASE j \in p + 1 .. Len(open)
        BY <1>1, <2>2, <3>1, <3>2, <4>1 DEF UpvalueRecord
      <4>2. CASE j \notin p + 1 .. Len(open)
        BY <1>1, <1>2, <3>1, <4>2
      <4>3. QED
        BY <4>1, <4>2
    <3>4. QED
      BY <1>6, <3>1, <3>3
  <2>3. QED
    BY <2>1, <2>2
<1>8. ASSUME NEW u \in DOMAIN upvalues
      PROVE  /\ upvalues'[u] \in UpvalueRecord
             /\ IF Contains(open, u) /\ upvalues[u].location >= n
                THEN /\ upvalues'[u].location = Closed
                     /\ upvalues'[u].closed = stack[upvalues[u].location + 1]
                ELSE upvalues'[u] = upvalues[u]
  <2>1. upvalues[u] \in UpvalueRecord /\ (Contains(open, u) => stack[upvalues[u].location + 1] \in Entry)
    BY TypedFacts
  <2>2. CASE u \in us
    <3>1. upvalues'[u] = [upvalues[u] EXCEPT !.closed = stack[upvalues[u].location + 1], !.location = Closed]
      BY <1>5, <2>2
    <3>2. /\ upvalues'[u].location = Closed /\ upvalues'[u].closed = stack[upvalues[u].location + 1]
          /\ upvalues'[u] \in [location : {Closed}, closed : {stack[upvalues[u].location + 1]}, owner : Nat]
      BY <2>1, <3>1 DEF UpvalueRecord
    <3>3. Closed \in Int
      BY DEF Closed
    <3>4. upvalues'[u] \in UpvalueRecord
      BY <1>7, <2>1, <2>2, <3>2, <3>3 DEF UpvalueRecord
    <3>5. QED
      BY <1>7, <2>2, <3>2, <3>4
  <2>3. CASE u \notin us
    BY <1>5, <1>7, <2>1, <2>3
  <2>4. QED
    BY <2>2, <2>3
<1>9. /\ upvalues' \in Seq(UpvalueRecord) /\ Len(upvalues') = Len(upvalues)
      /\ DOMAIN upvalues' = DOMAIN upvalues
  <2>1. DOMAIN upvalues = 1 .. Len(upvalues) /\ Len(upvalues) \in Nat
    BY TypedFacts
  <2>2. upvalues' \in [1 .. Len(upvalues) -> UpvalueRecord]
    BY <1>5, <1>8, <2>1
  <2>3. QED
    BY <2>1, <2>2, FunIsSeq
<1>10. ASSUME NEW u \in DOMAIN upvalues, Contains(open, u), ~(upvalues[u].location >= n)
       PROVE  Contains(open', u)
  <2>1. PICK j \in 1 .. Len(open) : open[j] = u
    BY <1>10 DEF Contains
  <2>2. j \notin 1 .. p
    BY <1>1, <1>10, <2>1 DEF p
  <2>3. j - p \in 1 .. Len(open) - p /\ p + (j - p) = j
    BY <1>1, <1>2, <2>1, <2>2
  <2>4. open'[j - p] = u
    BY <1>3, <2>1, <2>3
  <2>5. QED
    BY <1>3, <2>3, <2>4 DEF Contains
<1>11. ASSUME NEW j \in DOMAIN open'
       PROVE  /\ open'[j] \in DOMAIN upvalues /\ upvalues'[open'[j]] = upvalues[open'[j]]
              /\ Contains(open, open'[j]) /\ upvalues[open'[j]].location < n
  <2>1. p + j \in 1 .. Len(open) /\ p + j \in p + 1 .. Len(open) /\ open'[j] = open[p + j]
    <3>1. j \in 1 .. Len(open) - p /\ p \in Nat /\ Len(open) \in Nat
      BY <1>1, <1>2, <1>4
    <3>2. \A k, m, n0 \in Nat : k \in 1 .. n0 - m => m + k \in 1 .. n0 /\ m + k \in m + 1 .. n0
      OBVIOUS
    <3>3. p + j \in 1 .. Len(open) /\ p + j \in p + 1 .. Len(open)
      BY <3>1, <3>2
    <3>4. QED
      BY <1>3, <3>1, <3>3
  <2>2. upvalues[open'[j]].location < n /\ open'[j] \in DOMAIN upvalues
    BY <1>1, <1>2, <2>1 DEF Sorted, p
  <2>3. upvalues[open'[j]].location \in Int
    BY <2>2, TypedFacts DEF UpvalueRecord
  <2>4. ~(upvalues[open'[j]].location >= n)
    BY <2>2, <2>3
  <2>5. QED
    BY <1>8, <2>1, <2>2, <2>4 DEF Contains
<1>12. ASSUME NEW i \in DOMAIN open', NEW j \in DOMAIN open', i < j
       PROVE  upvalues[open'[i]].location > upvalues[open'[j]].location
  <2>1. /\ p + i \in 1 .. Len(open) /\ p + j \in 1 .. Len(open) /\ p + i < p + j
        /\ open'[i] = open[p + i] /\ open'[j] = open[p + j]
    <3>1. i \in 1 .. Len(open) - p /\ j \in 1 .. Len(open) - p /\ p \in Nat /\ Len(open) \in Nat
      BY <1>1, <1>2, <1>4
    <3>2. \A k, m, n0 \in Nat : k \in 1 .. n0 - m => m + k \in 1 .. n0
      OBVIOUS
    <3>3. p + i \in 1 .. Len(open) /\ p + j \in 1 .. Len(open)
      BY <3>1, <3>2
    <3>4. p + i < p + j
      BY <1>12, <3>1
    <3>5. open'[i] = open[p + i] /\ open'[j] = open[p + j]
      BY <1>3, <3>1
    <3>6. QED
      BY <3>3, <3>4, <3>5
  <2>2. QED
    BY <1>2, <2>1 DEF Sorted
<1>13. QED
  BY <1>3, <1>8, <1>9, <1>10, <1>11, <1>12

LEMMA OpenOnStack ==
  ASSUME Typed, Placed, Sorted, NEW w, For(w)
  PROVE  /\ \A u \in DOMAIN upvalues : Contains(open, u) =>
              /\ upvalues[u].location \in Nat /\ upvalues[u].owner = 0
              /\ upvalues[u].location + 1 \in DOMAIN stack /\ names[upvalues[u].location + 1] = w[u]
         /\ \A g \in DOMAIN gens : \A u \in DOMAIN upvalues : Contains(gens[g].captured, u) =>
              /\ upvalues[u].location \in Nat /\ upvalues[u].owner = g /\ gens[g].status = "suspended"
              /\ upvalues[u].location + 1 \in DOMAIN gens[g].args
              /\ gens[g].names[upvalues[u].location + 1] = w[u]
<1>1. ASSUME NEW u \in DOMAIN upvalues, Contains(open, u)
      PROVE  /\ upvalues[u].location \in Nat /\ upvalues[u].owner = 0
             /\ upvalues[u].location + 1 \in DOMAIN stack /\ names[upvalues[u].location + 1] = w[u]
  <2>1. upvalues[u].location \in Int /\ upvalues[u].location >= 0 /\ upvalues[u].owner = 0
    BY <1>1, TypedFacts DEF Contains, Sorted, UpvalueRecord
  <2>2. Located(u, w[u])
    BY DEF For
  <2>3. QED
    BY <2>1, <2>2 DEF Located, Closed, OnStack
<1>2. ASSUME NEW g \in DOMAIN gens, NEW u \in DOMAIN upvalues, Contains(gens[g].captured, u)
      PROVE  /\ upvalues[u].location \in Nat /\ upvalues[u].owner = g /\ gens[g].status = "suspended"
             /\ upvalues[u].location + 1 \in DOMAIN gens[g].args
             /\ gens[g].names[upvalues[u].location + 1] = w[u]
  <2>1. PICK j \in 1 .. Len(gens[g].captured) : gens[g].captured[j] = u
    BY <1>2 DEF Contains
  <2>2. gens[g] \in GeneratorRecord /\ g \in Nat /\ g # 0 /\ j \in DOMAIN gens[g].captured
    BY <2>1, TypedFacts, GeneratorFacts
  <2>3. upvalues[u].location \in Int /\ upvalues[u].location >= 0 /\ upvalues[u].owner = g
    BY <2>1, <2>2, TypedFacts DEF Sorted, UpvalueRecord
  <2>4. Located(u, w[u])
    BY DEF For
  <2>5. QED
    BY <2>2, <2>3, <2>4 DEF Located, Closed, InGenerator
<1>3. QED
  BY <1>1, <1>2

-----------------------------------------------------------------------------
(* What steps do to places.                                                *)

\* The stack loses what is above n, perhaps with a handler put there, and a
\* generator may end; nothing else changes.
LEMMA CutKeeps ==
  ASSUME Typed, Placed, Sorted, NEW w, For(w), NEW n \in Nat, CloseUpvalues(n),
         stack' \in Seq(Entry), names' \in Seq(Nat), Len(names') = Len(stack'), n <= Len(stack), n <= Len(stack'),
         \A k \in DOMAIN stack' : IF k <= n THEN stack'[k] = stack[k] /\ names'[k] = names[k] ELSE names'[k] = 0,
         gens' \in Seq(GeneratorRecord), Len(gens') = Len(gens),
         \A g \in DOMAIN gens :
           \/ gens'[g] = gens[g]
           \/ gens[g].status = "running" /\ gens'[g].status = "done" /\ gens'[g].captured = <<>>,
         UNCHANGED <<closures, cell>>
  PROVE  Placed' /\ Sorted' /\ For(w)' /\ upvalues' \in Seq(UpvalueRecord) /\ open' \in Seq(Nat)
<1>1. \A u \in DOMAIN upvalues : Contains(open, u) =>
        /\ upvalues[u].location \in Nat /\ upvalues[u].owner = 0
        /\ upvalues[u].location + 1 \in DOMAIN stack /\ names[upvalues[u].location + 1] = w[u]
  BY OpenOnStack
<1>2. /\ upvalues' \in Seq(UpvalueRecord) /\ Len(upvalues') = Len(upvalues)
      /\ DOMAIN upvalues' = DOMAIN upvalues
      /\ open' \in Seq(Nat)
      /\ \A u \in DOMAIN upvalues :
           IF Contains(open, u) /\ upvalues[u].location >= n
           THEN /\ upvalues'[u].location = Closed
                /\ upvalues'[u].closed = stack[upvalues[u].location + 1]
           ELSE /\ upvalues'[u] = upvalues[u]
                /\ Contains(open, u) => Contains(open', u)
      /\ \A j \in DOMAIN open' :
           /\ open'[j] \in DOMAIN upvalues /\ upvalues'[open'[j]] = upvalues[open'[j]]
           /\ Contains(open, open'[j]) /\ upvalues[open'[j]].location < n
      /\ \A i, j \in DOMAIN open' : i < j => upvalues[open'[i]].location > upvalues[open'[j]].location
  BY <1>1, CloseEffect
<1>3. /\ DOMAIN gens' = DOMAIN gens /\ DOMAIN gens = 1 .. Len(gens) /\ Waiting' = Waiting
      /\ \A g \in Waiting : gens'[g] = gens[g]
  <2>1. DOMAIN gens' = DOMAIN gens /\ DOMAIN gens = 1 .. Len(gens)
    BY LenProperties, TypedFacts
  <2>2. QED
    BY <2>1 DEF Waiting
<1>4. /\ DOMAIN stack' = 1 .. Len(stack') /\ DOMAIN stack = 1 .. Len(stack) /\ Len(stack') \in Nat /\ Len(stack) \in Nat
      /\ DOMAIN names = DOMAIN stack /\ DOMAIN names' = DOMAIN stack'
  BY LenProperties, TypedFacts DEF Placed, Shaped
<1>5. \A k \in DOMAIN stack' : names'[k] # 0 =>
        k \in DOMAIN stack /\ k <= n /\ stack'[k] = stack[k] /\ names'[k] = names[k]
  BY <1>4
<1>6. Placed'
  <2>1. Shaped'
    BY <1>3, ZenonT(40) DEF Placed, Shaped
  <2>2. Valued'
    <3>1. \A k \in DOMAIN stack' : names'[k] # 0 => names'[k] \in DOMAIN cell' /\ stack'[k] = cell'[names'[k]]
      BY <1>5 DEF Placed, Valued
    <3>2. \A g \in Waiting : \A k \in DOMAIN gens'[g].args : gens'[g].names[k] # 0 =>
            gens'[g].names[k] \in DOMAIN cell' /\ gens'[g].args[k] = cell'[gens'[g].names[k]]
      BY <1>3 DEF Placed, Valued
    <3>3. QED
      BY <1>3, <3>1, <3>2 DEF Valued
  <2>3. OnePlace'
    <3>1. \A k, l \in DOMAIN stack' : names'[k] = names'[l] /\ names'[k] # 0 => k = l
      BY <1>5 DEF Placed, OnePlace
    <3>2. \A g \in Waiting : \A k \in DOMAIN gens'[g].args : \A l \in DOMAIN stack' :
            gens'[g].names[k] # 0 => names'[l] # gens'[g].names[k]
      BY <1>3, <1>5, SMTT(40) DEF Placed, OnePlace
    <3>3. \A g, h \in Waiting : \A k \in DOMAIN gens'[g].args : \A l \in DOMAIN gens'[h].args :
            gens'[g].names[k] = gens'[h].names[l] /\ gens'[g].names[k] # 0 => g = h /\ k = l
      BY <1>3 DEF Placed, OnePlace
    <3>4. QED
      BY <1>3, <3>1, <3>2, <3>3 DEF OnePlace
  <2>4. QED
    BY <2>1, <2>2, <2>3 DEF Placed
<1>7. \A g \in DOMAIN gens : \A j \in DOMAIN gens[g].captured :
        upvalues'[gens[g].captured[j]] = upvalues[gens[g].captured[j]]
  <2>1. SUFFICES ASSUME NEW g \in DOMAIN gens, NEW j \in DOMAIN gens[g].captured
                 PROVE  upvalues'[gens[g].captured[j]] = upvalues[gens[g].captured[j]]
    OBVIOUS
  <2>2. /\ gens[g].captured[j] \in DOMAIN upvalues /\ upvalues[gens[g].captured[j]].owner = g /\ g # 0
    BY TypedFacts DEF Sorted
  <2>3. ~Contains(open, gens[g].captured[j])
    BY <1>1, <2>2
  <2>4. QED
    BY <1>2, <2>2, <2>3
<1>8. Sorted'
  <2>1. \A j \in DOMAIN open' :
          /\ open'[j] \in DOMAIN upvalues'
          /\ upvalues'[open'[j]].owner = 0 /\ upvalues'[open'[j]].location >= 0
    BY <1>1, <1>2, SMTT(40)
  <2>2. \A i, j \in DOMAIN open' : i < j => upvalues'[open'[i]].location > upvalues'[open'[j]].location
    BY <1>2
  <2>3. ASSUME NEW g \in DOMAIN gens'
        PROVE  /\ gens'[g].status # "suspended" => gens'[g].captured = <<>>
               /\ \A j \in DOMAIN gens'[g].captured :
                    /\ gens'[g].captured[j] \in DOMAIN upvalues'
                    /\ upvalues'[gens'[g].captured[j]].owner = g /\ upvalues'[gens'[g].captured[j]].location >= 0
               /\ \A i, j \in DOMAIN gens'[g].captured :
                    i < j => upvalues'[gens'[g].captured[i]].location < upvalues'[gens'[g].captured[j]].location
    <3>1. g \in DOMAIN gens
      BY <1>3
    <3>2. CASE gens'[g] = gens[g]
      BY <1>2, <1>7, <3>1, <3>2 DEF Sorted
    <3>3. CASE gens'[g].captured = <<>>
      BY <3>3
    <3>4. QED
      BY <3>1, <3>2, <3>3
  <2>4. QED
    BY <2>1, <2>2, <2>3 DEF Sorted
<1>9. ASSUME NEW u \in DOMAIN upvalues
      PROVE  Located(u, w[u])'
  <2>1. w[u] \in DOMAIN cell /\ w[u] # 0 /\ Located(u, w[u])
    BY TypedFacts DEF For
  <2>2. CASE Contains(open, u) /\ upvalues[u].location >= n
    <3>1. /\ upvalues[u].location + 1 \in DOMAIN stack /\ names[upvalues[u].location + 1] = w[u]
          /\ upvalues[u].location + 1 > n
      BY <1>1, <2>2
    <3>2. upvalues'[u].location = Closed /\ upvalues'[u].closed = cell[w[u]]
      BY <1>2, <2>1, <2>2, <3>1 DEF Placed, Valued
    <3>3. \A k \in DOMAIN stack' : names'[k] # w[u]
      <4>1. ASSUME NEW k \in DOMAIN stack', names'[k] = w[u]
            PROVE  FALSE
        <5>1. k \in DOMAIN stack /\ k <= n /\ names[k] = w[u]
          BY <1>5, <2>1, <4>1
        <5>2. k = upvalues[u].location + 1
          BY <2>1, <3>1, <5>1 DEF Placed, OnePlace
        <5>3. n \in Nat /\ k \in Nat
          BY <1>4, <5>1
        <5>4. QED
          BY <3>1, <5>1, <5>2, <5>3
      <4>2. QED
        BY <4>1
    <3>4. \A g \in Waiting' : \A k \in DOMAIN gens'[g].args : gens'[g].names[k] # w[u]
      BY <1>3, <2>1, <3>1 DEF Placed, OnePlace
    <3>5. QED
      BY <3>2, <3>3, <3>4 DEF Located, Nowhere
  <2>3. CASE Contains(open, u) /\ ~(upvalues[u].location >= n)
    <3>1. /\ upvalues[u].location + 1 \in DOMAIN stack /\ names[upvalues[u].location + 1] = w[u]
          /\ upvalues[u].location + 1 <= n /\ upvalues[u].owner = 0 /\ upvalues[u].location >= 0
      BY <1>1, <2>3
    <3>2. upvalues'[u] = upvalues[u] /\ Contains(open', u)
      BY <1>2, <2>3
    <3>3. upvalues[u].location + 1 \in DOMAIN stack' /\ names'[upvalues[u].location + 1] = w[u]
      BY <1>4, <3>1
    <3>4. QED
      BY <3>1, <3>2, <3>3 DEF Located, OnStack
  <2>4. CASE ~Contains(open, u)
    <3>1. upvalues'[u] = upvalues[u]
      BY <1>2, <2>4
    <3>2. CASE upvalues[u].location = Closed /\ upvalues[u].closed = cell[w[u]] /\ Nowhere(w[u])
      <4>1. Nowhere(w[u])'
        <5>1. \A k \in DOMAIN stack' : names'[k] # w[u]
          BY <1>5, <2>1, <3>2 DEF Nowhere
        <5>2. \A g \in Waiting' : \A k \in DOMAIN gens'[g].args : gens'[g].names[k] # w[u]
          BY <1>3, <3>2 DEF Nowhere
        <5>3. QED
          BY <5>1, <5>2 DEF Nowhere
      <4>2. QED
        BY <3>1, <3>2, <4>1 DEF Located
    <3>3. CASE /\ upvalues[u].location >= 0 /\ upvalues[u].owner # 0
               /\ InGenerator(u, w[u], upvalues[u].owner)
      <4>1. upvalues[u].owner \in Waiting
        BY <3>3 DEF InGenerator, Waiting
      <4>2. QED
        BY <1>3, <3>1, <3>3, <4>1 DEF Located, InGenerator
    <3>4. QED
      BY <2>1, <2>4, <3>2, <3>3 DEF Located, OnStack
  <2>5. QED
    BY <2>2, <2>3, <2>4
<1>10. For(w)'
  BY <1>2, <1>9 DEF For
<1>11. QED
  BY <1>2, <1>6, <1>8, <1>10

\* An entry goes onto the stack, for no variable or for a new one.
LEMMA PushKeeps ==
  ASSUME Typed, Placed, Sorted, NEW w, For(w), NEW e \in Entry, NEW v \in Nat,
         stack' = Append(stack, e), names' = Append(names, v),
         \/ v = 0 /\ cell' = cell
         \/ v = Len(cell) + 1 /\ e \in Value /\ cell' = Append(cell, e),
         UNCHANGED <<open, upvalues, closures, gens>>
  PROVE  Placed' /\ Sorted' /\ For(w)' /\ stack' \in Seq(Entry) /\ names' \in Seq(Nat) /\ cell' \in Seq(Value)
         /\ Len(stack') = Len(stack) + 1
<1>1. /\ stack' \in Seq(Entry) /\ Len(stack') = Len(stack) + 1 /\ DOMAIN stack' = 1 .. Len(stack) + 1
      /\ \A k \in DOMAIN stack : stack'[k] = stack[k]
      /\ stack'[Len(stack) + 1] = e
      /\ names' \in Seq(Nat) /\ Len(names') = Len(stack) + 1 /\ DOMAIN names' = 1 .. Len(stack) + 1
      /\ \A k \in DOMAIN stack : names'[k] = names[k]
      /\ names'[Len(stack) + 1] = v
      /\ DOMAIN stack = 1 .. Len(stack) /\ Len(stack) \in Nat
  <2>1. Len(names) = Len(stack) /\ stack \in Seq(Entry) /\ names \in Seq(Nat)
    BY DEF Typed, Placed, Shaped
  <2>2. /\ Append(stack, e) \in Seq(Entry) /\ Len(Append(stack, e)) = Len(stack) + 1
        /\ (\A i \in 1 .. Len(stack) : Append(stack, e)[i] = stack[i])
        /\ Append(stack, e)[Len(stack) + 1] = e
    BY <2>1, AppendProperties
  <2>3. /\ Append(names, v) \in Seq(Nat) /\ Len(Append(names, v)) = Len(names) + 1
        /\ (\A i \in 1 .. Len(names) : Append(names, v)[i] = names[i])
        /\ Append(names, v)[Len(names) + 1] = v
    BY <2>1, AppendProperties
  <2>4. /\ DOMAIN Append(stack, e) = 1 .. Len(stack) + 1 /\ DOMAIN Append(names, v) = 1 .. Len(stack) + 1
    BY <2>1, <2>2, <2>3, LenProperties
  <2>5. QED
    BY <2>1, <2>2, <2>3, <2>4, TypedFacts
<1>2. /\ cell' \in Seq(Value) /\ DOMAIN cell \subseteq DOMAIN cell'
      /\ \A k \in DOMAIN cell : cell'[k] = cell[k]
      /\ v # 0 => v \in DOMAIN cell' /\ v \notin DOMAIN cell /\ cell'[v] = e
  <2>1. CASE v = 0 /\ cell' = cell
    BY <2>1 DEF Typed
  <2>2. CASE v = Len(cell) + 1 /\ e \in Value /\ cell' = Append(cell, e)
    <3>1. cell \in Seq(Value) /\ DOMAIN cell = 1 .. Len(cell) /\ Len(cell) \in Nat
      BY TypedFacts DEF Typed
    <3>2. /\ cell' \in Seq(Value) /\ Len(cell') = Len(cell) + 1
          /\ (\A i \in 1 .. Len(cell) : cell'[i] = cell[i]) /\ cell'[Len(cell) + 1] = e
      <4>1. IsAppended(Append(cell, e), Value, cell, e)
        BY <2>2, <3>1, Appended, Zenon
      <4>2. cell' = Append(cell, e)
        BY <2>2
      <4>3. QED
        BY <4>1, <4>2, Zenon DEF IsAppended
    <3>3. DOMAIN cell' = 1 .. Len(cell) + 1
      BY <3>2
    <3>4. DOMAIN cell \subseteq DOMAIN cell' /\ v \in DOMAIN cell' /\ v \notin DOMAIN cell
      <4>1. \A n \in Nat : 1 .. n \subseteq 1 .. n + 1 /\ n + 1 \in 1 .. n + 1 /\ n + 1 \notin 1 .. n
        OBVIOUS
      <4>2. v = Len(cell) + 1
        BY <2>2
      <4>3. QED
        BY <3>1, <3>3, <4>1, <4>2
    <3>5. QED
      BY <2>2, <3>1, <3>2, <3>4
  <2>3. QED
    BY <2>1, <2>2
<1>3. Waiting' = Waiting
  BY DEF Waiting
<1>4. \A k \in DOMAIN stack' : k \in DOMAIN stack \/ k = Len(stack) + 1
  BY <1>1
<1>5. Len(stack) + 1 \notin DOMAIN stack
  BY <1>1
<1>6. Placed'
  <2>1. Shaped'
    BY <1>1, <1>3 DEF Placed, Shaped
  <2>2. Valued'
    <3>1. \A k \in DOMAIN stack' : names'[k] # 0 => names'[k] \in DOMAIN cell' /\ stack'[k] = cell'[names'[k]]
      BY <1>1, <1>2, <1>4 DEF Placed, Valued
    <3>2. \A g \in Waiting : \A k \in DOMAIN gens[g].args : gens[g].names[k] # 0 =>
            gens[g].names[k] \in DOMAIN cell' /\ gens[g].args[k] = cell'[gens[g].names[k]]
      BY <1>2 DEF Placed, Valued
    <3>3. QED
      BY <1>3, <3>1, <3>2 DEF Valued
  <2>3. OnePlace'
    <3>1. \A k, l \in DOMAIN stack' : names'[k] = names'[l] /\ names'[k] # 0 => k = l
      <4>1. \A k \in DOMAIN stack : names'[k] # 0 => names'[k] \in DOMAIN cell
        BY <1>1 DEF Placed, Valued
      <4>2. QED
        BY <1>1, <1>2, <1>4, <4>1 DEF Placed, OnePlace
    <3>2. \A g \in Waiting : \A k \in DOMAIN gens[g].args : \A l \in DOMAIN stack' :
            gens[g].names[k] # 0 => names'[l] # gens[g].names[k]
      <4>1. \A g \in Waiting : \A k \in DOMAIN gens[g].args : gens[g].names[k] # 0 => gens[g].names[k] \in DOMAIN cell
        BY DEF Placed, Valued
      <4>2. QED
        BY <1>1, <1>2, <1>4, <4>1 DEF Placed, OnePlace
    <3>3. \A g, h \in Waiting : \A k \in DOMAIN gens[g].args : \A l \in DOMAIN gens[h].args :
            gens[g].names[k] = gens[h].names[l] /\ gens[g].names[k] # 0 => g = h /\ k = l
      BY DEF Placed, OnePlace
    <3>4. gens' = gens
      OBVIOUS
    <3>5. \A g \in Waiting' : \A k \in DOMAIN gens'[g].args : \A l \in DOMAIN stack' :
            gens'[g].names[k] # 0 => names'[l] # gens'[g].names[k]
      <4>1. SUFFICES ASSUME NEW g \in Waiting', NEW k \in DOMAIN gens'[g].args, NEW l \in DOMAIN stack', gens'[g].names[k] # 0
                     PROVE  names'[l] # gens'[g].names[k]
        OBVIOUS
      <4>2. gens'[g] = gens[g] /\ g \in Waiting
        BY <1>3, <3>4
      <4>3. QED
        BY <3>2, <4>1, <4>2
    <3>6. \A g, h \in Waiting' : \A k \in DOMAIN gens'[g].args : \A l \in DOMAIN gens'[h].args :
            gens'[g].names[k] = gens'[h].names[l] /\ gens'[g].names[k] # 0 => g = h /\ k = l
      BY <1>3, <3>3, <3>4
    <3>7. QED
      BY <3>1, <3>5, <3>6 DEF OnePlace
  <2>4. QED
    BY <2>1, <2>2, <2>3 DEF Placed
<1>7. Sorted'
  BY DEF Sorted
<1>8. ASSUME NEW u \in DOMAIN upvalues
      PROVE  Located(u, w[u])'
  <2>1. w[u] \in DOMAIN cell /\ w[u] # 0 /\ w[u] # v /\ Located(u, w[u])
    BY <1>2, TypedFacts, SMTT(40) DEF For
  <2>2. CASE upvalues[u].location = Closed /\ upvalues[u].closed = cell[w[u]] /\ Nowhere(w[u])
    <3>1. Nowhere(w[u])'
      BY <1>1, <1>3, <1>4, <2>1, <2>2 DEF Nowhere
    <3>2. QED
      BY <1>2, <2>1, <2>2, <3>1 DEF Located
  <2>3. CASE upvalues[u].location >= 0 /\ upvalues[u].owner = 0 /\ OnStack(u, w[u])
    BY <1>1, <2>3 DEF Located, OnStack
  <2>4. CASE upvalues[u].location >= 0 /\ upvalues[u].owner # 0 /\ InGenerator(u, w[u], upvalues[u].owner)
    BY <2>4 DEF Located, InGenerator
  <2>5. QED
    BY <2>1, <2>2, <2>3, <2>4 DEF Located
<1>9. For(w)'
  <2>1. w \in [DOMAIN upvalues -> DOMAIN cell']
    BY <1>2 DEF For
  <2>2. QED
    BY <1>8, <2>1 DEF For
<1>10. QED
  BY <1>1, <1>2, <1>6, <1>7, <1>9

\* Variable v, which has upvalue u when w[u] = v, is given x wherever it is.
StackGiven(v, x) ==
  /\ stack' \in Seq(Entry) /\ Len(stack') = Len(stack)
  /\ \A k \in DOMAIN stack : stack'[k] = IF names[k] = v THEN x ELSE stack[k]
GeneratorsGiven(v, x) ==
  /\ gens' \in Seq(GeneratorRecord) /\ Len(gens') = Len(gens)
  /\ \A g \in DOMAIN gens :
       /\ gens'[g].status = gens[g].status /\ gens'[g].names = gens[g].names /\ gens'[g].captured = gens[g].captured
       /\ gens'[g].closure = gens[g].closure
       /\ g \notin Waiting => gens'[g] = gens[g]
       /\ DOMAIN gens'[g].args = DOMAIN gens[g].args
       /\ g \in Waiting => \A k \in DOMAIN gens[g].args :
            gens'[g].args[k] = IF gens[g].names[k] = v THEN x ELSE gens[g].args[k]
UpvaluesGiven(w, v, x) ==
  /\ upvalues' \in Seq(UpvalueRecord) /\ Len(upvalues') = Len(upvalues)
  /\ \A u \in DOMAIN upvalues :
       /\ upvalues'[u].location = upvalues[u].location /\ upvalues'[u].owner = upvalues[u].owner
       /\ upvalues[u].location = Closed =>
            upvalues'[u].closed = IF w[u] = v THEN x ELSE upvalues[u].closed

LEMMA AssignKeeps ==
  ASSUME Typed, Placed, Sorted, NEW w, For(w), NEW v \in DOMAIN cell, NEW x \in Value,
         cell' = [cell EXCEPT ![v] = x],
         StackGiven(v, x), GeneratorsGiven(v, x), UpvaluesGiven(w, v, x),
         names' = names, open' = open, closures' = closures
  PROVE  Placed' /\ Sorted' /\ For(w)' /\ cell' \in Seq(Value)
<1> USE DEF StackGiven, GeneratorsGiven, UpvaluesGiven
<1>1. /\ DOMAIN cell' = DOMAIN cell /\ cell'[v] = x /\ \A y \in DOMAIN cell : y # v => cell'[y] = cell[y]
      /\ cell' \in Seq(Value)
  BY ExceptSeq DEF Typed
<1>2. /\ DOMAIN stack' = DOMAIN stack /\ DOMAIN gens' = DOMAIN gens /\ DOMAIN upvalues' = DOMAIN upvalues
      /\ DOMAIN names' = DOMAIN names
  BY LenProperties, TypedFacts
<1>3. Waiting' = Waiting
  BY <1>2 DEF Waiting
<1>4. Placed'
  <2>1. Shaped'
    <3>1. \A g \in Waiting : Len(gens'[g].args) = Len(gens[g].args) /\ gens'[g].args # <<>>
      <4>1. SUFFICES ASSUME NEW g \in Waiting
                     PROVE  Len(gens'[g].args) = Len(gens[g].args) /\ gens'[g].args # <<>>
        OBVIOUS
      <4>2. g \in DOMAIN gens /\ gens[g] \in GeneratorRecord /\ gens'[g] \in GeneratorRecord
        BY <1>2, LenProperties, TypedFacts DEF Waiting
      <4>3. /\ DOMAIN gens[g].args = 1 .. Len(gens[g].args) /\ Len(gens[g].args) \in Nat
            /\ DOMAIN gens'[g].args = 1 .. Len(gens'[g].args) /\ Len(gens'[g].args) \in Nat
        BY <4>2, GeneratorFacts
      <4>4. Len(gens'[g].args) = Len(gens[g].args)
        BY <4>2, <4>3
      <4>5. gens[g].args # <<>> /\ gens[g].args \in Seq(Entry) /\ gens'[g].args \in Seq(Entry)
        BY <4>2 DEF Placed, Shaped, GeneratorRecord
      <4>6. QED
        BY <4>4, <4>5, EmptySeq
    <3>2. \A g \in Waiting :
            /\ Len(gens'[g].names) = Len(gens'[g].args)
            /\ gens'[g].status = "suspended" => gens'[g].names[Len(gens'[g].args)] = 0
      BY <3>1 DEF Placed, Shaped, Waiting
    <3>3. \A g \in DOMAIN gens : gens'[g].status = "freed" => gens'[g].args = <<>>
      <4>1. \A g \in DOMAIN gens : gens'[g].status = "freed" => g \notin Waiting
        BY DEF Waiting
      <4>2. QED
        BY <4>1 DEF Placed, Shaped
    <3>4. Len(names') = Len(stack')
      BY DEF Placed, Shaped
    <3>5. QED
      BY <1>2, <1>3, <3>1, <3>2, <3>3, <3>4 DEF Shaped
  <2>2. Valued'
    <3>1. \A k \in DOMAIN stack : names[k] # 0 => names[k] \in DOMAIN cell /\ stack'[k] = cell'[names[k]]
      BY <1>1 DEF Placed, Valued
    <3>2. \A g \in Waiting : \A k \in DOMAIN gens'[g].args : gens'[g].names[k] # 0 =>
            gens'[g].names[k] \in DOMAIN cell /\ gens'[g].args[k] = cell'[gens'[g].names[k]]
      <4>1. SUFFICES ASSUME NEW g \in Waiting, NEW k \in DOMAIN gens[g].args, gens[g].names[k] # 0
                     PROVE  gens[g].names[k] \in DOMAIN cell /\ gens'[g].args[k] = cell'[gens[g].names[k]]
        BY DEF Waiting
      <4>2. g \in DOMAIN gens /\ gens[g].names[k] \in DOMAIN cell /\ gens[g].args[k] = cell[gens[g].names[k]]
        BY <4>1 DEF Placed, Valued, Waiting
      <4>3. gens'[g].args[k] = IF gens[g].names[k] = v THEN x ELSE gens[g].args[k]
        BY <4>2
      <4>4. QED
        BY <1>1, <4>2, <4>3
    <3>3. QED
      BY <1>1, <1>2, <1>3, <3>1, <3>2 DEF Valued
  <2>3. OnePlace'
    <3>1. \A g \in Waiting : gens'[g].names = gens[g].names /\ DOMAIN gens'[g].args = DOMAIN gens[g].args
      BY DEF Waiting
    <3>2. \A k, l \in DOMAIN stack' : names'[k] = names'[l] /\ names'[k] # 0 => k = l
      BY <1>2 DEF Placed, OnePlace
    <3>3. ASSUME NEW g \in Waiting, NEW k \in DOMAIN gens'[g].args, NEW l \in DOMAIN stack', gens'[g].names[k] # 0
          PROVE  names'[l] # gens'[g].names[k]
      BY <1>2, <3>1, <3>3 DEF Placed, OnePlace
    <3>4. ASSUME NEW g \in Waiting, NEW h \in Waiting, NEW k \in DOMAIN gens'[g].args, NEW l \in DOMAIN gens'[h].args,
                 gens'[g].names[k] = gens'[h].names[l], gens'[g].names[k] # 0
          PROVE  g = h /\ k = l
      <4>1. /\ k \in DOMAIN gens[g].args /\ l \in DOMAIN gens[h].args
            /\ gens[g].names[k] = gens[h].names[l] /\ gens[g].names[k] # 0
        BY <3>1, <3>4
      <4> HIDE DEF StackGiven, GeneratorsGiven, UpvaluesGiven
      <4>2. QED
        BY <3>4, <4>1 DEF Placed, OnePlace
    <3>5. QED
      BY <1>3, <3>2, <3>3, <3>4 DEF OnePlace
  <2>4. QED
    BY <2>1, <2>2, <2>3 DEF Placed
<1>5. Sorted'
  <2>1. \A j \in DOMAIN open :
          /\ open[j] \in DOMAIN upvalues
          /\ upvalues'[open[j]].owner = 0 /\ upvalues'[open[j]].location >= 0
    BY DEF Sorted
  <2>2. \A i, j \in DOMAIN open : i < j => upvalues'[open[i]].location > upvalues'[open[j]].location
    BY DEF Sorted
  <2>3. ASSUME NEW g \in DOMAIN gens
        PROVE  /\ gens[g].status # "suspended" => gens[g].captured = <<>>
               /\ \A j \in DOMAIN gens[g].captured :
                    /\ gens[g].captured[j] \in DOMAIN upvalues
                    /\ upvalues'[gens[g].captured[j]].owner = g /\ upvalues'[gens[g].captured[j]].location >= 0
               /\ \A i, j \in DOMAIN gens[g].captured :
                    i < j => upvalues'[gens[g].captured[i]].location < upvalues'[gens[g].captured[j]].location
    <3>1. \A j \in DOMAIN gens[g].captured :
            /\ gens[g].captured[j] \in DOMAIN upvalues
            /\ upvalues[gens[g].captured[j]].owner = g /\ upvalues[gens[g].captured[j]].location >= 0
      BY DEF Sorted
    <3>2. \A j \in DOMAIN gens[g].captured :
            upvalues'[gens[g].captured[j]].location = upvalues[gens[g].captured[j]].location
      BY <3>1
    <3>3. \A i, j \in DOMAIN gens[g].captured :
            i < j => upvalues[gens[g].captured[i]].location < upvalues[gens[g].captured[j]].location
      BY DEF Sorted
    <3>4. gens[g].status # "suspended" => gens[g].captured = <<>>
      BY DEF Sorted
    <3>5. QED
      BY <3>1, <3>2, <3>3, <3>4
  <2>4. QED
    BY <1>2, <2>1, <2>2, <2>3, SMTT(40) DEF Sorted
<1>6. ASSUME NEW u \in DOMAIN upvalues
      PROVE  Located(u, w[u])'
  <2>1. w[u] \in DOMAIN cell /\ Located(u, w[u])
    BY DEF For
  <2>2. CASE upvalues[u].location = Closed /\ upvalues[u].closed = cell[w[u]] /\ Nowhere(w[u])
    <3>1. upvalues'[u].location = Closed /\ upvalues'[u].closed = cell'[w[u]]
      BY <1>1, <2>1, <2>2
    <3>2. \A g \in Waiting : gens'[g].names = gens[g].names /\ DOMAIN gens'[g].args = DOMAIN gens[g].args
      BY DEF Waiting
    <3>3. Nowhere(w[u])'
      BY <1>2, <1>3, <2>2, <3>2 DEF Nowhere
    <3>4. QED
      BY <3>1, <3>3 DEF Located
  <2>3. CASE upvalues[u].location >= 0 /\ upvalues[u].owner = 0 /\ OnStack(u, w[u])
    BY <1>2, <2>3 DEF Located, OnStack
  <2>4. CASE upvalues[u].location >= 0 /\ upvalues[u].owner # 0 /\ InGenerator(u, w[u], upvalues[u].owner)
    <3>1. InGenerator(u, w[u], upvalues[u].owner)'
      BY <1>2, <2>4 DEF InGenerator
    <3>2. QED
      BY <2>4, <3>1 DEF Located
  <2>5. QED
    BY <2>1, <2>2, <2>3, <2>4 DEF Located
<1>7. For(w)'
  BY <1>1, <1>2, <1>6 DEF For
<1>8. QED
  BY <1>1, <1>4, <1>5, <1>7

-----------------------------------------------------------------------------
(* Closures.                                                               *)

With(s, n, b) == SubSeq(s, 1, n) \o b \o SubSeq(s, n + 1, Len(s))

LEMMA Inserted ==
  ASSUME NEW S, NEW s \in Seq(S), NEW n \in 0 .. Len(s), NEW b \in Seq(S), Len(b) = 1
  PROVE  /\ With(s, n, b) \in Seq(S) /\ Len(With(s, n, b)) = Len(s) + 1
         /\ \A i \in 1 .. n : With(s, n, b)[i] = s[i]
         /\ With(s, n, b)[n + 1] = b[1]
         /\ \A i \in n + 1 .. Len(s) : With(s, n, b)[i + 1] = s[i]
<1> DEFINE t == With(s, n, b)
           a == SubSeq(s, 1, n)
           c == SubSeq(s, n + 1, Len(s))
<1>1. /\ a \in Seq(S) /\ Len(a) = n /\ \A i \in 1 .. n : a[i] = s[i]
      /\ c \in Seq(S) /\ Len(c) = Len(s) - n /\ \A i \in 1 .. Len(s) - n : c[i] = s[n + i]
  BY Parts
<1>2. b \in Seq(S) /\ Len(b) = 1
  OBVIOUS
<1>3. n \in Nat /\ Len(s) \in Nat /\ n <= Len(s)
  BY LenProperties
<1>4. t = (a \o b) \o c
  BY DEF With
<1> HIDE DEF t, a, c
<1>5. /\ a \o b \in Seq(S) /\ Len(a \o b) = n + 1
      /\ \A i \in 1 .. n + 1 : (a \o b)[i] = IF i <= n THEN a[i] ELSE b[i - n]
  <2>1. /\ a \o b \in Seq(S) /\ Len(a \o b) = Len(a) + Len(b)
        /\ \A i \in 1 .. Len(a) + Len(b) : (a \o b)[i] = IF i <= Len(a) THEN a[i] ELSE b[i - Len(a)]
    BY <1>1, <1>2, ConcatProperties, Zenon
  <2>2. QED
    BY <1>1, <1>2, <2>1, Zenon
<1>6. /\ t \in Seq(S) /\ Len(t) = (n + 1) + (Len(s) - n)
      /\ \A i \in 1 .. (n + 1) + (Len(s) - n) : t[i] = IF i <= n + 1 THEN (a \o b)[i] ELSE c[i - (n + 1)]
  <2>1. /\ (a \o b) \o c \in Seq(S) /\ Len((a \o b) \o c) = Len(a \o b) + Len(c)
        /\ \A i \in 1 .. Len(a \o b) + Len(c) :
             ((a \o b) \o c)[i] = IF i <= Len(a \o b) THEN (a \o b)[i] ELSE c[i - Len(a \o b)]
    BY <1>1, <1>5, ConcatProperties, ZenonT(40)
  <2>2. QED
    BY <1>1, <1>4, <1>5, <2>1, ZenonT(40)
<1>7. (n + 1) + (Len(s) - n) = Len(s) + 1
  BY <1>3
<1>8. \A i \in 1 .. n : t[i] = s[i]
  <2>1. \A i \in 1 .. n : i \in 1 .. n + 1 /\ i <= n /\ i <= n + 1 /\ i \in 1 .. Len(s) + 1
    BY <1>3
  <2>2. QED
    BY <1>1, <1>5, <1>6, <1>7, <2>1
<1>9. t[n + 1] = b[1]
  <2>1. n + 1 \in 1 .. n + 1 /\ n + 1 <= n + 1 /\ n + 1 \in 1 .. Len(s) + 1 /\ (n + 1) - n = 1 /\ ~(n + 1 <= n)
    BY <1>3
  <2>2. QED
    BY <1>2, <1>5, <1>6, <1>7, <2>1
<1>10. ASSUME NEW i \in n + 1 .. Len(s)
       PROVE  t[i + 1] = s[i]
  <2>1. /\ i + 1 \in 1 .. Len(s) + 1 /\ ~(i + 1 <= n + 1) /\ (i + 1) - (n + 1) = i - n
        /\ i - n \in 1 .. Len(s) - n /\ n + (i - n) = i
    BY <1>3
  <2>2. t[i + 1] = c[i - n]
    BY <1>6, <1>7, <2>1
  <2>3. QED
    BY <1>1, <2>1, <2>2
<1>11. QED
  BY <1>6, <1>7, <1>8, <1>9, <1>10 DEF t

LEMMA InFront ==
  ASSUME NEW S, NEW s \in Seq(S), NEW b \in Seq(S), Len(b) = 1
  PROVE  /\ b \o s \in Seq(S) /\ Len(b \o s) = Len(s) + 1
         /\ (b \o s)[1] = b[1]
         /\ \A i \in 1 .. Len(s) : (b \o s)[i + 1] = s[i]
<1>1. Len(s) \in Nat
  BY LenProperties
<1>2. /\ b \o s \in Seq(S) /\ Len(b \o s) = Len(b) + Len(s)
      /\ \A i \in 1 .. Len(b) + Len(s) : (b \o s)[i] = IF i <= Len(b) THEN b[i] ELSE s[i - Len(b)]
  BY ConcatProperties, Zenon
<1>3. \A i \in 1 .. Len(s) : i + 1 \in 1 .. Len(b) + Len(s) /\ ~(i + 1 <= Len(b)) /\ (i + 1) - Len(b) = i
  BY <1>1
<1>4. 1 \in 1 .. Len(b) + Len(s) /\ 1 <= Len(b) /\ Len(b) + Len(s) = Len(s) + 1
  BY <1>1
<1>5. QED
  BY <1>2, <1>3, <1>4

\* A slot that no open upvalue points to is for a variable without an upvalue.
LEMMA NotCaptured ==
  ASSUME Typed, Placed, Sorted, NEW w, For(w), NEW k \in DOMAIN stack, names[k] # 0,
         ~ \E u \in DOMAIN upvalues : Contains(open, u) /\ upvalues[u].location = k - 1
  PROVE  \A u \in DOMAIN upvalues : w[u] # names[k]
<1>1. SUFFICES ASSUME NEW u \in DOMAIN upvalues, w[u] = names[k]
               PROVE  FALSE
  OBVIOUS
<1>2. Located(u, w[u])
  BY DEF For
<1>3. CASE Nowhere(w[u])
  BY <1>1, <1>3 DEF Nowhere
<1>4. CASE upvalues[u].location >= 0 /\ upvalues[u].owner = 0 /\ OnStack(u, w[u])
  <2>1. upvalues[u].location + 1 = k /\ Contains(open, u)
    BY <1>1, <1>4 DEF OnStack, Placed, OnePlace
  <2>2. upvalues[u].location \in Int /\ k \in Nat
    BY TypedFacts DEF UpvalueRecord
  <2>3. upvalues[u].location = k - 1
    BY <2>1, <2>2
  <2>4. QED
    BY <2>1, <2>3
<1>5. CASE InGenerator(u, w[u], upvalues[u].owner)
  <2>1. upvalues[u].owner \in Waiting
    BY <1>5 DEF InGenerator, Waiting
  <2>2. QED
    BY <1>1, <1>5, <2>1 DEF InGenerator, Placed, OnePlace
<1>6. QED
  BY <1>2, <1>3, <1>4, <1>5 DEF Located

\* captureUpvalue answers with the upvalue of the variable, on the list.
LEMMA CaptureKeeps ==
  ASSUME Typed, Placed, Sorted, NEW w, For(w), NEW k \in DOMAIN stack, names[k] # 0,
         open' = Capture(k - 1).open, upvalues' = Capture(k - 1).upvalues,
         stack' = stack, gens' = gens, names' = names, cell' = cell
  PROVE  /\ Sorted' /\ open' \in Seq(Nat) /\ upvalues' \in Seq(UpvalueRecord)
         /\ DOMAIN upvalues \subseteq DOMAIN upvalues' /\ Capture(k - 1).upvalue \in DOMAIN upvalues'
         /\ \E x \in [DOMAIN upvalues' -> DOMAIN cell] :
              /\ \A u \in DOMAIN upvalues : x[u] = w[u]
              /\ \A u, y \in DOMAIN upvalues' : x[u] = x[y] => u = y
              /\ x[Capture(k - 1).upvalue] = names[k]
              /\ \A u \in DOMAIN upvalues' : Located(u, x[u])'
<1> DEFINE n == Passed(k)
           found == n < Len(open) /\ upvalues[open[n + 1]].location = k - 1
           new == Len(upvalues) + 1
           up == [location |-> k - 1, closed |-> Other, owner |-> 0]
<1>1. k \in Nat /\ (k - 1) + 1 = k /\ k - 1 \in Nat /\ names[k] \in DOMAIN cell
  BY TypedFacts DEF Placed, Valued
<1>2. /\ n \in 0 .. Len(open)
      /\ \A j \in 1 .. n : upvalues[open[j]].location >= k
      /\ \A j \in n + 1 .. Len(open) : upvalues[open[j]].location < k
  BY <1>1, PassedRight
<1>3. /\ open \in Seq(Nat) /\ DOMAIN open = 1 .. Len(open) /\ Len(open) \in Nat
      /\ upvalues \in Seq(UpvalueRecord) /\ DOMAIN upvalues = 1 .. Len(upvalues) /\ Len(upvalues) \in Nat
  BY TypedFacts DEF Typed
<1>4. \A j \in 1 .. Len(open) : /\ open[j] \in DOMAIN upvalues
                                /\ upvalues[open[j]].location \in Int /\ upvalues[open[j]].owner = 0
                                /\ upvalues[open[j]].location >= 0
  BY <1>3, TypedFacts DEF Sorted, UpvalueRecord
<1>5. CASE found
  <2> DEFINE u0 == open[n + 1]
  <2>1. Capture(k - 1).upvalue = u0 /\ open' = open /\ upvalues' = upvalues
    BY <1>1, <1>5 DEF Capture
  <2>2. n + 1 \in 1 .. Len(open)
    BY <1>2, <1>3, <1>5
  <2>3. u0 \in DOMAIN upvalues /\ Contains(open, u0) /\ upvalues[u0].location = k - 1
    BY <1>4, <1>5, <2>2 DEF Contains
  <2>4. w[u0] = names[k]
    BY <1>1, <2>3, OpenOnStack
  <2>5. \A u \in DOMAIN upvalues : Located(u, w[u])'
    BY <2>1 DEF For, Located, Nowhere, OnStack, InGenerator, Waiting
  <2>6. Sorted'
    BY <2>1 DEF Sorted
  <2>7. /\ w \in [DOMAIN upvalues' -> DOMAIN cell]
        /\ \A u, y \in DOMAIN upvalues' : w[u] = w[y] => u = y
    BY <2>1 DEF For
  <2> HIDE DEF u0, found
  <2>8. QED
    BY <1>3, <2>1, <2>3, <2>4, <2>5, <2>6, <2>7
<1>6. CASE ~found
  <2>1. /\ Capture(k - 1).upvalue = new
        /\ open' = SubSeq(open, 1, n) \o <<new>> \o SubSeq(open, n + 1, Len(open))
        /\ upvalues' = Append(upvalues, up)
    BY <1>1, <1>6 DEF Capture
  <2>2. new \in Nat /\ up \in UpvalueRecord /\ new \notin DOMAIN upvalues
    BY <1>1, <1>3 DEF UpvalueRecord, Entry
  <2> HIDE DEF n, new, up
  <2>3. /\ open' \in Seq(Nat) /\ Len(open') = Len(open) + 1
        /\ \A i \in 1 .. n : open'[i] = open[i]
        /\ open'[n + 1] = new
        /\ \A i \in n + 1 .. Len(open) : open'[i + 1] = open[i]
    <3>1. open \in Seq(Nat) /\ n \in 0 .. Len(open) /\ new \in Nat
      BY <1>2, <1>3, <2>2
    <3>2. open' = SubSeq(open, 1, n) \o <<new>> \o SubSeq(open, n + 1, Len(open))
      BY <2>1
    <3> DEFINE b == <<new>>
    <3>3. b \in Seq(Nat) /\ Len(b) = 1 /\ b[1] = new
      BY <3>1
    <3>4. open' = With(open, n, b)
      BY <3>2 DEF With
    <3> HIDE DEF b
    <3>5. /\ With(open, n, b) \in Seq(Nat) /\ Len(With(open, n, b)) = Len(open) + 1
          /\ \A i \in 1 .. n : With(open, n, b)[i] = open[i]
          /\ With(open, n, b)[n + 1] = b[1]
          /\ \A i \in n + 1 .. Len(open) : With(open, n, b)[i + 1] = open[i]
      BY <3>1, <3>3, Inserted, ZenonT(40)
    <3>6. QED
      BY <3>3, <3>4, <3>5
  <2>4. DOMAIN open' = 1 .. Len(open) + 1
    BY <2>3, LenProperties
  <2>5. /\ upvalues' \in Seq(UpvalueRecord) /\ DOMAIN upvalues' = 1 .. Len(upvalues) + 1
        /\ \A u \in DOMAIN upvalues : upvalues'[u] = upvalues[u]
        /\ upvalues'[new] = up
    <3>1. /\ upvalues' \in Seq(UpvalueRecord) /\ Len(upvalues') = Len(upvalues) + 1
          /\ \A u \in 1 .. Len(upvalues) : upvalues'[u] = upvalues[u]
          /\ upvalues'[new] = up
      <4>1. new = Len(upvalues) + 1
        BY DEF new
      <4>2. /\ Append(upvalues, up) \in Seq(UpvalueRecord) /\ Len(Append(upvalues, up)) = Len(upvalues) + 1
            /\ \A u \in 1 .. Len(upvalues) : Append(upvalues, up)[u] = upvalues[u]
            /\ Append(upvalues, up)[Len(upvalues) + 1] = up
        BY <1>3, <2>2, AppendProperties
      <4>3. QED
        BY <2>1, <4>1, <4>2
    <3>2. QED
      BY <1>3, <3>1, LenProperties
  <2>6. \A j \in n + 1 .. Len(open) : upvalues[open[j]].location < k - 1
    <3>1. SUFFICES ASSUME NEW j \in n + 1 .. Len(open)
                   PROVE  upvalues[open[j]].location < k - 1
      OBVIOUS
    <3>2. /\ n + 1 \in 1 .. Len(open) /\ j \in 1 .. Len(open) /\ n + 1 \in n + 1 .. Len(open)
          /\ n < Len(open) /\ (j = n + 1 \/ n + 1 < j)
      BY <1>2, <1>3
    <3>3. upvalues[open[n + 1]].location < k - 1
      BY <1>1, <1>2, <1>4, <1>6, <3>2
    <3>4. CASE n + 1 < j
      <4>1. upvalues[open[n + 1]].location > upvalues[open[j]].location
        BY <1>3, <3>2, <3>4 DEF Sorted
      <4>2. QED
        BY <1>1, <1>4, <3>2, <3>3, <4>1
    <3>5. QED
      BY <3>2, <3>3, <3>4
  <2>7. \A j \in DOMAIN open' : j \in 1 .. n \/ j = n + 1 \/ (j - 1 \in n + 1 .. Len(open) /\ (j - 1) + 1 = j)
    BY <1>2, <1>3, <2>4
  <2>8. \A j \in 1 .. n : j \in 1 .. Len(open)
    BY <1>2, <1>3
  <2>9. \A j \in n + 1 .. Len(open) : j \in 1 .. Len(open)
    BY <1>2, <1>3
  <2>10. Sorted'
    <3>1. ASSUME NEW j \in DOMAIN open'
          PROVE  /\ open'[j] \in DOMAIN upvalues'
                 /\ upvalues'[open'[j]].owner = 0 /\ upvalues'[open'[j]].location >= 0
      <4>1. CASE j = n + 1
        <5>1. up.owner = 0 /\ up.location >= 0 /\ new \in DOMAIN upvalues'
          BY <1>1, <1>3, <2>5 DEF up, new
        <5>2. QED
          BY <2>3, <2>5, <4>1, <5>1
      <4>2. CASE j \in 1 .. n
        <5>1. open[j] \in DOMAIN upvalues /\ open[j] \in DOMAIN upvalues'
          BY <1>3, <1>4, <2>5, <2>8, <4>2
        <5>2. QED
          BY <1>4, <2>3, <2>5, <2>8, <4>2, <5>1
      <4>3. CASE j - 1 \in n + 1 .. Len(open) /\ (j - 1) + 1 = j
        <5>1. open'[j] = open[j - 1] /\ j - 1 \in 1 .. Len(open)
          BY <2>3, <2>9, <4>3
        <5>2. open[j - 1] \in DOMAIN upvalues /\ open[j - 1] \in DOMAIN upvalues'
          BY <1>3, <1>4, <2>5, <5>1
        <5>3. QED
          BY <1>4, <2>5, <5>1, <5>2
      <4>4. QED
        BY <2>7, <4>1, <4>2, <4>3
    <3> DEFINE at(j) == upvalues[open[j]].location
    <3>2. \A i, j \in 1 .. Len(open) : i < j => at(i) > at(j)
      BY <1>3 DEF Sorted
    <3>3. /\ \A j \in 1 .. n : upvalues'[open'[j]].location = at(j) /\ at(j) > k - 1 /\ at(j) \in Int
          /\ upvalues'[open'[n + 1]].location = k - 1
          /\ \A j \in n + 1 .. Len(open) : upvalues'[open'[j + 1]].location = at(j) /\ at(j) < k - 1 /\ at(j) \in Int
      <4>1. \A j \in 1 .. Len(open) : upvalues'[open[j]] = upvalues[open[j]] /\ at(j) \in Int
        BY <1>4, <2>5
      <4>2. \A j \in 1 .. n : upvalues'[open'[j]].location = at(j) /\ at(j) > k - 1 /\ at(j) \in Int
        <5>1. \A j \in 1 .. n : at(j) > k - 1 /\ at(j) \in Int
          BY <1>1, <1>2, <2>8, <4>1
        <5>2. \A j \in 1 .. n : upvalues'[open'[j]].location = at(j)
          BY <2>3, <2>8, <4>1
        <5>3. QED
          BY <5>1, <5>2
      <4>3. upvalues'[open'[n + 1]].location = k - 1
        BY <2>3, <2>5 DEF up
      <4>4. \A j \in n + 1 .. Len(open) : upvalues'[open'[j + 1]].location = at(j) /\ at(j) < k - 1 /\ at(j) \in Int
        BY <2>3, <2>6, <2>9, <4>1
      <4>5. QED
        BY <4>2, <4>3, <4>4
    <3> HIDE DEF at
    <3>4. ASSUME NEW i \in DOMAIN open', NEW j \in DOMAIN open', i < j
          PROVE  upvalues'[open'[i]].location > upvalues'[open'[j]].location
      <4>1. CASE i \in 1 .. n /\ j \in 1 .. n
        BY <2>8, <3>2, <3>3, <3>4, <4>1
      <4>2. CASE i \in 1 .. n /\ j = n + 1
        BY <1>1, <3>3, <4>2
      <4>3. CASE i \in 1 .. n /\ j - 1 \in n + 1 .. Len(open) /\ (j - 1) + 1 = j
        <5>1. i < j - 1 /\ i \in 1 .. Len(open) /\ j - 1 \in 1 .. Len(open)
          BY <1>2, <1>3, <2>8, <2>9, <4>3
        <5>2. upvalues'[open'[j]].location = at(j - 1)
          BY <3>3, <4>3
        <5>3. QED
          BY <3>2, <3>3, <4>3, <5>1, <5>2
      <4>4. CASE i = n + 1 /\ j - 1 \in n + 1 .. Len(open) /\ (j - 1) + 1 = j
        <5>1. upvalues'[open'[j]].location = at(j - 1) /\ at(j - 1) < k - 1 /\ at(j - 1) \in Int
          BY <3>3, <4>4
        <5>2. QED
          BY <1>1, <3>3, <4>4, <5>1
      <4>5. CASE i - 1 \in n + 1 .. Len(open) /\ (i - 1) + 1 = i /\ j - 1 \in n + 1 .. Len(open) /\ (j - 1) + 1 = j
        <5>1. i - 1 < j - 1 /\ i - 1 \in 1 .. Len(open) /\ j - 1 \in 1 .. Len(open)
          BY <1>2, <1>3, <2>9, <3>4, <4>5
        <5>2. upvalues'[open'[j]].location = at(j - 1) /\ upvalues'[open'[i]].location = at(i - 1)
          BY <3>3, <4>5
        <5>3. QED
          BY <3>2, <5>1, <5>2
      <4>6. ~(i = n + 1 /\ j \in 1 .. n) /\ ~(i = n + 1 /\ j = n + 1)
        BY <1>2, <1>3, <3>4
      <4>7. i - 1 \in n + 1 .. Len(open) => ~(j \in 1 .. n) /\ j # n + 1
        BY <1>2, <1>3, <2>4, <3>4
      <4>8. QED
        BY <2>7, <4>1, <4>2, <4>3, <4>4, <4>5, <4>6, <4>7
    <3>5. ASSUME NEW g \in DOMAIN gens
          PROVE  /\ gens[g].status # "suspended" => gens[g].captured = <<>>
                 /\ \A j \in DOMAIN gens[g].captured :
                      /\ gens[g].captured[j] \in DOMAIN upvalues'
                      /\ upvalues'[gens[g].captured[j]].owner = g /\ upvalues'[gens[g].captured[j]].location >= 0
                 /\ \A i, j \in DOMAIN gens[g].captured :
                      i < j => upvalues'[gens[g].captured[i]].location < upvalues'[gens[g].captured[j]].location
      <4>1. \A j \in DOMAIN gens[g].captured :
              /\ gens[g].captured[j] \in DOMAIN upvalues
              /\ upvalues[gens[g].captured[j]].owner = g /\ upvalues[gens[g].captured[j]].location >= 0
        BY DEF Sorted
      <4>2. \A j \in DOMAIN gens[g].captured : upvalues'[gens[g].captured[j]] = upvalues[gens[g].captured[j]]
        BY <2>5, <4>1
      <4>3. \A j \in DOMAIN gens[g].captured : gens[g].captured[j] \in DOMAIN upvalues'
        BY <1>3, <2>5, <4>1
      <4>4. \A i, j \in DOMAIN gens[g].captured :
              i < j => upvalues[gens[g].captured[i]].location < upvalues[gens[g].captured[j]].location
        BY DEF Sorted
      <4>5. gens[g].status # "suspended" => gens[g].captured = <<>>
        BY DEF Sorted
      <4>6. QED
        BY <4>1, <4>2, <4>3, <4>4, <4>5
    <3>6. QED
      BY <3>1, <3>4, <3>5 DEF Sorted
  <2>11. \A u \in DOMAIN upvalues : w[u] # names[k]
    <3>1. ASSUME NEW u \in DOMAIN upvalues, Contains(open, u), upvalues[u].location = k - 1
          PROVE  FALSE
      <4>1. PICK j \in 1 .. Len(open) : open[j] = u
        BY <3>1 DEF Contains
      <4>2. j \in 1 .. n \/ j \in n + 1 .. Len(open)
        BY <1>2, <1>3
      <4>3. upvalues[u].location \in Int
        BY <1>4, <4>1
      <4>4. QED
        BY <1>1, <1>2, <2>6, <3>1, <4>1, <4>2, <4>3
    <3>2. QED
      BY <3>1, NotCaptured
  <2>12. \A u \in DOMAIN upvalues' : u = new \/ u \in DOMAIN upvalues
    BY <1>3, <2>5 DEF new
  <2>13. new \in DOMAIN upvalues' /\ DOMAIN upvalues \subseteq DOMAIN upvalues'
    BY <1>3, <2>5 DEF new
  <2>14. PICK x \in [DOMAIN upvalues' -> DOMAIN cell] :
           x[new] = names[k] /\ \A u \in DOMAIN upvalues : x[u] = w[u]
    <3> DEFINE y == [u \in DOMAIN upvalues' |-> IF u = new THEN names[k] ELSE w[u]]
    <3>1. \A u \in DOMAIN upvalues : w[u] \in DOMAIN cell
      BY DEF For
    <3>2. y \in [DOMAIN upvalues' -> DOMAIN cell] /\ y[new] = names[k] /\ \A u \in DOMAIN upvalues : y[u] = w[u]
      BY <1>1, <2>2, <2>12, <2>13, <3>1
    <3> HIDE DEF y
    <3>3. QED
      BY <3>2
  <2>15. \A u, y \in DOMAIN upvalues' : x[u] = x[y] => u = y
    <3>1. \A u, y \in DOMAIN upvalues : w[u] = w[y] => u = y
      BY DEF For
    <3>2. QED
      BY <2>11, <2>12, <2>14, <3>1
  <2>16. ASSUME NEW u \in DOMAIN upvalues'
         PROVE  Located(u, x[u])'
    <3>1. CASE u = new
      <4>1. upvalues'[u].location = k - 1 /\ upvalues'[u].owner = 0
        BY <2>5, <3>1 DEF up
      <4>2. Contains(open', u)
        <5>1. n + 1 \in 1 .. Len(open')
          BY <1>2, <1>3, <2>3
        <5>2. QED
          BY <2>3, <3>1, <5>1 DEF Contains
      <4>3. upvalues'[u].location + 1 = k /\ upvalues'[u].location >= 0 /\ x[u] = names[k]
        BY <1>1, <2>14, <3>1, <4>1
      <4>4. OnStack(u, x[u])'
        BY <4>2, <4>3 DEF OnStack
      <4>5. QED
        BY <4>1, <4>3, <4>4 DEF Located
    <3>2. CASE u \in DOMAIN upvalues
      <4>1. upvalues'[u] = upvalues[u] /\ x[u] = w[u] /\ Located(u, w[u])
        BY <2>5, <2>14, <3>2 DEF For
      <4>2. Contains(open, u) => Contains(open', u)
        <5>1. SUFFICES ASSUME NEW j \in 1 .. Len(open), open[j] = u
                       PROVE  Contains(open', u)
          BY DEF Contains
        <5>2. j \in 1 .. n \/ j \in n + 1 .. Len(open)
          BY <1>2, <1>3
        <5>3. j \in 1 .. Len(open') /\ j + 1 \in 1 .. Len(open')
          BY <1>3, <2>3
        <5>4. QED
          BY <2>3, <5>1, <5>2, <5>3 DEF Contains
      <4>3. Nowhere(w[u]) => Nowhere(w[u])'
        BY DEF Nowhere, Waiting
      <4>4. OnStack(u, w[u]) => OnStack(u, w[u])'
        BY <4>1, <4>2 DEF OnStack
      <4>5. InGenerator(u, w[u], upvalues[u].owner) => InGenerator(u, w[u], upvalues[u].owner)'
        BY <4>1 DEF InGenerator
      <4>6. upvalues'[u].location = upvalues[u].location /\ upvalues'[u].owner = upvalues[u].owner
            /\ upvalues'[u].closed = upvalues[u].closed
        BY <4>1
      <4>7. Located(u, w[u])'
        BY <4>1, <4>3, <4>4, <4>5, <4>6 DEF Located
      <4>8. QED
        BY <4>1, <4>7
    <3>3. QED
      BY <2>12, <3>1, <3>2
  <2>17. Capture(k - 1).upvalue \in DOMAIN upvalues' /\ x[Capture(k - 1).upvalue] = names[k]
    BY <2>1, <2>13, <2>14
  <2>18. QED
    BY <2>3, <2>5, <2>10, <2>13, <2>14, <2>15, <2>16, <2>17
<1>7. QED
  BY <1>5, <1>6

\* A new closure, which captures a local and has what its function captured.
NewClosure(f, k) == [upvalues |-> <<Capture(k - 1).upvalue>> \o closures[f].upvalues,
                     names |-> <<names[k]>> \o closures[f].names]

LEMMA ClosureKeeps ==
  ASSUME Typed, Placed, Sorted, NEW w, For(w), NEW f \in DOMAIN closures, NEW k \in DOMAIN stack, names[k] # 0,
         open' = Capture(k - 1).open, upvalues' = Capture(k - 1).upvalues,
         closures' = Append(closures, NewClosure(f, k)),
         stack' = stack, gens' = gens, names' = names, cell' = cell
  PROVE  /\ Placed' /\ Sorted' /\ open' \in Seq(Nat) /\ upvalues' \in Seq(UpvalueRecord)
         /\ closures' \in Seq(ClosureRecord) /\ Len(closures') = Len(closures) + 1
         /\ \E x \in [DOMAIN upvalues' -> DOMAIN cell'] : For(x)'
<1>1. Placed'
  BY DEF Placed, Shaped, Valued, OnePlace, Waiting
<1>2. /\ Sorted' /\ open' \in Seq(Nat) /\ upvalues' \in Seq(UpvalueRecord)
      /\ DOMAIN upvalues \subseteq DOMAIN upvalues' /\ Capture(k - 1).upvalue \in DOMAIN upvalues'
      /\ \E x \in [DOMAIN upvalues' -> DOMAIN cell] :
           /\ \A u \in DOMAIN upvalues : x[u] = w[u]
           /\ \A u, y \in DOMAIN upvalues' : x[u] = x[y] => u = y
           /\ x[Capture(k - 1).upvalue] = names[k]
           /\ \A u \in DOMAIN upvalues' : Located(u, x[u])'
  BY CaptureKeeps, SMTT(40)
<1>3. PICK x \in [DOMAIN upvalues' -> DOMAIN cell] :
           /\ \A u \in DOMAIN upvalues : x[u] = w[u]
           /\ \A u, y \in DOMAIN upvalues' : x[u] = x[y] => u = y
           /\ x[Capture(k - 1).upvalue] = names[k]
           /\ \A u \in DOMAIN upvalues' : Located(u, x[u])'
  BY <1>2
<1> DEFINE u0 == Capture(k - 1).upvalue
           us == <<u0>>
           vs == <<names[k]>>
           new == [upvalues |-> us \o closures[f].upvalues, names |-> vs \o closures[f].names]
<1>4. closures' = Append(closures, new)
  BY DEF NewClosure
<1>5. u0 \in Nat /\ names[k] \in Nat
  <2>1. DOMAIN upvalues' = 1 .. Len(upvalues') /\ Len(upvalues') \in Nat
    BY <1>2, LenProperties
  <2>2. names[k] \in Nat
    BY TypedFacts DEF Placed, Shaped
  <2>3. QED
    BY <1>2, <2>1, <2>2
<1> HIDE DEF u0
<1>6. us \in Seq(Nat) /\ Len(us) = 1 /\ us[1] = u0
  BY <1>5
<1>7. vs \in Seq(Nat) /\ Len(vs) = 1 /\ vs[1] = names[k]
  BY <1>5
<1> HIDE DEF us, vs
<1>8. closures[f].upvalues \in Seq(Nat) /\ closures[f].names \in Seq(Nat)
  BY TypedFacts DEF ClosureRecord
<1>9. /\ Len(closures[f].names) = Len(closures[f].upvalues)
      /\ \A j \in DOMAIN closures[f].upvalues :
           /\ closures[f].upvalues[j] \in DOMAIN upvalues
           /\ closures[f].names[j] = w[closures[f].upvalues[j]]
  BY DEF For
<1>10. /\ new.upvalues \in Seq(Nat) /\ Len(new.upvalues) = Len(closures[f].upvalues) + 1
       /\ new.upvalues[1] = u0
       /\ \A i \in 1 .. Len(closures[f].upvalues) : new.upvalues[i + 1] = closures[f].upvalues[i]
  BY <1>6, <1>8, InFront, SMTT(40)
<1>11. /\ new.names \in Seq(Nat) /\ Len(new.names) = Len(closures[f].names) + 1
       /\ new.names[1] = names[k]
       /\ \A i \in 1 .. Len(closures[f].names) : new.names[i + 1] = closures[f].names[i]
  BY <1>7, <1>8, InFront
<1>12. new \in ClosureRecord
  BY <1>10, <1>11 DEF ClosureRecord
<1> HIDE DEF new
<1>13. /\ closures' \in Seq(ClosureRecord) /\ Len(closures') = Len(closures) + 1
       /\ DOMAIN closures = 1 .. Len(closures) /\ Len(closures) \in Nat
       /\ \A c \in 1 .. Len(closures) : closures'[c] = closures[c]
       /\ closures'[Len(closures) + 1] = new
  <2>1. closures \in Seq(ClosureRecord) /\ DOMAIN closures = 1 .. Len(closures) /\ Len(closures) \in Nat
    BY TypedFacts DEF Typed
  <2>2. QED
    BY <1>4, <1>12, <2>1, AppendProperties
<1>14. ASSUME NEW c \in DOMAIN closures'
       PROVE  /\ Len(closures'[c].names) = Len(closures'[c].upvalues)
              /\ \A j \in DOMAIN closures'[c].upvalues :
                   /\ closures'[c].upvalues[j] \in DOMAIN upvalues'
                   /\ closures'[c].names[j] = x[closures'[c].upvalues[j]]
  <2>1. c \in DOMAIN closures \/ c = Len(closures) + 1
    BY <1>13, LenProperties
  <2>2. CASE c \in DOMAIN closures
    <3>1. closures'[c] = closures[c]
      BY <1>13, <2>2
    <3>2. /\ Len(closures[c].names) = Len(closures[c].upvalues)
          /\ \A j \in DOMAIN closures[c].upvalues :
               /\ closures[c].upvalues[j] \in DOMAIN upvalues
               /\ closures[c].names[j] = w[closures[c].upvalues[j]]
      BY <2>2 DEF For
    <3>3. \A j \in DOMAIN closures[c].upvalues :
            /\ closures[c].upvalues[j] \in DOMAIN upvalues'
            /\ closures[c].names[j] = x[closures[c].upvalues[j]]
      BY <1>2, <1>3, <3>2
    <3>4. QED
      BY <3>1, <3>2, <3>3
  <2>3. CASE c = Len(closures) + 1
    <3>1. closures'[c] = new
      BY <1>13, <2>3
    <3>2. Len(new.names) = Len(new.upvalues)
      BY <1>9, <1>10, <1>11
    <3>3. ASSUME NEW j \in DOMAIN new.upvalues
          PROVE  new.upvalues[j] \in DOMAIN upvalues' /\ new.names[j] = x[new.upvalues[j]]
      <4>1. DOMAIN new.upvalues = 1 .. Len(closures[f].upvalues) + 1 /\ Len(closures[f].upvalues) \in Nat
            /\ DOMAIN closures[f].upvalues = 1 .. Len(closures[f].upvalues)
        BY <1>8, <1>10, LenProperties
      <4>2. CASE j = 1
        BY <1>2, <1>3, <1>10, <1>11, <4>2 DEF u0
      <4>3. CASE j # 1
        <5>1. j - 1 \in 1 .. Len(closures[f].upvalues) /\ (j - 1) + 1 = j
          BY <4>1, <4>3
        <5>2. /\ closures[f].upvalues[j - 1] \in DOMAIN upvalues
              /\ closures[f].names[j - 1] = w[closures[f].upvalues[j - 1]]
          BY <1>9, <4>1, <5>1
        <5>3. new.upvalues[j] = closures[f].upvalues[j - 1] /\ new.names[j] = closures[f].names[j - 1]
          BY <1>9, <1>10, <1>11, <5>1
        <5>4. QED
          BY <1>2, <1>3, <5>2, <5>3
      <4>4. QED
        BY <4>2, <4>3
    <3>4. QED
      BY <3>1, <3>2, <3>3
  <2>4. QED
    BY <2>1, <2>2, <2>3
<1>15. For(x)'
  BY <1>3, <1>14 DEF For
<1>16. QED
  BY <1>1, <1>2, <1>3, <1>13, <1>15

-----------------------------------------------------------------------------
(* Generators.                                                             *)

LEMMA CellGrows ==
  ASSUME Typed, NEW e \in Value, cell' = Append(cell, e)
  PROVE  /\ cell' \in Seq(Value) /\ DOMAIN cell \subseteq DOMAIN cell'
         /\ \A k \in DOMAIN cell : cell'[k] = cell[k]
         /\ Fresh \in DOMAIN cell' /\ Fresh \notin DOMAIN cell /\ cell'[Fresh] = e /\ Fresh \in Nat /\ Fresh # 0
<1>1. cell \in Seq(Value) /\ DOMAIN cell = 1 .. Len(cell) /\ Len(cell) \in Nat
  BY TypedFacts DEF Typed
<1>2. /\ cell' \in Seq(Value) /\ Len(cell') = Len(cell) + 1
      /\ (\A i \in 1 .. Len(cell) : cell'[i] = cell[i]) /\ cell'[Len(cell) + 1] = e
  BY <1>1, AppendProperties
<1>3. DOMAIN cell' = 1 .. Len(cell) + 1
  BY <1>2, LenProperties
<1>4. \A n \in Nat : 1 .. n \subseteq 1 .. n + 1 /\ n + 1 \in 1 .. n + 1 /\ n + 1 \notin 1 .. n /\ n + 1 \in Nat /\ n + 1 # 0
  OBVIOUS
<1>5. QED
  BY <1>1, <1>2, <1>3, <1>4 DEF Fresh

\* The values of the old places are those of their variables after a new
\* variable comes, which has no place and no upvalue yet.
LEMMA OldValues ==
  ASSUME Typed, Placed, NEW w, For(w), NEW e \in Value, cell' = Append(cell, e)
  PROVE  /\ \A k \in DOMAIN stack : names[k] # 0 =>
              names[k] \in DOMAIN cell' /\ stack[k] = cell'[names[k]] /\ names[k] # Fresh
         /\ \A k \in DOMAIN stack : names[k] # Fresh
         /\ \A g \in Waiting : \A k \in DOMAIN gens[g].args : gens[g].names[k] # 0 =>
              gens[g].names[k] \in DOMAIN cell' /\ gens[g].args[k] = cell'[gens[g].names[k]]
         /\ \A g \in Waiting : \A k \in DOMAIN gens[g].args : gens[g].names[k] # Fresh
         /\ \A u \in DOMAIN upvalues : w[u] \in DOMAIN cell' /\ w[u] # Fresh /\ w[u] # 0 /\ cell'[w[u]] = cell[w[u]]
<1>1. /\ DOMAIN cell \subseteq DOMAIN cell' /\ \A k \in DOMAIN cell : cell'[k] = cell[k]
      /\ Fresh \notin DOMAIN cell /\ Fresh # 0
  BY CellGrows
<1>2. \A k \in DOMAIN stack : names[k] # 0 => names[k] \in DOMAIN cell /\ stack[k] = cell[names[k]]
  BY DEF Placed, Valued
<1>3. \A g \in Waiting : \A k \in DOMAIN gens[g].args : gens[g].names[k] # 0 =>
        gens[g].names[k] \in DOMAIN cell /\ gens[g].args[k] = cell[gens[g].names[k]]
  BY DEF Placed, Valued
<1>4. \A u \in DOMAIN upvalues : w[u] \in DOMAIN cell /\ w[u] # 0
  BY TypedFacts DEF For
<1> HIDE DEF Fresh
<1>5. QED
  BY <1>1, <1>2, <1>3, <1>4

NewGenerator(c, e) == [status |-> "new", args |-> <<e>>, captured |-> <<>>, closure |-> c, names |-> <<Fresh>>]

LEMMA BuildKeeps ==
  ASSUME Typed, Placed, Sorted, NEW w, For(w), NEW e \in Value, NEW c \in Nat,
         cell' = Append(cell, e), gens' = Append(gens, NewGenerator(c, e)),
         stack' = stack, names' = names, open' = open, upvalues' = upvalues, closures' = closures
  PROVE  /\ Placed' /\ Sorted' /\ For(w)' /\ cell' \in Seq(Value) /\ gens' \in Seq(GeneratorRecord)
         /\ Len(gens') = Len(gens) + 1 /\ \A g \in DOMAIN gens : gens'[g] = gens[g]
         /\ gens'[Len(gens) + 1] = NewGenerator(c, e)
<1> DEFINE r == NewGenerator(c, e)
           new == Len(gens) + 1
<1>1. /\ cell' \in Seq(Value) /\ DOMAIN cell \subseteq DOMAIN cell' /\ \A k \in DOMAIN cell : cell'[k] = cell[k]
      /\ Fresh \in DOMAIN cell' /\ Fresh \notin DOMAIN cell /\ cell'[Fresh] = e /\ Fresh \in Nat /\ Fresh # 0
  BY CellGrows
<1>2. /\ \A k \in DOMAIN stack : names[k] # 0 => names[k] \in DOMAIN cell' /\ stack[k] = cell'[names[k]]
      /\ \A k \in DOMAIN stack : names[k] # Fresh
      /\ \A g \in Waiting : \A k \in DOMAIN gens[g].args : gens[g].names[k] # 0 =>
           gens[g].names[k] \in DOMAIN cell' /\ gens[g].args[k] = cell'[gens[g].names[k]]
      /\ \A g \in Waiting : \A k \in DOMAIN gens[g].args : gens[g].names[k] # Fresh
      /\ \A u \in DOMAIN upvalues : w[u] \in DOMAIN cell' /\ w[u] # Fresh /\ w[u] # 0 /\ cell'[w[u]] = cell[w[u]]
  BY OldValues
<1>3. /\ r.status = "new" /\ r.captured = <<>> /\ r.args[1] = e /\ r.names[1] = Fresh
      /\ DOMAIN r.args = {1} /\ Len(r.args) = 1 /\ Len(r.names) = 1 /\ r.args # <<>>
  BY DEF NewGenerator
<1>4. r \in GeneratorRecord
  <2>1. <<e>> \in Seq(Entry) /\ <<Fresh>> \in Seq(Nat) /\ <<>> \in Seq(Nat)
    BY <1>1 DEF Entry
  <2>2. QED
    BY <2>1 DEF NewGenerator, GeneratorRecord, Status
<1> HIDE DEF r
<1>5. /\ gens' \in Seq(GeneratorRecord) /\ Len(gens') = Len(gens) + 1
      /\ DOMAIN gens = 1 .. Len(gens) /\ Len(gens) \in Nat
      /\ \A g \in DOMAIN gens : gens'[g] = gens[g]
      /\ gens'[new] = r
  <2>1. gens \in Seq(GeneratorRecord) /\ DOMAIN gens = 1 .. Len(gens) /\ Len(gens) \in Nat
    BY TypedFacts DEF Typed
  <2>2. gens' = Append(gens, r)
    BY DEF r
  <2>3. QED
    BY <1>4, <2>1, <2>2, AppendProperties
<1>6. /\ DOMAIN gens' = 1 .. Len(gens) + 1 /\ new \in DOMAIN gens' /\ DOMAIN gens \subseteq DOMAIN gens' /\ new \notin DOMAIN gens
      /\ \A g \in DOMAIN gens' : g = new \/ g \in DOMAIN gens
  BY <1>5, LenProperties
<1> HIDE DEF new
<1>7. /\ \A g \in Waiting' : g = new \/ (g \in Waiting /\ gens'[g] = gens[g])
      /\ Waiting \subseteq Waiting' /\ \A g \in Waiting : gens'[g] = gens[g] /\ g # new
  BY <1>3, <1>5, <1>6 DEF Waiting
<1> HIDE DEF Fresh
<1>13. \A k \in DOMAIN gens'[new].args : k = 1 /\ gens'[new].names[k] = Fresh /\ gens'[new].args[k] = e
  BY <1>3, <1>5 DEF new
<1>8. Placed'
  <2>1. Shaped'
    <3>1. \A g \in Waiting' :
            /\ Len(gens'[g].names) = Len(gens'[g].args)
            /\ gens'[g].args # <<>>
            /\ gens'[g].status = "suspended" => gens'[g].names[Len(gens'[g].args)] = 0
      BY <1>3, <1>5, <1>7, ZenonT(40) DEF Placed, Shaped
    <3>2. \A g \in DOMAIN gens' : gens'[g].status = "freed" => gens'[g].args = <<>>
      BY <1>3, <1>5, <1>6 DEF Placed, Shaped
    <3>3. QED
      BY <3>1, <3>2 DEF Placed, Shaped
  <2>2. Valued'
    <3>1. ASSUME NEW g \in Waiting', NEW k \in DOMAIN gens'[g].args, gens'[g].names[k] # 0
          PROVE  gens'[g].names[k] \in DOMAIN cell' /\ gens'[g].args[k] = cell'[gens'[g].names[k]]
      <4>1. CASE g = new
        BY <1>1, <1>13, <4>1
      <4>2. CASE g \in Waiting /\ gens'[g] = gens[g]
        BY <1>2, <3>1, <4>2
      <4>3. QED
        BY <1>7, <4>1, <4>2
    <3>2. QED
      BY <1>2, <3>1 DEF Valued
  <2>3. OnePlace'
    <3>1. \A k, l \in DOMAIN stack : names[k] = names[l] /\ names[k] # 0 => k = l
      BY DEF Placed, OnePlace
    <3>2. ASSUME NEW g \in Waiting', NEW k \in DOMAIN gens'[g].args, NEW l \in DOMAIN stack, gens'[g].names[k] # 0
          PROVE  names[l] # gens'[g].names[k]
      <4>1. CASE g = new
        BY <1>2, <1>13, <4>1
      <4>2. CASE g \in Waiting /\ gens'[g] = gens[g]
        BY <3>2, <4>2 DEF Placed, OnePlace
      <4>3. QED
        BY <1>7, <4>1, <4>2
    <3>3. ASSUME NEW g \in Waiting', NEW h \in Waiting', NEW k \in DOMAIN gens'[g].args, NEW l \in DOMAIN gens'[h].args
          PROVE  gens'[g].names[k] = gens'[h].names[l] /\ gens'[g].names[k] # 0 => g = h /\ k = l
      <4>1. CASE g = new /\ h = new
        BY <1>13, <4>1
      <4>2. CASE g = new /\ h \in Waiting /\ gens'[h] = gens[h]
        <5>1. gens'[h].names[l] # Fresh
          BY <1>2, <4>2
        <5>2. gens'[g].names[k] = Fresh
          BY <1>13, <4>2
        <5>3. QED
          BY <5>1, <5>2
      <4>3. CASE h = new /\ g \in Waiting /\ gens'[g] = gens[g]
        <5>1. gens'[g].names[k] # Fresh
          BY <1>2, <4>3
        <5>2. gens'[h].names[l] = Fresh
          BY <1>13, <4>3
        <5>3. QED
          BY <5>1, <5>2
      <4>4. CASE h \in Waiting /\ gens'[h] = gens[h] /\ g \in Waiting /\ gens'[g] = gens[g]
        BY <4>4 DEF Placed, OnePlace
      <4>5. QED
        BY <1>7, <4>1, <4>2, <4>3, <4>4
    <3>4. QED
      <4>1. \A g \in Waiting' : \A k \in DOMAIN gens'[g].args : \A l \in DOMAIN stack' :
              gens'[g].names[k] # 0 => names'[l] # gens'[g].names[k]
        BY <3>2
      <4>2. \A g, h \in Waiting' : \A k \in DOMAIN gens'[g].args : \A l \in DOMAIN gens'[h].args :
              gens'[g].names[k] = gens'[h].names[l] /\ gens'[g].names[k] # 0 => g = h /\ k = l
        BY <3>3
      <4>3. QED
        BY <3>1, <4>1, <4>2 DEF OnePlace
  <2>4. QED
    BY <2>1, <2>2, <2>3 DEF Placed
<1>9. Sorted'
  <2>1. ASSUME NEW g \in DOMAIN gens'
        PROVE  /\ gens'[g].status # "suspended" => gens'[g].captured = <<>>
               /\ \A j \in DOMAIN gens'[g].captured :
                    /\ gens'[g].captured[j] \in DOMAIN upvalues
                    /\ upvalues[gens'[g].captured[j]].owner = g /\ upvalues[gens'[g].captured[j]].location >= 0
               /\ \A i, j \in DOMAIN gens'[g].captured :
                    i < j => upvalues[gens'[g].captured[i]].location < upvalues[gens'[g].captured[j]].location
    <3>1. CASE g = new
      BY <1>3, <1>5, <3>1
    <3>2. CASE g \in DOMAIN gens
      BY <1>5, <3>2 DEF Sorted
    <3>3. QED
      BY <1>6, <3>1, <3>2
  <2>2. /\ \A j \in DOMAIN open :
             /\ open[j] \in DOMAIN upvalues
             /\ upvalues[open[j]].owner = 0 /\ upvalues[open[j]].location >= 0
        /\ \A i, j \in DOMAIN open : i < j => upvalues[open[i]].location > upvalues[open[j]].location
    BY DEF Sorted
  <2>3. QED
    BY <2>1, <2>2 DEF Sorted
<1>10. ASSUME NEW u \in DOMAIN upvalues
       PROVE  Located(u, w[u])'
  <2>1. Located(u, w[u])
    BY DEF For
  <2>2. Nowhere(w[u]) => Nowhere(w[u])'
    <3>1. ASSUME Nowhere(w[u]), NEW g \in Waiting', NEW k \in DOMAIN gens'[g].args
          PROVE  gens'[g].names[k] # w[u]
      <4>1. CASE g = new
        BY <1>2, <1>13, <4>1
      <4>2. CASE g \in Waiting /\ gens'[g] = gens[g]
        BY <3>1, <4>2 DEF Nowhere
      <4>3. QED
        BY <1>7, <4>1, <4>2
    <3>2. QED
      BY <3>1 DEF Nowhere
  <2>3. OnStack(u, w[u]) => OnStack(u, w[u])'
    BY DEF OnStack
  <2>4. InGenerator(u, w[u], upvalues[u].owner) => InGenerator(u, w[u], upvalues[u].owner)'
    BY <1>5, <1>6 DEF InGenerator
  <2>5. QED
    BY <1>2, <2>1, <2>2, <2>3, <2>4 DEF Located
<1>11. For(w)'
  BY <1>2, <1>10 DEF For
<1>12. QED
  BY <1>1, <1>5, <1>8, <1>9, <1>11 DEF r, new

\* A generator that is freed leaves the values of its variables in their
\* upvalues.
LEMMA FreeKeeps ==
  ASSUME Typed, Placed, Sorted, NEW w, For(w), NEW g \in DOMAIN gens, Free(g)
  PROVE  /\ Placed' /\ Sorted' /\ For(w)' /\ upvalues' \in Seq(UpvalueRecord) /\ gens' \in Seq(GeneratorRecord)
         /\ DOMAIN gens' = DOMAIN gens
         /\ \A h \in DOMAIN gens : h # g => gens'[h] = gens[h]
         /\ gens[g].status # "running" /\ gens'[g].status = "freed" /\ gens'[g].closure = gens[g].closure
<1> DEFINE us == gens[g].captured
           r == [gens[g] EXCEPT !.status = "freed", !.args = <<>>, !.captured = <<>>, !.names = <<>>]
<1>1. /\ gens[g].status \in {"new", "suspended", "done"}
      /\ upvalues' = Close(ToSet(us), LAMBDA l : gens[g].args[l + 1])
      /\ gens' = [gens EXCEPT ![g] = r]
      /\ stack' = stack /\ open' = open /\ closures' = closures /\ names' = names /\ cell' = cell
  BY DEF Free
<1>2. /\ gens[g] \in GeneratorRecord /\ DOMAIN gens = 1 .. Len(gens) /\ gens \in Seq(GeneratorRecord)
      /\ DOMAIN upvalues = 1 .. Len(upvalues) /\ Len(upvalues) \in Nat
      /\ \A u \in DOMAIN upvalues : upvalues[u] \in UpvalueRecord
  BY TypedFacts DEF Typed
<1>3. /\ r \in GeneratorRecord /\ r.status = "freed" /\ r.args = <<>> /\ r.captured = <<>>
      /\ r.closure = gens[g].closure
  <2>1. <<>> \in Seq(Entry) /\ <<>> \in Seq(Nat)
    OBVIOUS
  <2>2. QED
    BY <1>2, <2>1 DEF GeneratorRecord, Status
<1> HIDE DEF r
<1>4. /\ gens' \in Seq(GeneratorRecord) /\ DOMAIN gens' = DOMAIN gens /\ gens'[g] = r
      /\ \A h \in DOMAIN gens : h # g => gens'[h] = gens[h]
  BY <1>1, <1>2, <1>3, ExceptSeq
<1>5. /\ \A u \in DOMAIN upvalues : Contains(open, u) =>
           /\ upvalues[u].location \in Nat /\ upvalues[u].owner = 0
           /\ upvalues[u].location + 1 \in DOMAIN stack /\ names[upvalues[u].location + 1] = w[u]
      /\ \A h \in DOMAIN gens : \A u \in DOMAIN upvalues : Contains(gens[h].captured, u) =>
           /\ upvalues[u].location \in Nat /\ upvalues[u].owner = h /\ gens[h].status = "suspended"
           /\ upvalues[u].location + 1 \in DOMAIN gens[h].args
           /\ gens[h].names[upvalues[u].location + 1] = w[u]
  BY OpenOnStack
<1>6. \A u : u \in ToSet(us) <=> Contains(us, u)
  <2>1. DOMAIN us = 1 .. Len(us)
    BY <1>2, GeneratorFacts
  <2>2. QED
    BY <2>1 DEF ToSet, Contains
<1>7. upvalues' = [u \in DOMAIN upvalues |->
        IF u \in ToSet(us) THEN [upvalues[u] EXCEPT !.closed = gens[g].args[upvalues[u].location + 1], !.location = Closed]
        ELSE upvalues[u]]
  BY <1>1 DEF Close
<1>8. ASSUME NEW u \in DOMAIN upvalues
      PROVE  /\ upvalues'[u] \in UpvalueRecord
             /\ Contains(us, u) =>
                  /\ upvalues'[u].location = Closed
                  /\ upvalues'[u].closed = gens[g].args[upvalues[u].location + 1]
             /\ ~Contains(us, u) => upvalues'[u] = upvalues[u]
  <2>1. CASE Contains(us, u)
    <3>1. upvalues'[u] = [upvalues[u] EXCEPT !.closed = gens[g].args[upvalues[u].location + 1], !.location = Closed]
      BY <1>6, <1>7, <2>1
    <3>2. gens[g].args[upvalues[u].location + 1] \in Entry
      BY <1>2, <1>5, <2>1, GeneratorFacts
    <3>3. upvalues[u] \in UpvalueRecord
      BY <1>2
    <3>4. /\ upvalues'[u].location = Closed /\ upvalues'[u].closed = gens[g].args[upvalues[u].location + 1]
          /\ upvalues'[u] \in [location : {Closed}, closed : {gens[g].args[upvalues[u].location + 1]}, owner : Nat]
      BY <3>1, <3>3 DEF UpvalueRecord
    <3>5. Closed \in Int
      BY DEF Closed
    <3>6. upvalues'[u] \in UpvalueRecord
      BY <3>2, <3>4, <3>5 DEF UpvalueRecord
    <3>7. QED
      BY <2>1, <3>4, <3>6
  <2>2. CASE ~Contains(us, u)
    BY <1>2, <1>6, <1>7, <2>2
  <2>3. QED
    BY <2>1, <2>2
<1>9. DOMAIN upvalues' = DOMAIN upvalues /\ upvalues' \in Seq(UpvalueRecord)
  <2>1. upvalues' \in [1 .. Len(upvalues) -> UpvalueRecord]
    BY <1>2, <1>7, <1>8
  <2>2. QED
    BY <1>2, <2>1, FunIsSeq
<1>10. /\ Waiting' \subseteq Waiting /\ \A h \in Waiting' : gens'[h] = gens[h] /\ h # g
       /\ \A h \in Waiting : h # g => h \in Waiting'
  BY <1>3, <1>4 DEF Waiting
<1>11. Placed'
  <2>1. Shaped'
    BY <1>1, <1>3, <1>4, <1>10 DEF Placed, Shaped
  <2>2. Valued'
    BY <1>1, <1>10 DEF Placed, Valued
  <2>3. OnePlace'
    BY <1>1, <1>10 DEF Placed, OnePlace
  <2>4. QED
    BY <2>1, <2>2, <2>3 DEF Placed
<1>12. Sorted'
  <2>1. \A j \in DOMAIN open : open[j] \in DOMAIN upvalues /\ upvalues'[open[j]] = upvalues[open[j]]
    <3>1. SUFFICES ASSUME NEW j \in DOMAIN open
                   PROVE  open[j] \in DOMAIN upvalues /\ upvalues'[open[j]] = upvalues[open[j]]
      OBVIOUS
    <3>2. open[j] \in DOMAIN upvalues /\ upvalues[open[j]].owner = 0 /\ g # 0
      BY <1>2 DEF Sorted
    <3>3. ~Contains(us, open[j])
      BY <1>5, <3>2
    <3>4. QED
      BY <1>8, <3>2, <3>3
  <2>2. \A h \in DOMAIN gens : h # g => \A j \in DOMAIN gens[h].captured :
          gens[h].captured[j] \in DOMAIN upvalues /\ upvalues'[gens[h].captured[j]] = upvalues[gens[h].captured[j]]
    <3>1. SUFFICES ASSUME NEW h \in DOMAIN gens, h # g, NEW j \in DOMAIN gens[h].captured
                   PROVE  /\ gens[h].captured[j] \in DOMAIN upvalues
                          /\ upvalues'[gens[h].captured[j]] = upvalues[gens[h].captured[j]]
      OBVIOUS
    <3>2. gens[h].captured[j] \in DOMAIN upvalues /\ upvalues[gens[h].captured[j]].owner = h
      BY DEF Sorted
    <3>3. ~Contains(us, gens[h].captured[j])
      BY <1>5, <3>1, <3>2
    <3>4. QED
      BY <1>8, <3>2, <3>3
  <2>3. /\ \A j \in DOMAIN open :
             /\ open[j] \in DOMAIN upvalues'
             /\ upvalues'[open[j]].owner = 0 /\ upvalues'[open[j]].location >= 0
        /\ \A i, j \in DOMAIN open : i < j => upvalues'[open[i]].location > upvalues'[open[j]].location
    BY <1>9, <2>1 DEF Sorted
  <2>4. ASSUME NEW h \in DOMAIN gens
        PROVE  /\ gens'[h].status # "suspended" => gens'[h].captured = <<>>
               /\ \A j \in DOMAIN gens'[h].captured :
                    /\ gens'[h].captured[j] \in DOMAIN upvalues'
                    /\ upvalues'[gens'[h].captured[j]].owner = h /\ upvalues'[gens'[h].captured[j]].location >= 0
               /\ \A i, j \in DOMAIN gens'[h].captured :
                    i < j => upvalues'[gens'[h].captured[i]].location < upvalues'[gens'[h].captured[j]].location
    <3>1. CASE h = g
      BY <1>3, <1>4, <3>1
    <3>2. CASE h # g
      <4>1. gens'[h] = gens[h]
        BY <1>4, <3>2
      <4>2. QED
        BY <1>9, <2>2, <3>2, <4>1 DEF Sorted
    <3>3. QED
      BY <3>1, <3>2
  <2>5. QED
    BY <1>1, <1>4, <2>3, <2>4 DEF Sorted
<1>13. ASSUME NEW u \in DOMAIN upvalues
       PROVE  Located(u, w[u])'
  <2>1. w[u] \in DOMAIN cell /\ w[u] # 0 /\ Located(u, w[u]) /\ g # 0
    BY <1>2, TypedFacts DEF For
  <2>2. CASE upvalues[u].location = Closed /\ upvalues[u].closed = cell[w[u]] /\ Nowhere(w[u])
    <3>1. upvalues'[u] = upvalues[u]
      BY <1>5, <1>8, <2>2 DEF Closed
    <3>2. Nowhere(w[u])'
      BY <1>1, <1>10, <2>2 DEF Nowhere
    <3>3. QED
      BY <1>1, <2>2, <3>1, <3>2 DEF Located
  <2>3. CASE upvalues[u].location >= 0 /\ upvalues[u].owner = 0 /\ OnStack(u, w[u])
    <3>1. upvalues'[u] = upvalues[u]
      BY <1>5, <1>8, <2>1, <2>3
    <3>2. QED
      BY <1>1, <2>3, <3>1 DEF Located, OnStack
  <2>4. CASE upvalues[u].location >= 0 /\ upvalues[u].owner # 0 /\ InGenerator(u, w[u], upvalues[u].owner) /\ upvalues[u].owner # g
    <3>1. upvalues'[u] = upvalues[u]
      BY <1>5, <1>8, <2>4
    <3>2. QED
      BY <1>4, <2>4, <3>1 DEF Located, InGenerator
  <2>5. CASE upvalues[u].location >= 0 /\ InGenerator(u, w[u], g)
    <3>1. /\ Contains(us, u) /\ g \in Waiting
          /\ upvalues[u].location + 1 \in DOMAIN gens[g].args
          /\ gens[g].names[upvalues[u].location + 1] = w[u]
      BY <2>5 DEF InGenerator, Waiting
    <3>2. upvalues'[u].location = Closed /\ upvalues'[u].closed = cell[w[u]]
      BY <1>8, <2>1, <3>1 DEF Placed, Valued
    <3>3. \A k \in DOMAIN stack : names[k] # w[u]
      BY <2>1, <3>1 DEF Placed, OnePlace
    <3>4. ASSUME NEW h \in Waiting', NEW k \in DOMAIN gens'[h].args, gens'[h].names[k] = w[u]
          PROVE  FALSE
      <4>1. h \in Waiting /\ gens'[h] = gens[h] /\ h # g
        BY <1>10
      <4>2. QED
        BY <2>1, <3>1, <3>4, <4>1 DEF Placed, OnePlace
    <3>5. Nowhere(w[u])'
      BY <1>1, <3>3, <3>4 DEF Nowhere
    <3>6. QED
      BY <1>1, <3>2, <3>5 DEF Located
  <2>6. QED
    BY <2>1, <2>2, <2>3, <2>4, <2>5 DEF Located
<1>14. For(w)'
  BY <1>1, <1>9, <1>13 DEF For
<1>15. QED
  BY <1>1, <1>3, <1>4, <1>9, <1>11, <1>12, <1>14

LEMMA ReverseRight ==
  ASSUME NEW S, NEW s \in Seq(S)
  PROVE  /\ Reverse(s) \in Seq(S) /\ Len(Reverse(s)) = Len(s)
         /\ \A i \in 1 .. Len(s) : Reverse(s)[i] = s[(Len(s) - i) + 1] /\ (Len(s) - i) + 1 \in 1 .. Len(s)
<1>1. Len(s) \in Nat /\ \A i \in 1 .. Len(s) : s[i] \in S
  BY LenProperties
<1>2. \A n \in Nat : \A i \in 1 .. n : (n - i) + 1 \in 1 .. n
  OBVIOUS
<1>3. Reverse(s) = [i \in 1 .. Len(s) |-> s[(Len(s) - i) + 1]]
  BY DEF Reverse
<1>4. Reverse(s) \in [1 .. Len(s) -> S]
  BY <1>1, <1>2, <1>3
<1>5. Reverse(s) \in Seq(S) /\ Len(Reverse(s)) = Len(s)
  BY <1>1, <1>4, FunIsSeq
<1>6. QED
  BY <1>1, <1>2, <1>3, <1>5

\* What is put on the stack when a generator is resumed.
LEMMA ResumedStack ==
  ASSUME Typed, Placed, Sorted, NEW g \in DOMAIN gens, NEW value \in Value, Resume(g, value)
  PROVE  LET L == Len(stack)
             m == Len(gens[g].args)
         IN  /\ g \in Waiting
             /\ stack' \in Seq(Entry) /\ Len(stack') = L + m /\ names' \in Seq(Nat) /\ Len(names') = L + m
             /\ \A k \in 1 .. L : stack'[k] = stack[k] /\ names'[k] = names[k]
             /\ \A k \in 1 .. m :
                  \/ stack'[L + k] = gens[g].args[k] /\ names'[L + k] = gens[g].names[k]
                  \/ /\ k = m /\ gens[g].names[k] = 0 /\ names'[L + k] = Fresh /\ stack'[L + k] = value
                     /\ cell' = Append(cell, value)
             /\ cell' = cell \/ cell' = Append(cell, value)
<1> DEFINE L == Len(stack)
           gen == gens[g]
           m == Len(gen.args)
<1>1. /\ stack \in Seq(Entry) /\ L \in Nat /\ names \in Seq(Nat) /\ Len(names) = L /\ Len(cell) \in Nat
      /\ gen \in GeneratorRecord /\ gen.args \in Seq(Entry) /\ gen.names \in Seq(Nat) /\ m \in Nat
  BY TypedFacts, GeneratorFacts DEF Typed, Placed, Shaped, GeneratorRecord
<1>2. g \in Waiting
  BY DEF Resume, Waiting
<1>3. /\ Len(gen.names) = m /\ m # 0
      /\ gen.status = "suspended" => gen.names[m] = 0
  <2>1. gen.args # <<>>
    BY <1>2 DEF Placed, Shaped
  <2>2. QED
    BY <1>1, <1>2, <2>1, EmptySeq DEF Placed, Shaped
<1> HIDE DEF L, m, gen
<1>4. CASE gens[g].status = "new"
  <2>1. stack' = stack \o gen.args /\ names' = names \o gen.names /\ cell' = cell
    BY <1>4 DEF Resume, gen
  <2>2. /\ stack' \in Seq(Entry) /\ Len(stack') = L + m
        /\ \A i \in 1 .. L + m : stack'[i] = IF i <= L THEN stack[i] ELSE gen.args[i - L]
    BY <1>1, <2>1, ConcatProperties DEF L, m
  <2>3. /\ names' \in Seq(Nat) /\ Len(names') = L + m
        /\ \A i \in 1 .. L + m : names'[i] = IF i <= L THEN names[i] ELSE gen.names[i - L]
    BY <1>1, <1>3, <2>1, ConcatProperties
  <2>4. \A k \in 1 .. L : k \in 1 .. L + m /\ k <= L
    BY <1>1
  <2>5. \A k \in 1 .. m : L + k \in 1 .. L + m /\ ~(L + k <= L) /\ (L + k) - L = k
    BY <1>1
  <2>6. QED
    BY <1>2, <2>1, <2>2, <2>3, <2>4, <2>5 DEF L, m, gen
<1>5. CASE gens[g].status # "new"
  <2> DEFINE n == m - 1
             b == <<value>>
             c == <<Fresh>>
  <2>1. /\ stack' = (stack \o SubSeq(gen.args, 1, n)) \o b
        /\ names' = (names \o SubSeq(gen.names, 1, n)) \o c
        /\ cell' = Append(cell, value) /\ gen.status = "suspended"
    BY <1>5 DEF Resume, Named, gen, m
  <2>2. Fresh \in Nat /\ value \in Entry
    BY <1>1 DEF Fresh, Entry
  <2>3. b \in Seq(Entry) /\ Len(b) = 1 /\ b[1] = value
    BY <2>2
  <2>4. c \in Seq(Nat) /\ Len(c) = 1 /\ c[1] = Fresh
    BY <2>2
  <2>5. n \in 0 .. m /\ n \in Nat /\ m = n + 1
    BY <1>1, <1>3
  <2> HIDE DEF n, b, c
  <2>6. /\ SubSeq(gen.args, 1, n) \in Seq(Entry) /\ Len(SubSeq(gen.args, 1, n)) = n
        /\ \A i \in 1 .. n : SubSeq(gen.args, 1, n)[i] = gen.args[i]
        /\ SubSeq(gen.names, 1, n) \in Seq(Nat) /\ Len(SubSeq(gen.names, 1, n)) = n
        /\ \A i \in 1 .. n : SubSeq(gen.names, 1, n)[i] = gen.names[i]
    BY <1>1, <1>3, <2>5, Parts DEF m
  <2> DEFINE p == SubSeq(gen.args, 1, n)
             q == SubSeq(gen.names, 1, n)
             s == stack \o p
             t == names \o q
  <2>7. p \in Seq(Entry) /\ Len(p) = n /\ q \in Seq(Nat) /\ Len(q) = n
    BY <2>6
  <2> HIDE DEF p, q
  <2>8. /\ s \in Seq(Entry) /\ Len(s) = L + n
        /\ \A i \in 1 .. L : s[i] = stack[i]
        /\ \A i \in 1 .. n : s[L + i] = p[i]
    <3>1. /\ stack \o p \in Seq(Entry) /\ Len(stack \o p) = Len(stack) + Len(p)
          /\ \A i \in 1 .. Len(stack) + Len(p) : (stack \o p)[i] = IF i <= Len(stack) THEN stack[i] ELSE p[i - Len(stack)]
      BY <1>1, <2>7, ConcatProperties, Zenon
    <3>2. /\ \A i \in 1 .. Len(stack) : i \in 1 .. Len(stack) + Len(p) /\ i <= Len(stack)
          /\ \A i \in 1 .. Len(p) : /\ Len(stack) + i \in 1 .. Len(stack) + Len(p)
                                   /\ ~(Len(stack) + i <= Len(stack)) /\ (Len(stack) + i) - Len(stack) = i
      <4>1. Len(stack) \in Nat /\ Len(p) \in Nat
        BY <1>1, <2>7, LenProperties
      <4>2. QED
        BY <4>1
    <3>3. QED
      BY <2>7, <3>1, <3>2 DEF L, s
  <2>9. /\ t \in Seq(Nat) /\ Len(t) = L + n
        /\ \A i \in 1 .. L : t[i] = names[i]
        /\ \A i \in 1 .. n : t[L + i] = q[i]
    <3>1. /\ names \o q \in Seq(Nat) /\ Len(names \o q) = Len(names) + Len(q)
          /\ \A i \in 1 .. Len(names) + Len(q) : (names \o q)[i] = IF i <= Len(names) THEN names[i] ELSE q[i - Len(names)]
      BY <1>1, <2>7, ConcatProperties, Zenon
    <3>2. /\ \A i \in 1 .. Len(names) : i \in 1 .. Len(names) + Len(q) /\ i <= Len(names)
          /\ \A i \in 1 .. Len(q) : /\ Len(names) + i \in 1 .. Len(names) + Len(q)
                                   /\ ~(Len(names) + i <= Len(names)) /\ (Len(names) + i) - Len(names) = i
      <4>1. Len(names) \in Nat /\ Len(q) \in Nat
        BY <1>1, <2>7, LenProperties
      <4>2. QED
        BY <4>1
    <3>3. QED
      BY <1>1, <2>7, <3>1, <3>2 DEF t
  <2>10. stack' = s \o b /\ names' = t \o c
    BY <2>1 DEF p, q
  <2> HIDE DEF s, t
  <2>11. /\ stack' \in Seq(Entry) /\ Len(stack') = (L + n) + 1
         /\ \A i \in 1 .. L + n : stack'[i] = s[i]
         /\ \A i \in 1 .. 1 : stack'[(L + n) + i] = b[i]
    <3>1. /\ s \o b \in Seq(Entry) /\ Len(s \o b) = Len(s) + Len(b)
          /\ \A i \in 1 .. Len(s) + Len(b) : (s \o b)[i] = IF i <= Len(s) THEN s[i] ELSE b[i - Len(s)]
      BY <2>3, <2>8, ConcatProperties, Zenon
    <3>2. /\ \A i \in 1 .. Len(s) : i \in 1 .. Len(s) + Len(b) /\ i <= Len(s)
          /\ \A i \in 1 .. Len(b) : /\ Len(s) + i \in 1 .. Len(s) + Len(b)
                                   /\ ~(Len(s) + i <= Len(s)) /\ (Len(s) + i) - Len(s) = i
      <4>1. Len(s) \in Nat /\ Len(b) \in Nat
        BY <2>3, <2>8, LenProperties
      <4>2. QED
        BY <4>1
    <3>3. QED
      BY <2>3, <2>8, <2>10, <3>1, <3>2
  <2>12. /\ names' \in Seq(Nat) /\ Len(names') = (L + n) + 1
         /\ \A i \in 1 .. L + n : names'[i] = t[i]
         /\ \A i \in 1 .. 1 : names'[(L + n) + i] = c[i]
    <3>1. /\ t \o c \in Seq(Nat) /\ Len(t \o c) = Len(t) + Len(c)
          /\ \A i \in 1 .. Len(t) + Len(c) : (t \o c)[i] = IF i <= Len(t) THEN t[i] ELSE c[i - Len(t)]
      BY <2>4, <2>9, ConcatProperties, Zenon
    <3>2. /\ \A i \in 1 .. Len(t) : i \in 1 .. Len(t) + Len(c) /\ i <= Len(t)
          /\ \A i \in 1 .. Len(c) : /\ Len(t) + i \in 1 .. Len(t) + Len(c)
                                   /\ ~(Len(t) + i <= Len(t)) /\ (Len(t) + i) - Len(t) = i
      <4>1. Len(t) \in Nat /\ Len(c) \in Nat
        BY <2>4, <2>9, LenProperties
      <4>2. QED
        BY <4>1
    <3>3. QED
      BY <2>4, <2>9, <2>10, <3>1, <3>2
  <2>13. (L + n) + 1 = L + m /\ \A k \in 1 .. L : k \in 1 .. L + n
    BY <1>1, <2>5
  <2>14. \A k \in 1 .. L : stack'[k] = stack[k] /\ names'[k] = names[k]
    BY <2>8, <2>9, <2>11, <2>12, <2>13
  <2>15. ASSUME NEW k \in 1 .. n
         PROVE  stack'[L + k] = gen.args[k] /\ names'[L + k] = gen.names[k]
    <3>1. L + k \in 1 .. L + n
      BY <1>1, <2>5
    <3>2. stack'[L + k] = p[k] /\ names'[L + k] = q[k]
      BY <2>8, <2>9, <2>11, <2>12, <3>1
    <3>3. QED
      BY <2>6, <3>2 DEF p, q
  <2>16. stack'[L + m] = value /\ names'[L + m] = Fresh
    <3>1. L + m = (L + n) + 1 /\ 1 \in 1 .. 1
      BY <1>1, <2>5
    <3>2. QED
      BY <2>3, <2>4, <2>11, <2>12, <3>1
  <2>17. \A k \in 1 .. m : k \in 1 .. n \/ k = m
    BY <2>5
  <2>18. gen.names[m] = 0
    BY <1>3, <2>1
  <2>19. QED
    BY <1>2, <2>1, <2>11, <2>12, <2>13, <2>14, <2>15, <2>16, <2>17, <2>18 DEF L, m, gen
<1>6. QED
  BY <1>4, <1>5

\* The list of open upvalues when a generator is resumed.
LEMMA ReopenedRight ==
  ASSUME Typed, NEW g \in DOMAIN gens
  PROVE  LET c == gens[g].captured
             d == Len(c)
         IN  /\ Reopened(g) \in Seq(Nat) /\ Len(Reopened(g)) = d + Len(open)
             /\ \A i \in 1 .. d : Reopened(g)[i] = c[(d - i) + 1] /\ (d - i) + 1 \in 1 .. d
             /\ \A i \in 1 .. Len(open) : Reopened(g)[d + i] = open[i]
             /\ \A j \in 1 .. d + Len(open) : j \in 1 .. d \/ (j - d \in 1 .. Len(open) /\ d + (j - d) = j)
             /\ \A u : Contains(Reopened(g), u) <=> Contains(c, u) \/ Contains(open, u)
<1> DEFINE c == gens[g].captured
           d == Len(c)
           r == Reverse(c)
           n == Len(open)
           t == Reopened(g)
<1>1. c \in Seq(Nat) /\ d \in Nat /\ open \in Seq(Nat) /\ n \in Nat
  BY TypedFacts, GeneratorFacts DEF Typed, GeneratorRecord
<1>2. t = r \o open
  BY DEF Reopened
<1> HIDE DEF t, c
<1>3. r \in Seq(Nat) /\ Len(r) = d /\ \A i \in 1 .. d : r[i] = c[(d - i) + 1] /\ (d - i) + 1 \in 1 .. d
  BY <1>1, ReverseRight
<1> HIDE DEF r, d, n
<1>4. /\ r \o open \in Seq(Nat) /\ Len(r \o open) = Len(r) + Len(open)
      /\ \A i \in 1 .. Len(r) + Len(open) : (r \o open)[i] = IF i <= Len(r) THEN r[i] ELSE open[i - Len(r)]
  <2>1. r \in Seq(Nat) /\ open \in Seq(Nat)
    BY <1>1, <1>3
  <2>2. QED
    BY <2>1, ConcatProperties
<1>5. t \in Seq(Nat) /\ Len(t) = d + n /\ \A i \in 1 .. d + n : t[i] = IF i <= d THEN r[i] ELSE open[i - d]
  BY <1>2, <1>3, <1>4 DEF n
<1>6. /\ \A i \in 1 .. d : i \in 1 .. d + n /\ i <= d
      /\ \A i \in 1 .. n : d + i \in 1 .. d + n /\ ~(d + i <= d) /\ (d + i) - d = i
      /\ \A j \in 1 .. d + n : j \in 1 .. d \/ (j - d \in 1 .. n /\ d + (j - d) = j)
  BY <1>1
<1>7. \A i \in 1 .. d : t[i] = c[(d - i) + 1] /\ (d - i) + 1 \in 1 .. d
  BY <1>3, <1>5, <1>6
<1>8. \A i \in 1 .. n : t[d + i] = open[i]
  BY <1>5, <1>6
<1>9. ASSUME NEW u
      PROVE  Contains(t, u) <=> Contains(c, u) \/ Contains(open, u)
  <2>1. ASSUME Contains(t, u)
        PROVE  Contains(c, u) \/ Contains(open, u)
    <3>1. PICK j \in 1 .. d + n : t[j] = u
      BY <1>5, <2>1 DEF Contains
    <3>2. CASE j \in 1 .. d
      <4>1. c[(d - j) + 1] = u /\ (d - j) + 1 \in 1 .. Len(c)
        BY <1>7, <3>1, <3>2 DEF d
      <4>2. QED
        BY <4>1 DEF Contains
    <3>3. CASE j - d \in 1 .. n /\ d + (j - d) = j
      <4>1. open[j - d] = u /\ j - d \in 1 .. Len(open)
        BY <1>8, <3>1, <3>3 DEF n
      <4>2. QED
        BY <4>1 DEF Contains
    <3>4. QED
      BY <1>6, <3>1, <3>2, <3>3
  <2>2. ASSUME Contains(c, u)
        PROVE  Contains(t, u)
    <3>1. PICK j \in 1 .. d : c[j] = u
      BY <2>2 DEF Contains, d
    <3>2. (d - j) + 1 \in 1 .. d /\ (d - ((d - j) + 1)) + 1 = j
      BY <1>1, <3>1
    <3>3. t[(d - j) + 1] = u /\ (d - j) + 1 \in 1 .. Len(t)
      BY <1>5, <1>6, <1>7, <3>1, <3>2
    <3>4. QED
      BY <3>3 DEF Contains
  <2>3. ASSUME Contains(open, u)
        PROVE  Contains(t, u)
    <3>1. PICK j \in 1 .. n : open[j] = u
      BY <2>3 DEF Contains, n
    <3>2. t[d + j] = u /\ d + j \in 1 .. Len(t)
      BY <1>5, <1>6, <1>8, <3>1
    <3>3. QED
      BY <3>2 DEF Contains
  <2>4. QED
    BY <2>1, <2>2, <2>3
<1>10. QED
  BY <1>5, <1>6, <1>7, <1>8, <1>9 DEF t, c, d, n

\* The variables of a generator go onto the stack, and with them the upvalues
\* that have captured them.
LEMMA ResumeKeeps ==
  ASSUME Typed, Placed, Sorted, NEW w, For(w), NEW g \in DOMAIN gens, NEW value \in Value, Resume(g, value)
  PROVE  /\ Placed' /\ Sorted' /\ For(w)' /\ stack' \in Seq(Entry) /\ names' \in Seq(Nat) /\ cell' \in Seq(Value)
         /\ upvalues' \in Seq(UpvalueRecord) /\ open' \in Seq(Nat) /\ gens' \in Seq(GeneratorRecord)
         /\ Len(stack') >= Len(stack) /\ DOMAIN gens' = DOMAIN gens /\ g \in Waiting
         /\ \A h \in DOMAIN gens : h # g => gens'[h] = gens[h]
         /\ gens'[g].status = "running" /\ gens'[g].closure = gens[g].closure
<1> DEFINE L == Len(stack)
           m == Len(gens[g].args)
           us == gens[g].captured
           r == [gens[g] EXCEPT !.status = "running", !.captured = <<>>]
<1>1. /\ g \in Waiting
      /\ stack' \in Seq(Entry) /\ Len(stack') = L + m /\ names' \in Seq(Nat) /\ Len(names') = L + m
      /\ \A k \in 1 .. L : stack'[k] = stack[k] /\ names'[k] = names[k]
      /\ \A k \in 1 .. m :
           \/ stack'[L + k] = gens[g].args[k] /\ names'[L + k] = gens[g].names[k]
           \/ /\ k = m /\ gens[g].names[k] = 0 /\ names'[L + k] = Fresh /\ stack'[L + k] = value
              /\ cell' = Append(cell, value)
      /\ cell' = cell \/ cell' = Append(cell, value)
  BY ResumedStack
<1>2. /\ upvalues' = Resumed(g, L) /\ open' = Reopened(g) /\ gens' = [gens EXCEPT ![g] = r] /\ closures' = closures
  BY DEF Resume
<1>3. /\ gens[g] \in GeneratorRecord /\ DOMAIN gens = 1 .. Len(gens) /\ gens \in Seq(GeneratorRecord)
      /\ DOMAIN stack = 1 .. L /\ L \in Nat /\ m \in Nat /\ DOMAIN gens[g].args = 1 .. m
      /\ DOMAIN upvalues = 1 .. Len(upvalues) /\ Len(upvalues) \in Nat
      /\ \A u \in DOMAIN upvalues : upvalues[u] \in UpvalueRecord
      /\ DOMAIN us = 1 .. Len(us) /\ Len(us) \in Nat /\ DOMAIN open = 1 .. Len(open) /\ Len(open) \in Nat
  BY TypedFacts, GeneratorFacts DEF Typed
<1>4. r \in GeneratorRecord /\ r.status = "running" /\ r.captured = <<>> /\ r.closure = gens[g].closure
  <2>1. <<>> \in Seq(Nat)
    OBVIOUS
  <2>2. QED
    BY <1>3, <2>1 DEF GeneratorRecord, Status
<1> HIDE DEF r, L, m, us
<1>5. /\ gens' \in Seq(GeneratorRecord) /\ DOMAIN gens' = DOMAIN gens /\ gens'[g] = r
      /\ \A h \in DOMAIN gens : h # g => gens'[h] = gens[h]
  BY <1>2, <1>3, <1>4, ExceptSeq
<1>6. /\ \A u \in DOMAIN upvalues : Contains(open, u) =>
           /\ upvalues[u].location \in Nat /\ upvalues[u].owner = 0
           /\ upvalues[u].location + 1 \in DOMAIN stack /\ names[upvalues[u].location + 1] = w[u]
      /\ \A h \in DOMAIN gens : \A u \in DOMAIN upvalues : Contains(gens[h].captured, u) =>
           /\ upvalues[u].location \in Nat /\ upvalues[u].owner = h /\ gens[h].status = "suspended"
           /\ upvalues[u].location + 1 \in DOMAIN gens[h].args
           /\ gens[h].names[upvalues[u].location + 1] = w[u]
  BY OpenOnStack
<1>7. upvalues' = [u \in DOMAIN upvalues |->
        IF Contains(us, u) THEN [upvalues[u] EXCEPT !.location = @ + L, !.owner = 0] ELSE upvalues[u]]
  BY <1>2 DEF Resumed, us
<1>8. ASSUME NEW u \in DOMAIN upvalues
      PROVE  /\ upvalues'[u] \in UpvalueRecord
             /\ Contains(us, u) => upvalues'[u].location = upvalues[u].location + L /\ upvalues'[u].owner = 0
             /\ ~Contains(us, u) => upvalues'[u] = upvalues[u]
  <2>1. CASE Contains(us, u)
    <3>1. upvalues'[u] = [upvalues[u] EXCEPT !.location = upvalues[u].location + L, !.owner = 0]
      BY <1>7, <2>1
    <3>2. upvalues[u] \in UpvalueRecord /\ upvalues[u].location + L \in Int
      BY <1>3 DEF UpvalueRecord
    <3>3. /\ upvalues'[u].location = upvalues[u].location + L /\ upvalues'[u].owner = 0
          /\ upvalues'[u] \in [location : {upvalues[u].location + L}, closed : Entry, owner : {0}]
      BY <3>1, <3>2 DEF UpvalueRecord
    <3>4. upvalues'[u] \in UpvalueRecord
      BY <3>2, <3>3 DEF UpvalueRecord
    <3>5. QED
      BY <2>1, <3>3, <3>4
  <2>2. CASE ~Contains(us, u)
    BY <1>3, <1>7, <2>2
  <2>3. QED
    BY <2>1, <2>2
<1>9. DOMAIN upvalues' = DOMAIN upvalues /\ upvalues' \in Seq(UpvalueRecord)
  <2>1. upvalues' \in [1 .. Len(upvalues) -> UpvalueRecord]
    BY <1>3, <1>7, <1>8
  <2>2. QED
    BY <1>3, <2>1, FunIsSeq
<1>10. /\ \A h \in Waiting' : h \in Waiting /\ gens'[h] = gens[h] /\ h # g
       /\ \A h \in Waiting : h # g => h \in Waiting'
  BY <1>4, <1>5 DEF Waiting
<1>11. /\ cell' \in Seq(Value)
       /\ \A k \in DOMAIN stack : names[k] # 0 => names[k] \in DOMAIN cell' /\ stack[k] = cell'[names[k]]
       /\ \A h \in Waiting : \A k \in DOMAIN gens[h].args : gens[h].names[k] # 0 =>
            gens[h].names[k] \in DOMAIN cell' /\ gens[h].args[k] = cell'[gens[h].names[k]]
       /\ \A u \in DOMAIN upvalues : w[u] \in DOMAIN cell' /\ w[u] # 0 /\ cell'[w[u]] = cell[w[u]]
       /\ cell' = Append(cell, value) =>
            /\ Fresh \in DOMAIN cell' /\ cell'[Fresh] = value /\ Fresh # 0
            /\ \A k \in DOMAIN stack : names[k] # Fresh
            /\ \A h \in Waiting : \A k \in DOMAIN gens[h].args : gens[h].names[k] # Fresh
            /\ \A u \in DOMAIN upvalues : w[u] # Fresh
  <2>1. CASE cell' = Append(cell, value)
    BY <2>1, CellGrows, OldValues
  <2>2. CASE cell' = cell /\ cell' # Append(cell, value)
    <3>1. cell' \in Seq(Value) /\ \A u \in DOMAIN upvalues : w[u] \in DOMAIN cell' /\ w[u] # 0 /\ cell'[w[u]] = cell[w[u]]
      <4>1. cell' \in Seq(Value)
        BY <2>2 DEF Typed
      <4>2. \A u \in DOMAIN upvalues : w[u] \in DOMAIN cell /\ w[u] # 0
        BY TypedFacts DEF For
      <4>3. QED
        BY <2>2, <4>1, <4>2
    <3>2. \A k \in DOMAIN stack : names[k] # 0 => names[k] \in DOMAIN cell' /\ stack[k] = cell'[names[k]]
      BY <2>2 DEF Placed, Valued
    <3>3. \A h \in Waiting : \A k \in DOMAIN gens[h].args : gens[h].names[k] # 0 =>
            gens[h].names[k] \in DOMAIN cell' /\ gens[h].args[k] = cell'[gens[h].names[k]]
      BY <2>2 DEF Placed, Valued
    <3>4. QED
      BY <2>2, <3>1, <3>2, <3>3
  <2>3. QED
    BY <1>1, <2>1, <2>2
<1> HIDE DEF Fresh
<1>12. /\ DOMAIN stack' = 1 .. L + m
       /\ \A k \in DOMAIN stack' : k \in 1 .. L \/ (k - L \in 1 .. m /\ L + (k - L) = k)
       /\ \A k \in 1 .. m : L + k \in DOMAIN stack'
       /\ \A k \in 1 .. L : k \in DOMAIN stack'
  <2>1. DOMAIN stack' = 1 .. L + m
    BY <1>1, LenProperties
  <2>2. QED
    BY <1>3, <2>1
<1>21. ASSUME NEW k \in 1 .. m
       PROVE  /\ gens[g].names[k] # 0 =>
                   /\ gens[g].names[k] \in DOMAIN cell' /\ gens[g].args[k] = cell'[gens[g].names[k]]
                   /\ \A l \in 1 .. L : names[l] # gens[g].names[k]
                   /\ \A l \in 1 .. m : gens[g].names[l] = gens[g].names[k] => l = k
                   /\ \A h \in Waiting : \A l \in DOMAIN gens[h].args :
                        gens[h].names[l] = gens[g].names[k] => h = g
              /\ cell' = Append(cell, value) => gens[g].names[k] # Fresh
  <2>1. k \in DOMAIN gens[g].args /\ g \in Waiting /\ DOMAIN gens[g].args = 1 .. m /\ DOMAIN stack = 1 .. L
    BY <1>1, <1>3
  <2>2. gens[g].names[k] # 0 => gens[g].names[k] \in DOMAIN cell' /\ gens[g].args[k] = cell'[gens[g].names[k]]
    BY <1>1, <1>11, <2>1
  <2>3. gens[g].names[k] # 0 => \A l \in 1 .. L : names[l] # gens[g].names[k]
    BY <2>1, ZenonT(40) DEF Placed, OnePlace
  <2>4. gens[g].names[k] # 0 => \A l \in 1 .. m : gens[g].names[l] = gens[g].names[k] => l = k
    <3>1. SUFFICES ASSUME NEW l \in DOMAIN gens[g].args, gens[g].names[k] = gens[g].names[l], gens[g].names[k] # 0
                   PROVE  k = l
      BY <2>1
    <3>2. \A a, b \in Waiting : \A i \in DOMAIN gens[a].args : \A j \in DOMAIN gens[b].args :
            gens[a].names[i] = gens[b].names[j] /\ gens[a].names[i] # 0 => a = b /\ i = j
      BY DEF Placed, OnePlace
    <3>3. QED
      BY <2>1, <3>1, <3>2, Zenon
  <2>5. gens[g].names[k] # 0 => \A h \in Waiting : \A l \in DOMAIN gens[h].args :
                                  gens[h].names[l] = gens[g].names[k] => h = g
    BY <1>1, <2>1 DEF Placed, OnePlace
  <2>6. cell' = Append(cell, value) => gens[g].names[k] # Fresh
    BY <1>1, <1>11, <2>1
  <2>7. QED
    BY <2>2, <2>3, <2>4, <2>5, <2>6
<1>13. \A k \in 1 .. m : names'[L + k] # 0 =>
         \/ names'[L + k] = gens[g].names[k] /\ stack'[L + k] = gens[g].args[k]
         \/ k = m /\ names'[L + k] = Fresh /\ stack'[L + k] = value /\ cell' = Append(cell, value)
  BY <1>1
<1>14. Placed'
  <2>1. Shaped'
    BY <1>1, <1>4, <1>5, <1>10, ZenonT(60) DEF Placed, Shaped
  <2>2. Valued'
    <3>1. ASSUME NEW k \in DOMAIN stack', names'[k] # 0
          PROVE  names'[k] \in DOMAIN cell' /\ stack'[k] = cell'[names'[k]]
      <4>1. CASE k \in 1 .. L
        BY <1>1, <1>3, <1>11, <3>1, <4>1
      <4>2. CASE k - L \in 1 .. m /\ L + (k - L) = k
        <5>1. CASE names'[k] = gens[g].names[k - L] /\ stack'[k] = gens[g].args[k - L]
          BY <1>21, <3>1, <4>2, <5>1
        <5>2. CASE names'[k] = Fresh /\ stack'[k] = value /\ cell' = Append(cell, value)
          BY <1>11, <5>2
        <5>3. QED
          BY <1>13, <3>1, <4>2, <5>1, <5>2
      <4>3. QED
        BY <1>12, <4>1, <4>2
    <3>2. QED
      BY <1>10, <1>11, <3>1 DEF Valued
  <2>3. OnePlace'
    <3>1. ASSUME NEW k \in DOMAIN stack', NEW l \in DOMAIN stack', names'[k] = names'[l], names'[k] # 0,
                 k \in 1 .. L, l - L \in 1 .. m /\ L + (l - L) = l
          PROVE  FALSE
      <4>1. names'[k] = names[k] /\ k \in DOMAIN stack
        BY <1>1, <1>3, <3>1
      <4>2. CASE names'[l] = gens[g].names[l - L]
        <5>1. l - L \in 1 .. m /\ gens[g].names[l - L] # 0 /\ names[k] = gens[g].names[l - L] /\ k \in 1 .. L
          BY <3>1, <4>1, <4>2
        <5>2. QED
          BY <1>21, <5>1
      <4>3. CASE names'[l] = Fresh /\ cell' = Append(cell, value)
        BY <1>11, <3>1, <4>1, <4>3
      <4>4. QED
        BY <1>13, <3>1, <4>2, <4>3
    <3>2. ASSUME NEW k \in DOMAIN stack', NEW l \in DOMAIN stack', names'[k] = names'[l], names'[k] # 0,
                 k - L \in 1 .. m /\ L + (k - L) = k, l - L \in 1 .. m /\ L + (l - L) = l
          PROVE  k = l
      <4>1. CASE names'[k] = gens[g].names[k - L] /\ names'[l] = gens[g].names[l - L]
        <5>1. k - L = l - L
          BY <1>21, <3>2, <4>1
        <5>2. QED
          BY <3>2, <5>1
      <4>2. CASE k - L = m /\ l - L = m
        BY <3>2, <4>2
      <4>3. CASE names'[k] = Fresh /\ names'[l] = gens[g].names[l - L] /\ cell' = Append(cell, value)
        BY <1>21, <3>2, <4>3
      <4>4. CASE names'[l] = Fresh /\ names'[k] = gens[g].names[k - L] /\ cell' = Append(cell, value)
        BY <1>21, <3>2, <4>4
      <4>5. QED
        BY <1>13, <3>2, <4>1, <4>2, <4>3, <4>4
    <3>3. \A k, l \in DOMAIN stack' : names'[k] = names'[l] /\ names'[k] # 0 => k = l
      <4>1. SUFFICES ASSUME NEW k \in DOMAIN stack', NEW l \in DOMAIN stack', names'[k] = names'[l], names'[k] # 0
                     PROVE  k = l
        OBVIOUS
      <4>2. CASE k \in 1 .. L /\ l \in 1 .. L
        BY <1>1, <1>3, <4>1, <4>2, ZenonT(40) DEF Placed, OnePlace
      <4>3. CASE k \in 1 .. L /\ l \notin 1 .. L
        BY <1>12, <3>1, <4>1, <4>3
      <4>4. CASE k \notin 1 .. L /\ l \in 1 .. L
        BY <1>12, <3>1, <4>1, <4>4
      <4>5. CASE k \notin 1 .. L /\ l \notin 1 .. L
        BY <1>12, <3>2, <4>1, <4>5
      <4>6. QED
        BY <4>2, <4>3, <4>4, <4>5
    <3>4. ASSUME NEW h \in Waiting', NEW k \in DOMAIN gens'[h].args, NEW l \in DOMAIN stack', gens'[h].names[k] # 0
          PROVE  names'[l] # gens'[h].names[k]
      <4>1. h \in Waiting /\ gens'[h] = gens[h] /\ h # g
        BY <1>10
      <4>2. CASE l \in 1 .. L
        <5>1. k \in DOMAIN gens[h].args /\ gens[h].names[k] # 0
          BY <3>4, <4>1
        <5>2. l \in DOMAIN stack /\ names'[l] = names[l]
          BY <1>1, <1>3, <4>2
        <5>3. names[l] # gens[h].names[k]
          BY <4>1, <5>1, <5>2, Zenon DEF Placed, OnePlace
        <5>4. QED
          BY <4>1, <5>2, <5>3
      <4>3. CASE l - L \in 1 .. m /\ L + (l - L) = l
        <5>1. CASE names'[l] = 0
          BY <3>4, <5>1
        <5>2. CASE names'[l] = gens[g].names[l - L] /\ names'[l] # 0
          BY <1>21, <4>1, <4>3, <5>2
        <5>3. CASE names'[l] = Fresh /\ cell' = Append(cell, value)
          BY <1>11, <4>1, <5>3
        <5>4. QED
          BY <1>13, <4>3, <5>1, <5>2, <5>3
      <4>4. QED
        BY <1>12, <4>2, <4>3
    <3>5. \A h \in Waiting' : \A k \in DOMAIN gens'[h].args : \A l \in DOMAIN stack' :
            gens'[h].names[k] # 0 => names'[l] # gens'[h].names[k]
      BY <3>4
    <3>6. \A f, h \in Waiting' : \A k \in DOMAIN gens'[f].args : \A l \in DOMAIN gens'[h].args :
            gens'[f].names[k] = gens'[h].names[l] /\ gens'[f].names[k] # 0 => f = h /\ k = l
      BY <1>10 DEF Placed, OnePlace
    <3>7. QED
      BY <3>3, <3>5, <3>6 DEF OnePlace
  <2>4. QED
    BY <2>1, <2>2, <2>3 DEF Placed
<1>15. LET d == Len(us)
       IN  /\ open' \in Seq(Nat) /\ Len(open') = d + Len(open)
           /\ \A i \in 1 .. d : open'[i] = us[(d - i) + 1] /\ (d - i) + 1 \in 1 .. d
           /\ \A i \in 1 .. Len(open) : open'[d + i] = open[i]
           /\ \A j \in 1 .. d + Len(open) : j \in 1 .. d \/ (j - d \in 1 .. Len(open) /\ d + (j - d) = j)
           /\ \A u : Contains(open', u) <=> Contains(us, u) \/ Contains(open, u)
  BY <1>2, ReopenedRight DEF us
<1>16. Sorted'
  <2> DEFINE d == Len(us)
  <2>1. DOMAIN open' = 1 .. d + Len(open)
    BY <1>15, LenProperties
  <2>2. ASSUME NEW i \in 1 .. d
        PROVE  /\ us[i] \in DOMAIN upvalues /\ upvalues'[us[i]].owner = 0
               /\ upvalues[us[i]].location \in Nat
               /\ upvalues'[us[i]].location = upvalues[us[i]].location + L
    <3>1. Contains(us, us[i]) /\ us[i] \in DOMAIN upvalues
      BY <1>3 DEF Contains, Sorted, us
    <3>2. QED
      BY <1>6, <1>8, <3>1 DEF us
  <2>3. ASSUME NEW i \in 1 .. Len(open)
        PROVE  /\ open[i] \in DOMAIN upvalues /\ upvalues'[open[i]] = upvalues[open[i]]
               /\ upvalues[open[i]].owner = 0 /\ upvalues[open[i]].location \in Nat
               /\ upvalues[open[i]].location < L
    <3>1. Contains(open, open[i]) /\ open[i] \in DOMAIN upvalues /\ upvalues[open[i]].owner = 0
      BY <1>3 DEF Contains, Sorted
    <3>2. g # 0 /\ ~Contains(us, open[i])
      BY <1>3, <1>6, <3>1 DEF us
    <3>3. upvalues[open[i]].location \in Nat /\ upvalues[open[i]].location + 1 \in 1 .. L
      BY <1>3, <1>6, <3>1
    <3>4. QED
      BY <1>3, <1>8, <3>1, <3>2, <3>3
  <2> HIDE DEF d
  <2>4. d \in Nat
    BY <1>3 DEF d
  <2>5. \A j \in DOMAIN open' :
          /\ open'[j] \in DOMAIN upvalues
          /\ upvalues'[open'[j]].owner = 0 /\ upvalues'[open'[j]].location >= 0
    <3>1. SUFFICES ASSUME NEW j \in DOMAIN open'
                   PROVE  /\ open'[j] \in DOMAIN upvalues
                          /\ upvalues'[open'[j]].owner = 0 /\ upvalues'[open'[j]].location >= 0
      OBVIOUS
    <3>2. CASE j \in 1 .. d
      <4>1. open'[j] = us[(d - j) + 1] /\ (d - j) + 1 \in 1 .. d
        BY <1>15, <3>2 DEF d
      <4>2. QED
        BY <1>3, <2>2, <4>1, SMTT(40)
    <3>3. CASE j - d \in 1 .. Len(open) /\ d + (j - d) = j
      <4>1. open'[j] = open[j - d]
        BY <1>15, <3>3 DEF d
      <4>2. QED
        BY <2>3, <3>3, <4>1
    <3>4. QED
      BY <1>15, <2>1, <3>2, <3>3 DEF d
  <2>6. ASSUME NEW i \in DOMAIN open', NEW j \in DOMAIN open', i < j
        PROVE  upvalues'[open'[i]].location > upvalues'[open'[j]].location
    <3>1. CASE i \in 1 .. d /\ j \in 1 .. d
      <4>1. /\ open'[i] = us[(d - i) + 1] /\ (d - i) + 1 \in 1 .. d
            /\ open'[j] = us[(d - j) + 1] /\ (d - j) + 1 \in 1 .. d
        BY <1>15, <3>1 DEF d
      <4>2. (d - j) + 1 < (d - i) + 1
        BY <2>4, <2>6, <3>1
      <4>3. upvalues[us[(d - j) + 1]].location < upvalues[us[(d - i) + 1]].location
        BY <1>3, <4>1, <4>2 DEF Sorted, us, d
      <4>4. QED
        <5>1. /\ upvalues'[open'[i]].location = upvalues[us[(d - i) + 1]].location + L
              /\ upvalues'[open'[j]].location = upvalues[us[(d - j) + 1]].location + L
              /\ upvalues[us[(d - i) + 1]].location \in Nat /\ upvalues[us[(d - j) + 1]].location \in Nat
          BY <2>2, <4>1
        <5>2. \A a, b, c \in Nat : a < b => b + c > a + c
          OBVIOUS
        <5>3. QED
          BY <1>3, <4>3, <5>1, <5>2
    <3>2. CASE i \in 1 .. d /\ j - d \in 1 .. Len(open) /\ d + (j - d) = j
      <4>1. open'[i] = us[(d - i) + 1] /\ (d - i) + 1 \in 1 .. d /\ open'[j] = open[j - d]
        BY <1>15, <3>2 DEF d
      <4>2. upvalues'[open'[i]].location >= L /\ upvalues'[open'[i]].location \in Nat
        BY <1>3, <2>2, <4>1, SMTT(40)
      <4>3. upvalues'[open'[j]].location < L /\ upvalues'[open'[j]].location \in Nat
        BY <2>3, <3>2, <4>1
      <4>4. \A a, b, c \in Nat : a >= c /\ b < c => a > b
        OBVIOUS
      <4>5. L \in Nat
        BY <1>3
      <4>6. QED
        BY <4>2, <4>3, <4>4, <4>5
    <3>3. CASE /\ i - d \in 1 .. Len(open) /\ d + (i - d) = i
               /\ j - d \in 1 .. Len(open) /\ d + (j - d) = j
      <4>1. open'[i] = open[i - d] /\ open'[j] = open[j - d] /\ i - d < j - d
        BY <1>15, <2>1, <2>4, <2>6, <3>3, SMTT(40) DEF d
      <4>2. upvalues[open[i - d]].location > upvalues[open[j - d]].location
        BY <1>3, <3>3, <4>1 DEF Sorted
      <4>3. QED
        BY <2>3, <3>3, <4>1, <4>2
    <3>4. ~(j \in 1 .. d /\ i - d \in 1 .. Len(open))
      BY <1>3, <2>1, <2>4, <2>6
    <3>5. QED
      BY <1>15, <2>1, <3>1, <3>2, <3>3, <3>4 DEF d
  <2>7. ASSUME NEW h \in DOMAIN gens
        PROVE  /\ gens'[h].status # "suspended" => gens'[h].captured = <<>>
               /\ \A j \in DOMAIN gens'[h].captured :
                    /\ gens'[h].captured[j] \in DOMAIN upvalues'
                    /\ upvalues'[gens'[h].captured[j]].owner = h /\ upvalues'[gens'[h].captured[j]].location >= 0
               /\ \A i, j \in DOMAIN gens'[h].captured :
                    i < j => upvalues'[gens'[h].captured[i]].location < upvalues'[gens'[h].captured[j]].location
    <3>1. CASE h = g
      BY <1>4, <1>5, <3>1
    <3>2. CASE h # g
      <4>1. gens'[h] = gens[h]
        BY <1>5, <3>2
      <4>2. \A j \in DOMAIN gens[h].captured :
              gens[h].captured[j] \in DOMAIN upvalues /\ upvalues'[gens[h].captured[j]] = upvalues[gens[h].captured[j]]
        <5>1. SUFFICES ASSUME NEW j \in DOMAIN gens[h].captured
                       PROVE  /\ gens[h].captured[j] \in DOMAIN upvalues
                              /\ upvalues'[gens[h].captured[j]] = upvalues[gens[h].captured[j]]
          OBVIOUS
        <5>2. gens[h].captured[j] \in DOMAIN upvalues /\ upvalues[gens[h].captured[j]].owner = h
          BY DEF Sorted
        <5>3. ~Contains(us, gens[h].captured[j])
          BY <1>6, <3>2, <5>2 DEF us
        <5>4. QED
          BY <1>8, <5>2, <5>3
      <4>3. QED
        BY <1>9, <4>1, <4>2 DEF Sorted
    <3>3. QED
      BY <3>1, <3>2
  <2>8. QED
    BY <1>5, <1>9, <2>5, <2>6, <2>7 DEF Sorted
<1>17. ASSUME NEW u \in DOMAIN upvalues
       PROVE  Located(u, w[u])'
  <2>1. w[u] \in DOMAIN cell' /\ w[u] # 0 /\ cell'[w[u]] = cell[w[u]] /\ Located(u, w[u]) /\ g # 0
    BY <1>3, <1>11 DEF For
  <2>2. CASE upvalues[u].location = Closed /\ upvalues[u].closed = cell[w[u]] /\ Nowhere(w[u])
    <3>1. upvalues'[u] = upvalues[u]
      BY <1>6, <1>8, <2>2 DEF Closed, us
    <3>2. ASSUME NEW k \in DOMAIN stack', names'[k] = w[u]
          PROVE  FALSE
      <4>1. CASE k \in 1 .. L
        BY <1>1, <1>3, <2>2, <3>2, <4>1 DEF Nowhere
      <4>2. CASE k - L \in 1 .. m /\ L + (k - L) = k
        <5>1. CASE names'[k] = gens[g].names[k - L]
          <6>1. k - L \in DOMAIN gens[g].args
            BY <1>3, <4>2
          <6>2. QED
            BY <1>1, <2>2, <3>2, <5>1, <6>1 DEF Nowhere
        <5>2. CASE names'[k] = Fresh /\ cell' = Append(cell, value)
          BY <1>11, <3>2, <5>2
        <5>3. QED
          BY <1>13, <2>1, <3>2, <4>2, <5>1, <5>2
      <4>3. QED
        BY <1>12, <4>1, <4>2
    <3>3. Nowhere(w[u])'
      BY <1>10, <2>2, <3>2 DEF Nowhere
    <3>4. QED
      BY <2>1, <2>2, <3>1, <3>3 DEF Located
  <2>3. CASE upvalues[u].location >= 0 /\ upvalues[u].owner = 0 /\ OnStack(u, w[u])
    <3>1. upvalues'[u] = upvalues[u]
      BY <1>6, <1>8, <2>1, <2>3 DEF us
    <3>2. upvalues[u].location + 1 \in 1 .. L /\ Contains(open', u)
      BY <1>3, <1>15, <2>3 DEF OnStack
    <3>3. OnStack(u, w[u])'
      BY <1>1, <1>12, <2>3, <3>1, <3>2 DEF OnStack
    <3>4. QED
      BY <2>3, <3>1, <3>3 DEF Located
  <2>4. CASE upvalues[u].location >= 0 /\ upvalues[u].owner # 0 /\ InGenerator(u, w[u], upvalues[u].owner) /\ upvalues[u].owner # g
    <3>1. upvalues'[u] = upvalues[u]
      BY <1>6, <1>8, <2>4 DEF us
    <3>2. QED
      BY <1>5, <2>4, <3>1 DEF Located, InGenerator
  <2>5. CASE upvalues[u].location >= 0 /\ InGenerator(u, w[u], g)
    <3>1. /\ Contains(us, u)
          /\ upvalues[u].location + 1 \in 1 .. m
          /\ gens[g].names[upvalues[u].location + 1] = w[u]
      BY <1>3, <2>5 DEF InGenerator, us
    <3>2. upvalues'[u].location = upvalues[u].location + L /\ upvalues'[u].owner = 0 /\ upvalues[u].location \in Nat
      BY <1>6, <1>8, <3>1 DEF us
    <3>3. upvalues'[u].location + 1 = L + (upvalues[u].location + 1) /\ upvalues'[u].location >= 0
      BY <1>3, <3>2
    <3>4. names'[upvalues'[u].location + 1] = w[u] /\ upvalues'[u].location + 1 \in DOMAIN stack'
      BY <1>1, <1>12, <2>1, <3>1, <3>3
    <3>5. Contains(open', u)
      BY <1>15, <3>1
    <3>6. QED
      BY <3>2, <3>3, <3>4, <3>5 DEF Located, OnStack
  <2>6. QED
    BY <2>1, <2>2, <2>3, <2>4, <2>5 DEF Located
<1>18. For(w)'
  BY <1>2, <1>9, <1>11, <1>17 DEF For
<1>19. Len(stack') >= Len(stack)
  BY <1>1, <1>3 DEF L
<1>20. QED
  BY <1>1, <1>4, <1>5, <1>9, <1>11, <1>14, <1>15, <1>16, <1>18, <1>19

-----------------------------------------------------------------------------
(* Giving the stack up.                                                    *)

Below(n) == SubSeq(open, Passed(n) + 1, Len(open))

\* The walk from n parts the list in the upvalues of the slots from n up and
\* those of the slots below n, each in order.
LEMMA ClosingRight ==
  ASSUME Typed, Sorted, NEW n \in Nat
  PROVE  /\ Closing(n) \in Seq(Nat) /\ DOMAIN Closing(n) = 1 .. Len(Closing(n))
         /\ \A u : Contains(Closing(n), u) <=> Contains(open, u) /\ upvalues[u].location >= n
         /\ \A i, j \in DOMAIN Closing(n) :
              i < j => upvalues[Closing(n)[i]].location > upvalues[Closing(n)[j]].location
         /\ Below(n) \in Seq(Nat) /\ DOMAIN Below(n) = 1 .. Len(Below(n))
         /\ \A u : Contains(Below(n), u) <=> Contains(open, u) /\ ~(upvalues[u].location >= n)
         /\ \A i, j \in DOMAIN Below(n) :
              i < j => upvalues[Below(n)[i]].location > upvalues[Below(n)[j]].location
<1> DEFINE p == Passed(n)
           us == Closing(n)
           t == Below(n)
<1>1. /\ p \in 0 .. Len(open)
      /\ \A j \in 1 .. p : upvalues[open[j]].location >= n
      /\ \A j \in p + 1 .. Len(open) : upvalues[open[j]].location < n
  BY PassedRight
<1>2. open \in Seq(Nat) /\ DOMAIN open = 1 .. Len(open) /\ Len(open) \in Nat
  BY TypedFacts DEF Typed
<1>3. /\ us \in Seq(Nat) /\ Len(us) = p /\ \A i \in 1 .. p : us[i] = open[i]
      /\ t \in Seq(Nat) /\ Len(t) = Len(open) - p /\ \A i \in 1 .. Len(open) - p : t[i] = open[p + i]
  BY <1>1, <1>2, Parts, ZenonT(40) DEF Closing, Below
<1>4. DOMAIN us = 1 .. p /\ DOMAIN t = 1 .. Len(open) - p
  BY <1>3, LenProperties
<1> HIDE DEF us, t, p
<1>5. \A j \in 1 .. Len(open) : open[j] \in DOMAIN upvalues /\ upvalues[open[j]].location \in Int
  BY <1>2, TypedFacts DEF Sorted, UpvalueRecord
<1>6. \A i, j \in 1 .. Len(open) : i < j => upvalues[open[i]].location > upvalues[open[j]].location
  BY <1>2 DEF Sorted
<1>7. /\ \A j \in 1 .. p : j \in 1 .. Len(open)
      /\ \A j \in 1 .. Len(open) - p : p + j \in 1 .. Len(open) /\ p + j \in p + 1 .. Len(open)
      /\ \A j \in 1 .. Len(open) : j \in 1 .. p \/ (j - p \in 1 .. Len(open) - p /\ p + (j - p) = j)
      /\ \A i, j \in 1 .. Len(open) - p : i < j => p + i < p + j
  BY <1>1, <1>2
<1>8. ASSUME NEW u
      PROVE  /\ Contains(us, u) => Contains(open, u) /\ upvalues[u].location >= n
             /\ Contains(t, u) => Contains(open, u) /\ ~(upvalues[u].location >= n)
             /\ Contains(open, u) => Contains(us, u) \/ Contains(t, u)
  <2>1. ASSUME Contains(us, u)
        PROVE  Contains(open, u) /\ upvalues[u].location >= n
    <3>1. PICK j \in 1 .. p : us[j] = u
      BY <1>3, <2>1 DEF Contains
    <3>2. QED
      BY <1>1, <1>3, <1>7, <3>1 DEF Contains
  <2>2. ASSUME Contains(t, u)
        PROVE  Contains(open, u) /\ ~(upvalues[u].location >= n)
    <3>1. PICK j \in 1 .. Len(open) - p : t[j] = u
      BY <1>3, <2>2 DEF Contains
    <3>2. open[p + j] = u /\ upvalues[open[p + j]].location < n /\ upvalues[open[p + j]].location \in Int
      BY <1>1, <1>3, <1>5, <1>7, <3>1
    <3>3. QED
      BY <1>7, <3>1, <3>2 DEF Contains
  <2>3. ASSUME Contains(open, u)
        PROVE  Contains(us, u) \/ Contains(t, u)
    <3>1. PICK j \in 1 .. Len(open) : open[j] = u
      BY <2>3 DEF Contains
    <3>2. CASE j \in 1 .. p
      BY <1>3, <3>1, <3>2 DEF Contains
    <3>3. CASE j - p \in 1 .. Len(open) - p /\ p + (j - p) = j
      <4>1. t[j - p] = u
        BY <1>3, <3>1, <3>3
      <4>2. QED
        BY <1>3, <3>3, <4>1 DEF Contains
    <3>4. QED
      BY <1>7, <3>1, <3>2, <3>3
  <2>4. QED
    BY <2>1, <2>2, <2>3
<1>9. \A i, j \in DOMAIN us : i < j => upvalues[us[i]].location > upvalues[us[j]].location
  BY <1>3, <1>4, <1>6, <1>7
<1>10. \A i, j \in DOMAIN t : i < j => upvalues[t[i]].location > upvalues[t[j]].location
  <2>1. SUFFICES ASSUME NEW i \in 1 .. Len(open) - p, NEW j \in 1 .. Len(open) - p, i < j
                 PROVE  upvalues[t[i]].location > upvalues[t[j]].location
    BY <1>4
  <2>2. t[i] = open[p + i] /\ t[j] = open[p + j] /\ p + i < p + j /\ p + i \in 1 .. Len(open) /\ p + j \in 1 .. Len(open)
    BY <1>3, <1>7, <2>1
  <2>3. QED
    BY <1>6, <2>2
<1>11. QED
  BY <1>3, <1>4, <1>8, <1>9, <1>10 DEF us, t

\* The slots from s up and the value on top of them, as they are saved.
Saved(s, x, from) == Append(SubSeq(s, from + 1, Len(s)), x)

IsSaved(r, S, t, x, from) ==
  /\ r \in Seq(S) /\ Len(r) = (Len(t) - from) + 1
  /\ DOMAIN r = 1 .. (Len(t) - from) + 1
  /\ \A k \in 1 .. Len(t) - from : r[k] = t[from + k] /\ from + k \in 1 .. Len(t)
  /\ \A k \in 1 .. (Len(t) - from) + 1 : k \notin 1 .. Len(t) - from => r[k] = x

LEMMA SavedRight ==
  ASSUME NEW S, NEW t \in Seq(S), NEW x \in S, NEW from \in 0 .. Len(t)
  PROVE  IsSaved(Saved(t, x, from), S, t, x, from)
<1> DEFINE p == SubSeq(t, from + 1, Len(t))
           m == Len(t) - from
<1>1. p \in Seq(S) /\ Len(p) = m /\ \A i \in 1 .. m : p[i] = t[from + i]
  BY Parts
<1>2. Len(t) \in Nat
  BY LenProperties
<1>3. m \in Nat /\ \A k \in 1 .. m : from + k \in 1 .. Len(t)
  BY <1>2
<1>4. Saved(t, x, from) = Append(p, x)
  BY DEF Saved
<1> HIDE DEF p
<1>5. /\ Append(p, x) \in Seq(S) /\ Len(Append(p, x)) = Len(p) + 1
      /\ (\A i \in 1 .. Len(p) : Append(p, x)[i] = p[i])
      /\ Append(p, x)[Len(p) + 1] = x
  BY <1>1, AppendProperties
<1>6. DOMAIN Append(p, x) = 1 .. Len(p) + 1
  BY <1>5, LenProperties
<1>7. QED
  BY <1>1, <1>3, <1>4, <1>5, <1>6 DEF IsSaved

\* The variables of the running generator go into its array, and with them
\* the upvalues that have captured them.
LEMMA YieldKeeps ==
  ASSUME Typed, Placed, Sorted, NEW w, For(w), Yield,
         Frame.gen \in DOMAIN gens, gens[Frame.gen].status = "running", Frame.slots \in 0 .. Len(stack)
  PROVE  /\ Placed' /\ Sorted' /\ For(w)' /\ stack' \in Seq(Entry) /\ names' \in Seq(Nat)
         /\ upvalues' \in Seq(UpvalueRecord) /\ open' \in Seq(Nat) /\ gens' \in Seq(GeneratorRecord)
         /\ Len(stack') = Frame.slots /\ DOMAIN gens' = DOMAIN gens
         /\ \A h \in DOMAIN gens : h # Frame.gen => gens'[h] = gens[h]
         /\ gens'[Frame.gen].status = "suspended" /\ gens'[Frame.gen].closure = gens[Frame.gen].closure
<1>0. PICK s \in 0 .. Len(stack) : s = Frame.slots
  OBVIOUS
<1> DEFINE g == Frame.gen
           L == Len(stack)
           m == L - s
           us == Closing(s)
           args == Saved(stack, Other, s)
           held == Saved(names, 0, s)
           r == [gens[g] EXCEPT !.status = "suspended", !.captured = Reverse(us), !.args = args, !.names = held]
<1>1. /\ upvalues' = Suspended(g, us) /\ open' = Below(s) /\ closures' = closures /\ cell' = cell
      /\ stack' = SubSeq(stack, 1, s) /\ names' = SubSeq(names, 1, s)
  BY <1>0 DEF Yield, Below
<1>2. gens' = [gens EXCEPT ![g] = r]
  <2>1. L = Len(names)
    BY DEF Placed, Shaped
  <2>2. held = Append(SubSeq(names, s + 1, L), 0) /\ args = Append(SubSeq(stack, s + 1, L), Other)
    BY <2>1 DEF Saved
  <2> HIDE DEF held, args, L
  <2>3. gens' = [gens EXCEPT ![g] = [@ EXCEPT !.status = "suspended", !.captured = Reverse(us), !.args = args, !.names = held]]
    BY <1>0, <2>2 DEF Yield, L
  <2>4. QED
    BY <2>3
<1>3. /\ g \in DOMAIN gens /\ gens[g] \in GeneratorRecord /\ gens[g].status = "running" /\ g # 0 /\ g \in Nat
      /\ DOMAIN gens = 1 .. Len(gens) /\ gens \in Seq(GeneratorRecord)
      /\ s \in 0 .. L /\ s \in Nat /\ L \in Nat /\ m \in Nat
      /\ stack \in Seq(Entry) /\ names \in Seq(Nat) /\ Len(names) = L /\ DOMAIN stack = 1 .. L
      /\ DOMAIN upvalues = 1 .. Len(upvalues) /\ Len(upvalues) \in Nat
      /\ \A u \in DOMAIN upvalues : upvalues[u] \in UpvalueRecord
      /\ DOMAIN open = 1 .. Len(open)
  BY TypedFacts DEF Typed, Placed, Shaped
<1>4. /\ us \in Seq(Nat) /\ DOMAIN us = 1 .. Len(us)
      /\ \A u : Contains(us, u) <=> Contains(open, u) /\ upvalues[u].location >= s
      /\ \A i, j \in DOMAIN us : i < j => upvalues[us[i]].location > upvalues[us[j]].location
      /\ open' \in Seq(Nat) /\ DOMAIN open' = 1 .. Len(open')
      /\ \A u : Contains(open', u) <=> Contains(open, u) /\ ~(upvalues[u].location >= s)
      /\ \A i, j \in DOMAIN open' : i < j => upvalues[open'[i]].location > upvalues[open'[j]].location
  BY <1>1, <1>3, ClosingRight
<1>5. /\ args \in Seq(Entry) /\ DOMAIN args = 1 .. m + 1 /\ Len(args) = m + 1
      /\ \A k \in 1 .. m : args[k] = stack[s + k] /\ s + k \in 1 .. L
      /\ args[m + 1] = Other
      /\ held \in Seq(Nat) /\ DOMAIN held = 1 .. m + 1 /\ Len(held) = m + 1
      /\ \A k \in 1 .. m : held[k] = names[s + k]
      /\ held[m + 1] = 0
  <2>1. Other \in Entry /\ 0 \in Nat /\ m = L - s /\ Len(names) = L /\ L = Len(stack)
    BY <1>3 DEF Entry
  <2> HIDE DEF m, g, us, r, L
  <2>2. /\ args \in Seq(Entry) /\ Len(args) = (Len(stack) - s) + 1
        /\ DOMAIN args = 1 .. (Len(stack) - s) + 1
        /\ \A k \in 1 .. Len(stack) - s : args[k] = stack[s + k] /\ s + k \in 1 .. Len(stack)
        /\ \A k \in 1 .. (Len(stack) - s) + 1 : k \notin 1 .. Len(stack) - s => args[k] = Other
    <3>1. stack \in Seq(Entry) /\ Other \in Entry /\ s \in 0 .. Len(stack)
      BY <1>3, <2>1
    <3>2. IsSaved(args, Entry, stack, Other, s)
      BY <3>1, SavedRight, Zenon
    <3>3. QED
      BY <3>2 DEF IsSaved
  <2>3. /\ held \in Seq(Nat) /\ Len(held) = (Len(names) - s) + 1
        /\ DOMAIN held = 1 .. (Len(names) - s) + 1
        /\ \A k \in 1 .. Len(names) - s : held[k] = names[s + k] /\ s + k \in 1 .. Len(names)
        /\ \A k \in 1 .. (Len(names) - s) + 1 : k \notin 1 .. Len(names) - s => held[k] = 0
    <3>1. names \in Seq(Nat) /\ 0 \in Nat /\ s \in 0 .. Len(names)
      BY <1>3, <2>1
    <3>2. IsSaved(held, Nat, names, 0, s)
      BY <3>1, SavedRight, Zenon
    <3>3. QED
      BY <3>2 DEF IsSaved
  <2> HIDE DEF args, held
  <2>4. m \in Nat /\ m + 1 \in 1 .. m + 1 /\ m + 1 \notin 1 .. m
    BY <1>3, <2>1
  <2>5. QED
    BY <2>1, <2>2, <2>3, <2>4
<1>6. /\ Reverse(us) \in Seq(Nat) /\ Len(Reverse(us)) = Len(us) /\ DOMAIN Reverse(us) = 1 .. Len(us)
      /\ \A i \in 1 .. Len(us) : Reverse(us)[i] = us[(Len(us) - i) + 1] /\ (Len(us) - i) + 1 \in 1 .. Len(us)
  BY <1>4, ReverseRight, LenProperties
<1>7. /\ r \in GeneratorRecord /\ r.status = "suspended" /\ r.captured = Reverse(us) /\ r.args = args /\ r.names = held
      /\ r.closure = gens[g].closure
  <2> HIDE DEF us, args, held, g
  <2>1. r \in [status : {"suspended"}, args : {args}, captured : {Reverse(us)}, closure : {gens[g].closure}, names : {held}]
    BY <1>3 DEF GeneratorRecord
  <2>2. gens[g].closure \in Nat
    BY <1>3 DEF GeneratorRecord
  <2>3. QED
    BY <1>5, <1>6, <2>1, <2>2 DEF GeneratorRecord, Status
<1> HIDE DEF r, args, held, us, L, m, g
<1>8. /\ gens' \in Seq(GeneratorRecord) /\ DOMAIN gens' = DOMAIN gens /\ gens'[g] = r
      /\ \A h \in DOMAIN gens : h # g => gens'[h] = gens[h]
  BY <1>2, <1>3, <1>7, ExceptSeq
<1>9. /\ stack' \in Seq(Entry) /\ Len(stack') = s /\ names' \in Seq(Nat) /\ Len(names') = s
      /\ DOMAIN stack' = 1 .. s /\ \A k \in 1 .. s : stack'[k] = stack[k] /\ names'[k] = names[k] /\ k \in DOMAIN stack
  <2>1. /\ stack' \in Seq(Entry) /\ Len(stack') = s /\ \A k \in 1 .. s : stack'[k] = stack[k]
    BY <1>1, <1>3, Parts DEF L
  <2>2. /\ names' \in Seq(Nat) /\ Len(names') = s /\ \A k \in 1 .. s : names'[k] = names[k]
    BY <1>1, <1>3, Parts
  <2>3. DOMAIN stack' = 1 .. s /\ \A k \in 1 .. s : k \in 1 .. L
    BY <1>3, <2>1, LenProperties
  <2>4. QED
    BY <1>3, <2>1, <2>2, <2>3
<1>10. /\ \A u \in DOMAIN upvalues : Contains(open, u) =>
            /\ upvalues[u].location \in Nat /\ upvalues[u].owner = 0
            /\ upvalues[u].location + 1 \in DOMAIN stack /\ names[upvalues[u].location + 1] = w[u]
       /\ \A h \in DOMAIN gens : \A u \in DOMAIN upvalues : Contains(gens[h].captured, u) =>
            /\ upvalues[u].location \in Nat /\ upvalues[u].owner = h /\ gens[h].status = "suspended"
            /\ upvalues[u].location + 1 \in DOMAIN gens[h].args
            /\ gens[h].names[upvalues[u].location + 1] = w[u]
  BY OpenOnStack
<1>11. upvalues' = [u \in DOMAIN upvalues |->
         IF Contains(us, u) THEN [upvalues[u] EXCEPT !.location = @ - s, !.owner = g] ELSE upvalues[u]]
  BY <1>0, <1>1 DEF Suspended
<1>12. ASSUME NEW u \in DOMAIN upvalues
       PROVE  /\ upvalues'[u] \in UpvalueRecord
              /\ Contains(us, u) => upvalues'[u].location = upvalues[u].location - s /\ upvalues'[u].owner = g
              /\ ~Contains(us, u) => upvalues'[u] = upvalues[u]
  <2>1. CASE Contains(us, u)
    <3>1. upvalues'[u] = [upvalues[u] EXCEPT !.location = upvalues[u].location - s, !.owner = g]
      BY <1>11, <2>1
    <3>2. upvalues[u] \in UpvalueRecord /\ upvalues[u].location - s \in Int
      BY <1>3 DEF UpvalueRecord
    <3>3. /\ upvalues'[u].location = upvalues[u].location - s /\ upvalues'[u].owner = g
          /\ upvalues'[u] \in [location : {upvalues[u].location - s}, closed : Entry, owner : {g}]
      BY <3>1, <3>2 DEF UpvalueRecord
    <3>4. upvalues'[u] \in UpvalueRecord
      BY <1>3, <3>2, <3>3 DEF UpvalueRecord
    <3>5. QED
      BY <2>1, <3>3, <3>4
  <2>2. CASE ~Contains(us, u)
    BY <1>3, <1>11, <2>2
  <2>3. QED
    BY <2>1, <2>2
<1>13. DOMAIN upvalues' = DOMAIN upvalues /\ upvalues' \in Seq(UpvalueRecord)
  <2>1. upvalues' \in [1 .. Len(upvalues) -> UpvalueRecord]
    BY <1>3, <1>11, <1>12
  <2>2. QED
    BY <1>3, <2>1, FunIsSeq
<1>14. /\ \A h \in Waiting' : h = g \/ (h # g /\ h \in Waiting /\ gens'[h] = gens[h])
       /\ \A h \in Waiting : h # g /\ h \in DOMAIN gens /\ gens'[h] = gens[h]
       /\ g \in Waiting'
  BY <1>3, <1>7, <1>8 DEF Waiting
<1>15. \A k \in DOMAIN args : held[k] # 0 =>
         k \in 1 .. m /\ s + k \in DOMAIN stack /\ held[k] = names[s + k] /\ args[k] = stack[s + k]
  <2>1. \A k \in 1 .. m + 1 : k \in 1 .. m \/ k = m + 1
    BY <1>3
  <2>2. QED
    BY <1>3, <1>5, <2>1
<1>16. Placed'
  <2>1. Shaped'
    <3>1. \A h \in Waiting' : Len(gens'[h].names) = Len(gens'[h].args)
      BY <1>5, <1>7, <1>8, <1>14 DEF Placed, Shaped
    <3>2. r.args # <<>>
      BY <1>3, <1>5, <1>7
    <3>3. \A h \in Waiting' : gens'[h].args # <<>>
      BY <1>8, <1>14, <3>2 DEF Placed, Shaped
    <3>4. r.names[Len(r.args)] = 0
      BY <1>5, <1>7
    <3>5. \A h \in Waiting' : gens'[h].status = "suspended" => gens'[h].names[Len(gens'[h].args)] = 0
      BY <1>8, <1>14, <3>4 DEF Placed, Shaped
    <3>6. \A h \in DOMAIN gens' : gens'[h].status = "freed" => gens'[h].args = <<>>
      BY <1>7, <1>8 DEF Placed, Shaped
    <3>7. QED
      BY <1>9, <3>1, <3>3, <3>5, <3>6 DEF Shaped
  <2>2. Valued'
    <3>1. \A k \in DOMAIN stack' : names'[k] # 0 => names'[k] \in DOMAIN cell' /\ stack'[k] = cell'[names'[k]]
      BY <1>1, <1>9 DEF Placed, Valued
    <3>2. \A k \in DOMAIN args : held[k] # 0 => held[k] \in DOMAIN cell' /\ args[k] = cell'[held[k]]
      BY <1>1, <1>15 DEF Placed, Valued
    <3>3. \A h \in Waiting' : \A k \in DOMAIN gens'[h].args : gens'[h].names[k] # 0 =>
            gens'[h].names[k] \in DOMAIN cell' /\ gens'[h].args[k] = cell'[gens'[h].names[k]]
      BY <1>1, <1>7, <1>8, <1>14, <3>2 DEF Placed, Valued
    <3>4. QED
      BY <3>1, <3>3 DEF Valued
  <2>3. OnePlace'
    <3>1. \A k, l \in DOMAIN stack' : names'[k] = names'[l] /\ names'[k] # 0 => k = l
      BY <1>9 DEF Placed, OnePlace
    <3>2. ASSUME NEW k \in DOMAIN args, NEW l \in DOMAIN stack', held[k] # 0, names'[l] = held[k]
          PROVE  FALSE
      <4>1. /\ s + k \in DOMAIN stack /\ names[l] = names[s + k] /\ names[l] # 0 /\ l \in DOMAIN stack
            /\ k \in 1 .. m /\ l \in 1 .. s
        BY <1>9, <1>15, <3>2
      <4>2. l = s + k
        BY <4>1 DEF Placed, OnePlace
      <4>3. QED
        BY <1>3, <4>1, <4>2
    <3>3. \A h \in Waiting' : \A k \in DOMAIN gens'[h].args : \A l \in DOMAIN stack' :
            gens'[h].names[k] # 0 => names'[l] # gens'[h].names[k]
      <4>1. SUFFICES ASSUME NEW h \in Waiting', NEW k \in DOMAIN gens'[h].args, NEW l \in DOMAIN stack', gens'[h].names[k] # 0
                     PROVE  names'[l] # gens'[h].names[k]
        OBVIOUS
      <4>2. CASE h = g
        BY <1>7, <1>8, <3>2, <4>1, <4>2
      <4>3. CASE h \in Waiting /\ gens'[h] = gens[h]
        BY <1>9, <4>1, <4>3 DEF Placed, OnePlace
      <4>4. QED
        BY <1>14, <4>2, <4>3
    <3>4. ASSUME NEW k \in DOMAIN args, NEW l \in DOMAIN args, held[k] = held[l], held[k] # 0
          PROVE  k = l
      <4>1. s + k \in DOMAIN stack /\ s + l \in DOMAIN stack /\ names[s + k] = names[s + l] /\ names[s + k] # 0
        BY <1>15, <3>4
      <4>2. s + k = s + l
        BY <4>1 DEF Placed, OnePlace
      <4>3. k \in Nat /\ l \in Nat
        BY <1>5
      <4>4. QED
        BY <1>3, <4>2, <4>3
    <3>5. ASSUME NEW h \in Waiting, NEW k \in DOMAIN args, NEW l \in DOMAIN gens[h].args, held[k] = gens[h].names[l], held[k] # 0
          PROVE  FALSE
      <4>1. s + k \in DOMAIN stack /\ names[s + k] = gens[h].names[l] /\ gens[h].names[l] # 0
        BY <1>15, <3>5
      <4>2. QED
        BY <4>1 DEF Placed, OnePlace
    <3>6. ASSUME NEW f \in Waiting', NEW h \in Waiting', NEW k \in DOMAIN gens'[f].args, NEW l \in DOMAIN gens'[h].args,
                 gens'[f].names[k] = gens'[h].names[l], gens'[f].names[k] # 0
          PROVE  f = h /\ k = l
      <4>1. CASE f = g /\ h = g
        BY <1>7, <1>8, <3>4, <3>6, <4>1
      <4>2. CASE f = g /\ h \in Waiting /\ gens'[h] = gens[h]
        BY <1>7, <1>8, <3>5, <3>6, <4>2
      <4>3. CASE h = g /\ f \in Waiting /\ gens'[f] = gens[f]
        BY <1>7, <1>8, <3>5, <3>6, <4>3
      <4>4. CASE f \in Waiting /\ gens'[f] = gens[f] /\ h \in Waiting /\ gens'[h] = gens[h]
        BY <3>6, <4>4 DEF Placed, OnePlace
      <4>5. QED
        BY <1>14, <4>1, <4>2, <4>3, <4>4
    <3>7. QED
      BY <3>1, <3>3, <3>6 DEF OnePlace
  <2>4. QED
    BY <2>1, <2>2, <2>3 DEF Placed
<1>17. \A u : Contains(open, u) => u \in DOMAIN upvalues
  BY <1>3 DEF Contains, Sorted
<1>18. Sorted'
  <2>1. \A j \in DOMAIN open' :
          /\ open'[j] \in DOMAIN upvalues'
          /\ upvalues'[open'[j]].owner = 0 /\ upvalues'[open'[j]].location >= 0
          /\ upvalues'[open'[j]] = upvalues[open'[j]]
    <3>1. SUFFICES ASSUME NEW j \in DOMAIN open'
                   PROVE  /\ open'[j] \in DOMAIN upvalues'
                          /\ upvalues'[open'[j]].owner = 0 /\ upvalues'[open'[j]].location >= 0
                          /\ upvalues'[open'[j]] = upvalues[open'[j]]
      OBVIOUS
    <3>2. Contains(open', open'[j])
      BY <1>4 DEF Contains
    <3>3. Contains(open, open'[j]) /\ ~Contains(us, open'[j]) /\ open'[j] \in DOMAIN upvalues
      BY <1>4, <1>17, <3>2
    <3>4. QED
      BY <1>10, <1>12, <1>13, <3>3
  <2>2. \A i, j \in DOMAIN open' : i < j => upvalues'[open'[i]].location > upvalues'[open'[j]].location
    BY <1>4, <2>1
  <2>3. ASSUME NEW j \in DOMAIN us
        PROVE  /\ us[j] \in DOMAIN upvalues' /\ upvalues'[us[j]].owner = g /\ upvalues'[us[j]].location >= 0
               /\ upvalues[us[j]].location \in Nat /\ upvalues'[us[j]].location = upvalues[us[j]].location - s
    <3>1. Contains(us, us[j])
      BY <1>4 DEF Contains
    <3>2. Contains(open, us[j]) /\ us[j] \in DOMAIN upvalues /\ upvalues[us[j]].location >= s
      BY <1>4, <1>17, <3>1
    <3>3. upvalues[us[j]].location \in Nat
      BY <1>10, <3>2
    <3>4. QED
      BY <1>3, <1>12, <1>13, <3>1, <3>2, <3>3
  <2>4. \A j \in 1 .. Len(us) : r.captured[j] = us[(Len(us) - j) + 1] /\ (Len(us) - j) + 1 \in DOMAIN us
    BY <1>4, <1>6, <1>7
  <2>5. DOMAIN r.captured = 1 .. Len(us)
    BY <1>6, <1>7
  <2>6. \A j \in DOMAIN r.captured :
          /\ r.captured[j] \in DOMAIN upvalues'
          /\ upvalues'[r.captured[j]].owner = g /\ upvalues'[r.captured[j]].location >= 0
    BY <2>3, <2>4, <2>5
  <2>7. ASSUME NEW i \in DOMAIN r.captured, NEW j \in DOMAIN r.captured, i < j
        PROVE  upvalues'[r.captured[i]].location < upvalues'[r.captured[j]].location
    <3> DEFINE a == (Len(us) - i) + 1
               b == (Len(us) - j) + 1
    <3>1. r.captured[i] = us[a] /\ r.captured[j] = us[b] /\ a \in DOMAIN us /\ b \in DOMAIN us
      BY <2>4, <2>5
    <3>2. b < a
      BY <1>4, <2>5, <2>7, LenProperties
    <3> HIDE DEF a, b
    <3>3. upvalues[us[b]].location > upvalues[us[a]].location
      BY <1>4, <3>1, <3>2
    <3>4. /\ upvalues[us[b]].location \in Nat /\ upvalues[us[a]].location \in Nat
          /\ upvalues'[us[b]].location = upvalues[us[b]].location - s
          /\ upvalues'[us[a]].location = upvalues[us[a]].location - s
      BY <2>3, <3>1
    <3>5. \A x, y, z \in Nat : x > y => y - z < x - z
      OBVIOUS
    <3>6. upvalues[us[a]].location - s < upvalues[us[b]].location - s
      BY <1>3, <3>3, <3>4, <3>5
    <3>7. QED
      BY <3>1, <3>4, <3>6
  <2>8. ASSUME NEW h \in DOMAIN gens, h # g
        PROVE  /\ gens'[h].status # "suspended" => gens'[h].captured = <<>>
               /\ \A j \in DOMAIN gens'[h].captured :
                    /\ gens'[h].captured[j] \in DOMAIN upvalues'
                    /\ upvalues'[gens'[h].captured[j]].owner = h /\ upvalues'[gens'[h].captured[j]].location >= 0
               /\ \A i, j \in DOMAIN gens'[h].captured :
                    i < j => upvalues'[gens'[h].captured[i]].location < upvalues'[gens'[h].captured[j]].location
    <3>1. gens'[h] = gens[h] /\ h # 0
      BY <1>3, <1>8, <2>8
    <3>2. \A j \in DOMAIN gens[h].captured :
            gens[h].captured[j] \in DOMAIN upvalues /\ upvalues'[gens[h].captured[j]] = upvalues[gens[h].captured[j]]
      <4>1. SUFFICES ASSUME NEW j \in DOMAIN gens[h].captured
                     PROVE  /\ gens[h].captured[j] \in DOMAIN upvalues
                            /\ upvalues'[gens[h].captured[j]] = upvalues[gens[h].captured[j]]
        OBVIOUS
      <4>2. gens[h].captured[j] \in DOMAIN upvalues /\ upvalues[gens[h].captured[j]].owner = h
        BY DEF Sorted
      <4>3. ~Contains(us, gens[h].captured[j])
        BY <1>4, <1>10, <3>1, <4>2
      <4>4. QED
        BY <1>12, <4>2, <4>3
    <3>3. QED
      BY <1>13, <3>1, <3>2 DEF Sorted
  <2>9. ASSUME NEW h \in DOMAIN gens'
        PROVE  /\ gens'[h].status # "suspended" => gens'[h].captured = <<>>
               /\ \A j \in DOMAIN gens'[h].captured :
                    /\ gens'[h].captured[j] \in DOMAIN upvalues'
                    /\ upvalues'[gens'[h].captured[j]].owner = h /\ upvalues'[gens'[h].captured[j]].location >= 0
               /\ \A i, j \in DOMAIN gens'[h].captured :
                    i < j => upvalues'[gens'[h].captured[i]].location < upvalues'[gens'[h].captured[j]].location
    <3>1. CASE h = g
      BY <1>7, <1>8, <2>6, <2>7, <3>1
    <3>2. CASE h # g
      BY <1>8, <2>8, <3>2
    <3>3. QED
      BY <3>1, <3>2
  <2>10. QED
    BY <2>1, <2>2, <2>9 DEF Sorted
<1>19. ASSUME NEW u \in DOMAIN upvalues
       PROVE  Located(u, w[u])'
  <2>1. w[u] \in DOMAIN cell /\ w[u] # 0 /\ Located(u, w[u])
    BY TypedFacts DEF For
  <2>2. CASE upvalues[u].location = Closed /\ upvalues[u].closed = cell[w[u]] /\ Nowhere(w[u])
    <3>1. upvalues'[u] = upvalues[u]
      BY <1>4, <1>10, <1>12, <2>2 DEF Closed
    <3>2. \A k \in DOMAIN stack' : names'[k] # w[u]
      BY <1>9, <2>2 DEF Nowhere
    <3>3. \A h \in Waiting' : \A k \in DOMAIN gens'[h].args : gens'[h].names[k] # w[u]
      BY <1>7, <1>8, <1>14, <1>15, <2>1, <2>2 DEF Nowhere
    <3>4. QED
      BY <1>1, <2>2, <3>1, <3>2, <3>3 DEF Located, Nowhere
  <2>3. CASE Contains(us, u)
    <3>1. /\ upvalues[u].location \in Nat /\ upvalues[u].location >= s /\ upvalues[u].location + 1 \in 1 .. L
          /\ names[upvalues[u].location + 1] = w[u]
      BY <1>3, <1>4, <1>10, <2>3
    <3>2. upvalues'[u].location = upvalues[u].location - s /\ upvalues'[u].owner = g
      BY <1>12, <2>3
    <3>3. upvalues'[u].location >= 0 /\ upvalues'[u].location + 1 \in 1 .. m
          /\ s + (upvalues'[u].location + 1) = upvalues[u].location + 1 /\ upvalues'[u].location + 1 \in 1 .. m + 1
      <4>1. \A a, b, c \in Nat : a >= b /\ a + 1 \in 1 .. c =>
              /\ a - b >= 0 /\ (a - b) + 1 \in 1 .. c - b /\ b + ((a - b) + 1) = a + 1
              /\ (a - b) + 1 \in 1 .. (c - b) + 1
        OBVIOUS
      <4>2. QED
        <5> DEFINE loc == upvalues[u].location
        <5>1. loc \in Nat /\ s \in Nat /\ L \in Nat /\ loc >= s /\ loc + 1 \in 1 .. L /\ upvalues'[u].location = loc - s
          BY <1>3, <3>1, <3>2
        <5> HIDE DEF loc
        <5>2. /\ loc - s >= 0 /\ (loc - s) + 1 \in 1 .. m /\ s + ((loc - s) + 1) = loc + 1
              /\ (loc - s) + 1 \in 1 .. m + 1
          BY <4>1, <5>1 DEF m
        <5>3. QED
          BY <5>1, <5>2 DEF loc
    <3>4. gens'[g].names[upvalues'[u].location + 1] = w[u] /\ upvalues'[u].location + 1 \in DOMAIN gens'[g].args
      BY <1>5, <1>7, <1>8, <3>1, <3>3
    <3>5. PICK j \in DOMAIN us : us[j] = u
      BY <1>4, <2>3 DEF Contains
    <3>6. Contains(Reverse(us), u)
      <4>1. (Len(us) - j) + 1 \in 1 .. Len(us) /\ (Len(us) - ((Len(us) - j) + 1)) + 1 = j
        BY <1>4, LenProperties
      <4>2. Reverse(us)[(Len(us) - j) + 1] = u
        BY <1>6, <3>5, <4>1
      <4>3. QED
        BY <1>6, <4>1, <4>2 DEF Contains
    <3>7. Contains(gens'[g].captured, u) /\ gens'[g].status = "suspended" /\ g \in DOMAIN gens'
      BY <1>3, <1>7, <1>8, <3>6
    <3>8. QED
      BY <1>3, <3>2, <3>3, <3>4, <3>7 DEF Located, InGenerator
  <2>4. CASE Contains(open, u) /\ ~Contains(us, u)
    <3>1. upvalues'[u] = upvalues[u] /\ Contains(open', u)
      BY <1>4, <1>12, <2>4
    <3>2. /\ upvalues[u].location \in Nat /\ ~(upvalues[u].location >= s) /\ upvalues[u].owner = 0
          /\ names[upvalues[u].location + 1] = w[u]
      BY <1>4, <1>10, <2>4
    <3>3. upvalues[u].location + 1 \in 1 .. s /\ upvalues[u].location >= 0
      BY <1>3, <3>2
    <3>4. QED
      BY <1>9, <3>1, <3>2, <3>3 DEF Located, OnStack
  <2>5. CASE upvalues[u].location >= 0 /\ upvalues[u].owner # 0 /\ InGenerator(u, w[u], upvalues[u].owner)
    <3>1. upvalues'[u] = upvalues[u]
      BY <1>4, <1>10, <1>12, <2>5
    <3>2. upvalues[u].owner # g
      BY <1>3, <2>5 DEF InGenerator
    <3>3. QED
      BY <1>8, <2>5, <3>1, <3>2 DEF Located, InGenerator
  <2>6. QED
    BY <2>1, <2>2, <2>3, <2>4, <2>5 DEF Located, OnStack
<1>20. For(w)'
  BY <1>1, <1>13, <1>19 DEF For
<1>21. QED
  BY <1>0, <1>4, <1>7, <1>8, <1>9, <1>13, <1>16, <1>18, <1>20 DEF g

-----------------------------------------------------------------------------
(* Frames.                                                                 *)

LEMMA FrameFacts ==
  ASSUME Typed, Framed
  PROVE  /\ Len(frames) \in Nat /\ Len(frames) \in DOMAIN frames /\ 1 \in DOMAIN frames
         /\ DOMAIN frames = 1 .. Len(frames) /\ \A i \in DOMAIN frames : frames[i] \in FrameRecord
         /\ Frame.slots \in 0 .. Len(stack) /\ Frame.closure \in DOMAIN closures
         /\ Frame.gen # 0 => Frame.gen \in DOMAIN gens /\ gens[Frame.gen].status = "running"
<1>1. frames \in Seq(FrameRecord) /\ frames # <<>> /\ Len(stack) \in Nat
  BY TypedFacts DEF Typed, Framed
<1>2. Len(frames) \in Nat /\ Len(frames) # 0 /\ DOMAIN frames = 1 .. Len(frames) /\ \A i \in DOMAIN frames : frames[i] \in FrameRecord
  BY <1>1, EmptySeq, TypedFacts
<1>3. Len(frames) \in DOMAIN frames /\ 1 \in DOMAIN frames
  BY <1>2
<1>4. Frame.slots \in Nat /\ Frame.slots <= Len(stack)
  BY <1>2, <1>3 DEF Frame, Framed, FrameRecord
<1>5. Frame.closure \in DOMAIN closures
  BY <1>3 DEF Frame, Framed
<1>6. Frame.gen # 0 => Frame.gen \in DOMAIN gens /\ gens[Frame.gen].status = "running"
  BY <1>3 DEF Frame, Framed
<1>7. QED
  BY <1>1, <1>2, <1>3, <1>4, <1>5, <1>6

LEMMA RunningFramed ==
  ASSUME Typed, Framed
  PROVE  \A g \in DOMAIN gens : gens[g].status = "running" <=> \E i \in DOMAIN frames : frames[i].gen = g
<1>1. \A g \in DOMAIN gens : g # 0
  BY TypedFacts
<1>2. QED
  BY <1>1 DEF Framed

\* Frames are left, or none is.
LEMMA CutFramed ==
  ASSUME Typed, Framed, NEW n \in 1 .. Len(frames),
         DOMAIN frames' = 1 .. n, \A i \in 1 .. n : frames'[i] = frames[i],
         DOMAIN closures \subseteq DOMAIN closures', DOMAIN gens \subseteq DOMAIN gens',
         Len(stack') \in Nat, frames[n].slots <= Len(stack'),
         \A g \in DOMAIN gens :
           /\ gens'[g].closure = gens[g].closure
           /\ gens'[g].status = "running" <=> \E i \in 1 .. n : frames[i].gen = g,
         \A g \in DOMAIN gens' : g \notin DOMAIN gens => gens'[g].status # "running" /\ gens'[g].closure \in DOMAIN closures'
  PROVE  Framed'
<1>1. /\ DOMAIN frames = 1 .. Len(frames) /\ Len(frames) \in Nat /\ \A i \in DOMAIN frames : frames[i] \in FrameRecord
      /\ \A i \in 1 .. n : i \in DOMAIN frames /\ (i = n \/ i < n)
      /\ n \in DOMAIN frames /\ 1 \in 1 .. n
  BY FrameFacts
<1>2. frames' # <<>> /\ frames'[1] = Main
  BY <1>1 DEF Framed
<1>3. 1 \in DOMAIN closures'
  BY DEF Framed
<1>4. ASSUME NEW i \in DOMAIN frames'
      PROVE  /\ frames'[i].slots <= Len(stack')
             /\ frames'[i].closure \in DOMAIN closures'
             /\ frames'[i].gen # 0 => frames'[i].gen \in DOMAIN gens' /\ gens'[frames'[i].gen].status = "running"
  <2>1. i \in DOMAIN frames /\ frames'[i] = frames[i] /\ i \in 1 .. n
    BY <1>1
  <2>2. frames[i].slots <= frames[n].slots /\ frames[i].slots \in Nat /\ frames[n].slots \in Nat
    BY <1>1, <2>1 DEF Framed, FrameRecord
  <2>3. frames'[i].slots <= Len(stack')
    BY <2>1, <2>2
  <2>4. QED
    BY <2>1, <2>3 DEF Framed
<1>5. \A i, j \in DOMAIN frames' : i < j => frames'[i].slots <= frames'[j].slots
  BY <1>1 DEF Framed
<1>6. \A i, j \in DOMAIN frames' : frames'[i].gen = frames'[j].gen /\ frames'[i].gen # 0 => i = j
  BY <1>1 DEF Framed
<1>7. ASSUME NEW g \in DOMAIN gens'
      PROVE  /\ gens'[g].closure \in DOMAIN closures'
             /\ gens'[g].status = "running" => \E i \in DOMAIN frames' : frames'[i].gen = g
  <2>1. CASE g \in DOMAIN gens
    <3>1. gens'[g].closure \in DOMAIN closures'
      BY <2>1 DEF Framed
    <3>2. QED
      BY <2>1, <3>1, SMTT(40)
  <2>2. CASE g \notin DOMAIN gens
    BY <2>2
  <2>3. QED
    BY <2>1, <2>2
<1>8. QED
  BY <1>2, <1>3, <1>4, <1>5, <1>6, <1>7 DEF Framed

\* The frames stay as they are.
LEMMA SameFramed ==
  ASSUME Typed, Framed, frames' = frames, DOMAIN closures \subseteq DOMAIN closures', DOMAIN gens \subseteq DOMAIN gens',
         Len(stack') \in Nat, Frame.slots <= Len(stack'),
         \A g \in DOMAIN gens :
           gens'[g].closure = gens[g].closure /\ (gens'[g].status = "running" <=> gens[g].status = "running"),
         \A g \in DOMAIN gens' : g \notin DOMAIN gens => gens'[g].status # "running" /\ gens'[g].closure \in DOMAIN closures'
  PROVE  Framed'
<1>1. /\ DOMAIN frames = 1 .. Len(frames) /\ Len(frames) \in 1 .. Len(frames)
      /\ \A g \in DOMAIN gens : gens[g].status = "running" <=> \E i \in DOMAIN frames : frames[i].gen = g
  BY FrameFacts, RunningFramed
<1>2. frames[Len(frames)].slots <= Len(stack')
  BY DEF Frame
<1>3. \A g \in DOMAIN gens :
        /\ gens'[g].closure = gens[g].closure
        /\ gens'[g].status = "running" <=> \E i \in 1 .. Len(frames) : frames[i].gen = g
  BY <1>1
<1>4. DOMAIN frames' = 1 .. Len(frames) /\ \A i \in 1 .. Len(frames) : frames'[i] = frames[i]
  BY <1>1
<1>5. QED
  BY <1>1, <1>2, <1>3, <1>4, CutFramed

\* A frame for what is on the stack from here on.
LEMMA PushFramed ==
  ASSUME Typed, Framed, NEW f \in FrameRecord, frames' = Append(frames, f),
         f.slots = Len(stack), f.closure \in DOMAIN closures, closures' = closures, DOMAIN gens' = DOMAIN gens,
         Len(stack') \in Nat, Len(stack) <= Len(stack'),
         \A g \in DOMAIN gens : g # f.gen => gens'[g] = gens[g],
         f.gen # 0 => /\ f.gen \in DOMAIN gens /\ gens[f.gen].status # "running"
                      /\ gens'[f.gen].status = "running" /\ gens'[f.gen].closure = gens[f.gen].closure
  PROVE  Framed' /\ frames' \in Seq(FrameRecord)
<1> DEFINE n == Len(frames)
<1>1. /\ frames \in Seq(FrameRecord) /\ n \in Nat /\ DOMAIN frames = 1 .. n /\ \A i \in DOMAIN frames : frames[i] \in FrameRecord
      /\ 1 \in DOMAIN frames
  BY FrameFacts DEF Typed
<1>2. /\ frames' \in Seq(FrameRecord) /\ DOMAIN frames' = 1 .. n + 1 /\ \A i \in 1 .. n : frames'[i] = frames[i]
      /\ frames'[n + 1] = f
  <2>1. IsAppended(Append(frames, f), FrameRecord, frames, f)
    BY <1>1, Appended, Zenon
  <2>2. QED
    BY <2>1, Zenon DEF IsAppended
<1> HIDE DEF n
<1>3. \A i \in DOMAIN frames' : i \in DOMAIN frames \/ (i = n + 1 /\ i \notin DOMAIN frames)
  BY <1>1, <1>2
<1>4. \A i \in DOMAIN frames : i \in DOMAIN frames' /\ frames'[i] = frames[i] /\ i < n + 1 /\ frames[i].gen \in Nat /\ frames[i].slots \in Nat
  BY <1>1, <1>2 DEF FrameRecord
<1>5. \A i \in DOMAIN frames : frames[i].gen # 0 => frames[i].gen # f.gen
  BY DEF Framed
<1>6. frames' # <<>> /\ frames'[1] = Main /\ 1 \in DOMAIN closures'
  BY <1>1, <1>4 DEF Framed
<1>7. Len(stack) \in Nat
  BY TypedFacts
<1>8. ASSUME NEW i \in DOMAIN frames'
      PROVE  /\ frames'[i].slots <= Len(stack')
             /\ frames'[i].closure \in DOMAIN closures'
             /\ frames'[i].gen # 0 => frames'[i].gen \in DOMAIN gens' /\ gens'[frames'[i].gen].status = "running"
  <2>1. CASE i \in DOMAIN frames
    <3>1. frames[i].slots <= Len(stack) /\ frames'[i].slots = frames[i].slots
      BY <1>4, <2>1 DEF Framed
    <3>2. frames'[i].slots <= Len(stack')
      BY <1>4, <1>7, <2>1, <3>1
    <3>3. frames'[i].gen # 0 => frames'[i].gen \in DOMAIN gens' /\ gens'[frames'[i].gen].status = "running"
      BY <1>4, <1>5, <2>1 DEF Framed
    <3>4. QED
      BY <1>4, <2>1, <3>2, <3>3 DEF Framed
  <2>2. CASE i = n + 1
    BY <1>2, <2>2
  <2>3. QED
    BY <1>3, <2>1, <2>2
<1>9. ASSUME NEW i \in DOMAIN frames', NEW j \in DOMAIN frames', i < j
      PROVE  frames'[i].slots <= frames'[j].slots
  <2>1. i \in DOMAIN frames
    BY <1>1, <1>2, <1>9
  <2>2. CASE j \in DOMAIN frames
    BY <1>4, <1>9, <2>1, <2>2 DEF Framed
  <2>3. CASE j = n + 1
    BY <1>2, <1>4, <2>1, <2>3 DEF Framed
  <2>4. QED
    BY <1>3, <2>2, <2>3
<1>10. \A i, j \in DOMAIN frames' : frames'[i].gen = frames'[j].gen /\ frames'[i].gen # 0 => i = j
  BY <1>2, <1>3, <1>4, <1>5 DEF Framed
<1>11. ASSUME NEW g \in DOMAIN gens'
       PROVE  /\ gens'[g].closure \in DOMAIN closures'
              /\ gens'[g].status = "running" => \E i \in DOMAIN frames' : frames'[i].gen = g
  <2>1. g # 0
    BY TypedFacts
  <2>2. CASE g = f.gen
    <3>1. n + 1 \in DOMAIN frames' /\ frames'[n + 1].gen = g
      BY <1>1, <1>2, <2>2
    <3>2. QED
      BY <2>1, <2>2, <3>1 DEF Framed
  <2>3. CASE g # f.gen
    <3>1. gens'[g] = gens[g] /\ g \in DOMAIN gens
      BY <2>3
    <3>2. gens[g].status = "running" => \E i \in DOMAIN frames : frames[i].gen = g
      BY <3>1 DEF Framed
    <3>3. QED
      BY <1>4, <3>1, <3>2 DEF Framed
  <2>4. QED
    BY <2>2, <2>3
<1>12. QED
  BY <1>2, <1>6, <1>8, <1>9, <1>10, <1>11 DEF Framed

\* Places found on the stack and among the frames.
LEMMA NearestRight ==
  ASSUME Typed, NEW n \in Nat
  PROVE  Nearest(n) = 0 \/ (Nearest(n) \in 1 .. Len(stack) /\ Nearest(n) > n /\ stack[Nearest(n)] = Handler)
<1>1. CASE Handlers(n) = {}
  BY <1>1 DEF Nearest
<1>2. CASE Handlers(n) # {}
  <2>1. Handlers(n) \subseteq 1 .. Len(stack) /\ Len(stack) \in Nat
    BY TypedFacts DEF Handlers
  <2>2. \E k \in Handlers(n) : \A j \in Handlers(n) : j <= k
    BY <1>2, <2>1, Greatest
  <2>3. Nearest(n) \in Handlers(n)
    BY <1>2, <2>2 DEF Nearest
  <2>4. QED
    BY <2>1, <2>3 DEF Handlers
<1>3. QED
  BY <1>1, <1>2

LEMMA ExitRight ==
  ASSUME Typed, Framed
  PROVE  /\ ExitOnFrame \in DOMAIN frames
         /\ ExitOnFrame = 1 \/ frames[ExitOnFrame].gen # 0
         /\ \A i \in DOMAIN frames : i > ExitOnFrame => frames[i].gen = 0
<1>1. ExitFrames \subseteq 1 .. Len(frames) /\ 1 \in ExitFrames /\ Len(frames) \in Nat /\ DOMAIN frames = 1 .. Len(frames)
  BY FrameFacts DEF ExitFrames
<1>2. \E k \in ExitFrames : \A j \in ExitFrames : j <= k
  BY <1>1, Greatest
<1>3. ExitOnFrame \in ExitFrames /\ \A j \in ExitFrames : j <= ExitOnFrame
  BY <1>2 DEF ExitOnFrame
<1>4. ASSUME NEW i \in DOMAIN frames, i > ExitOnFrame
      PROVE  frames[i].gen = 0
  <2>1. i \notin ExitFrames
    BY <1>1, <1>3, <1>4
  <2>2. QED
    BY <2>1 DEF ExitFrames
<1>5. QED
  BY <1>3, <1>4 DEF ExitFrames

LEMMA OwnerRight ==
  ASSUME Typed, Framed, NEW n \in DOMAIN frames, NEW k \in Nat, frames[n].slots < k
  PROVE  Owner(k) \in DOMAIN frames /\ frames[Owner(k)].slots < k /\ n <= Owner(k)
<1>1. /\ FramesBelow(k) \subseteq 1 .. Len(frames) /\ n \in FramesBelow(k) /\ Len(frames) \in Nat
      /\ DOMAIN frames = 1 .. Len(frames)
  BY FrameFacts DEF FramesBelow
<1>2. \E m \in FramesBelow(k) : \A j \in FramesBelow(k) : j <= m
  BY <1>1, Greatest
<1>3. Owner(k) \in FramesBelow(k) /\ \A j \in FramesBelow(k) : j <= Owner(k)
  BY <1>2 DEF Owner
<1>4. QED
  BY <1>1, <1>3 DEF FramesBelow

-----------------------------------------------------------------------------
(* The steps.                                                              *)

LEMMA Again ==
  ASSUME Good', NEW w, For(w)'
  PROVE  IInv'
<1>1. w \in [DOMAIN upvalues' -> DOMAIN cell']
  BY DEF For
<1>2. QED
  BY <1>1 DEF IInv

LEMMA ValueEntry == Value \subseteq Entry /\ Handler \notin Value /\ First \subseteq Value
  BY DEF Value, Entry, Handler, First

LEMMA LetStep ==
  ASSUME Good, NEW w, For(w), NEW value \in Value, Let(value)
  PROVE  IInv'
<1>1. Fresh \in Nat /\ value \in Entry /\ Fresh = Len(cell) + 1
  BY ValueEntry, TypedFacts DEF Fresh, Good
<1>2. /\ stack' = Append(stack, value) /\ names' = Append(names, Fresh) /\ cell' = Append(cell, value)
      /\ UNCHANGED <<frames, open, upvalues, closures, gens, raising>>
  BY DEF Let, Named
<1> HIDE DEF Fresh
<1>3. /\ Placed' /\ Sorted' /\ For(w)' /\ stack' \in Seq(Entry) /\ names' \in Seq(Nat) /\ cell' \in Seq(Value)
      /\ Len(stack') = Len(stack) + 1
  BY <1>1, <1>2, PushKeeps DEF Good
<1>4. Len(stack') \in Nat /\ Frame.slots <= Len(stack')
  BY <1>3, TypedFacts, FrameFacts DEF Good
<1>5. Framed'
  BY <1>2, <1>4, SameFramed DEF Good
<1>6. Typed'
  BY <1>2, <1>3 DEF Good, Typed
<1>7. QED
  BY <1>3, <1>5, <1>6, Again DEF Good

LEMMA TryStep ==
  ASSUME Good, NEW w, For(w), Try
  PROVE  IInv'
<1>1. 0 \in Nat /\ Handler \in Entry
  BY DEF Entry
<1>2. /\ stack' = Append(stack, Handler) /\ names' = Append(names, 0) /\ cell' = cell
      /\ UNCHANGED <<frames, open, upvalues, closures, gens, raising>>
  BY DEF Try
<1>3. /\ Placed' /\ Sorted' /\ For(w)' /\ stack' \in Seq(Entry) /\ names' \in Seq(Nat) /\ cell' \in Seq(Value)
      /\ Len(stack') = Len(stack) + 1
  BY <1>1, <1>2, PushKeeps DEF Good
<1>4. Len(stack') \in Nat /\ Frame.slots <= Len(stack')
  BY <1>3, TypedFacts, FrameFacts DEF Good
<1>5. Framed'
  BY <1>2, <1>4, SameFramed DEF Good
<1>6. Typed'
  BY <1>2, <1>3 DEF Good, Typed
<1>7. QED
  BY <1>3, <1>5, <1>6, Again DEF Good

\* The stack loses what is above n; the generator of a frame may end.
LEMMA CutStep ==
  ASSUME Good, NEW w, For(w), NEW n \in 0 .. Len(stack), Cut(n), NEW g \in Nat,
         g # 0 => g \in DOMAIN gens /\ gens[g].status = "running",
         gens' = Finished(g), closures' = closures, cell' = cell
  PROVE  /\ Placed' /\ Sorted' /\ For(w)' /\ stack' \in Seq(Entry) /\ names' \in Seq(Nat) /\ Len(stack') = n
         /\ upvalues' \in Seq(UpvalueRecord) /\ open' \in Seq(Nat)
         /\ gens' \in Seq(GeneratorRecord) /\ DOMAIN gens' = DOMAIN gens
         /\ \A h \in DOMAIN gens : IF h = g THEN gens'[h].status = "done" /\ gens'[h].closure = gens[h].closure
                                   ELSE gens'[h] = gens[h]
<1>1. /\ stack \in Seq(Entry) /\ names \in Seq(Nat) /\ Len(names) = Len(stack) /\ n \in Nat /\ Len(stack) \in Nat
      /\ gens \in Seq(GeneratorRecord)
  BY TypedFacts DEF Good, Typed, Placed, Shaped
<1>2. stack' = SubSeq(stack, 1, n) /\ names' = SubSeq(names, 1, n) /\ CloseUpvalues(n)
  BY DEF Cut
<1>3. stack' \in Seq(Entry) /\ Len(stack') = n /\ \A k \in 1 .. n : stack'[k] = stack[k]
  BY <1>1, <1>2, Parts
<1>4. names' \in Seq(Nat) /\ Len(names') = n /\ \A k \in 1 .. n : names'[k] = names[k]
  BY <1>1, <1>2, Parts
<1>5. DOMAIN stack' = 1 .. n
  BY <1>3, LenProperties
<1>6. \A k \in DOMAIN stack' : IF k <= n THEN stack'[k] = stack[k] /\ names'[k] = names[k] ELSE names'[k] = 0
  BY <1>1, <1>3, <1>4, <1>5
<1>7. /\ gens' \in Seq(GeneratorRecord) /\ Len(gens') = Len(gens)
      /\ \A h \in DOMAIN gens :
           /\ \/ gens'[h] = gens[h]
              \/ gens[h].status = "running" /\ gens'[h].status = "done" /\ gens'[h].captured = <<>>
           /\ IF h = g THEN gens'[h].status = "done" /\ gens'[h].closure = gens[h].closure ELSE gens'[h] = gens[h]
  <2>1. CASE g = 0
    <3>1. gens' = gens
      BY <2>1 DEF Finished
    <3>2. \A h \in DOMAIN gens : h # g
      BY <2>1, TypedFacts DEF Good
    <3>3. QED
      BY <1>1, <3>1, <3>2
  <2>2. CASE g # 0
    <3> DEFINE r == [gens[g] EXCEPT !.status = "done"]
    <3>1. gens' = [gens EXCEPT ![g] = r]
      BY <2>2 DEF Finished
    <3>2. gens[g] \in GeneratorRecord /\ gens[g].captured = <<>> /\ gens[g].status = "running" /\ g \in DOMAIN gens
      BY <2>2, TypedFacts DEF Good, Sorted
    <3>3. r \in GeneratorRecord /\ r.status = "done" /\ r.captured = <<>> /\ r.closure = gens[g].closure
      BY <3>2 DEF GeneratorRecord, Status
    <3> HIDE DEF r
    <3>4. gens' \in Seq(GeneratorRecord) /\ Len(gens') = Len(gens) /\ gens'[g] = r
          /\ \A h \in DOMAIN gens : h # g => gens'[h] = gens[h]
      BY <1>1, <3>1, <3>2, <3>3, ExceptSeq
    <3>5. QED
      BY <3>2, <3>3, <3>4
  <2>3. QED
    BY <2>1, <2>2
<1>8. Placed' /\ Sorted' /\ For(w)' /\ upvalues' \in Seq(UpvalueRecord) /\ open' \in Seq(Nat)
  <2>1. /\ n <= Len(stack) /\ n <= Len(stack') /\ Len(names') = Len(stack')
    BY <1>1, <1>3, <1>4
  <2>2. UNCHANGED <<closures, cell>>
    OBVIOUS
  <2>3. \A h \in DOMAIN gens :
           \/ gens'[h] = gens[h]
           \/ gens[h].status = "running" /\ gens'[h].status = "done" /\ gens'[h].captured = <<>>
    BY <1>7
  <2>4. QED
    BY <1>1, <1>2, <1>3, <1>4, <1>6, <1>7, <2>1, <2>2, <2>3, CutKeeps DEF Good
<1>9. DOMAIN gens' = DOMAIN gens
  BY <1>1, <1>7, LenProperties
<1>10. QED
  BY <1>3, <1>4, <1>7, <1>8, <1>9

\* The stack loses what is above a handler, and the handler is spent.
LEMMA HandlerStep ==
  ASSUME Good, NEW w, For(w), NEW k \in 1 .. Len(stack), stack[k] = Handler, ToHandler(k),
         gens' = gens, closures' = closures, cell' = cell
  PROVE  /\ Placed' /\ Sorted' /\ For(w)' /\ stack' \in Seq(Entry) /\ names' \in Seq(Nat) /\ Len(stack') = k
         /\ upvalues' \in Seq(UpvalueRecord) /\ open' \in Seq(Nat)
<1> DEFINE n == k - 1
           s == SubSeq(stack, 1, n)
<1>1. /\ stack \in Seq(Entry) /\ names \in Seq(Nat) /\ Len(names) = Len(stack) /\ Len(stack) \in Nat
      /\ n \in 0 .. Len(stack) /\ n \in Nat /\ k \in DOMAIN stack /\ n + 1 = k /\ k \in 0 .. Len(names) /\ k \in Nat
  BY TypedFacts DEF Good, Typed, Placed, Shaped
<1>2. names[k] = 0
  <2>1. names[k] # 0 => cell[names[k]] = stack[k] /\ cell[names[k]] \in Value
    BY <1>1, TypedFacts DEF Good, Placed, Valued
  <2>2. QED
    BY <2>1, ValueEntry
<1>3. stack' = Append(s, Spent) /\ names' = SubSeq(names, 1, k) /\ CloseUpvalues(n)
  BY DEF ToHandler
<1>4. s \in Seq(Entry) /\ Len(s) = n /\ \A i \in 1 .. n : s[i] = stack[i]
  BY <1>1, Parts, SMTT(40)
<1>5. names' \in Seq(Nat) /\ Len(names') = k /\ \A i \in 1 .. k : names'[i] = names[i]
  BY <1>1, <1>3, Parts
<1> HIDE DEF s, n
<1>6. Spent \in Entry
  BY DEF Entry
<1>7. stack' \in Seq(Entry) /\ Len(stack') = k /\ DOMAIN stack' = 1 .. k /\ \A i \in 1 .. n : stack'[i] = stack[i]
  <2>1. /\ Append(s, Spent) \in Seq(Entry) /\ Len(Append(s, Spent)) = Len(s) + 1
        /\ \A i \in 1 .. Len(s) : Append(s, Spent)[i] = s[i]
    BY <1>4, <1>6, AppendProperties
  <2>2. stack' \in Seq(Entry) /\ Len(stack') = k
    BY <1>1, <1>3, <1>4, <2>1
  <2>3. DOMAIN stack' = 1 .. k
    BY <2>2, LenProperties
  <2>4. QED
    BY <1>3, <1>4, <2>1, <2>2, <2>3
<1>8. \A i \in DOMAIN stack' : IF i <= n THEN stack'[i] = stack[i] /\ names'[i] = names[i] ELSE names'[i] = 0
  <2>1. \A i \in 1 .. k : i \in 1 .. n \/ (i = k /\ ~(i <= n))
    <3>1. \A m \in Nat : \A i \in 1 .. m + 1 : i \in 1 .. m \/ (i = m + 1 /\ ~(i <= m))
      OBVIOUS
    <3>2. QED
      BY <1>1, <3>1
  <2>2. QED
    BY <1>2, <1>5, <1>7, <2>1
<1>9. /\ n <= Len(stack) /\ n <= Len(stack') /\ Len(names') = Len(stack')
  BY <1>1, <1>5, <1>7
<1>10. gens' \in Seq(GeneratorRecord) /\ Len(gens') = Len(gens) /\ \A g \in DOMAIN gens : gens'[g] = gens[g]
  BY DEF Good, Typed
<1>11. Placed' /\ Sorted' /\ For(w)' /\ upvalues' \in Seq(UpvalueRecord) /\ open' \in Seq(Nat)
  BY <1>1, <1>3, <1>5, <1>7, <1>8, <1>9, <1>10, CutKeeps DEF Good
<1>12. QED
  BY <1>5, <1>7, <1>11

LEMMA LeaveStep ==
  ASSUME Good, NEW w, For(w), NEW n, Leave(n)
  PROVE  IInv'
<1>1. /\ n \in 0 .. Len(stack) /\ Frame.slots <= n /\ Cut(n)
      /\ frames' = frames /\ closures' = closures /\ gens' = gens /\ raising' = raising /\ cell' = cell
  BY FrameFacts, TypedFacts DEF Leave, Good
<1>2. gens' = Finished(0) /\ 0 \in Nat
  BY <1>1 DEF Finished
<1>3. /\ Placed' /\ Sorted' /\ For(w)' /\ stack' \in Seq(Entry) /\ names' \in Seq(Nat) /\ Len(stack') = n
      /\ upvalues' \in Seq(UpvalueRecord) /\ open' \in Seq(Nat)
  BY <1>1, <1>2, CutStep
<1>4. Framed'
  <2>1. Len(stack') \in Nat /\ Frame.slots <= Len(stack')
    BY <1>1, <1>3, TypedFacts DEF Good
  <2>2. QED
    BY <1>1, <2>1, SameFramed DEF Good
<1>5. Typed'
  BY <1>1, <1>3 DEF Good, Typed
<1>6. QED
  BY <1>3, <1>4, <1>5, Again DEF Good

\* Frames above n are left.
LEMMA LeftFrames ==
  ASSUME Good, NEW n \in 1 .. Len(frames), frames' = SubSeq(frames, 1, n)
  PROVE  frames' \in Seq(FrameRecord) /\ DOMAIN frames' = 1 .. n /\ \A i \in 1 .. n : frames'[i] = frames[i]
<1>1. frames \in Seq(FrameRecord) /\ n \in 0 .. Len(frames)
  BY FrameFacts DEF Good, Typed
<1>2. frames' \in Seq(FrameRecord) /\ Len(frames') = n /\ \A i \in 1 .. n : frames'[i] = frames[i]
  BY <1>1, Parts
<1>3. QED
  BY <1>2, LenProperties

\* The newest frame ends, and with it perhaps a generator.
LEMMA EndFramed ==
  ASSUME Good, frames' = Front(frames), Len(frames) > 1, closures' = closures, DOMAIN gens' = DOMAIN gens,
         Len(stack') = Frame.slots,
         \A g \in DOMAIN gens : IF g = Frame.gen THEN gens'[g].status # "running" /\ gens'[g].closure = gens[g].closure
                                ELSE gens'[g] = gens[g]
  PROVE  Framed' /\ frames' \in Seq(FrameRecord)
<1> DEFINE n == Len(frames) - 1
<1>1. /\ Len(frames) \in Nat /\ DOMAIN frames = 1 .. Len(frames) /\ \A i \in DOMAIN frames : frames[i] \in FrameRecord
      /\ Typed /\ Framed
      /\ \A g \in DOMAIN gens : gens[g].status = "running" <=> \E i \in DOMAIN frames : frames[i].gen = g
  BY FrameFacts, RunningFramed DEF Good
<1>2. n \in 1 .. Len(frames) /\ Len(frames) \in DOMAIN frames /\ n + 1 = Len(frames) /\ n \in DOMAIN frames
  BY <1>1
<1>3. frames' = SubSeq(frames, 1, n)
  BY DEF Front
<1> HIDE DEF n
<1>4. frames' \in Seq(FrameRecord) /\ DOMAIN frames' = 1 .. n /\ \A i \in 1 .. n : frames'[i] = frames[i]
  BY <1>2, <1>3, LeftFrames
<1>5. frames[n].slots <= Len(stack') /\ Len(stack') \in Nat
  <2>1. n < Len(frames)
    BY <1>1, <1>2
  <2>2. frames[n].slots <= frames[Len(frames)].slots
    BY <1>1, <1>2, <2>1 DEF Framed
  <2>3. QED
    BY <1>1, <1>2, <2>2 DEF Frame, FrameRecord
<1>6. \A i \in DOMAIN frames : i \in 1 .. n \/ i = Len(frames)
  BY <1>1, <1>2
<1>7. \A i \in 1 .. n : i \in DOMAIN frames /\ i # Len(frames)
  <2>1. \A m \in Nat : \A i \in 1 .. m : i \in 1 .. m + 1 /\ i # m + 1
    OBVIOUS
  <2>2. n \in Nat
    BY <1>1, <1>2
  <2>3. QED
    BY <1>1, <1>2, <2>1, <2>2, ZenonT(40)
<1>8. ASSUME NEW g \in DOMAIN gens
      PROVE  /\ gens'[g].closure = gens[g].closure
             /\ gens'[g].status = "running" <=> \E i \in 1 .. n : frames[i].gen = g
  <2>1. g # 0
    BY <1>1, TypedFacts
  <2>2. CASE g = Frame.gen
    <3>1. \A i \in 1 .. n : frames[i].gen # g
      BY <1>1, <1>2, <1>7, <2>1, <2>2 DEF Frame, Framed
    <3>2. QED
      BY <2>2, <3>1
  <2>3. CASE g # Frame.gen
    <3>1. frames[Len(frames)].gen # g
      BY <2>3 DEF Frame
    <3>2. QED
      BY <1>1, <1>6, <1>7, <2>3, <3>1
  <2>4. QED
    BY <2>2, <2>3
<1>9. QED
  BY <1>1, <1>2, <1>4, <1>5, <1>8, CutFramed

LEMMA ReturnStep ==
  ASSUME Good, NEW w, For(w), Return
  PROVE  IInv'
<1> DEFINE k == Nearest(Frame.slots)
<1>1. /\ Frame.slots \in 0 .. Len(stack) /\ Frame.slots \in Nat /\ Len(stack) \in Nat /\ Typed /\ Framed
      /\ Frame.gen # 0 => Frame.gen \in DOMAIN gens /\ gens[Frame.gen].status = "running"
      /\ Frame.gen \in Nat
  BY FrameFacts, TypedFacts DEF Good, Frame, FrameRecord
<1>2. k = 0 \/ (k \in 1 .. Len(stack) /\ k > Frame.slots /\ stack[k] = Handler)
  BY <1>1, NearestRight
<1>3. CASE k # 0
  <2>1. /\ ToHandler(k) /\ frames' = frames /\ closures' = closures /\ gens' = gens /\ raising' = raising /\ cell' = cell
    BY <1>3 DEF Return
  <2> HIDE DEF k
  <2>2. /\ Placed' /\ Sorted' /\ For(w)' /\ stack' \in Seq(Entry) /\ names' \in Seq(Nat) /\ Len(stack') = k
        /\ upvalues' \in Seq(UpvalueRecord) /\ open' \in Seq(Nat)
    BY <1>2, <1>3, <2>1, HandlerStep
  <2>3. Len(stack') \in Nat /\ Frame.slots <= Len(stack')
    BY <1>1, <1>2, <1>3, <2>2
  <2>4. Framed'
    BY <1>1, <2>1, <2>3, SameFramed
  <2>5. Typed'
    BY <2>1, <2>2 DEF Good, Typed
  <2>6. QED
    BY <2>2, <2>4, <2>5, Again DEF Good
<1>4. CASE k = 0
  <2>1. /\ Len(frames) > 1 /\ Cut(Frame.slots) /\ frames' = Front(frames) /\ gens' = Finished(Frame.gen)
        /\ closures' = closures /\ raising' = raising /\ cell' = cell
    BY <1>4 DEF Return
  <2> HIDE DEF k
  <2>2. /\ Placed' /\ Sorted' /\ For(w)' /\ stack' \in Seq(Entry) /\ names' \in Seq(Nat) /\ Len(stack') = Frame.slots
        /\ upvalues' \in Seq(UpvalueRecord) /\ open' \in Seq(Nat)
        /\ gens' \in Seq(GeneratorRecord) /\ DOMAIN gens' = DOMAIN gens
        /\ \A h \in DOMAIN gens :
             IF h = Frame.gen THEN gens'[h].status = "done" /\ gens'[h].closure = gens[h].closure
             ELSE gens'[h] = gens[h]
    BY <1>1, <2>1, CutStep
  <2>3. Framed' /\ frames' \in Seq(FrameRecord)
    BY <2>1, <2>2, EndFramed
  <2>4. Typed'
    BY <2>1, <2>2, <2>3 DEF Good, Typed
  <2>5. QED
    BY <2>2, <2>3, <2>4, Again DEF Good
<1>5. QED
  BY <1>3, <1>4

LEMMA YieldStep ==
  ASSUME Good, NEW w, For(w), Yield
  PROVE  IInv'
<1>1. /\ Frame.gen # 0 /\ frames' = Front(frames) /\ closures' = closures /\ raising' = raising /\ cell' = cell
  BY DEF Yield
<1>2. /\ Frame.slots \in 0 .. Len(stack) /\ Frame.gen \in DOMAIN gens /\ gens[Frame.gen].status = "running"
      /\ Typed /\ Framed /\ Placed /\ Sorted
  BY <1>1, FrameFacts DEF Good
<1>3. /\ Placed' /\ Sorted' /\ For(w)' /\ stack' \in Seq(Entry) /\ names' \in Seq(Nat)
      /\ upvalues' \in Seq(UpvalueRecord) /\ open' \in Seq(Nat) /\ gens' \in Seq(GeneratorRecord)
      /\ Len(stack') = Frame.slots /\ DOMAIN gens' = DOMAIN gens
      /\ \A h \in DOMAIN gens : h # Frame.gen => gens'[h] = gens[h]
      /\ gens'[Frame.gen].status = "suspended" /\ gens'[Frame.gen].closure = gens[Frame.gen].closure
  BY <1>2, YieldKeeps
<1>4. Len(frames) > 1
  <2>1. frames[1].gen = 0 /\ Len(frames) \in Nat /\ Len(frames) \in 1 .. Len(frames)
    BY <1>2, FrameFacts DEF Framed, Main
  <2>2. Len(frames) # 1
    BY <1>1, <2>1 DEF Frame
  <2>3. \A m \in Nat : m \in 1 .. m /\ m # 1 => m > 1
    OBVIOUS
  <2>4. QED
    BY <2>1, <2>2, <2>3
<1>5. Framed' /\ frames' \in Seq(FrameRecord)
  BY <1>1, <1>2, <1>3, <1>4, EndFramed
<1>6. Typed'
  BY <1>1, <1>3, <1>5 DEF Good, Typed
<1>7. QED
  BY <1>3, <1>5, <1>6, Again DEF Good

LEMMA SetLocalStep ==
  ASSUME Good, NEW w, For(w), NEW k, NEW x \in Value, SetLocal(k, x)
  PROVE  IInv'
<1> DEFINE v == names[k]
<1>1. /\ k \in DOMAIN stack /\ v # 0
      /\ stack' = [stack EXCEPT ![k] = x] /\ cell' = [cell EXCEPT ![v] = x]
      /\ UNCHANGED <<frames, open, upvalues, closures, gens, raising, names>>
  <2>1. Frame.slots \in 0 .. Len(stack) /\ DOMAIN stack = 1 .. Len(stack) /\ Len(stack) \in Nat
    BY FrameFacts, TypedFacts DEF Good
  <2>2. Slots \subseteq DOMAIN stack
    BY <2>1 DEF Slots
  <2>3. QED
    BY <2>2 DEF SetLocal, Locals
<1>2. stack \in Seq(Entry) /\ x \in Entry /\ v \in DOMAIN cell
  BY <1>1, ValueEntry DEF Good, Typed, Placed, Valued
<1>3. /\ stack' \in Seq(Entry) /\ Len(stack') = Len(stack)
      /\ stack'[k] = x /\ \A l \in DOMAIN stack : l # k => stack'[l] = stack[l]
  BY <1>1, <1>2, ExceptSeq
<1>4. \A l \in DOMAIN stack : l # k => names[l] # v
  BY <1>1 DEF Good, Placed, OnePlace
<1>5. \A l \in DOMAIN stack : stack'[l] = IF names[l] = v THEN x ELSE stack[l]
  BY <1>3, <1>4
<1>6. ASSUME NEW g \in DOMAIN gens, g \in Waiting, NEW l \in DOMAIN gens[g].args
      PROVE  gens[g].names[l] # v
  BY <1>1, <1>6 DEF Good, Placed, OnePlace
<1>7. ASSUME NEW u \in DOMAIN upvalues, upvalues[u].location = Closed
      PROVE  w[u] # v
  <2>1. Located(u, w[u])
    BY DEF For
  <2>2. Nowhere(w[u])
    BY <1>7, <2>1 DEF Located, Closed
  <2>3. QED
    BY <1>1, <2>2 DEF Nowhere
<1>8. gens' = gens /\ upvalues' = upvalues /\ gens \in Seq(GeneratorRecord) /\ upvalues \in Seq(UpvalueRecord)
  BY <1>1 DEF Good, Typed
<1> HIDE DEF v
<1>9. StackGiven(v, x)
  BY <1>3, <1>5 DEF StackGiven
<1>10. GeneratorsGiven(v, x) /\ UpvaluesGiven(w, v, x)
  BY <1>6, <1>7, <1>8 DEF GeneratorsGiven, UpvaluesGiven
<1>11. Placed' /\ Sorted' /\ For(w)' /\ cell' \in Seq(Value)
  BY <1>1, <1>2, <1>9, <1>10, AssignKeeps DEF Good
<1>12. Len(stack') \in Nat /\ Frame.slots <= Len(stack')
  BY <1>3, FrameFacts, TypedFacts DEF Good
<1>13. Framed'
  BY <1>1, <1>12, SameFramed DEF Good
<1>14. Typed'
  BY <1>1, <1>3, <1>11 DEF Good, Typed
<1>15. QED
  BY <1>11, <1>13, <1>14, Again DEF Good

\* Where the value of an upvalue is, there the variable is.
LEMMA SetUpvalueStep ==
  ASSUME Good, NEW w, For(w), NEW j \in DOMAIN Captures.upvalues, NEW x \in Value, SetUpvalue(j, x)
  PROVE  IInv'
<1> DEFINE a == Captures.upvalues[j]
           v == w[a]
           g == upvalues[a].owner
           l == upvalues[a].location
<1>1. /\ a \in DOMAIN upvalues /\ Captures.names[j] = v /\ v \in DOMAIN cell /\ v # 0
  <2>1. Frame.closure \in DOMAIN closures
    BY FrameFacts DEF Good
  <2>2. a \in DOMAIN upvalues /\ Captures.names[j] = v
    BY <2>1 DEF Captures, For
  <2>3. v \in DOMAIN cell /\ v # 0
    BY <2>2, TypedFacts DEF For, Good
  <2>4. QED
    BY <2>2, <2>3
<1>2. /\ cell' = [cell EXCEPT ![v] = x]
      /\ UNCHANGED <<frames, open, closures, raising, names>>
      /\ \/ l = Closed /\ upvalues' = [upvalues EXCEPT ![a].closed = x] /\ UNCHANGED <<stack, gens>>
         \/ l # Closed /\ g = 0 /\ stack' = [stack EXCEPT ![l + 1] = x] /\ UNCHANGED <<upvalues, gens>>
         \/ l # Closed /\ g # 0 /\ gens' = [gens EXCEPT ![g].args[l + 1] = x] /\ UNCHANGED <<stack, upvalues>>
  BY <1>1 DEF SetUpvalue
<1>3. /\ Located(a, v) /\ \A u \in DOMAIN upvalues : w[u] = v => u = a
      /\ \A u \in DOMAIN upvalues : Located(u, w[u])
  BY <1>1 DEF For
<1>4. x \in Entry /\ upvalues[a] \in UpvalueRecord /\ l \in Int /\ stack \in Seq(Entry) /\ upvalues \in Seq(UpvalueRecord)
      /\ gens \in Seq(GeneratorRecord) /\ Typed /\ Placed /\ Sorted /\ Framed
  BY <1>1, ValueEntry, TypedFacts DEF Good, Typed, UpvalueRecord
<1> HIDE DEF a, v, g, l
<1> USE DEF StackGiven, GeneratorsGiven, UpvaluesGiven
<1>5. ASSUME stack' = stack, \A k \in DOMAIN stack : names[k] # v
      PROVE  StackGiven(v, x)
  BY <1>4, <1>5
<1>6. ASSUME gens' = gens, \A h \in Waiting : \A k \in DOMAIN gens[h].args : gens[h].names[k] # v
      PROVE  GeneratorsGiven(v, x)
  BY <1>4, <1>6
<1>7. ASSUME upvalues' = upvalues, l # Closed
      PROVE  UpvaluesGiven(w, v, x)
  <2>1. \A u \in DOMAIN upvalues : upvalues[u].location = Closed => w[u] # v
    BY <1>3, <1>7 DEF l
  <2>2. QED
    BY <1>4, <1>7, <2>1
<1>8. StackGiven(v, x) /\ GeneratorsGiven(v, x) /\ UpvaluesGiven(w, v, x)
  <2>1. CASE l = Closed
    <3>1. upvalues' = [upvalues EXCEPT ![a].closed = x] /\ stack' = stack /\ gens' = gens
      BY <1>2, <2>1
    <3>2. Nowhere(v)
      BY <1>3, <2>1 DEF Located, Closed, l
    <3>3. StackGiven(v, x) /\ GeneratorsGiven(v, x)
      BY <1>5, <1>6, <3>1, <3>2 DEF Nowhere
    <3> DEFINE r == [upvalues[a] EXCEPT !.closed = x]
    <3>4. upvalues' = [upvalues EXCEPT ![a] = r]
      BY <3>1
    <3>5. r \in UpvalueRecord /\ r.location = upvalues[a].location /\ r.owner = upvalues[a].owner /\ r.closed = x
      BY <1>4 DEF UpvalueRecord
    <3> HIDE DEF r
    <3>6. /\ upvalues' \in Seq(UpvalueRecord) /\ Len(upvalues') = Len(upvalues) /\ upvalues'[a] = r
          /\ \A u \in DOMAIN upvalues : u # a => upvalues'[u] = upvalues[u]
      BY <1>1, <1>4, <3>4, <3>5, ExceptSeq
    <3>7. \A u \in DOMAIN upvalues : u # a => w[u] # v
      BY <1>3
    <3>8. w[a] = v
      BY DEF v
    <3>9. UpvaluesGiven(w, v, x)
      BY <3>5, <3>6, <3>7, <3>8
    <3>10. QED
      BY <3>3, <3>9
  <2>2. CASE l # Closed /\ g = 0
    <3>1. stack' = [stack EXCEPT ![l + 1] = x] /\ gens' = gens /\ upvalues' = upvalues
      BY <1>2, <2>2
    <3>2. l + 1 \in DOMAIN stack /\ names[l + 1] = v
      BY <1>3, <2>2 DEF Located, OnStack, l, g
    <3>3. UpvaluesGiven(w, v, x)
      BY <1>7, <2>2, <3>1
    <3>4. GeneratorsGiven(v, x)
      <4>1. \A h \in Waiting : \A k \in DOMAIN gens[h].args : gens[h].names[k] # v
        BY <1>1, <1>4, <3>2 DEF Placed, OnePlace
      <4>2. QED
        BY <1>6, <3>1, <4>1
    <3>5. /\ stack' \in Seq(Entry) /\ Len(stack') = Len(stack) /\ stack'[l + 1] = x
          /\ \A k \in DOMAIN stack : k # l + 1 => stack'[k] = stack[k]
      BY <1>4, <3>1, <3>2, ExceptSeq
    <3>6. \A k \in DOMAIN stack : k # l + 1 => names[k] # v
      BY <1>1, <1>4, <3>2 DEF Placed, OnePlace
    <3>7. StackGiven(v, x)
      BY <3>2, <3>5, <3>6
    <3>8. QED
      BY <3>3, <3>4, <3>7
  <2>3. CASE l # Closed /\ g # 0
    <3>1. gens' = [gens EXCEPT ![g].args[l + 1] = x] /\ stack' = stack /\ upvalues' = upvalues
      BY <1>2, <2>3
    <3>2. g \in DOMAIN gens /\ gens[g].status = "suspended" /\ l + 1 \in DOMAIN gens[g].args /\ gens[g].names[l + 1] = v
      BY <1>3, <2>3 DEF Located, InGenerator, l, g
    <3>3. g \in Waiting /\ gens[g] \in GeneratorRecord
      BY <1>4, <3>2, TypedFacts DEF Waiting
    <3>4. UpvaluesGiven(w, v, x)
      BY <1>7, <2>3, <3>1
    <3>5. StackGiven(v, x)
      <4>1. \A k \in DOMAIN stack : names[k] # v
        BY <1>1, <1>4, <3>2, <3>3 DEF Placed, OnePlace
      <4>2. QED
        BY <1>5, <3>1, <4>1
    <3> DEFINE args == [gens[g].args EXCEPT ![l + 1] = x]
               r == [gens[g] EXCEPT !.args = args]
    <3>6. gens' = [gens EXCEPT ![g] = r]
      BY <3>1
    <3>7. /\ args \in Seq(Entry) /\ DOMAIN args = DOMAIN gens[g].args /\ args[l + 1] = x
          /\ \A k \in DOMAIN gens[g].args : k # l + 1 => args[k] = gens[g].args[k]
      <4>1. gens[g].args \in Seq(Entry)
        BY <3>3 DEF GeneratorRecord
      <4>2. QED
        BY <1>4, <3>2, <4>1, ExceptSeq
    <3> HIDE DEF args
    <3>8. /\ r \in GeneratorRecord /\ r.args = args /\ r.status = gens[g].status /\ r.names = gens[g].names
          /\ r.captured = gens[g].captured /\ r.closure = gens[g].closure
      BY <3>3, <3>7 DEF GeneratorRecord
    <3> HIDE DEF r
    <3>9. /\ gens' \in Seq(GeneratorRecord) /\ Len(gens') = Len(gens) /\ gens'[g] = r
          /\ \A h \in DOMAIN gens : h # g => gens'[h] = gens[h]
      BY <1>4, <3>2, <3>6, <3>8, ExceptSeq
    <3>10. \A h \in Waiting : h # g => \A k \in DOMAIN gens[h].args : gens[h].names[k] # v
      BY <1>1, <1>4, <3>2, <3>3 DEF Placed, OnePlace
    <3>11. \A k \in DOMAIN gens[g].args : k # l + 1 => gens[g].names[k] # v
      BY <1>1, <1>4, <3>2, <3>3 DEF Placed, OnePlace
    <3>12. \A k \in DOMAIN gens[g].args : args[k] = IF gens[g].names[k] = v THEN x ELSE gens[g].args[k]
      BY <3>2, <3>7, <3>11
    <3>13. \A h \in DOMAIN gens : h # g \/ (h = g /\ gens'[h].args = args)
      BY <3>8, <3>9
    <3>14. GeneratorsGiven(v, x)
      BY <3>2, <3>3, <3>7, <3>8, <3>9, <3>10, <3>12
    <3>15. QED
      BY <3>4, <3>5, <3>14
  <2>4. QED
    BY <2>1, <2>2, <2>3
<1>9. Placed' /\ Sorted' /\ For(w)' /\ cell' \in Seq(Value)
  <2>1. v \in DOMAIN cell /\ cell' = [cell EXCEPT ![v] = x] /\ names' = names /\ open' = open /\ closures' = closures
    BY <1>1, <1>2
  <2> HIDE DEF StackGiven, GeneratorsGiven, UpvaluesGiven
  <2>2. QED
    BY <1>4, <1>8, <2>1, AssignKeeps
<1>10. Framed'
  <2>1. Len(stack') \in Nat /\ Frame.slots <= Len(stack')
    BY <1>4, <1>8, FrameFacts, TypedFacts
  <2>2. DOMAIN gens' = DOMAIN gens
    BY <1>4, <1>8, LenProperties
  <2>3. QED
    BY <1>2, <1>4, <1>8, <2>1, <2>2, SameFramed
<1>11. Typed'
  BY <1>2, <1>8, <1>9 DEF Good, Typed
<1>12. QED
  BY <1>9, <1>10, <1>11, Again DEF Good

LEMMA ClosureStep ==
  ASSUME Good, NEW w, For(w), NEW k, Closure(k)
  PROVE  IInv'
<1> DEFINE f == Frame.closure
<1>1. /\ Frame.slots \in 0 .. Len(stack) /\ f \in DOMAIN closures /\ DOMAIN stack = 1 .. Len(stack) /\ Len(stack) \in Nat
      /\ Typed /\ Framed /\ Placed /\ Sorted
  BY FrameFacts, TypedFacts DEF Good
<1>2. k \in DOMAIN stack /\ names[k] # 0
  <2>1. Slots \subseteq DOMAIN stack
    BY <1>1 DEF Slots
  <2>2. QED
    BY <2>1 DEF Closure, Locals
<1>3. /\ open' = Capture(k - 1).open /\ upvalues' = Capture(k - 1).upvalues
      /\ closures' = Append(closures, NewClosure(f, k))
      /\ stack' = stack /\ frames' = frames /\ gens' = gens /\ raising' = raising /\ names' = names /\ cell' = cell
  BY DEF Closure, NewClosure, Captures
<1> HIDE DEF f
<1>4. /\ Placed' /\ Sorted' /\ open' \in Seq(Nat) /\ upvalues' \in Seq(UpvalueRecord)
      /\ closures' \in Seq(ClosureRecord) /\ Len(closures') = Len(closures) + 1
      /\ \E x \in [DOMAIN upvalues' -> DOMAIN cell'] : For(x)'
  BY <1>1, <1>2, <1>3, ClosureKeeps
<1>5. DOMAIN closures \subseteq DOMAIN closures'
  <2>1. DOMAIN closures = 1 .. Len(closures) /\ DOMAIN closures' = 1 .. Len(closures) + 1 /\ Len(closures) \in Nat
    BY <1>1, <1>4, TypedFacts, LenProperties
  <2>2. QED
    BY <2>1
<1>6. Framed'
  BY <1>1, <1>3, <1>5, SameFramed
<1>7. Typed'
  BY <1>3, <1>4 DEF Good, Typed
<1>8. PICK x : For(x)'
  BY <1>4
<1>9. QED
  BY <1>4, <1>6, <1>7, <1>8, Again DEF Good

LEMMA CallStep ==
  ASSUME Good, NEW w, For(w), NEW c \in DOMAIN closures, NEW value \in Value, Call(c, value)
  PROVE  IInv'
<1>1. CASE Len(frames) = size.depth
  <2>1. /\ raising' = TRUE /\ stack' = stack /\ names' = names /\ frames' = frames /\ cell' = cell
        /\ open' = open /\ upvalues' = upvalues /\ closures' = closures /\ gens' = gens
    BY <1>1 DEF Call
  <2>2. Typed' /\ Framed' /\ Placed' /\ Sorted'
    BY <2>1 DEF Good, Typed, Framed, Placed, Shaped, Valued, OnePlace, Waiting, Sorted
  <2>3. For(w)'
    BY <2>1 DEF For, Located, Nowhere, OnStack, InGenerator, Waiting
  <2>4. QED
    BY <2>2, <2>3, Again DEF Good
<1>2. CASE Len(frames) # size.depth
  <2> DEFINE f == [slots |-> Len(stack), closure |-> c, gen |-> 0]
  <2>1. /\ frames' = Append(frames, f) /\ stack' = Append(stack, value) /\ names' = Append(names, Fresh)
        /\ cell' = Append(cell, value)
        /\ raising' = raising /\ open' = open /\ upvalues' = upvalues /\ closures' = closures /\ gens' = gens
    BY <1>2 DEF Call, Named
  <2>2. Fresh \in Nat /\ value \in Entry /\ Fresh = Len(cell) + 1 /\ Len(stack) \in Nat /\ c \in Nat /\ Typed /\ Framed
    BY ValueEntry, TypedFacts DEF Fresh, Good
  <2>3. f \in FrameRecord /\ f.slots = Len(stack) /\ f.closure = c /\ f.gen = 0
    BY <2>2 DEF FrameRecord
  <2> HIDE DEF f, Fresh
  <2>4. /\ Placed' /\ Sorted' /\ For(w)' /\ stack' \in Seq(Entry) /\ names' \in Seq(Nat) /\ cell' \in Seq(Value)
        /\ Len(stack') = Len(stack) + 1
    BY <2>1, <2>2, PushKeeps DEF Good
  <2>5. Framed' /\ frames' \in Seq(FrameRecord)
    <3>1. Len(stack') \in Nat /\ Len(stack) <= Len(stack')
      BY <2>2, <2>4
    <3>2. QED
      BY <2>1, <2>2, <2>3, <3>1, PushFramed
  <2>6. Typed'
    BY <2>1, <2>4, <2>5 DEF Good, Typed
  <2>7. QED
    BY <2>4, <2>5, <2>6, Again DEF Good
<1>3. QED
  BY <1>1, <1>2

LEMMA BuildStep ==
  ASSUME Good, NEW w, For(w), NEW c \in DOMAIN closures, NEW value \in Value, BuildGenerator(c, value)
  PROVE  IInv'
<1>1. /\ c \in Nat /\ Typed /\ Framed /\ Placed /\ Sorted /\ Len(stack) \in Nat /\ Frame.slots <= Len(stack)
      /\ DOMAIN gens = 1 .. Len(gens) /\ Len(gens) \in Nat
  BY TypedFacts, FrameFacts DEF Good
<1>2. /\ cell' = Append(cell, value) /\ gens' = Append(gens, NewGenerator(c, value))
      /\ stack' = stack /\ frames' = frames /\ open' = open /\ upvalues' = upvalues /\ closures' = closures
      /\ raising' = raising /\ names' = names
  BY DEF BuildGenerator, Named, NewGenerator
<1>3. /\ Placed' /\ Sorted' /\ For(w)' /\ cell' \in Seq(Value) /\ gens' \in Seq(GeneratorRecord)
      /\ Len(gens') = Len(gens) + 1 /\ \A g \in DOMAIN gens : gens'[g] = gens[g]
      /\ gens'[Len(gens) + 1] = NewGenerator(c, value)
  BY <1>1, <1>2, BuildKeeps
<1>4. DOMAIN gens' = 1 .. Len(gens) + 1
  BY <1>3, LenProperties
<1>5. DOMAIN gens \subseteq DOMAIN gens' /\ \A g \in DOMAIN gens' : g \notin DOMAIN gens => g = Len(gens) + 1
  BY <1>1, <1>4
<1>6. NewGenerator(c, value).status # "running" /\ NewGenerator(c, value).closure = c
  BY DEF NewGenerator
<1>7. Framed'
  <2>1. \A g \in DOMAIN gens' : g \notin DOMAIN gens => gens'[g].status # "running" /\ gens'[g].closure \in DOMAIN closures'
    BY <1>2, <1>3, <1>5, <1>6
  <2>2. QED
    BY <1>1, <1>2, <1>3, <1>5, <2>1, SameFramed
<1>8. Typed'
  BY <1>2, <1>3 DEF Good, Typed
<1>9. QED
  BY <1>3, <1>7, <1>8, Again DEF Good

LEMMA ResumeStep ==
  ASSUME Good, NEW w, For(w), NEW g \in DOMAIN gens, NEW value \in Value, Resume(g, value)
  PROVE  IInv'
<1> DEFINE f == [slots |-> Len(stack), closure |-> gens[g].closure, gen |-> g]
<1>1. frames' = Append(frames, f) /\ closures' = closures /\ raising' = raising
  BY DEF Resume
<1>2. /\ Typed /\ Framed /\ Placed /\ Sorted /\ Len(stack) \in Nat /\ g \in Nat /\ gens[g].closure \in DOMAIN closures
      /\ gens[g].closure \in Nat
  BY TypedFacts DEF Good, Framed
<1>3. f \in FrameRecord /\ f.slots = Len(stack) /\ f.closure = gens[g].closure /\ f.gen = g
  BY <1>2 DEF FrameRecord
<1> HIDE DEF f
<1>4. /\ Placed' /\ Sorted' /\ For(w)' /\ stack' \in Seq(Entry) /\ names' \in Seq(Nat) /\ cell' \in Seq(Value)
      /\ upvalues' \in Seq(UpvalueRecord) /\ open' \in Seq(Nat) /\ gens' \in Seq(GeneratorRecord)
      /\ Len(stack') >= Len(stack) /\ DOMAIN gens' = DOMAIN gens /\ g \in Waiting
      /\ \A h \in DOMAIN gens : h # g => gens'[h] = gens[h]
      /\ gens'[g].status = "running" /\ gens'[g].closure = gens[g].closure
  BY <1>2, ResumeKeeps
<1>5. Framed' /\ frames' \in Seq(FrameRecord)
  <2>1. Len(stack') \in Nat /\ Len(stack) <= Len(stack')
    BY <1>2, <1>4, LenProperties
  <2>2. gens[g].status # "running"
    BY <1>4 DEF Waiting
  <2>3. QED
    BY <1>1, <1>2, <1>3, <1>4, <2>1, <2>2, PushFramed
<1>6. Typed'
  BY <1>1, <1>4, <1>5 DEF Good, Typed
<1>7. QED
  BY <1>4, <1>5, <1>6, Again DEF Good

LEMMA FreeStep ==
  ASSUME Good, NEW w, For(w), NEW g \in DOMAIN gens, Free(g)
  PROVE  IInv'
<1>1. stack' = stack /\ frames' = frames /\ open' = open /\ closures' = closures /\ raising' = raising /\ names' = names /\ cell' = cell
  BY DEF Free
<1>2. Typed /\ Framed /\ Placed /\ Sorted /\ Len(stack) \in Nat /\ Frame.slots <= Len(stack)
  BY TypedFacts, FrameFacts DEF Good
<1>3. /\ Placed' /\ Sorted' /\ For(w)' /\ upvalues' \in Seq(UpvalueRecord) /\ gens' \in Seq(GeneratorRecord)
      /\ DOMAIN gens' = DOMAIN gens
      /\ \A h \in DOMAIN gens : h # g => gens'[h] = gens[h]
      /\ gens[g].status # "running" /\ gens'[g].status = "freed" /\ gens'[g].closure = gens[g].closure
  BY <1>2, FreeKeeps
<1>4. \A h \in DOMAIN gens : gens'[h].closure = gens[h].closure /\ (gens'[h].status = "running" <=> gens[h].status = "running")
  BY <1>3
<1>5. Framed'
  BY <1>1, <1>2, <1>3, <1>4, SameFramed
<1>6. Typed'
  BY <1>1, <1>3 DEF Good, Typed
<1>7. QED
  BY <1>3, <1>5, <1>6, Again DEF Good

\* Only an exception is raised.
LEMMA RaiseStep ==
  ASSUME Good, NEW w, For(w), raising' = TRUE,
         UNCHANGED <<stack, frames, open, upvalues, closures, gens, names, cell>>
  PROVE  IInv'
<1>1. Typed' /\ Framed' /\ Placed' /\ Sorted'
  BY DEF Good, Typed, Framed, Placed, Shaped, Valued, OnePlace, Waiting, Sorted
<1>2. For(w)'
  BY DEF For, Located, Nowhere, OnStack, InGenerator, Waiting
<1>3. QED
  BY <1>1, <1>2, Again DEF Good

LEMMA HandleStep ==
  ASSUME Good, NEW w, For(w), HandleException
  PROVE  IInv'
<1> DEFINE e == ExitOnFrame
           s == frames[e].slots
           g == frames[e].gen
           k == Nearest(s)
<1>1. /\ Typed /\ Framed /\ Placed /\ Sorted /\ Len(stack) \in Nat /\ Len(frames) \in Nat /\ DOMAIN frames = 1 .. Len(frames)
      /\ \A i \in DOMAIN frames : frames[i] \in FrameRecord
      /\ \A h \in DOMAIN gens : gens[h].status = "running" <=> \E i \in DOMAIN frames : frames[i].gen = h
      /\ \A h \in DOMAIN gens : h # 0
  BY TypedFacts, FrameFacts, RunningFramed DEF Good
<1>2. /\ e \in DOMAIN frames /\ (e = 1 \/ g # 0)
      /\ \A i \in DOMAIN frames : i > e => frames[i].gen = 0
  BY <1>1, ExitRight
<1>3. /\ e \in DOMAIN frames /\ s \in Nat /\ s <= Len(stack) /\ g \in Nat /\ s \in 0 .. Len(stack)
      /\ g # 0 => g \in DOMAIN gens /\ gens[g].status = "running"
  <2>1. e \in DOMAIN frames
    BY <1>1, ExitRight
  <2>2. s \in Nat /\ s <= Len(stack) /\ g \in Nat
    BY <1>1, <2>1 DEF Framed, FrameRecord
  <2>3. g # 0 => g \in DOMAIN gens /\ gens[g].status = "running"
    BY <2>1, <1>1 DEF Framed
  <2>4. QED
    BY <1>1, <2>1, <2>2, <2>3
<1>4. k = 0 \/ (k \in 1 .. Len(stack) /\ k > s /\ stack[k] = Handler)
  BY <1>1, <1>3, NearestRight
<1>5. CASE k # 0
  <2>1. /\ ToHandler(k) /\ raising' = FALSE /\ frames' = SubSeq(frames, 1, Owner(k))
        /\ closures' = closures /\ gens' = gens /\ cell' = cell
    BY <1>5 DEF HandleException
  <2> HIDE DEF k, s, e, g
  <2>2. k \in 1 .. Len(stack) /\ k > s /\ stack[k] = Handler /\ k \in Nat
    BY <1>1, <1>4, <1>5
  <2>3. Owner(k) \in DOMAIN frames /\ frames[Owner(k)].slots < k /\ e <= Owner(k)
    <3>1. frames[e].slots < k
      BY <1>3, <2>2 DEF s
    <3>2. QED
      BY <1>1, <1>3, <2>2, <3>1, OwnerRight
  <2> DEFINE n == Owner(k)
  <2>4. n \in 1 .. Len(frames) /\ frames' = SubSeq(frames, 1, n)
    BY <1>1, <2>1, <2>3
  <2> HIDE DEF n
  <2>5. frames' \in Seq(FrameRecord) /\ DOMAIN frames' = 1 .. n /\ \A i \in 1 .. n : frames'[i] = frames[i]
    BY <2>4, LeftFrames
  <2>6. /\ Placed' /\ Sorted' /\ For(w)' /\ stack' \in Seq(Entry) /\ names' \in Seq(Nat) /\ Len(stack') = k
        /\ upvalues' \in Seq(UpvalueRecord) /\ open' \in Seq(Nat)
    BY <2>1, <2>2, HandlerStep
  <2>7. \A i \in DOMAIN frames : i \in 1 .. n \/ frames[i].gen = 0
    <3>1. \A i \in DOMAIN frames : i \in 1 .. n \/ i > e
      BY <1>1, <1>3, <2>3, <2>4 DEF n
    <3>2. QED
      BY <1>2, <3>1
  <2>8. \A h \in DOMAIN gens :
          /\ gens'[h].closure = gens[h].closure
          /\ gens'[h].status = "running" <=> \E i \in 1 .. n : frames[i].gen = h
    <3>1. \A i \in 1 .. n : i \in DOMAIN frames
      BY <1>1, <2>4
    <3>2. QED
      BY <1>1, <2>1, <2>7, <3>1
  <2>9. Framed'
    <3>1. Len(stack') \in Nat /\ frames[n].slots <= Len(stack')
      BY <1>1, <2>2, <2>3, <2>4, <2>6 DEF n, FrameRecord
    <3>2. QED
      BY <1>1, <2>1, <2>4, <2>5, <2>8, <3>1, CutFramed
  <2>10. Typed'
    BY <2>1, <2>5, <2>6 DEF Good, Typed
  <2>11. QED
    BY <2>6, <2>9, <2>10, Again DEF Good
<1>6. CASE k = 0
  <2> DEFINE n == IF g = 0 THEN 1 ELSE e - 1
  <2>1. /\ Cut(s) /\ gens' = Finished(g) /\ frames' = (IF g = 0 THEN <<Main>> ELSE SubSeq(frames, 1, e - 1))
        /\ raising' = (g # 0) /\ closures' = closures /\ cell' = cell
    BY <1>6 DEF HandleException
  <2> HIDE DEF k, s, e, g
  <2>2. /\ Placed' /\ Sorted' /\ For(w)' /\ stack' \in Seq(Entry) /\ names' \in Seq(Nat) /\ Len(stack') = s
        /\ upvalues' \in Seq(UpvalueRecord) /\ open' \in Seq(Nat)
        /\ gens' \in Seq(GeneratorRecord) /\ DOMAIN gens' = DOMAIN gens
        /\ \A h \in DOMAIN gens : IF h = g THEN gens'[h].status = "done" /\ gens'[h].closure = gens[h].closure
                                  ELSE gens'[h] = gens[h]
    BY <1>3, <2>1, CutStep
  <2>3. n \in 1 .. Len(frames) /\ (g = 0 => e = 1) /\ (g # 0 => n + 1 = e /\ n = e - 1 /\ e # 1)
    <3>1. frames[1].gen = 0 /\ 1 \in 1 .. Len(frames)
      BY <1>1, FrameFacts DEF Framed, Main
    <3>2. g # 0 => e # 1
      BY <3>1 DEF g
    <3>3. e \in 1 .. Len(frames) /\ (g = 0 => e = 1)
      BY <1>1, <1>2, <1>3
    <3>4. QED
      BY <1>1, <3>1, <3>2, <3>3
  <2>4. frames' \in Seq(FrameRecord) /\ DOMAIN frames' = 1 .. n /\ \A i \in 1 .. n : frames'[i] = frames[i]
    <3>1. CASE g = 0
      <4>1. frames' = <<Main>> /\ n = 1 /\ frames[1] = Main /\ Main \in FrameRecord
        BY <1>1, <2>1, <3>1 DEF Framed, Main, FrameRecord
      <4>2. QED
        BY <4>1
    <3>2. CASE g # 0
      <4>1. frames' = SubSeq(frames, 1, n)
        BY <2>1, <3>2
      <4>2. QED
        BY <2>3, <4>1, LeftFrames
    <3>3. QED
      BY <3>1, <3>2
  <2>5. frames[n].slots <= s /\ n \in DOMAIN frames
    <3>1. CASE g = 0
      BY <1>1, <1>3, <2>3, <3>1 DEF s
    <3>2. CASE g # 0
      <4>1. n \in DOMAIN frames /\ n < e /\ e \in DOMAIN frames
        BY <1>1, <1>3, <2>3, <3>2
      <4>2. QED
        BY <1>1, <4>1 DEF Framed, s
    <3>3. QED
      BY <3>1, <3>2
  <2>6. /\ \A i \in DOMAIN frames : i \in 1 .. n \/ i = e \/ i > e
        /\ \A i \in 1 .. n : i \in DOMAIN frames /\ (g # 0 => i # e)
    <3>1. CASE g = 0
      BY <1>1, <1>3, <2>3, <3>1
    <3>2. CASE g # 0
      <4>1. \A i \in DOMAIN frames : i \in 1 .. n \/ i = e \/ i > e
        BY <1>1, <1>3, <2>3, <3>2
      <4>2. \A i \in 1 .. n : i \in DOMAIN frames /\ i # e
        BY <1>1, <1>3, <2>3, <3>2
      <4>3. QED
        BY <4>1, <4>2
    <3>3. QED
      BY <3>1, <3>2
  <2>7. ASSUME NEW h \in DOMAIN gens
        PROVE  /\ gens'[h].closure = gens[h].closure
               /\ gens'[h].status = "running" <=> \E i \in 1 .. n : frames[i].gen = h
    <3>1. CASE h = g
      <4>1. \A i \in 1 .. n : frames[i].gen # h
        <5>1. g # 0 /\ frames[e].gen = g
          BY <1>1, <3>1 DEF g
        <5>2. QED
          BY <1>1, <1>3, <2>6, <3>1, <5>1 DEF Framed
      <4>2. QED
        BY <2>2, <3>1, <4>1
    <3>2. CASE h # g
      <4>1. frames[e].gen # h
        BY <3>2 DEF g
      <4>2. \A i \in DOMAIN frames : frames[i].gen = h => i \in 1 .. n
        BY <1>1, <1>2, <2>6, <4>1
      <4>3. QED
        BY <1>1, <2>2, <2>6, <3>2, <4>2
    <3>3. QED
      BY <3>1, <3>2
  <2> HIDE DEF n
  <2>8. Framed'
    <3>1. Len(stack') \in Nat /\ frames[n].slots <= Len(stack')
      BY <1>3, <2>2, <2>5
    <3>2. QED
      BY <1>1, <2>1, <2>2, <2>3, <2>4, <2>7, <3>1, CutFramed
  <2>9. Typed'
    BY <2>1, <2>2, <2>4 DEF Good, Typed
  <2>10. QED
    BY <2>2, <2>8, <2>9, Again DEF Good
<1>7. QED
  BY <1>5, <1>6

-----------------------------------------------------------------------------
(* The theorem.                                                            *)

LEMMA Starts ==
  ASSUME Init
  PROVE  IInv
<1>1. /\ stack = <<>> /\ names = <<>> /\ frames = <<Main>> /\ open = <<>> /\ upvalues = <<>> /\ gens = <<>>
      /\ closures = [c \in 1 .. 2 |-> [upvalues |-> <<>>, names |-> <<>>]]
      /\ raising = FALSE /\ cell = <<>>
  BY DEF Init
<1> DEFINE r == [upvalues |-> <<>>, names |-> <<>>]
<1>2. r \in ClosureRecord /\ r.upvalues = <<>> /\ r.names = <<>>
  BY DEF ClosureRecord
<1> HIDE DEF r
<1>3. closures \in Seq(ClosureRecord) /\ DOMAIN closures = 1 .. 2 /\ \A c \in DOMAIN closures : closures[c] = r
  <2>1. closures = [c \in 1 .. 2 |-> r]
    BY <1>1 DEF r
  <2>2. closures \in [1 .. 2 -> ClosureRecord] /\ 2 \in Nat
    BY <1>2, <2>1
  <2>3. closures \in Seq(ClosureRecord)
    BY <2>2, FunIsSeq
  <2>4. QED
    BY <2>1, <2>3
<1>4. /\ frames \in Seq(FrameRecord) /\ DOMAIN frames = {1} /\ frames[1] = Main /\ frames # <<>>
      /\ Main.slots = 0 /\ Main.closure = 1 /\ Main.gen = 0
  BY <1>1 DEF Main, FrameRecord
<1>5. /\ DOMAIN stack = {} /\ DOMAIN open = {} /\ DOMAIN upvalues = {} /\ DOMAIN gens = {} /\ DOMAIN cell = {} /\ Len(stack) = 0
      /\ Len(names) = 0
  BY <1>1
<1>6. Typed
  <2>1. stack \in Seq(Entry) /\ names \in Seq(Nat) /\ cell \in Seq(Value)
    BY <1>1
  <2>2. open \in Seq(Nat) /\ upvalues \in Seq(UpvalueRecord) /\ gens \in Seq(GeneratorRecord)
    BY <1>1
  <2>3. raising \in BOOLEAN
    BY <1>1, Zenon
  <2>4. QED
    BY <1>3, <1>4, <2>1, <2>2, <2>3 DEF Typed
<1>7. Framed
  BY <1>3, <1>4, <1>5 DEF Framed
<1>8. Waiting = {}
  BY <1>5 DEF Waiting
<1>9. Placed
  BY <1>5, <1>8 DEF Placed, Shaped, Valued, OnePlace
<1>10. Sorted
  BY <1>5 DEF Sorted
<1> DEFINE w == [u \in {} |-> 0]
<1>11. w \in [DOMAIN upvalues -> DOMAIN cell]
  BY <1>5
<1> HIDE DEF w
<1>12. \A c \in DOMAIN closures :
         /\ Len(closures[c].names) = Len(closures[c].upvalues)
         /\ \A j \in DOMAIN closures[c].upvalues :
              /\ closures[c].upvalues[j] \in DOMAIN upvalues
              /\ closures[c].names[j] = w[closures[c].upvalues[j]]
  BY <1>2, <1>3
<1>13. For(w)
  BY <1>5, <1>11, <1>12 DEF For
<1>14. QED
  BY <1>6, <1>7, <1>9, <1>10, <1>11, <1>13 DEF IInv, Good

LEMMA Stays ==
  ASSUME IInv, UNCHANGED vars
  PROVE  IInv'
<1>1. PICK w \in [DOMAIN upvalues -> DOMAIN cell] : For(w)
  BY DEF IInv
<1>2. /\ stack' = stack /\ frames' = frames /\ open' = open /\ upvalues' = upvalues /\ closures' = closures
      /\ gens' = gens /\ raising' = raising /\ names' = names /\ cell' = cell
  BY DEF vars
<1>3. Typed' /\ Framed' /\ Placed' /\ Sorted'
  BY <1>2 DEF IInv, Good, Typed, Framed, Placed, Shaped, Valued, OnePlace, Waiting, Sorted
<1>4. For(w)'
  BY <1>1, <1>2 DEF For, Located, Nowhere, OnStack, InGenerator, Waiting
<1>5. QED
  BY <1>3, <1>4, Again DEF Good

LEMMA Goes ==
  ASSUME IInv, Next
  PROVE  IInv'
<1>1. Good
  BY DEF IInv
<1>2. PICK w \in [DOMAIN upvalues -> DOMAIN cell] : For(w)
  BY DEF IInv
<1>3. CASE raising
  <2>1. HandleException
    BY <1>3 DEF Next
  <2>2. QED
    BY <1>1, <1>2, <2>1, HandleStep
<1>4. CASE ~raising
  <2>1. Run
    BY <1>4 DEF Next
  <2>2. First \subseteq Value
    BY ValueEntry
  <2>3. CASE \E v \in Value, k \in Slots : SetLocal(k, v)
    BY <1>1, <1>2, <2>3, SetLocalStep
  <2>4. CASE \E v \in Value, j \in DOMAIN Captures.upvalues : SetUpvalue(j, v)
    BY <1>1, <1>2, <2>4, SetUpvalueStep
  <2>5. CASE \E v \in First : Let(v)
    BY <1>1, <1>2, <2>2, <2>5, LetStep
  <2>6. CASE \E v \in First, c \in DOMAIN closures : Call(c, v) \/ BuildGenerator(c, v)
    BY <1>1, <1>2, <2>2, <2>6, CallStep, BuildStep
  <2>7. CASE \E v \in First, g \in DOMAIN gens : Resume(g, v)
    BY <1>1, <1>2, <2>2, <2>7, ResumeStep
  <2>8. CASE \E g \in DOMAIN gens : Refuse(g) \/ Free(g)
    <3>1. PICK g \in DOMAIN gens : Refuse(g) \/ Free(g)
      BY <2>8
    <3>2. CASE Refuse(g)
      BY <1>1, <1>2, <3>2, RaiseStep DEF Refuse
    <3>3. CASE Free(g)
      BY <1>1, <1>2, <3>3, FreeStep
    <3>4. QED
      BY <3>1, <3>2, <3>3
  <2>9. CASE \E k \in Slots : Leave(k - 1) \/ Closure(k)
    BY <1>1, <1>2, <2>9, LeaveStep, ClosureStep
  <2>10. CASE Try
    BY <1>1, <1>2, <2>10, TryStep
  <2>11. CASE Yield
    BY <1>1, <1>2, <2>11, YieldStep
  <2>12. CASE Return
    BY <1>1, <1>2, <2>12, ReturnStep
  <2>13. CASE Raise
    BY <1>1, <1>2, <2>13, RaiseStep DEF Raise
  <2>14. QED
    BY <2>1, <2>3, <2>4, <2>5, <2>6, <2>7, <2>8, <2>9, <2>10, <2>11, <2>12, <2>13 DEF Run
<1>5. QED
  BY <1>3, <1>4

\* A generator that is done or was freed has no entry that is still for one of
\* its variables; one that waits has them in their places.
LEMMA Right ==
  ASSUME IInv
  PROVE  VariablesRight
<1>1. PICK w \in [DOMAIN upvalues -> DOMAIN cell] : For(w)
  BY DEF IInv
<1>2. /\ Typed /\ Framed /\ Shaped /\ Valued /\ OnePlace /\ Sorted
      /\ DOMAIN stack = 1 .. Len(stack) /\ Len(stack) \in Nat
      /\ \A g \in DOMAIN gens : gens[g] \in GeneratorRecord /\ g # 0
      /\ \A u \in DOMAIN upvalues : upvalues[u] \in UpvalueRecord
  BY TypedFacts DEF IInv, Good, Placed
<1>3. ASSUME NEW u \in DOMAIN upvalues
      PROVE  /\ Read(u) = cell[w[u]]
             /\ upvalues[u].location # Closed =>
                  IF upvalues[u].owner = 0 THEN Contains(open, u) /\ upvalues[u].location < Len(stack)
                  ELSE /\ Contains(gens[upvalues[u].owner].captured, u)
                       /\ gens[upvalues[u].owner].status = "suspended"
  <2>1. Located(u, w[u]) /\ w[u] # 0 /\ upvalues[u].location \in Int
    <3>1. w[u] \in DOMAIN cell
      BY <1>1
    <3>2. QED
      BY <1>1, <1>2, <3>1, TypedFacts DEF For, UpvalueRecord
  <2>2. CASE upvalues[u].location = Closed /\ upvalues[u].closed = cell[w[u]]
    BY <2>2 DEF Read
  <2>3. CASE upvalues[u].location >= 0 /\ upvalues[u].owner = 0 /\ OnStack(u, w[u])
    <3>1. upvalues[u].location # Closed
      BY <2>1, <2>3 DEF Closed
    <3>2. upvalues[u].location + 1 \in DOMAIN stack /\ names[upvalues[u].location + 1] = w[u] /\ Contains(open, u)
      BY <2>3 DEF OnStack
    <3>3. stack[upvalues[u].location + 1] = cell[w[u]]
      BY <1>2, <2>1, <3>2 DEF Valued
    <3>4. upvalues[u].location < Len(stack)
      BY <1>2, <2>1, <3>2
    <3>5. QED
      BY <2>3, <3>1, <3>2, <3>3, <3>4 DEF Read
  <2>4. CASE upvalues[u].location >= 0 /\ upvalues[u].owner # 0 /\ InGenerator(u, w[u], upvalues[u].owner)
    <3>1. upvalues[u].location # Closed
      BY <2>1, <2>4 DEF Closed
    <3> DEFINE g == upvalues[u].owner
    <3>2. /\ g \in DOMAIN gens /\ gens[g].status = "suspended" /\ upvalues[u].location + 1 \in DOMAIN gens[g].args
          /\ gens[g].names[upvalues[u].location + 1] = w[u] /\ Contains(gens[g].captured, u)
      BY <2>4 DEF InGenerator
    <3>3. g \in Waiting
      BY <3>2 DEF Waiting
    <3>4. gens[g].args[upvalues[u].location + 1] = cell[w[u]]
      BY <1>2, <2>1, <3>2, <3>3 DEF Valued
    <3>5. QED
      BY <2>4, <3>1, <3>2, <3>4 DEF Read
  <2>5. QED
    BY <2>1, <2>2, <2>3, <2>4 DEF Located
<1>4. OneVariable
  <2>1. \A k \in DOMAIN stack : names[k] # 0 => stack[k] = cell[names[k]]
    BY <1>2 DEF Valued
  <2>2. ASSUME NEW g \in DOMAIN gens, gens[g].status # "running", NEW k \in DOMAIN gens[g].args,
               gens[g].names[k] # 0, gens[g].status # "done"
        PROVE  gens[g].args[k] = cell[gens[g].names[k]]
    <3>1. gens[g].status \in {"new", "suspended", "freed"}
      BY <1>2, <2>2 DEF GeneratorRecord, Status
    <3>2. CASE g \in Waiting
      BY <1>2, <2>2, <3>2 DEF Valued
    <3>3. CASE g \notin Waiting
      <4>1. gens[g].status = "freed"
        BY <3>1, <3>3 DEF Waiting
      <4>2. gens[g].args = <<>>
        BY <1>2, <4>1 DEF Shaped
      <4>3. QED
        BY <2>2, <4>2
    <3>4. QED
      BY <3>2, <3>3
  <2>3. \A c \in DOMAIN closures : \A j \in DOMAIN closures[c].upvalues :
          Read(closures[c].upvalues[j]) = cell[closures[c].names[j]]
    BY <1>1, <1>3 DEF For
  <2>4. QED
    BY <2>1, <2>2, <2>3 DEF OneVariable
<1>5. UpvaluesListed
  BY <1>2, <1>3 DEF UpvaluesListed, Sorted
<1>6. OneFrame
  <2>1. ASSUME NEW g \in DOMAIN gens
        PROVE  LET of == {i \in DOMAIN frames : frames[i].gen = g}
               IN (gens[g].status = "running" <=> of # {}) /\ \A i, j \in of : i = j
    <3>1. gens[g].status = "running" <=> \E i \in DOMAIN frames : frames[i].gen = g
      BY <1>2, RunningFramed
    <3>2. \A i, j \in DOMAIN frames : frames[i].gen = g /\ frames[j].gen = g => i = j
      BY <1>2 DEF Framed
    <3>3. QED
      BY <3>1, <3>2
  <2>2. QED
    BY <2>1 DEF OneFrame
<1>7. QED
  BY <1>4, <1>5, <1>6 DEF VariablesRight

\* Whatever functions, closures and generators a program has, and however they
\* call, leave, resume and abandon each other, every use of a variable sees
\* what was last given to it, and the upvalues are where the lists say
\* (captureUpvalue, closeUpvalues, OP_YIELD, generator.__call__).
THEOREM VariablesKept == Spec => []VariablesRight
<1>1. Init => IInv
  BY Starts
<1>2. IInv /\ [Next]_vars => IInv'
  BY Goes, Stays
<1>3. IInv => VariablesRight
  BY Right
<1>4. QED
  BY <1>1, <1>2, <1>3, PTL DEF Spec

-----------------------------------------------------------------------------
(***************************************************************************)
(* The memory of the stack (KrkStack), for any number of moves and depth   *)
(* of natives.  The natives that have a block to free have newer ones the  *)
(* later they were called; the flag is set while the last of them has the  *)
(* block in use; and the arguments of a native are in the block of one     *)
(* that was called no later.                                               *)
(***************************************************************************)
Native == [args : Nat, before : Nat]

StackShape ==
  /\ block \in Nat /\ block > 0
  /\ full \in BOOLEAN /\ defer \in BOOLEAN
  /\ natives \in Seq(Native)
  /\ memory \subseteq 1 .. block /\ block \in memory

Frees(k) == natives[k].before # 0

\* A later native has a later block to free, none a later one than is in use.
Increasing ==
  /\ \A j, k \in DOMAIN natives : j < k /\ Frees(j) /\ Frees(k) => natives[j].before < natives[k].before
  /\ \A k \in DOMAIN natives : natives[k].before <= block

\* The flag is set while a native has the block in use to free.
Flagged == defer <=> \E k \in DOMAIN natives : natives[k].before = block

\* The arguments of a native are in a block that it or one below it will free.
Backed == \A k \in DOMAIN natives : natives[k].args # 0 /\ \E j \in 1 .. k : natives[j].before = natives[k].args

BlocksKept == \A k \in DOMAIN natives : Frees(k) => natives[k].before \in memory
Owned == \A b \in memory \ {block} : \E k \in DOMAIN natives : natives[k].before = b

StackInv == StackShape /\ Increasing /\ Flagged /\ Backed /\ BlocksKept /\ Owned

-----------------------------------------------------------------------------
LEMMA StackInit == SInit => StackInv
<1> SUFFICES ASSUME SInit
             PROVE  StackInv
  OBVIOUS
<1>1. DOMAIN natives = {} /\ natives \in Seq(Native)
  BY DEF SInit
<1>2. StackShape
  <2>1. full \in BOOLEAN /\ defer \in BOOLEAN
    BY Zenon DEF SInit
  <2>2. block \in Nat /\ block > 0 /\ memory \subseteq 1 .. block /\ block \in memory
    BY DEF SInit
  <2>3. QED
    BY <1>1, <2>1, <2>2, Zenon DEF StackShape
<1>3. QED
  BY <1>1, <1>2 DEF SInit, StackInv, Increasing, Flagged, Backed, BlocksKept, Owned

\* The natives are numbered from 1.
LEMMA Numbered ==
  ASSUME StackShape
  PROVE  /\ Len(natives) \in Nat /\ DOMAIN natives = 1 .. Len(natives)
         /\ \A k \in DOMAIN natives : natives[k].args \in Nat /\ natives[k].before \in Nat
<1>1. natives \in Seq(Native)
  BY DEF StackShape
<1>2. Len(natives) \in Nat /\ DOMAIN natives = 1 .. Len(natives) /\ \A k \in DOMAIN natives : natives[k] \in Native
  BY <1>1
<1>3. QED
  BY <1>2 DEF Native

LEMMA GrowKeeps == StackInv /\ full' \in BOOLEAN /\ GrowStack /\ UNCHANGED natives => StackInv'
<1> SUFFICES ASSUME StackInv, full' \in BOOLEAN, GrowStack, UNCHANGED natives
             PROVE  StackInv'
  OBVIOUS
<1>1. StackShape' /\ block' = block + 1
  <2>1. full' \in BOOLEAN /\ defer' \in BOOLEAN
    BY Zenon DEF GrowStack
  <2>2. block' = block + 1 /\ block' \in Nat /\ block' > 0 /\ \A b \in 1 .. block : b \in 1 .. block'
    BY DEF StackInv, StackShape, GrowStack
  <2>3. memory' \subseteq 1 .. block' /\ block' \in memory'
    <3>1. memory' \subseteq memory \cup {block'} /\ block' \in memory'
      BY <2>2 DEF GrowStack
    <3>2. memory \subseteq 1 .. block /\ block' \in 1 .. block'
      BY <2>2 DEF StackInv, StackShape
    <3>3. QED
      BY <2>2, <3>1, <3>2
  <2>4. natives' \in Seq(Native)
    BY DEF StackInv, StackShape
  <2>5. QED
    BY <2>1, <2>2, <2>3, <2>4, Zenon DEF StackShape
<1>2. \A k \in DOMAIN natives : natives[k].before <= block /\ natives[k].before \in Nat
  BY Numbered DEF StackInv, Increasing
<1>3. Increasing' /\ Flagged'
  BY <1>1, <1>2 DEF StackInv, StackShape, Increasing, Flagged, GrowStack, Frees
<1>4. Backed'
  BY DEF StackInv, Backed
<1>5. BlocksKept'
  <2>1. CASE defer
    BY <2>1 DEF StackInv, BlocksKept, Frees, GrowStack
  <2>2. CASE ~defer
    BY <2>2 DEF StackInv, BlocksKept, Frees, GrowStack, Flagged
  <2>3. QED
    BY <2>1, <2>2
<1>6. Owned'
  <2>1. SUFFICES ASSUME NEW b \in memory' \ {block'}
                 PROVE  \E k \in DOMAIN natives : natives[k].before = b
    BY DEF Owned
  <2>2. CASE b = block
    BY <2>1, <2>2, <1>1 DEF StackInv, Flagged, GrowStack
  <2>3. CASE b # block
    BY <2>1, <2>3, <1>1 DEF StackInv, Owned, GrowStack
  <2>4. QED
    BY <2>2, <2>3
<1>7. QED
  BY <1>1, <1>3, <1>4, <1>5, <1>6 DEF StackInv

LEMMA CallKeeps == StackInv /\ CallNativeOnStack => StackInv'
<1> SUFFICES ASSUME StackInv, CallNativeOnStack
             PROVE  StackInv'
  OBVIOUS
<1> DEFINE n == Len(natives)
           new == [args |-> block, before |-> IF defer THEN 0 ELSE block]
<1>1. n \in Nat /\ DOMAIN natives = 1 .. n /\ \A k \in 1 .. n : natives[k].args \in Nat /\ natives[k].before \in Nat
  BY Numbered DEF StackInv
<1>2. /\ new \in Native /\ natives' = Append(natives, new)
      /\ memory' = memory /\ block' = block /\ full' = full /\ defer' = TRUE
  BY DEF StackInv, StackShape, CallNativeOnStack, Native
<1>3. /\ natives' \in Seq(Native) /\ DOMAIN natives' = 1 .. n + 1
      /\ \A k \in 1 .. n : natives'[k] = natives[k]
      /\ natives'[n + 1] = new
  BY <1>1, <1>2 DEF StackInv, StackShape
<1> HIDE DEF n
<1>4. StackShape'
  BY <1>2, <1>3 DEF StackInv, StackShape
<1>5. defer <=> \E k \in 1 .. n : natives[k].before = block
  BY <1>1 DEF StackInv, Flagged
<1>6. Increasing'
  <2>1. \A k \in 1 .. n : natives[k].before <= block
    BY <1>1 DEF StackInv, Increasing
  <2>2. \A k \in 1 .. n + 1 : natives'[k].before <= block'
    BY <2>1, <1>1, <1>2, <1>3 DEF StackInv, StackShape
  <2>3. ASSUME NEW j \in 1 .. n + 1, NEW k \in 1 .. n + 1, j < k, natives'[j].before # 0, natives'[k].before # 0
        PROVE  natives'[j].before < natives'[k].before
    <3>1. j \in 1 .. n
      BY <1>1, <2>3
    <3>2. CASE k \in 1 .. n
      BY <2>3, <3>1, <3>2, <1>1, <1>3 DEF StackInv, Increasing, Frees
    <3>3. CASE k = n + 1
      BY <2>1, <2>3, <3>1, <3>3, <1>1, <1>3, <1>5 DEF StackInv, StackShape
    <3>4. QED
      BY <1>1, <3>2, <3>3
  <2>4. QED
    BY <2>2, <2>3, <1>3 DEF Increasing, Frees
<1>7. Flagged'
  <2>1. CASE defer
    BY <2>1, <1>1, <1>2, <1>3, <1>5 DEF Flagged
  <2>2. CASE ~defer
    BY <2>2, <1>1, <1>2, <1>3 DEF Flagged
  <2>3. QED
    BY <2>1, <2>2
<1>8. Backed'
  <2>1. ASSUME NEW k \in 1 .. n
        PROVE  natives'[k].args # 0 /\ \E j \in 1 .. k : natives'[j].before = natives'[k].args
    <3>1. natives[k].args # 0 /\ \E j \in 1 .. k : natives[j].before = natives[k].args
      BY <1>1 DEF StackInv, Backed
    <3>2. \A j \in 1 .. k : j \in 1 .. n
      BY <1>1
    <3>3. QED
      BY <3>1, <3>2, <1>3
  <2>2. natives'[n + 1].args # 0 /\ \E j \in 1 .. n + 1 : natives'[j].before = natives'[n + 1].args
    <3>1. CASE defer
      BY <3>1, <1>1, <1>3, <1>5 DEF StackInv, StackShape
    <3>2. CASE ~defer
      BY <3>2, <1>1, <1>3 DEF StackInv, StackShape
    <3>3. QED
      BY <3>1, <3>2
  <2>3. \A k \in 1 .. n + 1 : k \in 1 .. n \/ k = n + 1
    BY <1>1
  <2>4. QED
    BY <2>1, <2>2, <2>3, <1>3 DEF Backed
<1>9. BlocksKept'
  <2>1. \A k \in 1 .. n + 1 : k \in 1 .. n \/ k = n + 1
    BY <1>1
  <2>2. QED
    BY <2>1, <1>1, <1>2, <1>3 DEF StackInv, BlocksKept, Frees, StackShape
<1>10. Owned'
  BY <1>1, <1>2, <1>3 DEF StackInv, Owned
<1>11. QED
  BY <1>4, <1>6, <1>7, <1>8, <1>9, <1>10 DEF StackInv

LEMMA ReturnKeeps == StackInv /\ Returned => StackInv'
<1> SUFFICES ASSUME StackInv, Returned
             PROVE  StackInv'
  OBVIOUS
<1> DEFINE n == Len(natives)
           last == natives[n].before
<1>1. n \in Nat /\ DOMAIN natives = 1 .. n /\ \A k \in 1 .. n : natives[k].args \in Nat /\ natives[k].before \in Nat
  BY Numbered DEF StackInv
<1>2. n > 0 /\ n \in 1 .. n
  BY <1>1 DEF StackInv, StackShape, Returned
<1>3. /\ natives' \in Seq(Native) /\ DOMAIN natives' = 1 .. n - 1
      /\ \A k \in 1 .. n - 1 : natives'[k] = natives[k]
  BY <1>1, <1>2 DEF StackInv, StackShape, Returned, Front
<1>4. /\ block' = block /\ full' \in BOOLEAN
      /\ last = 0 => memory' = memory /\ defer' = defer
      /\ last # 0 => memory' = (IF block # last THEN memory \ {last} ELSE memory) /\ defer' = FALSE
  BY DEF StackInv, StackShape, Returned, Last
<1> HIDE DEF n
<1>5. \A k \in 1 .. n - 1 : k \in 1 .. n /\ k < n
  BY <1>1
<1>6. last # 0 => \A k \in 1 .. n - 1 : natives[k].before # 0 => natives[k].before < last
  BY <1>1, <1>2, <1>5 DEF StackInv, Increasing, Frees
<1>7. \A k \in 1 .. n : natives[k].before <= block
  BY <1>1 DEF StackInv, Increasing
<1>8. StackShape'
  BY <1>3, <1>4 DEF StackInv, StackShape
<1>9. Increasing'
  BY <1>1, <1>3, <1>4, <1>5, <1>7 DEF StackInv, Increasing, Frees
<1>10. Flagged'
  <2>1. CASE last = 0
    <3>1. \A k \in 1 .. n : natives[k].before = block => k \in 1 .. n - 1
      BY <2>1, <1>1 DEF StackInv, StackShape
    <3>2. QED
      BY <2>1, <3>1, <1>1, <1>3, <1>4, <1>5 DEF StackInv, Flagged
  <2>2. CASE last # 0
    <3>1. \A k \in 1 .. n - 1 : natives[k].before # block
      BY <2>2, <1>1, <1>2, <1>5, <1>6, <1>7 DEF StackInv, StackShape
    <3>2. QED
      BY <2>2, <3>1, <1>3, <1>4 DEF Flagged
  <2>3. QED
    BY <2>1, <2>2
<1>11. Backed'
  <2>1. ASSUME NEW k \in 1 .. n - 1
        PROVE  natives'[k].args # 0 /\ \E j \in 1 .. k : natives'[j].before = natives'[k].args
    <3>1. natives[k].args # 0 /\ \E j \in 1 .. k : natives[j].before = natives[k].args
      BY <1>1, <1>5 DEF StackInv, Backed
    <3>2. \A j \in 1 .. k : j \in 1 .. n - 1
      BY <1>1
    <3>3. QED
      BY <3>1, <3>2, <1>3
  <2>2. QED
    BY <2>1, <1>3 DEF Backed
<1>12. BlocksKept'
  BY <1>1, <1>3, <1>4, <1>5, <1>6 DEF StackInv, BlocksKept, Frees
<1>13. Owned'
  <2>1. SUFFICES ASSUME NEW b \in memory' \ {block}
                 PROVE  \E k \in 1 .. n - 1 : natives[k].before = b
    BY <1>3, <1>4 DEF Owned
  <2>2. b \in memory \ {block} /\ b # 0 /\ b # last
    BY <2>1, <1>4 DEF StackInv, StackShape
  <2>3. PICK k \in 1 .. n : natives[k].before = b
    BY <2>2, <1>1 DEF StackInv, Owned
  <2>4. k \in 1 .. n - 1
    BY <2>2, <2>3, <1>1
  <2>5. QED
    BY <2>3, <2>4
<1>14. QED
  BY <1>8, <1>9, <1>10, <1>11, <1>12, <1>13 DEF StackInv

LEMMA StackNext == StackInv /\ [SNext]_svars => StackInv'
<1> SUFFICES ASSUME StackInv, [SNext]_svars
             PROVE  StackInv'
  OBVIOUS
<1>1. CASE Push
  <2>1. CASE full
    BY <1>1, <2>1, GrowKeeps DEF Push
  <2>2. CASE ~full
    <3>1. full' \in BOOLEAN /\ UNCHANGED <<memory, block, defer, natives>>
      BY <1>1, <2>2, Zenon DEF Push
    <3>2. QED
      BY <3>1, Zenon DEF StackInv, StackShape, Increasing, Flagged, Backed, BlocksKept, Owned, Frees
  <2>3. QED
    BY <2>1, <2>2
<1>2. CASE Pop
  BY <1>2 DEF Pop, StackInv, StackShape, Increasing, Flagged, Backed, BlocksKept, Owned, Frees
<1>3. CASE CallNativeOnStack
  BY <1>3, CallKeeps
<1>4. CASE Returned
  BY <1>4, ReturnKeeps
<1>5. CASE UNCHANGED svars
  BY <1>5 DEF svars, StackInv, StackShape, Increasing, Flagged, Backed, BlocksKept, Owned, Frees
<1>6. QED
  BY <1>1, <1>2, <1>3, <1>4, <1>5 DEF SNext

\* The native that will free a block is the only one, because a later one
\* frees a later block.
LEMMA OneFrees ==
  ASSUME StackInv, NEW b \in memory \ {block}
  PROVE  Cardinality({k \in DOMAIN natives : natives[k].before = b}) = 1
<1>1. b # 0 /\ Len(natives) \in Nat /\ DOMAIN natives = 1 .. Len(natives)
  BY Numbered DEF StackInv, StackShape
<1>2. PICK k \in DOMAIN natives : natives[k].before = b
  BY DEF StackInv, Owned
<1>3. ASSUME NEW j \in DOMAIN natives, natives[j].before = b
      PROVE  j = k
  <2>1. ~(j < k) /\ ~(k < j)
    BY <1>1, <1>2, <1>3, Numbered DEF StackInv, Increasing, Frees
  <2>2. QED
    BY <1>1, <2>1
<1>4. {j \in DOMAIN natives : natives[j].before = b} = {k}
  BY <1>2, <1>3
<1>5. QED
  BY <1>4, FS_Singleton

\* Whatever is pushed and called while natives run, the block that the
\* arguments of one of them are in is not freed, and each block the stack
\* has left is freed by one native (krk_growStack, krk_callNativeOnStack).
THEOREM StackMemory == SSpec => []StackMemoryRight
<1>1. StackInv => StackMemoryRight
  <2> SUFFICES ASSUME StackInv
               PROVE  ArgumentsReadable /\ BlocksFreed
    BY DEF StackMemoryRight
  <2>1. ArgumentsReadable
    <3>1. SUFFICES ASSUME NEW k \in DOMAIN natives
                   PROVE  natives[k].args \in memory
      BY DEF ArgumentsReadable
    <3>2. PICK j \in 1 .. k : natives[j].before = natives[k].args /\ natives[k].args # 0
      BY DEF StackInv, Backed
    <3>3. j \in DOMAIN natives
      BY Numbered, <3>2 DEF StackInv
    <3>4. QED
      BY <3>2, <3>3 DEF StackInv, BlocksKept, Frees
  <2>2. BlocksFreed
    BY OneFrees DEF StackInv, StackShape, BlocksKept, Frees, BlocksFreed
  <2>3. QED
    BY <2>1, <2>2
<1>2. QED
  BY StackInit, StackNext, <1>1, PTL DEF SSpec
===============================================================================
