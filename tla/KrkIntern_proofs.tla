--------------------------- MODULE KrkIntern_proofs ---------------------------
(***************************************************************************)
(* Proofs about KrkIntern, for any threads and texts.                      *)
(*                                                                         *)
(* As long as every release is by the holder, at most one thread is        *)
(* between obtaining the lock and releasing it; a thread that looks or     *)
(* inserts is there; and the text it inserts is still missing.             *)
(***************************************************************************)
EXTENDS KrkIntern, TLAPS

Looks(s) == s.do = "find"
Inserts(s) == s.do = "insert"

\* In the steps a thread has still to do, insertions come first only, and
\* lookups first or after the lock has been obtained.
Proper(q) ==
  \A i \in 2 .. Len(q) : ~Inserts(q[i]) /\ (Looks(q[i]) => q[i - 1] = Lock)

Shape ==
  /\ locked \in BOOLEAN /\ stray \in BOOLEAN
  /\ objects \in [Text -> Nat]
  /\ todo \in [Thread -> Seq(Step)]
  /\ holder \subseteq Thread
  /\ \A t \in Thread : Proper(todo[t])

Inside ==
  /\ \A t, u \in holder : t = u
  /\ holder # {} => locked
  /\ \A t \in Thread :
       Steps(t) =>
         /\ Looks(Now(t)) \/ Inserts(Now(t)) => t \in holder
         /\ Inserts(Now(t)) => objects[Now(t).text] = 0
  /\ OneObjectPerText

IInv == Shape /\ (stray \/ Inside)

-----------------------------------------------------------------------------
(* The steps of the functions.                                             *)

LEMMA StepKinds ==
  /\ \A s \in Step : s.do \in {"obtain", "release", "find", "insert"}
  /\ \A s \in Step : s.do = "obtain" => s = Lock
  /\ \A s \in Step : Looks(s) => s.by \in Function /\ s.text \in Text
  /\ \A s \in Step : Inserts(s) => s.text \in Text
  /\ Lock \in Step /\ Unlock \in Step
  /\ \A f \in Function, x \in Text : Find(f, x) \in Step
  /\ \A x \in Text : Add(x) \in Step
  /\ ~Looks(Lock) /\ ~Inserts(Lock) /\ ~Looks(Unlock) /\ ~Inserts(Unlock)
  /\ \A f, x : Looks(Find(f, x)) /\ ~Inserts(Find(f, x))
  /\ \A x : Inserts(Add(x)) /\ ~Looks(Add(x)) /\ Add(x).text = x
<1>1. \A s \in Step : s.do \in {"obtain", "release", "find", "insert"}
  BY DEF Step, Lock, Unlock, Find, Add
<1>2. \A s \in Step : s.do = "obtain" => s = Lock
  BY DEF Step, Lock, Unlock, Find, Add
<1>3. \A s \in Step : Looks(s) => s.by \in Function /\ s.text \in Text
  BY DEF Step, Looks, Lock, Unlock, Find, Add
<1>4. \A s \in Step : Inserts(s) => s.text \in Text
  BY DEF Step, Inserts, Lock, Unlock, Find, Add
<1>5. Lock \in Step /\ Unlock \in Step
  BY DEF Step
<1>6. /\ \A f \in Function, x \in Text : Find(f, x) \in Step
      /\ \A x \in Text : Add(x) \in Step
  BY DEF Step
<1>7. ~Looks(Lock) /\ ~Inserts(Lock) /\ ~Looks(Unlock) /\ ~Inserts(Unlock)
  BY DEF Looks, Inserts, Lock, Unlock
<1>8. \A f, x : Looks(Find(f, x)) /\ ~Inserts(Find(f, x))
  BY DEF Looks, Inserts, Find
<1>9. \A x : Inserts(Add(x)) /\ ~Looks(Add(x)) /\ Add(x).text = x
  BY DEF Looks, Inserts, Add
<1>10. QED
  BY <1>1, <1>2, <1>3, <1>4, <1>5, <1>6, <1>7, <1>8, <1>9

\* A sequence of steps that can come after others.
Follows(q) == q \in Seq(Step) /\ Proper(q) /\ (q # << >> => ~Inserts(Head(q)) /\ ~Looks(Head(q)))

LEMMA ProperCat ==
  ASSUME NEW p \in Seq(Step), Proper(p), NEW q, Follows(q)
  PROVE  /\ p \o q \in Seq(Step) /\ Proper(p \o q)
         /\ p # << >> => p \o q # << >> /\ Head(p \o q) = Head(p)
<1> DEFINE r == p \o q
           n == Len(p)
<1>1. /\ q \in Seq(Step) /\ r \in Seq(Step) /\ n \in Nat /\ Len(r) = n + Len(q) /\ Len(q) \in Nat
      /\ \A i \in 1 .. n : r[i] = p[i]
      /\ \A i \in 1 .. Len(q) : r[n + i] = q[i]
  BY DEF Follows
<1>2. p # << >> => r # << >> /\ Head(r) = Head(p)
  BY <1>1
<1> HIDE DEF r
<1>3. ASSUME NEW i \in 2 .. Len(r)
      PROVE  ~Inserts(r[i]) /\ (Looks(r[i]) => r[i - 1] = Lock)
  <2>1. CASE i \in 2 .. n
    <3>1. i \in 1 .. n /\ i - 1 \in 1 .. n /\ i \in 2 .. Len(p)
      BY <1>1, <2>1
    <3>2. r[i] = p[i] /\ r[i - 1] = p[i - 1]
      BY <1>1, <3>1
    <3>3. QED
      BY <3>1, <3>2 DEF Proper
  <2>2. CASE i = n + 1
    <3>1. r[i] = q[1] /\ q # << >> /\ Head(q) = q[1]
      BY <1>1, <2>2
    <3>2. QED
      BY <3>1 DEF Follows
  <2>3. CASE i \in n + 2 .. Len(r)
    <3>1. PICK j \in 2 .. Len(q) : i = n + j
      <4>1. i - n \in 2 .. Len(q) /\ i = n + (i - n)
        BY <1>1, <2>3
      <4>2. QED
        BY <4>1
    <3>2. j - 1 \in 1 .. Len(q) /\ i - 1 = n + (j - 1) /\ j \in 1 .. Len(q)
      BY <1>1, <3>1
    <3>3. r[i] = q[j] /\ r[i - 1] = q[j - 1]
      BY <1>1, <3>1, <3>2
    <3>4. QED
      BY <3>1, <3>3 DEF Proper, Follows
  <2>4. QED
    BY <1>1, <2>1, <2>2, <2>3
<1>4. Proper(r)
  BY <1>3 DEF Proper
<1>5. QED
  BY <1>1, <1>2, <1>4 DEF r

\* Sequences of one and two steps, written out.
LEMMA ProperPair ==
  ASSUME NEW a \in Step, NEW b \in Step, ~Inserts(b), Looks(b) => a = Lock
  PROVE  /\ <<a>> \in Seq(Step) /\ <<a>> # << >> /\ Proper(<<a>>) /\ Head(<<a>>) = a
         /\ <<a, b>> \in Seq(Step) /\ <<a, b>> # << >> /\ Proper(<<a, b>>) /\ Head(<<a, b>>) = a
BY DEF Proper

LEMMA NewCall ==
  ASSUME NEW f \in Function, NEW x \in Text
  PROVE  /\ Follows(Call(f, x)) /\ Call(f, x) # << >> /\ Head(Call(f, x)) = Lock
         /\ Follows(Hit(f, x)) /\ Hit(f, x) # << >> /\ Head(Hit(f, x)) = Unlock
         /\ Follows(Again(f)) /\ Follows(<<Unlock>>)
<1>1. /\ Lock \in Step /\ Unlock \in Step /\ Find(f, x) \in Step
      /\ ~Inserts(Lock) /\ ~Looks(Lock) /\ ~Inserts(Unlock) /\ ~Looks(Unlock)
      /\ ~Inserts(Find(f, x))
  BY StepKinds
<1>2. Follows(Call(f, x)) /\ Call(f, x) # << >> /\ Head(Call(f, x)) = Lock
  BY <1>1, ProperPair DEF Call, Follows
<1>3. Follows(<<Unlock>>) /\ <<Unlock>> # << >> /\ Head(<<Unlock>>) = Unlock
  BY <1>1, ProperPair DEF Follows
<1>4. Follows(<< >>)
  BY DEF Follows, Proper
<1>5. QED
  BY <1>2, <1>3, <1>4 DEF Hit, Again

\* What a lookup leads to when it finds nothing: a release and calls, or the
\* insertion of the text.
LEMMA NewMissed ==
  ASSUME NEW f \in Function, NEW x \in Text
  PROVE  /\ Missed(f, x) \in Seq(Step) /\ Missed(f, x) # << >> /\ Proper(Missed(f, x))
         /\ Head(Missed(f, x)) \in {Unlock, Add(x)}
<1>1. CASE x \in Malformed
  <2> DEFINE c == "krk_copyString"
             p == <<Unlock>> \o Call(c, Message)
             q == p \o Call(c, Empty)
  <2>1. Message \in Text /\ Empty \in Text
    BY TextAssumption DEF TextAssumption
  <2>2. /\ Follows(Call(c, Message)) /\ Follows(Call(c, Empty)) /\ Follows(Again(f))
        /\ Follows(<<Unlock>>)
    BY <2>1, NewCall DEF Function
  <2>3. <<Unlock>> \in Seq(Step) /\ Proper(<<Unlock>>) /\ <<Unlock>> # << >> /\ Head(<<Unlock>>) = Unlock
    BY <2>2 DEF Follows
  <2>4. p \in Seq(Step) /\ Proper(p) /\ p # << >> /\ Head(p) = Unlock
    BY <2>2, <2>3, ProperCat
  <2> HIDE DEF p
  <2>5. q \in Seq(Step) /\ Proper(q) /\ q # << >> /\ Head(q) = Unlock
    BY <2>2, <2>4, ProperCat
  <2> HIDE DEF q
  <2>6. Missed(f, x) = q \o Again(f)
    BY <1>1 DEF Missed, Rejected, p, q
  <2>7. QED
    BY <2>2, <2>5, <2>6, ProperCat
<1>2. CASE x \notin Malformed
  <2>1. Missed(f, x) = <<Add(x), Unlock>> \o Again(f)
    BY <1>2 DEF Missed, Allocated
  <2>2. /\ <<Add(x), Unlock>> \in Seq(Step) /\ Proper(<<Add(x), Unlock>>)
        /\ <<Add(x), Unlock>> # << >> /\ Head(<<Add(x), Unlock>>) = Add(x)
    BY StepKinds, ProperPair
  <2>3. QED
    BY <2>1, <2>2, ProperCat, NewCall
<1>3. QED
  BY <1>1, <1>2

\* Taking off the first step; after any but Lock, the rest can follow others.
LEMMA ProperTail ==
  ASSUME NEW q \in Seq(Step), q # << >>, Proper(q)
  PROVE  /\ Tail(q) \in Seq(Step) /\ Proper(Tail(q))
         /\ Tail(q) # << >> => ~Inserts(Head(Tail(q)))
         /\ Head(q) # Lock => Follows(Tail(q))
<1>1. Tail(q) \in Seq(Step) /\ Len(Tail(q)) = Len(q) - 1 /\ Len(q) \in Nat /\ Len(q) > 0
  OBVIOUS
<1>2. \A i \in 1 .. Len(q) - 1 : Tail(q)[i] = q[i + 1]
  OBVIOUS
<1>3. Proper(Tail(q))
  <2>1. ASSUME NEW i \in 2 .. Len(Tail(q))
        PROVE  Tail(q)[i] = q[i + 1] /\ Tail(q)[i - 1] = q[i] /\ i + 1 \in 2 .. Len(q)
                 /\ (i + 1) - 1 = i
    BY <1>1, <1>2
  <2>2. QED
    BY <1>1, <2>1 DEF Proper
<1>4. ASSUME Tail(q) # << >>
      PROVE  ~Inserts(Head(Tail(q))) /\ (Looks(Head(Tail(q))) => Head(q) = Lock)
  <2>1. Head(Tail(q)) = q[2] /\ Head(q) = q[1] /\ 2 \in 2 .. Len(q) /\ 2 - 1 = 1
    BY <1>1, <1>2, <1>4
  <2>2. QED
    BY <2>1 DEF Proper
<1>5. QED
  BY <1>1, <1>3, <1>4 DEF Follows

-----------------------------------------------------------------------------
(* The invariant.                                                          *)

LEMMA InitInv ==
  ASSUME Init
  PROVE  IInv
<1>1. /\ locked = FALSE /\ objects = [x \in Text |-> 0] /\ todo = [t \in Thread |-> << >>]
      /\ holder = {} /\ stray = FALSE
  BY DEF Init
<1>2. Proper(<< >>) /\ << >> \in Seq(Step)
  BY DEF Proper
<1>3. Shape
  BY <1>1, <1>2 DEF Shape
<1>4. Inside
  BY <1>1 DEF Inside, Steps, OneObjectPerText
<1>5. QED
  BY <1>3, <1>4 DEF IInv

LEMMA AskKeeps ==
  ASSUME IInv, NEW t \in Thread, NEW f \in Function, NEW x \in Text, Ask(t, f, x)
  PROVE  IInv'
<1>1. /\ todo' = [todo EXCEPT ![t] = Call(f, x)]
      /\ UNCHANGED <<locked, objects, holder, stray>>
  BY DEF Ask
<1>2. /\ Call(f, x) \in Seq(Step) /\ Proper(Call(f, x)) /\ Head(Call(f, x)) = Lock
  BY NewCall DEF Follows
<1>3. Shape'
  BY <1>1, <1>2 DEF IInv, Shape
<1>4. ASSUME Inside
      PROVE  Inside'
  <2>1. ASSUME NEW u \in Thread, Steps(u)'
        PROVE  /\ Looks(Now(u))' \/ Inserts(Now(u))' => u \in holder
               /\ Inserts(Now(u))' => objects[Now(u)'.text] = 0
    <3>1. CASE u = t
      <4>1. Now(u)' = Lock
        BY <1>1, <1>2, <3>1 DEF Now, IInv, Shape
      <4>2. QED
        BY <4>1, StepKinds DEF Looks, Inserts
    <3>2. CASE u # t
      <4>1. todo'[u] = todo[u]
        BY <1>1, <3>2 DEF IInv, Shape
      <4>2. QED
        BY <1>4, <2>1, <4>1 DEF Inside, Steps, Now, Looks, Inserts
    <3>3. QED
      BY <3>1, <3>2
  <2>2. QED
    BY <1>1, <1>4, <2>1 DEF Inside, OneObjectPerText, Steps, Now, Looks, Inserts
<1>5. QED
  BY <1>1, <1>3, <1>4 DEF IInv

\* A thread that goes on disturbs no other one's steps.
LEMMA GoOthers ==
  ASSUME Shape, NEW t \in Thread, NEW new, Go(t, new)
  PROVE  /\ todo'[t] = new \o Tail(todo[t])
         /\ \A u \in Thread \ {t} : todo'[u] = todo[u] /\ (Steps(u)' <=> Steps(u)) /\ Now(u)' = Now(u)
BY DEF Shape, Go, Steps, Now

LEMMA GoShape ==
  ASSUME Shape, NEW t \in Thread, NEW new, Go(t, new),
         new \o Tail(todo[t]) \in Seq(Step), Proper(new \o Tail(todo[t]))
  PROVE  todo' \in [Thread -> Seq(Step)] /\ \A u \in Thread : Proper(todo'[u])
BY DEF Shape, Go

LEMMA ObtainKeeps ==
  ASSUME IInv, NEW t \in Thread, Obtain(t)
  PROVE  IInv'
<1>1. /\ Shape /\ Steps(t) /\ ~locked /\ locked' = TRUE /\ holder' = holder \cup {t}
      /\ Go(t, << >>) /\ UNCHANGED <<objects, stray>>
  BY DEF IInv, Obtain
<1>2. todo[t] \in Seq(Step) /\ todo[t] # << >> /\ Proper(todo[t])
  BY <1>1 DEF Shape, Steps
<1>3. /\ Tail(todo[t]) \in Seq(Step) /\ Proper(Tail(todo[t]))
      /\ Tail(todo[t]) # << >> => ~Inserts(Head(Tail(todo[t])))
  BY <1>2, ProperTail
<1>4. << >> \o Tail(todo[t]) = Tail(todo[t])
  BY <1>3
<1>5. Shape'
  BY <1>1, <1>3, <1>4, GoShape DEF Shape
<1>6. ASSUME Inside
      PROVE  Inside'
  <2>1. holder = {} /\ holder' = {t}
    BY <1>1, <1>6 DEF Inside
  <2>2. ASSUME NEW u \in Thread, Steps(u)'
        PROVE  /\ Looks(Now(u)') \/ Inserts(Now(u)') => u \in holder'
               /\ Inserts(Now(u)') => objects[Now(u)'.text] = 0
    <3>1. CASE u = t
      BY <1>1, <1>3, <1>4, <2>1, <2>2, <3>1, GoOthers DEF Steps, Now
    <3>2. CASE u # t
      BY <1>1, <1>6, <2>1, <2>2, <3>2, GoOthers DEF Inside
    <3>3. QED
      BY <3>1, <3>2
  <2>3. QED
    BY <1>1, <1>6, <2>1, <2>2 DEF Inside, OneObjectPerText, Looks, Inserts
<1>7. QED
  BY <1>1, <1>5, <1>6 DEF IInv

LEMMA ReleaseKeeps ==
  ASSUME IInv, NEW t \in Thread, Release(t)
  PROVE  IInv'
<1>1. /\ Shape /\ Steps(t) /\ Now(t).do = "release" /\ locked' = FALSE /\ holder' = holder \ {t}
      /\ stray' = (stray \/ t \notin holder) /\ Go(t, << >>) /\ UNCHANGED objects
  BY DEF IInv, Release
<1>2. todo[t] \in Seq(Step) /\ todo[t] # << >> /\ Proper(todo[t])
  BY <1>1 DEF Shape, Steps
<1>3. Head(todo[t]) # Lock
  BY <1>1 DEF Now, Lock
<1>4. /\ Tail(todo[t]) \in Seq(Step) /\ Proper(Tail(todo[t])) /\ Follows(Tail(todo[t]))
  BY <1>2, <1>3, ProperTail
<1>5. << >> \o Tail(todo[t]) = Tail(todo[t])
  BY <1>4
<1>6. Shape'
  BY <1>1, <1>4, <1>5, GoShape DEF Shape
<1>7. ASSUME Inside, t \in holder
      PROVE  Inside'
  <2>1. holder = {t} /\ holder' = {}
    BY <1>1, <1>7 DEF Inside
  <2>2. ASSUME NEW u \in Thread, Steps(u)'
        PROVE  ~Looks(Now(u)') /\ ~Inserts(Now(u)')
    <3>1. CASE u = t
      BY <1>1, <1>4, <1>5, <2>2, <3>1, GoOthers DEF Steps, Now, Follows
    <3>2. CASE u # t
      BY <1>1, <1>7, <2>1, <2>2, <3>2, GoOthers DEF Inside
    <3>3. QED
      BY <3>1, <3>2
  <2>3. QED
    BY <1>1, <1>7, <2>1, <2>2 DEF Inside, OneObjectPerText, Looks, Inserts
<1>8. QED
  BY <1>1, <1>6, <1>7 DEF IInv, Shape

\* A lookup or insertion by t, whose next step then is s.
LEMMA WorkKeeps ==
  ASSUME IInv, NEW t \in Thread, NEW new, Go(t, new), UNCHANGED <<locked, holder, stray>>,
         Steps(t), Looks(Now(t)) \/ Inserts(Now(t)),
         new \o Tail(todo[t]) \in Seq(Step), Proper(new \o Tail(todo[t])),
         objects' \in [Text -> Nat],
         ~stray => OneObjectPerText',
         LET q == new \o Tail(todo[t])
         IN  q # << >> =>
               ~Looks(Head(q)) /\ (Inserts(Head(q)) => objects'[Head(q).text] = 0)
  PROVE  IInv'
<1>1. Shape
  BY DEF IInv
<1>2. Shape'
  BY <1>1, GoShape DEF Shape
<1>3. ASSUME Inside, ~stray
      PROVE  Inside'
  <2>1. holder = {t} /\ holder' = {t} /\ locked'
    BY <1>3 DEF Inside
  <2>2. ASSUME NEW u \in Thread, Steps(u)'
        PROVE  /\ Looks(Now(u)') \/ Inserts(Now(u)') => u \in holder'
               /\ Inserts(Now(u)') => objects'[Now(u)'.text] = 0
    <3>1. CASE u = t
      BY <1>1, <2>1, <2>2, <3>1, GoOthers DEF Steps, Now
    <3>2. CASE u # t
      BY <1>1, <1>3, <2>1, <2>2, <3>2, GoOthers DEF Inside
    <3>3. QED
      BY <3>1, <3>2
  <2>3. QED
    BY <1>3, <2>1, <2>2 DEF Inside, Looks, Inserts
<1>4. QED
  BY <1>2, <1>3 DEF IInv

LEMMA FoundKeeps ==
  ASSUME IInv, NEW t \in Thread, Found(t)
  PROVE  IInv'
<1> DEFINE f == Now(t).by
           x == Now(t).text
           q == Hit(f, x) \o Tail(todo[t])
<1>1. /\ Shape /\ Steps(t) /\ Looks(Now(t)) /\ Go(t, Hit(f, x))
      /\ UNCHANGED <<locked, objects, holder, stray>>
  BY DEF IInv, Found, Looks
<1>2. todo[t] \in Seq(Step) /\ todo[t] # << >> /\ Proper(todo[t]) /\ Now(t) \in Step
  BY <1>1 DEF Shape, Steps, Now
<1>3. f \in Function /\ x \in Text
  BY <1>1, <1>2, StepKinds
<1>4. Head(todo[t]) # Lock
  BY <1>1, StepKinds DEF Now
<1>5. Follows(Tail(todo[t]))
  BY <1>2, <1>4, ProperTail
<1>6. Hit(f, x) \in Seq(Step) /\ Proper(Hit(f, x)) /\ Hit(f, x) # << >> /\ Head(Hit(f, x)) = Unlock
  BY <1>3, NewCall DEF Follows
<1> HIDE DEF f, x
<1>7. q \in Seq(Step) /\ Proper(q) /\ q # << >> /\ Head(q) = Unlock
  BY <1>5, <1>6, ProperCat
<1>8. objects' \in [Text -> Nat] /\ (~stray => OneObjectPerText')
  BY <1>1 DEF Shape, IInv, Inside, OneObjectPerText
<1>9. QED
  BY <1>1, <1>7, <1>8, StepKinds, WorkKeeps

LEMMA NotFoundKeeps ==
  ASSUME IInv, NEW t \in Thread, NotFound(t)
  PROVE  IInv'
<1> DEFINE f == Now(t).by
           x == Now(t).text
           q == Missed(f, x) \o Tail(todo[t])
<1>1. /\ Shape /\ Steps(t) /\ Looks(Now(t)) /\ Go(t, Missed(f, x)) /\ objects[x] = 0
      /\ UNCHANGED <<locked, objects, holder, stray>>
  BY DEF IInv, NotFound, Looks
<1>2. todo[t] \in Seq(Step) /\ todo[t] # << >> /\ Proper(todo[t]) /\ Now(t) \in Step
  BY <1>1 DEF Shape, Steps, Now
<1>3. f \in Function /\ x \in Text
  BY <1>1, <1>2, StepKinds
<1>4. Head(todo[t]) # Lock
  BY <1>1, StepKinds DEF Now
<1>5. Follows(Tail(todo[t]))
  BY <1>2, <1>4, ProperTail
<1>6. /\ Missed(f, x) \in Seq(Step) /\ Proper(Missed(f, x)) /\ Missed(f, x) # << >>
      /\ Head(Missed(f, x)) \in {Unlock, Add(x)}
  BY <1>3, NewMissed
<1> HIDE DEF f, x
<1>7. q \in Seq(Step) /\ Proper(q) /\ q # << >> /\ Head(q) \in {Unlock, Add(x)}
  BY <1>5, <1>6, ProperCat
<1>8. ~Looks(Head(q)) /\ (Inserts(Head(q)) => objects'[Head(q).text] = 0)
  BY <1>1, <1>7, StepKinds
<1>9. objects' \in [Text -> Nat] /\ (~stray => OneObjectPerText')
  BY <1>1 DEF Shape, IInv, Inside, OneObjectPerText
<1>10. QED
  BY <1>1, <1>7, <1>8, <1>9, WorkKeeps

LEMMA InsertKeeps ==
  ASSUME IInv, NEW t \in Thread, Insert(t)
  PROVE  IInv'
<1> DEFINE x == Now(t).text
<1>1. /\ Shape /\ Steps(t) /\ Inserts(Now(t)) /\ Go(t, << >>)
      /\ objects' = [objects EXCEPT ![x] = @ + 1]
      /\ UNCHANGED <<locked, holder, stray>>
  BY DEF IInv, Insert, Inserts
<1>2. todo[t] \in Seq(Step) /\ todo[t] # << >> /\ Proper(todo[t]) /\ Now(t) \in Step
  BY <1>1 DEF Shape, Steps, Now
<1>3. x \in Text
  BY <1>1, <1>2, StepKinds
<1>4. Head(todo[t]) # Lock
  BY <1>1, StepKinds DEF Now
<1>5. Follows(Tail(todo[t])) /\ << >> \o Tail(todo[t]) = Tail(todo[t])
  BY <1>2, <1>4, ProperTail
<1>6. ~stray => objects[x] = 0
  BY <1>1 DEF IInv, Inside
<1> HIDE DEF x
<1>7. objects' \in [Text -> Nat] /\ (~stray => OneObjectPerText')
  BY <1>1, <1>3, <1>6 DEF Shape, IInv, Inside, OneObjectPerText
<1>8. QED
  BY <1>1, <1>5, <1>7, WorkKeeps DEF Follows

LEMMA NextInv == IInv /\ [Next]_vars => IInv'
<1> SUFFICES ASSUME IInv, [Next]_vars
             PROVE  IInv'
  OBVIOUS
<1>1. CASE UNCHANGED vars
  BY <1>1 DEF vars, IInv, Shape, Inside, OneObjectPerText, Steps, Now, Looks, Inserts
<1>2. CASE Next
  BY <1>2, AskKeeps, ObtainKeeps, ReleaseKeeps, FoundKeeps, NotFoundKeeps, InsertKeeps
  DEF Next, Run
<1>3. QED
  BY <1>1, <1>2

-----------------------------------------------------------------------------
(* The theorem.                                                            *)

\* As long as no thread releases _stringLock without holding it, no two
\* string objects with the same text are ever put into the intern table, for
\* any number of threads calling krk_takeString, krk_copyString and
\* krk_takeStringVetted with any texts, malformed ones included.
THEOREM UniqueWhileLocked == Spec => []UniqueUnlessStray
<1>1. Init => IInv
  BY InitInv
<1>2. IInv => UniqueUnlessStray
  BY DEF IInv, Inside, UniqueUnlessStray
<1>3. QED
  BY <1>1, <1>2, NextInv, PTL DEF Spec

-----------------------------------------------------------------------------
(* Answers, lengths and the lock at rest, for which it does not matter     *)
(* whether a release is by the holder.                                     *)

\* What a caller that asked for x may get.
Right(y, x) == y = x \/ (x \in Malformed /\ y = Empty)

Gives(s) == Looks(s) \/ Inserts(s)
Silent(q) == \A i \in 1 .. Len(q) : ~Gives(q[i])

\* The last lookup or insertion to come is of a right answer.
Answers(q, x) ==
  \E i \in 1 .. Len(q) :
    Gives(q[i]) /\ Right(q[i].text, x) /\ \A j \in i + 1 .. Len(q) : ~Gives(q[j])

Settled(q, x, r) == Answers(q, x) \/ (Silent(q) /\ Right(r, x))

\* After the lock comes a lookup, after an insertion a release.
Chained(q) ==
  \A i \in 1 .. Len(q) :
    /\ q[i] = Lock => i < Len(q) /\ Looks(q[i + 1])
    /\ Inserts(q[i]) => i < Len(q) /\ q[i + 1] = Unlock

\* A malformed text is looked up last, another before at most three steps.
Short(q) ==
  /\ Len(q) <= 6
  /\ \A i \in 1 .. Len(q) :
       Looks(q[i]) => Len(q) - i <= 3 /\ (q[i].text \in Malformed => i = Len(q))

Fit(q) == q \in Seq(Step) /\ Chained(q) /\ Short(q)

\* A thread that is about to do something else than obtain the lock.
Busy(t) == todo[t] # << >> /\ Head(todo[t]) # Lock

AInv ==
  /\ todo \in [Thread -> Seq(Step)] /\ asked \in [Thread -> Text] /\ result \in [Thread -> Text]
  /\ locked \in BOOLEAN
  /\ \A t \in Thread : Fit(todo[t]) /\ Settled(todo[t], asked[t], result[t])
  /\ locked => \E t \in Thread : Busy(t)

LEMMA SettledCat ==
  ASSUME NEW p \in Seq(Step), NEW q \in Seq(Step), NEW x, NEW r
  PROVE  /\ Answers(q, x) => Settled(p \o q, x, r)
         /\ Answers(p, x) /\ Silent(q) => Settled(p \o q, x, r)
         /\ Silent(p) /\ Silent(q) /\ Right(r, x) => Settled(p \o q, x, r)
<1> DEFINE z == p \o q
           n == Len(p)
           m == Len(q)
<1>1. /\ n \in Nat /\ m \in Nat /\ Len(z) = n + m
      /\ \A i \in 1 .. n : z[i] = p[i]
      /\ \A i \in n + 1 .. n + m : i - n \in 1 .. m /\ z[i] = q[i - n]
  OBVIOUS
<1> HIDE DEF z, n, m
<1>2. ASSUME Answers(q, x)
      PROVE  Answers(z, x)
  <2>1. PICK i \in 1 .. m : Gives(q[i]) /\ Right(q[i].text, x) /\ \A j \in i + 1 .. m : ~Gives(q[j])
    BY <1>2 DEF Answers, m
  <2>2. n + i \in n + 1 .. n + m /\ n + i - n = i /\ n + i \in 1 .. Len(z)
    BY <1>1, <2>1
  <2>3. \A j \in n + i + 1 .. Len(z) : j \in n + 1 .. n + m /\ j - n \in i + 1 .. m
    BY <1>1, <2>1
  <2>4. Gives(z[n + i]) /\ Right(z[n + i].text, x) /\ \A j \in n + i + 1 .. Len(z) : ~Gives(z[j])
    BY <1>1, <2>1, <2>2, <2>3
  <2>5. QED
    BY <2>2, <2>4 DEF Answers
<1>3. ASSUME Answers(p, x), Silent(q)
      PROVE  Answers(z, x)
  <2>1. PICK i \in 1 .. n : Gives(p[i]) /\ Right(p[i].text, x) /\ \A j \in i + 1 .. n : ~Gives(p[j])
    BY <1>3 DEF Answers, n
  <2>2. i \in 1 .. Len(z) /\ z[i] = p[i]
    BY <1>1, <2>1
  <2>3. ASSUME NEW j \in i + 1 .. Len(z)
        PROVE  ~Gives(z[j])
    <3>1. CASE j \in i + 1 .. n
      BY <3>1, <1>1, <2>1
    <3>2. CASE j \in n + 1 .. n + m
      BY <3>2, <1>1, <1>3 DEF Silent, m
    <3>3. QED
      BY <1>1, <2>3, <3>1, <3>2
  <2>4. QED
    BY <2>1, <2>2, <2>3 DEF Answers
<1>4. ASSUME Silent(p), Silent(q)
      PROVE  Silent(z)
  <2>1. SUFFICES ASSUME NEW j \in 1 .. Len(z)
                 PROVE  ~Gives(z[j])
    BY DEF Silent
  <2>2. CASE j \in 1 .. n
    BY <2>2, <1>1, <1>4 DEF Silent, n
  <2>3. CASE j \in n + 1 .. n + m
    BY <2>3, <1>1, <1>4 DEF Silent, m
  <2>4. QED
    BY <1>1, <2>1, <2>2, <2>3
<1>5. QED
  BY <1>2, <1>3, <1>4 DEF Settled, z

\* Steps p, without lookups, before the steps q.
LEMMA FitCat ==
  ASSUME NEW p \in Seq(Step), NEW q, Fit(q), Chained(p), Len(p) + Len(q) <= 6,
         \A i \in 1 .. Len(p) : ~Looks(p[i])
  PROVE  Fit(p \o q)
<1> DEFINE z == p \o q
           n == Len(p)
           m == Len(q)
<1>1. q \in Seq(Step) /\ Chained(q) /\ Short(q)
  BY DEF Fit
<1>2. /\ z \in Seq(Step) /\ n \in Nat /\ m \in Nat /\ Len(z) = n + m
      /\ \A i \in 1 .. n : z[i] = p[i]
      /\ \A i \in n + 1 .. n + m : i - n \in 1 .. m /\ z[i] = q[i - n]
  BY <1>1
<1>3. n + m <= 6 /\ (\A i \in 1 .. n : ~Looks(p[i]))
  OBVIOUS
<1> HIDE DEF z, n, m
<1>4. ASSUME NEW i \in 1 .. Len(z)
      PROVE  /\ z[i] = Lock => i < Len(z) /\ Looks(z[i + 1])
             /\ Inserts(z[i]) => i < Len(z) /\ z[i + 1] = Unlock
  <2>1. CASE i \in 1 .. n
    <3>1. /\ z[i] = Lock => i < n /\ Looks(p[i + 1])
          /\ Inserts(z[i]) => i < n /\ p[i + 1] = Unlock
      BY <2>1, <1>2 DEF Chained, n
    <3>2. i < n => z[i + 1] = p[i + 1]
      BY <2>1, <1>2
    <3>3. QED
      BY <3>1, <3>2, <2>1, <1>2
  <2>2. CASE i \in n + 1 .. n + m
    <3>1. /\ z[i] = Lock => i - n < m /\ Looks(q[i - n + 1])
          /\ Inserts(z[i]) => i - n < m /\ q[i - n + 1] = Unlock
      BY <2>2, <1>1, <1>2 DEF Chained, m
    <3>2. i - n < m => z[i + 1] = q[i - n + 1]
      <4>1. SUFFICES ASSUME i - n < m
                     PROVE  i + 1 \in n + 1 .. n + m /\ i + 1 - n = i - n + 1
        BY <1>2
      <4>2. QED
        BY <4>1, <2>2, <1>2
    <3>3. QED
      BY <3>1, <3>2, <2>2, <1>2
  <2>3. QED
    BY <1>2, <1>4, <2>1, <2>2
<1>5. ASSUME NEW i \in 1 .. Len(z), Looks(z[i])
      PROVE  Len(z) - i <= 3 /\ (z[i].text \in Malformed => i = Len(z))
  <2>1. CASE i \in 1 .. n
    BY <2>1, <1>2, <1>3, <1>5
  <2>2. CASE i \in n + 1 .. n + m
    <3>1. m - (i - n) <= 3 /\ (z[i].text \in Malformed => i - n = m)
      BY <2>2, <1>1, <1>2, <1>5 DEF Short, m
    <3>2. QED
      BY <3>1, <2>2, <1>2
  <2>3. QED
    BY <1>2, <1>5, <2>1, <2>2
<1>6. QED
  BY <1>2, <1>3, <1>4, <1>5 DEF Fit, Chained, Short, z

\* What is left after a step, and what it says about the step.
LEMMA FitTail ==
  ASSUME NEW q, Fit(q), q # << >>, NEW x, NEW r, Settled(q, x, r)
  PROVE  /\ Fit(Tail(q)) /\ Len(Tail(q)) <= 5
         /\ Head(q) = Lock => Tail(q) # << >> /\ Looks(Head(Tail(q)))
         /\ Inserts(Head(q)) => Tail(q) # << >> /\ Head(Tail(q)) = Unlock
         /\ Looks(Head(q)) => Len(Tail(q)) <= 3 /\ (Head(q).text \in Malformed => Tail(q) = << >>)
         /\ ~Gives(Head(q)) => Settled(Tail(q), x, r)
         /\ Gives(Head(q)) => Answers(Tail(q), x) \/ (Silent(Tail(q)) /\ Right(Head(q).text, x))
<1> DEFINE z == Tail(q)
           n == Len(q)
<1>1. q \in Seq(Step) /\ Chained(q) /\ Short(q)
  BY DEF Fit
<1>2. /\ n \in Nat /\ n > 0 /\ z \in Seq(Step) /\ Len(z) = n - 1 /\ Head(q) = q[1]
      /\ \A i \in 1 .. n - 1 : z[i] = q[i + 1] /\ i + 1 \in 2 .. n
      /\ n > 1 => z # << >> /\ Head(z) = q[2]
      /\ n = 1 => z = << >>
  <2>1. n \in Nat /\ n > 0 /\ z \in Seq(Step) /\ Len(z) = n - 1 /\ Head(q) = q[1]
    BY <1>1
  <2>2. \A i \in 1 .. n - 1 : z[i] = q[i + 1] /\ i + 1 \in 2 .. n
    BY <1>1
  <2> HIDE DEF z, n
  <2>3. n > 1 => z # << >> /\ Head(z) = q[2]
    BY <2>1, <2>2
  <2>4. n = 1 => z = << >>
    BY <2>1
  <2>5. QED
    BY <2>1, <2>2, <2>3, <2>4
<1>3. /\ \A i \in 1 .. n : /\ q[i] = Lock => i < n /\ Looks(q[i + 1])
                           /\ Inserts(q[i]) => i < n /\ q[i + 1] = Unlock
                           /\ Looks(q[i]) => n - i <= 3 /\ (q[i].text \in Malformed => i = n)
      /\ n <= 6
  BY <1>1 DEF Chained, Short
<1> HIDE DEF z, n
<1>4. \A i \in 1 .. n - 1 : /\ z[i] = Lock => i < n - 1 /\ Looks(z[i + 1])
                            /\ Inserts(z[i]) => i < n - 1 /\ z[i + 1] = Unlock
                            /\ Looks(z[i]) => n - 1 - i <= 3 /\ (z[i].text \in Malformed => i = n - 1)
  <2>1. SUFFICES ASSUME NEW i \in 1 .. n - 1
                 PROVE  /\ z[i] = Lock => i < n - 1 /\ Looks(z[i + 1])
                        /\ Inserts(z[i]) => i < n - 1 /\ z[i + 1] = Unlock
                        /\ Looks(z[i]) => n - 1 - i <= 3 /\ (z[i].text \in Malformed => i = n - 1)
    OBVIOUS
  <2>2. i + 1 \in 1 .. n /\ z[i] = q[i + 1]
    BY <1>2
  <2>3. i + 1 < n => i + 1 \in 1 .. n - 1 /\ z[i + 1] = q[i + 1 + 1]
    BY <1>2
  <2>4. QED
    BY <1>2, <1>3, <2>2, <2>3
<1>5. Fit(z) /\ Len(z) <= 5
  BY <1>2, <1>3, <1>4 DEF Fit, Chained, Short
<1>6. /\ Head(q) = Lock => z # << >> /\ Looks(Head(z))
      /\ Inserts(Head(q)) => z # << >> /\ Head(z) = Unlock
      /\ Looks(Head(q)) => Len(z) <= 3 /\ (Head(q).text \in Malformed => z = << >>)
  BY <1>2, <1>3
<1>7. Silent(q) => Silent(z) /\ ~Gives(Head(q))
  BY <1>2 DEF Silent, n
<1>8. ASSUME Answers(q, x)
      PROVE  Answers(z, x) \/ (Gives(Head(q)) /\ Silent(z) /\ Right(Head(q).text, x))
  <2>1. PICK i \in 1 .. n : Gives(q[i]) /\ Right(q[i].text, x) /\ \A j \in i + 1 .. n : ~Gives(q[j])
    BY <1>8 DEF Answers, n
  <2>2. \A j \in i .. Len(z) : j \in 1 .. n - 1 /\ j + 1 \in i + 1 .. n
    BY <1>2, <2>1
  <2>3. \A j \in i .. Len(z) : ~Gives(z[j])
    BY <1>2, <2>1, <2>2
  <2>4. CASE i = 1
    BY <1>2, <2>1, <2>3, <2>4 DEF Silent
  <2>5. CASE i # 1
    <3>1. i - 1 \in 1 .. Len(z) /\ z[i - 1] = q[i] /\ (i - 1) + 1 = i
      BY <1>2, <2>1, <2>5
    <3>2. QED
      BY <2>1, <2>3, <3>1 DEF Answers
  <2>6. QED
    BY <2>4, <2>5
<1>9. QED
  BY <1>5, <1>6, <1>7, <1>8 DEF Settled, z

LEMMA Cat ==
  ASSUME NEW p \in Seq(Step), NEW q \in Seq(Step)
  PROVE  /\ p \o q \in Seq(Step) /\ Len(p \o q) = Len(p) + Len(q) /\ Len(p) \in Nat /\ Len(q) \in Nat
         /\ \A i \in 1 .. Len(p) : (p \o q)[i] = p[i]
         /\ \A i \in 1 .. Len(q) : (p \o q)[Len(p) + i] = q[i]
         /\ q = << >> => p \o q = p
OBVIOUS

LEMMA OneAndTwo ==
  ASSUME NEW a \in Step, NEW b \in Step
  PROVE  /\ <<a>> \in Seq(Step) /\ Len(<<a>>) = 1 /\ <<a>>[1] = a
         /\ <<a, b>> \in Seq(Step) /\ Len(<<a, b>>) = 2 /\ <<a, b>>[1] = a /\ <<a, b>>[2] = b
         /\ << >> \in Seq(Step) /\ Len(<< >>) = 0
OBVIOUS

\* The steps the functions put in front of others.
LEMMA CallFits ==
  ASSUME NEW f \in Function, NEW x \in Text, NEW r
  PROVE  Fit(Call(f, x)) /\ Answers(Call(f, x), x) /\ Call(f, x) # << >>
<1>1. Lock \in Step /\ Find(f, x) \in Step /\ Find(f, x).text = x /\ Find(f, x) # Lock
  BY StepKinds DEF Find, Lock
<1>2. Looks(Find(f, x)) /\ ~Inserts(Find(f, x)) /\ ~Looks(Lock) /\ ~Inserts(Lock)
  BY StepKinds
<1> DEFINE a == Lock
           b == Find(f, x)
<1> HIDE DEF a, b
<1>3. <<a, b>> \in Seq(Step) /\ Len(<<a, b>>) = 2 /\ <<a, b>>[1] = a /\ <<a, b>>[2] = b /\ <<a, b>> # << >>
  BY <1>1 DEF a, b
<1>4. Fit(<<a, b>>)
  BY <1>1, <1>2, <1>3 DEF Fit, Chained, Short, a, b
<1>5. Answers(<<a, b>>, x)
  BY <1>1, <1>2, <1>3 DEF Answers, Gives, Right, a, b
<1>6. QED
  BY <1>3, <1>4, <1>5 DEF Call, a, b

\* The new steps after a lookup, with the steps q before which they come.
LEMMA HitFits ==
  ASSUME NEW f \in Function, NEW y \in Text, NEW q, Fit(q), Len(q) <= 5, NEW x,
         Answers(q, x) \/ (Silent(q) /\ Right(y, x))
  PROVE  LET z == Hit(f, y) \o q
         IN  Fit(z) /\ Settled(z, x, y) /\ z # << >> /\ Head(z) # Lock
<1> DEFINE p == Hit(f, y)
<1>1. /\ p \in Seq(Step) /\ Len(p) = 1 /\ p[1] = Unlock
  BY StepKinds DEF Hit
<1>2. ~Looks(Unlock) /\ ~Inserts(Unlock) /\ Unlock # Lock
  BY StepKinds DEF Unlock, Lock
<1> HIDE DEF p
<1>3. Chained(p) /\ Silent(p)
  BY <1>1, <1>2 DEF Chained, Silent, Gives
<1>4. q \in Seq(Step)
  BY DEF Fit
<1>5. Fit(p \o q)
  <2>1. Len(p) + Len(q) <= 6
    BY <1>1, <1>4
  <2>2. \A i \in 1 .. Len(p) : ~Looks(p[i])
    BY <1>3 DEF Silent, Gives
  <2>3. QED
    BY <1>1, <1>3, <2>1, <2>2, FitCat
<1>6. Settled(p \o q, x, y)
  BY <1>1, <1>3, <1>4, SettledCat
<1>7. p \o q # << >> /\ Head(p \o q) = Unlock
  BY <1>1, <1>4
<1>8. QED
  BY <1>2, <1>5, <1>6, <1>7 DEF p

LEMMA AllocatedFits ==
  ASSUME NEW f \in Function, NEW y \in Text, NEW q, Fit(q), Len(q) <= 3, NEW x, NEW r,
         Answers(q, x) \/ (Silent(q) /\ Right(y, x))
  PROVE  LET z == Allocated(f, y) \o q
         IN  Fit(z) /\ Settled(z, x, r) /\ z # << >> /\ Head(z) # Lock
<1> DEFINE a == Add(y)
           u == Unlock
           p == Allocated(f, y)
<1>1. /\ a \in Step /\ a # Lock /\ ~Looks(a) /\ Inserts(a) /\ a.text = y
      /\ u \in Step /\ u # Lock /\ ~Looks(u) /\ ~Inserts(u)
  BY StepKinds DEF Add, Unlock, Lock
<1>2. p = <<a, u>> \o Again(f) /\ (Again(f) = <<u>> \/ Again(f) = << >>)
  BY DEF Allocated, Again
<1> HIDE DEF a, u, p
<1>3. /\ p \in Seq(Step) /\ Len(p) \in {2, 3} /\ p[1] = a /\ p[2] = u /\ (Len(p) = 3 => p[3] = u)
  <2>1. /\ <<a, u>> \in Seq(Step) /\ Len(<<a, u>>) = 2 /\ <<a, u>>[1] = a /\ <<a, u>>[2] = u
        /\ <<u>> \in Seq(Step) /\ Len(<<u>>) = 1 /\ <<u>>[1] = u
        /\ << >> \in Seq(Step) /\ Len(<< >>) = 0
    BY <1>1, OneAndTwo
  <2> DEFINE z == <<a, u>>
             w == <<u>>
  <2> HIDE DEF z, w
  <2>2. CASE Again(f) = <<u>>
    <3>1. p \in Seq(Step) /\ Len(p) = 3 /\ (\A i \in 1 .. 2 : p[i] = z[i]) /\ p[2 + 1] = w[1]
      BY <1>2, <2>1, <2>2, Cat DEF z, w
    <3>2. QED
      BY <2>1, <3>1 DEF z, w
  <2>3. CASE Again(f) = << >>
    <3>1. p = z
      BY <1>2, <2>1, <2>3, Cat DEF z
    <3>2. QED
      BY <2>1, <3>1 DEF z
  <2>4. QED
    BY <1>2, <2>2, <2>3
<1>4. \A i \in 1 .. Len(p) : i = 1 \/ (i # 1 /\ p[i] = u)
  BY <1>3
<1>5. Chained(p) /\ \A i \in 1 .. Len(p) : ~Looks(p[i])
  BY <1>1, <1>3, <1>4 DEF Chained, u
<1>6. q \in Seq(Step)
  BY DEF Fit
<1>7. Fit(p \o q)
  <2>1. Len(p) + Len(q) <= 6
    <3>1. \A n \in {2, 3}, m \in Nat : m <= 3 => n + m <= 6
      OBVIOUS
    <3>2. Len(p) \in {2, 3}
      BY <1>3
    <3>3. Len(q) \in Nat
      BY <1>6
    <3>4. QED
      BY <3>1, <3>2, <3>3
  <2>2. QED
    BY <1>3, <1>5, <2>1, FitCat
<1>8. Right(y, x) => Answers(p, x)
  BY <1>1, <1>3, <1>4 DEF Answers, Gives
<1>9. Settled(p \o q, x, r)
  BY <1>3, <1>6, <1>8, SettledCat
<1>10. p \o q # << >> /\ Head(p \o q) = a
  BY <1>3, <1>6
<1>11. QED
  BY <1>1, <1>7, <1>9, <1>10 DEF p

LEMMA RejectedFits ==
  ASSUME NEW f \in Function, NEW y \in Malformed, NEW x, Right(y, x), NEW r
  PROVE  LET z == Rejected(f)
         IN  Fit(z) /\ Settled(z, x, r) /\ z # << >> /\ Head(z) # Lock
<1> DEFINE c == "krk_copyString"
           u == Unlock
           l == Lock
           m == Find(c, Message)
           e == Find(c, Empty)
           p == Rejected(f)
<1>1. /\ u \in Step /\ u # Lock /\ ~Looks(u) /\ ~Inserts(u)
      /\ l \in Step /\ ~Looks(l) /\ ~Inserts(l) /\ l = Lock
      /\ m \in Step /\ m # Lock /\ Looks(m) /\ ~Inserts(m) /\ m.text = Message
      /\ e \in Step /\ e # Lock /\ Looks(e) /\ ~Inserts(e) /\ e.text = Empty
  <2>1. c \in Function /\ Message \in Text /\ Empty \in Text
    BY TextAssumption DEF TextAssumption, Function
  <2>2. QED
    BY <2>1, StepKinds DEF Find, Unlock, Lock
<1>2. Message \notin Malformed /\ Empty \notin Malformed
  BY TextAssumption DEF TextAssumption
<1>3. x \in Malformed /\ Right(Empty, x)
  BY <1>2, TextAssumption DEF Right, TextAssumption
<1>4. p = <<u>> \o <<l, m>> \o <<l, e>> \o Again(f) /\ (Again(f) = <<u>> \/ Again(f) = << >>)
  BY DEF Rejected, Call, Again
<1> HIDE DEF u, l, m, e, p
<1>5. /\ p \in Seq(Step) /\ Len(p) \in {5, 6}
      /\ p[1] = u /\ p[2] = l /\ p[3] = m /\ p[4] = l /\ p[5] = e /\ (Len(p) = 6 => p[6] = u)
  <2> DEFINE w == <<u>>
             a == <<l, m>>
             b == <<l, e>>
             q == w \o a
             z == q \o b
  <2>1. /\ w \in Seq(Step) /\ Len(w) = 1 /\ w[1] = u
        /\ a \in Seq(Step) /\ Len(a) = 2 /\ a[1] = l /\ a[2] = m
        /\ b \in Seq(Step) /\ Len(b) = 2 /\ b[1] = l /\ b[2] = e
        /\ << >> \in Seq(Step)
    BY <1>1, OneAndTwo
  <2> HIDE DEF w, a, b
  <2>2. q \in Seq(Step) /\ Len(q) = 3 /\ q[1] = u /\ q[2] = l /\ q[3] = m
    <3>1. /\ q \in Seq(Step) /\ Len(q) = Len(w) + Len(a) /\ \A i \in 1 .. Len(w) : q[i] = w[i]
          /\ \A i \in 1 .. Len(a) : q[Len(w) + i] = a[i]
      BY <2>1, Cat
    <3> HIDE DEF q
    <3>2. QED
      BY <2>1, <3>1
  <2> HIDE DEF q
  <2>3. z \in Seq(Step) /\ Len(z) = 5 /\ z[1] = u /\ z[2] = l /\ z[3] = m /\ z[4] = l /\ z[5] = e
    <3>1. /\ z \in Seq(Step) /\ Len(z) = Len(q) + Len(b) /\ \A i \in 1 .. Len(q) : z[i] = q[i]
          /\ \A i \in 1 .. Len(b) : z[Len(q) + i] = b[i]
      BY <2>1, <2>2, Cat
    <3> HIDE DEF z
    <3>2. QED
      BY <2>1, <2>2, <3>1
  <2> HIDE DEF z
  <2>4. CASE Again(f) = <<u>>
    <3>1. p = z \o w
      BY <1>4, <2>4 DEF z, q, a, b, w
    <3>2. /\ p \in Seq(Step) /\ Len(p) = Len(z) + Len(w) /\ \A i \in 1 .. Len(z) : p[i] = z[i]
          /\ \A i \in 1 .. Len(w) : p[Len(z) + i] = w[i]
      BY <2>1, <2>3, <3>1, Cat
    <3>3. QED
      BY <2>1, <2>3, <3>2
  <2>5. CASE Again(f) = << >>
    <3>1. p = z
      BY <1>4, <2>1, <2>3, <2>5, Cat DEF z, q, a, b, w
    <3>2. QED
      BY <2>3, <3>1
  <2>6. QED
    BY <1>4, <2>4, <2>5
<1>6. \A i \in 1 .. Len(p) : i \in {1, 2, 3, 4, 5} \/ (i = 6 /\ Len(p) = 6)
  <2>1. \A n \in {5, 6} : \A i \in 1 .. n : i \in {1, 2, 3, 4, 5} \/ (i = 6 /\ n = 6)
    OBVIOUS
  <2>2. QED
    BY <1>5, <2>1
<1>7. Chained(p)
  BY <1>1, <1>5, <1>6 DEF Chained
<1>8. Short(p)
  BY <1>1, <1>2, <1>5, <1>6 DEF Short
<1>9. Answers(p, x)
  BY <1>1, <1>3, <1>5, <1>6 DEF Answers, Gives
<1>10. p # << >> /\ Head(p) = u
  BY <1>5
<1>11. QED
  BY <1>1, <1>5, <1>7, <1>8, <1>9, <1>10 DEF Fit, Settled, p

-----------------------------------------------------------------------------
LEMMA AInit == Init => AInv
<1> SUFFICES ASSUME Init
             PROVE  AInv
  OBVIOUS
<1>1. << >> \in Seq(Step) /\ Fit(<< >>) /\ Silent(<< >>)
  BY DEF Fit, Chained, Short, Silent
<1>2. Empty \in Text
  BY TextAssumption DEF TextAssumption
<1>3. Settled(<< >>, Empty, Empty)
  BY <1>1 DEF Settled, Right
<1>4. QED
  BY <1>1, <1>2, <1>3 DEF Init, AInv

\* A step by which t goes on to the steps q.
LEMMA AStep ==
  ASSUME AInv, NEW t \in Thread, NEW q, todo' = [todo EXCEPT ![t] = q], Fit(q),
         asked' \in [Thread -> Text], result' \in [Thread -> Text],
         \A u \in Thread \ {t} : asked'[u] = asked[u] /\ result'[u] = result[u],
         Settled(q, asked'[t], result'[t]),
         locked' \in BOOLEAN,
         locked' => (q # << >> /\ Head(q) # Lock) \/ (locked /\ todo[t] = << >>)
  PROVE  AInv'
<1>1. /\ todo' \in [Thread -> Seq(Step)] /\ todo'[t] = q
      /\ \A u \in Thread \ {t} : todo'[u] = todo[u]
  BY DEF AInv, Fit
<1>2. \A u \in Thread : Fit(todo'[u]) /\ Settled(todo'[u], asked'[u], result'[u])
  BY <1>1 DEF AInv
<1>3. locked' => \E u \in Thread : Busy(u)'
  <2>1. CASE q # << >> /\ Head(q) # Lock
    BY <1>1, <2>1 DEF Busy
  <2>2. CASE locked /\ todo[t] = << >>
    BY <1>1, <2>2 DEF Busy, AInv
  <2>3. QED
    BY <2>1, <2>2
<1>4. QED
  BY <1>1, <1>2, <1>3, Zenon DEF AInv

LEMMA ANext == AInv /\ [Next]_vars => AInv'
<1> SUFFICES ASSUME AInv, [Next]_vars
             PROVE  AInv'
  OBVIOUS
<1>1. CASE UNCHANGED vars
  BY <1>1, Zenon DEF vars, AInv, Busy
<1>2. ASSUME NEW t \in Thread, NEW f \in Function, NEW x \in Text, Ask(t, f, x)
      PROVE  AInv'
  <2>1. /\ todo' = [todo EXCEPT ![t] = Call(f, x)] /\ todo[t] = << >>
        /\ asked' = [asked EXCEPT ![t] = x] /\ result' = result /\ locked' = locked
    BY <1>2 DEF Ask
  <2>2. asked' \in [Thread -> Text] /\ asked'[t] = x /\ \A u \in Thread \ {t} : asked'[u] = asked[u]
    BY <2>1 DEF AInv
  <2>3. Settled(Call(f, x), x, result'[t])
    BY CallFits DEF Settled
  <2>4. QED
    BY <2>1, <2>2, <2>3, CallFits, AStep DEF AInv
<1>3. ASSUME NEW t \in Thread, Steps(t)
      PROVE  /\ Fit(todo[t]) /\ todo[t] # << >> /\ Settled(todo[t], asked[t], result[t])
             /\ todo[t] \in Seq(Step) /\ Now(t) = Head(todo[t]) /\ Now(t) \in Step
             /\ Fit(Tail(todo[t])) /\ << >> \o Tail(todo[t]) = Tail(todo[t])
  <2>1. Fit(todo[t]) /\ todo[t] # << >> /\ Settled(todo[t], asked[t], result[t]) /\ todo[t] \in Seq(Step)
    BY <1>3 DEF AInv, Steps
  <2>2. Fit(Tail(todo[t]))
    BY <2>1, FitTail
  <2>3. Now(t) = Head(todo[t]) /\ Now(t) \in Step /\ << >> \o Tail(todo[t]) = Tail(todo[t])
    BY <2>1, <2>2 DEF Now
  <2>4. QED
    BY <2>1, <2>2, <2>3
<1>4. ASSUME NEW t \in Thread, Obtain(t)
      PROVE  AInv'
  <2>1. /\ Steps(t) /\ todo' = [todo EXCEPT ![t] = << >> \o Tail(todo[t])] /\ Now(t) = Lock
        /\ UNCHANGED <<asked, result>> /\ locked' = TRUE
    BY <1>3, <1>4, StepKinds DEF Obtain, Go
  <2>2. /\ Settled(Tail(todo[t]), asked[t], result[t]) /\ Fit(Tail(todo[t]))
        /\ Tail(todo[t]) # << >> /\ Looks(Head(Tail(todo[t])))
    BY <2>1, <1>3, FitTail, StepKinds DEF Gives
  <2>3. Head(Tail(todo[t])) # Lock
    BY <2>2, StepKinds
  <2>4. QED
    BY <1>3, <2>1, <2>2, <2>3, AStep DEF AInv
<1>5. ASSUME NEW t \in Thread, Release(t)
      PROVE  AInv'
  <2>1. /\ Steps(t) /\ todo' = [todo EXCEPT ![t] = << >> \o Tail(todo[t])] /\ Now(t).do = "release"
        /\ UNCHANGED <<asked, result>> /\ locked' = FALSE
    BY <1>5 DEF Release, Go
  <2>2. Settled(Tail(todo[t]), asked[t], result[t]) /\ Fit(Tail(todo[t]))
    BY <2>1, <1>3, FitTail DEF Gives, Looks, Inserts
  <2>3. QED
    BY <1>3, <2>1, <2>2, AStep DEF AInv
<1>6. ASSUME NEW t \in Thread, Found(t)
      PROVE  AInv'
  <2> DEFINE y == Now(t).text
             f == Now(t).by
             q == Hit(f, y) \o Tail(todo[t])
  <2>1. /\ Steps(t) /\ todo' = [todo EXCEPT ![t] = q] /\ Looks(Now(t))
        /\ UNCHANGED <<asked, locked>> /\ result' = [result EXCEPT ![t] = y]
    BY <1>6 DEF Found, Go, Looks
  <2>2. f \in Function /\ y \in Text
    BY <1>3, <2>1, StepKinds
  <2>3. /\ Fit(Tail(todo[t])) /\ Len(Tail(todo[t])) <= 5
        /\ Answers(Tail(todo[t]), asked[t]) \/ (Silent(Tail(todo[t])) /\ Right(y, asked[t]))
    BY <1>3, <2>1, FitTail DEF Gives
  <2>4. result' \in [Thread -> Text] /\ result'[t] = y /\ \A u \in Thread \ {t} : result'[u] = result[u]
    BY <2>1, <2>2 DEF AInv
  <2> HIDE DEF y, f
  <2>5. Fit(q) /\ Settled(q, asked[t], y) /\ q # << >> /\ Head(q) # Lock
    BY <2>2, <2>3, HitFits
  <2>6. QED
    BY <2>1, <2>4, <2>5, AStep DEF AInv
<1>7. ASSUME NEW t \in Thread, NotFound(t)
      PROVE  AInv'
  <2> DEFINE y == Now(t).text
             f == Now(t).by
             q == Missed(f, y) \o Tail(todo[t])
  <2>1. /\ Steps(t) /\ todo' = [todo EXCEPT ![t] = q] /\ Looks(Now(t))
        /\ UNCHANGED <<asked, locked, result>>
    BY <1>7 DEF NotFound, Go, Looks
  <2>2. f \in Function /\ y \in Text
    BY <1>3, <2>1, StepKinds
  <2>3. /\ Fit(Tail(todo[t])) /\ Len(Tail(todo[t])) <= 3
        /\ y \in Malformed => Tail(todo[t]) = << >>
        /\ Answers(Tail(todo[t]), asked[t]) \/ (Silent(Tail(todo[t])) /\ Right(y, asked[t]))
    BY <1>3, <2>1, FitTail DEF Gives
  <2> HIDE DEF y, f
  <2>4. Fit(q) /\ Settled(q, asked[t], result[t]) /\ q # << >> /\ Head(q) # Lock
    <3>1. CASE y \notin Malformed
      BY <2>2, <2>3, <3>1, AllocatedFits DEF Missed
    <3>2. CASE y \in Malformed
      <4>1. ~Answers(<< >>, asked[t])
        BY DEF Answers
      <4>2. Right(y, asked[t])
        BY <2>3, <3>2, <4>1
      <4>3. Fit(Rejected(f)) /\ Rejected(f) \in Seq(Step)
        BY <2>2, <3>2, <4>2, RejectedFits DEF Fit
      <4>4. q = Rejected(f)
        <5>1. q = Rejected(f) \o << >>
          BY <2>3, <3>2 DEF Missed
        <5>2. QED
          BY <4>3, <5>1
      <4>5. QED
        BY <2>2, <3>2, <4>2, <4>4, RejectedFits
    <3>3. QED
      BY <3>1, <3>2
  <2>5. QED
    BY <2>1, <2>4, AStep DEF AInv
<1>8. ASSUME NEW t \in Thread, Insert(t)
      PROVE  AInv'
  <2> DEFINE y == Now(t).text
  <2>1. /\ Steps(t) /\ todo' = [todo EXCEPT ![t] = << >> \o Tail(todo[t])] /\ Inserts(Now(t))
        /\ UNCHANGED <<asked, locked>> /\ result' = [result EXCEPT ![t] = y]
    BY <1>8 DEF Insert, Go, Inserts
  <2>2. y \in Text
    BY <1>3, <2>1, StepKinds
  <2>3. /\ Fit(Tail(todo[t])) /\ Tail(todo[t]) # << >> /\ Head(Tail(todo[t])) = Unlock
        /\ Settled(Tail(todo[t]), asked[t], y)
    BY <1>3, <2>1, FitTail DEF Gives, Settled
  <2>4. result' \in [Thread -> Text] /\ result'[t] = y /\ \A u \in Thread \ {t} : result'[u] = result[u]
    BY <2>1, <2>2 DEF AInv
  <2> HIDE DEF y
  <2>5. Unlock # Lock
    BY DEF Unlock, Lock
  <2>6. QED
    BY <1>3, <2>1, <2>3, <2>4, <2>5, AStep DEF AInv
<1>9. QED
  BY <1>1, <1>2, <1>4, <1>5, <1>6, <1>7, <1>8 DEF Next, Run

\* Whatever the threads do, the releases by threads that do not hold the lock
\* included, a call returns an object with its text, or the empty string for
\* a malformed one, and when no thread is in a call the lock is free.
THEOREM CallsSettle == Spec => []AnswersSettled
<1>1. AInv => AnswersSettled
  <2> SUFFICES ASSUME AInv
               PROVE  AnswersSettled
    OBVIOUS
  <2>1. \A x : ~Answers(<< >>, x)
    BY DEF Answers
  <2>2. AnswersRight
    BY <2>1 DEF AInv, AnswersRight, Settled, Right
  <2>3. FreeAtRest
    BY DEF AInv, FreeAtRest, Busy
  <2>4. QED
    BY <2>2, <2>3 DEF AnswersSettled
<1>2. QED
  BY <1>1, AInit, ANext, PTL DEF Spec

\* The variables keep their types, and however the error path of malformed
\* text nests calls, no thread has ever more than six steps to do.
THEOREM TypeCorrect == Spec => []TypeOK
<1>1. IInv /\ AInv => TypeOK
  BY DEF IInv, Shape, AInv, Fit, Short, TypeOK
<1>2. Init => IInv /\ AInv
  BY InitInv, AInit
<1>3. QED
  BY <1>1, <1>2, NextInv, ANext, PTL DEF Spec
=============================================================================
