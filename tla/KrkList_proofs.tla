---------------------------- MODULE KrkList_proofs ----------------------------
(***************************************************************************)
(* Proofs about KrkList, for any threads and lists of any length.          *)
(*                                                                         *)
(* Who holds the lock, for programs that neither catch an IndexError, nor  *)
(* use a list in the __eq__ that remove calls, nor change a list under     *)
(* another thread's remove (the three with which the model checker finds   *)
(* the lock lost).  A call that holds the lock for writing is alone on its *)
(* thread's stack; one that holds it for reading has at most another       *)
(* reader above it.  So whoever releases is the one on top, and has what   *)
(* it releases.                                                            *)
(*                                                                         *)
(* What sorting keeps, for all programs: whoever sorts holds the lock for  *)
(* writing, whoever else may have it for reading.  Two runs that are in    *)
(* order are in order merged, and the powers on the stack differ, because  *)
(* of three middles the two powers between neighbours are never the same.  *)
(***************************************************************************)
EXTENDS KrkList, FiniteSetTheorems, WellFoundedInduction, TLAPS

Sound == "index" \notin Unsound /\ "nest" \notin Unsound /\ "race" \notin Unsound

Readers == {"contains", "index", "count"}
Writers == {"remove", "extend", "sort"}

Stacked(fr) == fr \in [Threads -> Seq(UNION {Range(fr[t]) : t \in Threads})]

\* A call in progress that counts as one of ops.
Held(f, ops) == f.op \in ops /\ f.reply = <<>>
Inside(fr, ops) == {c \in UNION {{t} \X DOMAIN fr[t] : t \in Threads} : Held(fr[c[1]][c[2]], ops)}

-----------------------------------------------------------------------------
(* Stacks of calls.                                                        *)

LEMMA InsideIs ==
  ASSUME NEW fr, NEW ops
  PROVE  /\ \A t \in Threads : \A k \in DOMAIN fr[t] : <<t, k>> \in Inside(fr, ops) <=> Held(fr[t][k], ops)
         /\ \A c \in Inside(fr, ops) : \E t \in Threads : \E k \in DOMAIN fr[t] : c = <<t, k>> /\ Held(fr[t][k], ops)
<1>1. ASSUME NEW t \in Threads, NEW k \in DOMAIN fr[t]
      PROVE  <<t, k>> \in Inside(fr, ops) <=> Held(fr[t][k], ops)
  <2>1. <<t, k>> \in {t} \X DOMAIN fr[t]
    OBVIOUS
  <2>2. <<t, k>> \in UNION {{u} \X DOMAIN fr[u] : u \in Threads}
    BY <2>1, Zenon
  <2>3. <<t, k>>[1] = t /\ <<t, k>>[2] = k
    OBVIOUS
  <2>4. QED
    BY <2>2, <2>3, Zenon DEF Inside
<1>2. ASSUME NEW c \in Inside(fr, ops)
      PROVE  \E t \in Threads : \E k \in DOMAIN fr[t] : c = <<t, k>> /\ Held(fr[t][k], ops)
  <2>1. PICK t \in Threads : c \in {t} \X DOMAIN fr[t]
    BY Zenon DEF Inside
  <2>2. PICK k \in DOMAIN fr[t] : c = <<t, k>>
    BY <2>1
  <2>3. c[1] = t /\ c[2] = k
    BY <2>2
  <2>4. Held(fr[c[1]][c[2]], ops)
    BY Zenon DEF Inside
  <2>5. QED
    BY <2>2, <2>3, <2>4, Zenon
<1>3. QED
  BY <1>1, <1>2

LEMMA CallersInside ==
  ASSUME NEW ops
  PROVE  Callers(ops) = Inside(frames, ops) /\ Callers(ops)' = Inside(frames', ops)
BY DEF Callers, Inside, Held

LEMMA SeqRange ==
  ASSUME NEW S, NEW s \in Seq(S)
  PROVE  s \in Seq(Range(s))
<1>1. Len(s) \in Nat /\ DOMAIN s = 1 .. Len(s) /\ s = [k \in 1 .. Len(s) |-> s[k]]
  OBVIOUS
<1>2. \A k \in 1 .. Len(s) : s[k] \in Range(s)
  BY <1>1 DEF Range
<1>3. s \in [1 .. Len(s) -> Range(s)]
  BY <1>1, <1>2
<1>4. QED
  BY <1>1, <1>3

LEMMA StackedIs ==
  ASSUME NEW S, NEW fr \in [Threads -> Seq(S)]
  PROVE  Stacked(fr)
<1> DEFINE All == UNION {Range(fr[t]) : t \in Threads}
<1>1. ASSUME NEW t \in Threads
      PROVE  fr[t] \in Seq(All)
  <2>1. fr[t] \in Seq(Range(fr[t]))
    <3>1. fr[t] \in Seq(S)
      OBVIOUS
    <3>2. QED
      BY <3>1, SeqRange, Zenon
  <2>2. Range(fr[t]) \subseteq All
    BY Zenon
  <2>3. QED
    BY <2>1, <2>2
<1>2. QED
  BY <1>1 DEF Stacked

\* What the stacks are after a call begins, ends or goes on.

IsPushed(new, fr, t, f) ==
  /\ Stacked(new) /\ Len(fr[t]) \in Nat /\ DOMAIN fr[t] = 1 .. Len(fr[t])
  /\ \A u \in Threads \ {t} : new[u] = fr[u]
  /\ Len(new[t]) = Len(fr[t]) + 1 /\ DOMAIN new[t] = 1 .. Len(fr[t]) + 1
  /\ \A k \in 1 .. Len(fr[t]) : new[t][k] = fr[t][k]
  /\ new[t][Len(fr[t]) + 1] = f
IsPopped(new, fr, t) ==
  /\ Stacked(new) /\ Len(fr[t]) \in Nat \ {0} /\ DOMAIN fr[t] = 1 .. Len(fr[t])
  /\ \A u \in Threads \ {t} : new[u] = fr[u]
  /\ Len(new[t]) = Len(fr[t]) - 1 /\ DOMAIN new[t] = 1 .. Len(fr[t]) - 1
  /\ \A k \in 1 .. Len(fr[t]) - 1 : new[t][k] = fr[t][k]
IsTurned(new, fr, t, f) ==
  /\ Stacked(new) /\ Len(fr[t]) \in Nat \ {0} /\ DOMAIN fr[t] = 1 .. Len(fr[t])
  /\ \A u \in Threads \ {t} : new[u] = fr[u]
  /\ Len(new[t]) = Len(fr[t]) /\ DOMAIN new[t] = 1 .. Len(fr[t])
  /\ \A k \in 1 .. Len(fr[t]) - 1 : new[t][k] = fr[t][k]
  /\ new[t][Len(fr[t])] = f

LEMMA StackOf ==
  ASSUME NEW fr, Stacked(fr), NEW t \in Threads
  PROVE  /\ fr[t] \in Seq(UNION {Range(fr[u]) : u \in Threads})
         /\ Len(fr[t]) \in Nat /\ DOMAIN fr[t] = 1 .. Len(fr[t])
         /\ fr[t] # <<>> => Len(fr[t]) # 0 /\ Last(fr[t]) = fr[t][Len(fr[t])]
         /\ fr[t] = <<>> => Len(fr[t]) = 0
<1>1. fr[t] \in Seq(UNION {Range(fr[u]) : u \in Threads})
  BY DEF Stacked
<1>2. QED
  BY <1>1 DEF Last

\* r is s and x after it; r is s without its last.
IsAppended(r, S, s, x) ==
  /\ r \in Seq(S) /\ Len(r) = Len(s) + 1 /\ DOMAIN r = 1 .. Len(s) + 1
  /\ \A i \in 1 .. Len(s) : r[i] = s[i]
  /\ r[Len(s) + 1] = x
IsFront(r, S, s) ==
  /\ r \in Seq(S) /\ Len(r) = Len(s) - 1 /\ DOMAIN r = 1 .. Len(s) - 1
  /\ \A i \in 1 .. Len(s) - 1 : r[i] = s[i]

LEMMA Appended ==
  ASSUME NEW S, NEW s \in Seq(S), NEW x \in S
  PROVE  IsAppended(Append(s, x), S, s, x)
BY DEF IsAppended

LEMMA FrontOf ==
  ASSUME NEW S, NEW s \in Seq(S), s # <<>>
  PROVE  IsFront(Front(s), S, s)
<1>1. Len(s) \in Nat \ {0}
  OBVIOUS
<1>2. Front(s) = SubSeq(s, 1, Len(s) - 1)
  BY DEF Front
<1>3. \A i \in 1 .. Len(s) - 1 : s[i] \in S
  BY <1>1
<1>4. SubSeq(s, 1, Len(s) - 1) = [i \in 1 .. Len(s) - 1 |-> s[i]]
  BY <1>1
<1>5. ASSUME NEW n \in Nat, NEW q \in [1 .. n -> S]
      PROVE  q \in Seq(S) /\ Len(q) = n
  OBVIOUS
<1>6. Len(s) - 1 \in Nat /\ [i \in 1 .. Len(s) - 1 |-> s[i]] \in [1 .. Len(s) - 1 -> S]
  BY <1>1, <1>3
<1>7. SubSeq(s, 1, Len(s) - 1) \in Seq(S) /\ Len(SubSeq(s, 1, Len(s) - 1)) = Len(s) - 1
  BY <1>4, <1>5, <1>6, Zenon
<1>8. QED
  BY <1>1, <1>2, <1>4, <1>7 DEF IsFront

LEMMA PushedIs ==
  ASSUME NEW fr, Stacked(fr), NEW t \in Threads, NEW f, NEW new, new = [fr EXCEPT ![t] = Append(@, f)]
  PROVE  IsPushed(new, fr, t, f)
<1> DEFINE S == UNION {Range(fr[u]) : u \in Threads}
           W == S \cup {f}
<1>1. fr \in [Threads -> Seq(S)]
  BY DEF Stacked
<1>2. \A u \in Threads : fr[u] \in Seq(W)
  <2>1. S \subseteq W
    OBVIOUS
  <2> HIDE DEF S, W
  <2>2. QED
    BY <1>1, <2>1
<1>3. f \in W
  OBVIOUS
<1> HIDE DEF S, W
<1>4. IsAppended(Append(fr[t], f), W, fr[t], f)
  BY <1>2, <1>3, Appended, Zenon
<1>5. new \in [Threads -> Seq(W)] /\ new[t] = Append(fr[t], f) /\ \A u \in Threads \ {t} : new[u] = fr[u]
  BY <1>1, <1>2, <1>4 DEF IsAppended
<1>6. Stacked(new)
  BY <1>5, StackedIs, Zenon
<1>7. QED
  BY <1>4, <1>5, <1>6, StackOf DEF IsPushed, IsAppended

LEMMA PoppedIs ==
  ASSUME NEW fr, Stacked(fr), NEW t \in Threads, fr[t] # <<>>, NEW new, new = [fr EXCEPT ![t] = Front(@)]
  PROVE  IsPopped(new, fr, t)
<1> DEFINE S == UNION {Range(fr[u]) : u \in Threads}
<1>1. fr \in [Threads -> Seq(S)]
  BY DEF Stacked
<1> HIDE DEF S
<1>2. IsFront(Front(fr[t]), S, fr[t])
  BY <1>1, FrontOf
<1>3. new \in [Threads -> Seq(S)] /\ new[t] = Front(fr[t]) /\ \A u \in Threads \ {t} : new[u] = fr[u]
  BY <1>1, <1>2 DEF IsFront
<1>4. Stacked(new)
  BY <1>3, StackedIs, Zenon
<1>5. Len(fr[t]) \in Nat \ {0} /\ DOMAIN fr[t] = 1 .. Len(fr[t])
  BY StackOf
<1>6. QED
  BY <1>2, <1>3, <1>4, <1>5 DEF IsPopped, IsFront

LEMMA TurnedIs ==
  ASSUME NEW fr, Stacked(fr), NEW t \in Threads, fr[t] # <<>>, NEW f, NEW new,
         new = [fr EXCEPT ![t] = Append(Front(@), f)]
  PROVE  IsTurned(new, fr, t, f)
<1> DEFINE S == UNION {Range(fr[u]) : u \in Threads}
           W == S \cup {f}
<1>1. fr \in [Threads -> Seq(S)]
  BY DEF Stacked
<1>2. \A u \in Threads : fr[u] \in Seq(W)
  <2>1. S \subseteq W
    OBVIOUS
  <2> HIDE DEF S, W
  <2>2. QED
    BY <1>1, <2>1
<1>3. f \in W
  OBVIOUS
<1> HIDE DEF S, W
<1>4. IsFront(Front(fr[t]), W, fr[t])
  BY <1>2, FrontOf
<1> DEFINE p == Front(fr[t])
<1>5. p \in Seq(W)
  BY <1>4 DEF IsFront
<1>6. IsAppended(Append(p, f), W, p, f)
  BY <1>3, <1>5, Appended, Zenon
<1>7. new \in [Threads -> Seq(W)] /\ new[t] = Append(p, f) /\ \A u \in Threads \ {t} : new[u] = fr[u]
  BY <1>1, <1>2, <1>6 DEF IsAppended
<1>8. Stacked(new)
  BY <1>7, StackedIs, Zenon
<1>9. Len(fr[t]) \in Nat \ {0} /\ DOMAIN fr[t] = 1 .. Len(fr[t])
  BY StackOf
<1> HIDE DEF p
<1>10. Len(p) = Len(fr[t]) - 1 /\ \A i \in 1 .. Len(fr[t]) - 1 : p[i] = fr[t][i]
  BY <1>4 DEF IsFront, p
<1>11. /\ Len(new[t]) = Len(p) + 1 /\ DOMAIN new[t] = 1 .. Len(p) + 1
       /\ \A i \in 1 .. Len(p) : new[t][i] = p[i]
       /\ new[t][Len(p) + 1] = f
  BY <1>6, <1>7, Zenon DEF IsAppended
<1>12. (Len(fr[t]) - 1) + 1 = Len(fr[t])
  BY <1>9
<1>13. QED
  BY <1>7, <1>8, <1>9, <1>10, <1>11, <1>12 DEF IsTurned

-----------------------------------------------------------------------------
(* Who holds the lock.  Of is where on its stack a thread is inside some   *)
(* of the methods.                                                         *)

Of(fr, t, ops) == {k \in DOMAIN fr[t] : Held(fr[t][k], ops)}

Counted(fr, rd, wr) ==
  /\ IsFiniteSet(Inside(fr, Readers)) /\ rd = Cardinality(Inside(fr, Readers))
  /\ \A t \in Threads : wr = t <=> Of(fr, t, Writers) # {}

LEMMA InsideOf ==
  ASSUME NEW fr, NEW ops, NEW t \in Threads, NEW k
  PROVE  <<t, k>> \in Inside(fr, ops) <=> k \in Of(fr, t, ops)
<1>1. ASSUME <<t, k>> \in Inside(fr, ops)
      PROVE  k \in Of(fr, t, ops)
  <2>1. PICK u \in Threads : \E l \in DOMAIN fr[u] : <<t, k>> = <<u, l>> /\ Held(fr[u][l], ops)
    BY <1>1, InsideIs, Zenon
  <2>2. PICK l \in DOMAIN fr[u] : <<t, k>> = <<u, l>> /\ Held(fr[u][l], ops)
    BY <2>1
  <2>3. t = u /\ k = l
    BY <2>2
  <2>4. QED
    BY <2>2, <2>3, Zenon DEF Of
<1>2. ASSUME k \in Of(fr, t, ops)
      PROVE  <<t, k>> \in Inside(fr, ops)
  BY <1>2, InsideIs, Zenon DEF Of
<1>3. QED
  BY <1>1, <1>2, Zenon

LEMMA InsideAre ==
  ASSUME NEW fr, NEW ops, NEW c \in Inside(fr, ops)
  PROVE  \E t \in Threads : \E k \in Of(fr, t, ops) : c = <<t, k>>
<1>1. PICK t \in Threads : \E k \in DOMAIN fr[t] : c = <<t, k>> /\ Held(fr[t][k], ops)
  BY InsideIs, Zenon
<1>2. PICK k \in DOMAIN fr[t] : c = <<t, k>> /\ Held(fr[t][k], ops)
  BY <1>1
<1>3. k \in Of(fr, t, ops)
  BY <1>2, Zenon DEF Of
<1>4. QED
  BY <1>2, <1>3, Zenon

\* The same calls are in progress, or one more of t.
LEMMA InsideSame ==
  ASSUME NEW new, NEW fr, NEW ops, \A u \in Threads : Of(new, u, ops) = Of(fr, u, ops)
  PROVE  Inside(new, ops) = Inside(fr, ops)
<1>1. ASSUME NEW a, NEW b, NEW c \in Inside(a, ops), \A u \in Threads : Of(a, u, ops) = Of(b, u, ops)
      PROVE  c \in Inside(b, ops)
  <2>1. PICK u \in Threads : \E k \in Of(a, u, ops) : c = <<u, k>>
    BY InsideAre
  <2>2. PICK k \in Of(a, u, ops) : c = <<u, k>>
    BY <2>1
  <2>3. k \in Of(b, u, ops)
    BY <1>1
  <2>4. QED
    BY <2>2, <2>3, InsideOf, Zenon
<1>2. \A c \in Inside(new, ops) : c \in Inside(fr, ops)
  BY <1>1, Zenon
<1>3. \A c \in Inside(fr, ops) : c \in Inside(new, ops)
  BY <1>1, Zenon
<1>4. QED
  BY <1>2, <1>3

LEMMA InsideMore ==
  ASSUME NEW new, NEW fr, NEW ops, NEW t \in Threads, NEW k, k \notin Of(fr, t, ops),
         Of(new, t, ops) = Of(fr, t, ops) \cup {k},
         \A u \in Threads \ {t} : Of(new, u, ops) = Of(fr, u, ops)
  PROVE  Inside(new, ops) = Inside(fr, ops) \cup {<<t, k>>} /\ <<t, k>> \notin Inside(fr, ops)
<1>1. ASSUME NEW c \in Inside(new, ops)
      PROVE  c \in Inside(fr, ops) \cup {<<t, k>>}
  <2>1. PICK u \in Threads : \E l \in Of(new, u, ops) : c = <<u, l>>
    BY InsideAre
  <2>2. PICK l \in Of(new, u, ops) : c = <<u, l>>
    BY <2>1
  <2>3. CASE u = t /\ l = k
    BY <2>2, <2>3
  <2>4. CASE ~(u = t /\ l = k)
    <3>1. l \in Of(fr, u, ops)
      BY <2>4
    <3>2. QED
      BY <2>2, <3>1, InsideOf, Zenon
  <2>5. QED
    BY <2>3, <2>4
<1>2. ASSUME NEW c \in Inside(fr, ops)
      PROVE  c \in Inside(new, ops)
  <2>1. PICK u \in Threads : \E l \in Of(fr, u, ops) : c = <<u, l>>
    BY InsideAre
  <2>2. PICK l \in Of(fr, u, ops) : c = <<u, l>>
    BY <2>1
  <2>3. l \in Of(new, u, ops)
    OBVIOUS
  <2>4. QED
    BY <2>2, <2>3, InsideOf, Zenon
<1>3. <<t, k>> \in Inside(new, ops) /\ <<t, k>> \notin Inside(fr, ops)
  <2>1. k \in Of(new, t, ops)
    OBVIOUS
  <2>2. QED
    BY <2>1, InsideOf, Zenon
<1>4. QED
  BY <1>1, <1>2, <1>3

\* No call begins or ends.
LEMMA CountedSame ==
  ASSUME NEW new, NEW fr, NEW rd, NEW wr, Counted(fr, rd, wr),
         \A u \in Threads : Of(new, u, Readers) = Of(fr, u, Readers) /\ Of(new, u, Writers) = Of(fr, u, Writers)
  PROVE  Counted(new, rd, wr)
<1>1. Inside(new, Readers) = Inside(fr, Readers)
  BY InsideSame, Zenon
<1>2. QED
  BY <1>1, Zenon DEF Counted

\* A reader begins, or ends.
LEMMA CountedMore ==
  ASSUME NEW new, NEW fr, NEW rd, NEW wr, Counted(fr, rd, wr), NEW t \in Threads, NEW k,
         k \notin Of(fr, t, Readers), Of(new, t, Readers) = Of(fr, t, Readers) \cup {k},
         \A u \in Threads \ {t} : Of(new, u, Readers) = Of(fr, u, Readers),
         \A u \in Threads : Of(new, u, Writers) = Of(fr, u, Writers)
  PROVE  Counted(new, rd + 1, wr)
<1>1. Inside(new, Readers) = Inside(fr, Readers) \cup {<<t, k>>} /\ <<t, k>> \notin Inside(fr, Readers)
  BY InsideMore
<1>2. IsFiniteSet(Inside(fr, Readers)) /\ rd = Cardinality(Inside(fr, Readers))
  BY Zenon DEF Counted
<1>3. IsFiniteSet(Inside(new, Readers)) /\ Cardinality(Inside(new, Readers)) = rd + 1
  <2>1. IsFiniteSet(Inside(fr, Readers) \cup {<<t, k>>})
    BY <1>2, FS_AddElement, Zenon
  <2>2. Cardinality(Inside(fr, Readers) \cup {<<t, k>>}) = Cardinality(Inside(fr, Readers)) + 1
    BY <1>1, <1>2, FS_AddElement, Zenon
  <2>3. QED
    BY <1>1, <1>2, <2>1, <2>2, Zenon
<1>4. QED
  BY <1>3, Zenon DEF Counted

LEMMA CountedLess ==
  ASSUME NEW new, NEW fr, NEW rd, NEW wr, Counted(fr, rd, wr), NEW t \in Threads, NEW k,
         k \in Of(fr, t, Readers), Of(new, t, Readers) = Of(fr, t, Readers) \ {k},
         \A u \in Threads \ {t} : Of(new, u, Readers) = Of(fr, u, Readers),
         \A u \in Threads : Of(new, u, Writers) = Of(fr, u, Writers)
  PROVE  Counted(new, rd - 1, wr)
<1>1. Inside(fr, Readers) = Inside(new, Readers) \cup {<<t, k>>} /\ <<t, k>> \notin Inside(new, Readers)
  <2>1. Of(fr, t, Readers) = Of(new, t, Readers) \cup {k} /\ k \notin Of(new, t, Readers)
    OBVIOUS
  <2>2. \A u \in Threads \ {t} : Of(fr, u, Readers) = Of(new, u, Readers)
    OBVIOUS
  <2>3. QED
    BY <2>1, <2>2, InsideMore, Zenon
<1>2. IsFiniteSet(Inside(fr, Readers)) /\ rd = Cardinality(Inside(fr, Readers))
  BY Zenon DEF Counted
<1>3. IsFiniteSet(Inside(new, Readers)) /\ Cardinality(Inside(new, Readers)) = rd - 1
  <2>1. Inside(new, Readers) = Inside(fr, Readers) \ {<<t, k>>} /\ <<t, k>> \in Inside(fr, Readers)
    BY <1>1
  <2>2. /\ IsFiniteSet(Inside(fr, Readers) \ {<<t, k>>})
        /\ Cardinality(Inside(fr, Readers) \ {<<t, k>>}) = Cardinality(Inside(fr, Readers)) - 1
    BY <1>2, <2>1, FS_RemoveElement, Zenon
  <2>3. QED
    BY <1>2, <2>1, <2>2, Zenon
<1>4. QED
  BY <1>3, Zenon DEF Counted

\* A writer begins, or ends.
LEMMA CountedTaken ==
  ASSUME NEW new, NEW fr, NEW rd, NEW wr, Counted(fr, rd, wr), NEW t \in Threads, wr \notin Threads \ {t},
         \A u \in Threads : Of(new, u, Readers) = Of(fr, u, Readers),
         \A u \in Threads \ {t} : Of(new, u, Writers) = Of(fr, u, Writers),
         Of(new, t, Writers) # {}
  PROVE  Counted(new, rd, t)
<1>1. Inside(new, Readers) = Inside(fr, Readers)
  BY InsideSame, Zenon
<1>2. ASSUME NEW u \in Threads
      PROVE  t = u <=> Of(new, u, Writers) # {}
  BY Zenon DEF Counted
<1>3. QED
  BY <1>1, <1>2, Zenon DEF Counted

LEMMA CountedGiven ==
  ASSUME NEW new, NEW fr, NEW rd, NEW wr, Counted(fr, rd, wr), NEW t \in Threads, wr = t, Nobody \notin Threads,
         \A u \in Threads : Of(new, u, Readers) = Of(fr, u, Readers),
         \A u \in Threads \ {t} : Of(new, u, Writers) = Of(fr, u, Writers),
         Of(new, t, Writers) = {}
  PROVE  Counted(new, rd, Nobody)
<1>1. Inside(new, Readers) = Inside(fr, Readers)
  BY InsideSame, Zenon
<1>2. ASSUME NEW u \in Threads
      PROVE  Nobody = u <=> Of(new, u, Writers) # {}
  BY Zenon DEF Counted
<1>3. QED
  BY <1>1, <1>2, Zenon DEF Counted

LEMMA OfPushed ==
  ASSUME NEW new, NEW fr, NEW t, NEW f, NEW ops, IsPushed(new, fr, t, f)
  PROVE  /\ Held(f, ops) => Of(new, t, ops) = Of(fr, t, ops) \cup {Len(fr[t]) + 1}
         /\ ~Held(f, ops) => Of(new, t, ops) = Of(fr, t, ops)
         /\ Len(fr[t]) + 1 \notin Of(fr, t, ops)
<1> DEFINE n == Len(fr[t])
<1>1. n \in Nat /\ DOMAIN fr[t] = 1 .. n /\ DOMAIN new[t] = 1 .. n + 1
  BY DEF IsPushed
<1>2. (\A k \in 1 .. n : new[t][k] = fr[t][k]) /\ new[t][n + 1] = f
  BY DEF IsPushed
<1>3. Of(fr, t, ops) = {k \in 1 .. n : Held(fr[t][k], ops)} /\ Of(new, t, ops) = {k \in 1 .. n + 1 : Held(new[t][k], ops)}
  BY <1>1 DEF Of
<1> HIDE DEF n
<1>4. n + 1 \notin Of(fr, t, ops)
  BY <1>1, <1>3
<1>5. \A k \in 1 .. n : k \in Of(new, t, ops) <=> k \in Of(fr, t, ops)
  BY <1>1, <1>2, <1>3
<1>6. n + 1 \in Of(new, t, ops) <=> Held(f, ops)
  BY <1>1, <1>2, <1>3
<1>7. 1 .. n + 1 = (1 .. n) \cup {n + 1}
  BY <1>1
<1>8. Of(fr, t, ops) \subseteq 1 .. n /\ Of(new, t, ops) \subseteq 1 .. n + 1
  BY <1>3
<1>9. Held(f, ops) => Of(new, t, ops) = Of(fr, t, ops) \cup {n + 1}
  BY <1>5, <1>6, <1>7, <1>8
<1>10. ~Held(f, ops) => Of(new, t, ops) = Of(fr, t, ops)
  BY <1>5, <1>6, <1>7, <1>8
<1>11. QED
  BY <1>4, <1>9, <1>10 DEF n

LEMMA OfPopped ==
  ASSUME NEW new, NEW fr, NEW t, NEW ops, IsPopped(new, fr, t)
  PROVE  /\ Of(new, t, ops) = Of(fr, t, ops) \ {Len(fr[t])}
         /\ Len(fr[t]) \in Of(fr, t, ops) <=> Held(fr[t][Len(fr[t])], ops)
<1> DEFINE n == Len(fr[t])
<1>1. n \in Nat \ {0} /\ DOMAIN fr[t] = 1 .. n /\ DOMAIN new[t] = 1 .. n - 1
  BY DEF IsPopped
<1>2. \A k \in 1 .. n - 1 : new[t][k] = fr[t][k]
  BY DEF IsPopped
<1>3. Of(fr, t, ops) = {k \in 1 .. n : Held(fr[t][k], ops)} /\ Of(new, t, ops) = {k \in 1 .. n - 1 : Held(new[t][k], ops)}
  BY <1>1 DEF Of
<1> HIDE DEF n
<1>4. n \in Of(fr, t, ops) <=> Held(fr[t][n], ops)
  BY <1>1, <1>3
<1>5. \A k \in 1 .. n - 1 : k \in Of(new, t, ops) <=> k \in Of(fr, t, ops)
  BY <1>1, <1>2, <1>3
<1>6. (1 .. n) \ {n} = 1 .. n - 1
  BY <1>1
<1>7. Of(fr, t, ops) \subseteq 1 .. n /\ Of(new, t, ops) \subseteq 1 .. n - 1
  BY <1>3
<1>8. Of(new, t, ops) = Of(fr, t, ops) \ {n}
  BY <1>5, <1>6, <1>7
<1>9. QED
  BY <1>4, <1>8 DEF n

LEMMA OfTurned ==
  ASSUME NEW new, NEW fr, NEW t, NEW f, NEW ops, IsTurned(new, fr, t, f)
  PROVE  /\ Held(f, ops) => Of(new, t, ops) = Of(fr, t, ops) \cup {Len(fr[t])}
         /\ ~Held(f, ops) => Of(new, t, ops) = Of(fr, t, ops) \ {Len(fr[t])}
         /\ Len(fr[t]) \in Of(fr, t, ops) <=> Held(fr[t][Len(fr[t])], ops)
<1> DEFINE n == Len(fr[t])
<1>1. n \in Nat \ {0} /\ DOMAIN fr[t] = 1 .. n /\ DOMAIN new[t] = 1 .. n
  BY DEF IsTurned
<1>2. (\A k \in 1 .. n - 1 : new[t][k] = fr[t][k]) /\ new[t][n] = f
  BY DEF IsTurned
<1>3. Of(fr, t, ops) = {k \in 1 .. n : Held(fr[t][k], ops)} /\ Of(new, t, ops) = {k \in 1 .. n : Held(new[t][k], ops)}
  BY <1>1 DEF Of
<1> HIDE DEF n
<1>4. n \in Of(fr, t, ops) <=> Held(fr[t][n], ops)
  BY <1>1, <1>3
<1>5. n \in Of(new, t, ops) <=> Held(f, ops)
  BY <1>1, <1>2, <1>3
<1>6. \A k \in 1 .. n - 1 : k \in Of(new, t, ops) <=> k \in Of(fr, t, ops)
  BY <1>1, <1>2, <1>3
<1>7. 1 .. n = (1 .. n - 1) \cup {n} /\ n \notin 1 .. n - 1
  BY <1>1
<1>8. Of(fr, t, ops) \subseteq 1 .. n /\ Of(new, t, ops) \subseteq 1 .. n
  BY <1>3
<1>9. Held(f, ops) => Of(new, t, ops) = Of(fr, t, ops) \cup {n}
  BY <1>5, <1>6, <1>7, <1>8
<1>10. ~Held(f, ops) => Of(new, t, ops) = Of(fr, t, ops) \ {n}
  BY <1>5, <1>6, <1>7, <1>8
<1>11. QED
  BY <1>4, <1>9, <1>10 DEF n

-----------------------------------------------------------------------------
(* What the stacks look like.                                              *)

Framed(f) ==
  /\ {"op", "reply"} \subseteq DOMAIN f
  /\ f.op \in Scanning \cup {"found"} => "i" \in DOMAIN f
  /\ f.op \in {"remove", "found"} => f.i \in Nat

\* Nothing is above a call but what looks for something, and that is above a reader.
Low(s) == Len(s) <= 2 /\ (Len(s) = 2 => Held(s[1], Readers) /\ s[2].op = "contains")

Shaped(fr) ==
  /\ Stacked(fr)
  /\ \A t \in Threads : Low(fr[t])
  /\ \A t \in Threads : \A k \in DOMAIN fr[t] : Framed(fr[t][k])

LEMMA ShapedPushed ==
  ASSUME NEW new, NEW fr, NEW t \in Threads, NEW f, Shaped(fr), IsPushed(new, fr, t, f), Framed(f),
         Len(fr[t]) = 0 \/ (Len(fr[t]) = 1 /\ Held(fr[t][1], Readers) /\ f.op = "contains")
  PROVE  Shaped(new)
<1>1. Stacked(new) /\ \A u \in Threads \ {t} : new[u] = fr[u]
  BY DEF IsPushed
<1>2. \A k \in DOMAIN new[t] : Framed(new[t][k])
  BY DEF IsPushed, Shaped
<1>3. Low(new[t])
  BY DEF IsPushed, Low
<1>4. QED
  BY <1>1, <1>2, <1>3 DEF Shaped

LEMMA ShapedPopped ==
  ASSUME NEW new, NEW fr, NEW t \in Threads, Shaped(fr), IsPopped(new, fr, t)
  PROVE  Shaped(new)
<1>1. Stacked(new) /\ \A u \in Threads \ {t} : new[u] = fr[u]
  BY DEF IsPopped
<1>2. \A k \in DOMAIN new[t] : Framed(new[t][k])
  BY DEF IsPopped, Shaped
<1>3. Len(fr[t]) <= 2
  BY DEF Low, Shaped
<1>4. Len(fr[t]) \in Nat \ {0} /\ Len(new[t]) = Len(fr[t]) - 1
  BY DEF IsPopped
<1>5. Low(new[t])
  <2>1. Len(new[t]) \in Nat /\ Len(new[t]) <= 1
    BY <1>3, <1>4
  <2>2. Len(new[t]) <= 2 /\ Len(new[t]) # 2
    BY <2>1
  <2>3. QED
    BY <2>2 DEF Low
<1>6. QED
  BY <1>1, <1>2, <1>5 DEF Shaped

LEMMA ShapedTurned ==
  ASSUME NEW new, NEW fr, NEW t \in Threads, NEW f, Shaped(fr), IsTurned(new, fr, t, f), Framed(f),
         f.op = fr[t][Len(fr[t])].op \/ Len(fr[t]) = 1
  PROVE  Shaped(new)
<1>1. Stacked(new) /\ \A u \in Threads \ {t} : new[u] = fr[u]
  BY DEF IsTurned
<1>2. \A k \in DOMAIN new[t] : Framed(new[t][k])
  BY DEF IsTurned, Shaped
<1>3. Low(new[t])
  BY DEF IsTurned, Low, Shaped
<1>4. QED
  BY <1>1, <1>2, <1>3 DEF Shaped

-----------------------------------------------------------------------------
(* What remove has found stays where it is until remove pops it.           *)

Found == {"found"}
Changers == {"extend", "sort"}

Sure(fr, vals) ==
  \A t \in Threads : \A k \in Of(fr, t, Found) :
    fr[t][k].i < Len(vals) /\ \A u \in Threads \ {t} : Of(fr, u, Changers) = {}

LEMMA SureSame ==
  ASSUME NEW new, NEW fr, NEW vals, Sure(fr, vals),
         \A u \in Threads : \A k \in Of(new, u, Found) : k \in Of(fr, u, Found) /\ new[u][k] = fr[u][k],
         \A u \in Threads : Of(new, u, Changers) \subseteq Of(fr, u, Changers)
  PROVE  Sure(new, vals)
<1>1. ASSUME NEW t \in Threads, NEW k \in Of(new, t, Found)
      PROVE  new[t][k].i < Len(vals) /\ \A u \in Threads \ {t} : Of(new, u, Changers) = {}
  <2>1. k \in Of(fr, t, Found) /\ new[t][k] = fr[t][k]
    OBVIOUS
  <2>2. fr[t][k].i < Len(vals) /\ \A u \in Threads \ {t} : Of(fr, u, Changers) = {}
    BY <2>1, Zenon DEF Sure
  <2>3. \A u \in Threads \ {t} : Of(new, u, Changers) = {}
    BY <2>2
  <2>4. QED
    BY <2>1, <2>2, <2>3, Zenon
<1>2. QED
  BY <1>1, Zenon DEF Sure

LEMMA SurePushed ==
  ASSUME NEW new, NEW fr, NEW vals, NEW t \in Threads, NEW f, Sure(fr, vals), IsPushed(new, fr, t, f),
         ~Held(f, Found), ~Held(f, Changers)
  PROVE  Sure(new, vals)
<1>1. Of(new, t, Found) = Of(fr, t, Found) /\ Of(new, t, Changers) = Of(fr, t, Changers)
  BY OfPushed
<1>2. \A u \in Threads \ {t} : new[u] = fr[u]
  BY DEF IsPushed
<1>3. \A u \in Threads \ {t} : Of(new, u, Found) = Of(fr, u, Found) /\ Of(new, u, Changers) = Of(fr, u, Changers)
  BY <1>2, Zenon DEF Of
<1>4. \A k \in Of(fr, t, Found) : new[t][k] = fr[t][k]
  BY DEF IsPushed, Of
<1>5. \A u \in Threads : \A k \in Of(new, u, Found) : k \in Of(fr, u, Found) /\ new[u][k] = fr[u][k]
  BY <1>1, <1>2, <1>3, <1>4
<1>6. \A u \in Threads : Of(new, u, Changers) \subseteq Of(fr, u, Changers)
  BY <1>1, <1>3
<1>7. QED
  BY <1>5, <1>6, SureSame, Zenon

LEMMA SurePopped ==
  ASSUME NEW new, NEW fr, NEW vals, NEW t \in Threads, Sure(fr, vals), IsPopped(new, fr, t)
  PROVE  Sure(new, vals)
<1>1. Of(new, t, Found) \subseteq Of(fr, t, Found) /\ Of(new, t, Changers) \subseteq Of(fr, t, Changers)
  BY OfPopped
<1>2. \A u \in Threads \ {t} : new[u] = fr[u]
  BY DEF IsPopped
<1>3. \A u \in Threads \ {t} : Of(new, u, Found) = Of(fr, u, Found) /\ Of(new, u, Changers) = Of(fr, u, Changers)
  BY <1>2, Zenon DEF Of
<1>4. \A k \in Of(new, t, Found) : new[t][k] = fr[t][k]
  BY DEF IsPopped, Of
<1>5. \A u \in Threads : \A k \in Of(new, u, Found) : k \in Of(fr, u, Found) /\ new[u][k] = fr[u][k]
  BY <1>1, <1>2, <1>3, <1>4
<1>6. \A u \in Threads : Of(new, u, Changers) \subseteq Of(fr, u, Changers)
  BY <1>1, <1>3
<1>7. QED
  BY <1>5, <1>6, SureSame, Zenon

LEMMA SureTurned ==
  ASSUME NEW new, NEW fr, NEW vals, NEW t \in Threads, NEW f, Sure(fr, vals), IsTurned(new, fr, t, f),
         ~Held(f, Found), ~Held(f, Changers)
  PROVE  Sure(new, vals)
<1>1. /\ Of(new, t, Found) = Of(fr, t, Found) \ {Len(fr[t])}
      /\ Of(new, t, Changers) = Of(fr, t, Changers) \ {Len(fr[t])}
  BY OfTurned
<1>2. \A u \in Threads \ {t} : new[u] = fr[u]
  BY DEF IsTurned
<1>3. \A u \in Threads \ {t} : Of(new, u, Found) = Of(fr, u, Found) /\ Of(new, u, Changers) = Of(fr, u, Changers)
  BY <1>2, Zenon DEF Of
<1>4. \A k \in 1 .. Len(fr[t]) : k # Len(fr[t]) => new[t][k] = fr[t][k]
  BY DEF IsTurned
<1>5. DOMAIN fr[t] = 1 .. Len(fr[t])
  BY DEF IsTurned
<1>6. \A k \in Of(new, t, Found) : new[t][k] = fr[t][k]
  BY <1>1, <1>4, <1>5 DEF Of
<1>7. \A u \in Threads : \A k \in Of(new, u, Found) : k \in Of(fr, u, Found) /\ new[u][k] = fr[u][k]
  BY <1>1, <1>2, <1>3, <1>6
<1>8. \A u \in Threads : Of(new, u, Changers) \subseteq Of(fr, u, Changers)
  BY <1>1, <1>3
<1>9. QED
  BY <1>7, <1>8, SureSame, Zenon

-----------------------------------------------------------------------------
(* The invariant.                                                          *)

Locked(fr, rd, wr, vals) == Shaped(fr) /\ Counted(fr, rd, wr) /\ Sure(fr, vals)

LockInv == Locked(frames, readers, writer, values)

\* Only t may be in one of the methods.
Lone(fr, t, ops) == \A u \in Threads \ {t} : Of(fr, u, ops) = {}

LEMMA TopIs ==
  ASSUME Shaped(frames), NEW t \in Threads
  PROVE  /\ Len(frames[t]) \in Nat /\ DOMAIN frames[t] = 1 .. Len(frames[t])
         /\ Len(frames[t]) = 0 <=> frames[t] = <<>>
         /\ frames[t] # <<>> => Top(t) = frames[t][Len(frames[t])] /\ Framed(Top(t))
         /\ Low(frames[t])
<1>1. Stacked(frames) /\ Low(frames[t]) /\ \A k \in DOMAIN frames[t] : Framed(frames[t][k])
  BY Zenon DEF Shaped
<1>2. /\ Len(frames[t]) \in Nat /\ DOMAIN frames[t] = 1 .. Len(frames[t])
      /\ frames[t] # <<>> => Len(frames[t]) # 0 /\ Last(frames[t]) = frames[t][Len(frames[t])]
      /\ frames[t] = <<>> => Len(frames[t]) = 0
  BY <1>1, StackOf, Zenon
<1>3. frames[t] # <<>> => Len(frames[t]) \in DOMAIN frames[t]
  BY <1>2
<1>4. QED
  BY <1>1, <1>2, <1>3, Zenon DEF Top

LEMMA InIs ==
  ASSUME Shaped(frames), NEW t \in Threads, NEW ops, In(t, ops)
  PROVE  frames[t] # <<>> /\ Held(Top(t), ops) /\ Len(frames[t]) \in Of(frames, t, ops)
<1>1. frames[t] # <<>> /\ Held(Top(t), ops)
  BY Zenon DEF In, Held
<1>2. Len(frames[t]) \in DOMAIN frames[t] /\ Top(t) = frames[t][Len(frames[t])]
  BY <1>1, TopIs
<1>3. QED
  BY <1>1, <1>2, Zenon DEF Of

LEMMA IdleIs ==
  ASSUME LockInv, NEW t \in Threads, Idle(t)
  PROVE  Len(frames[t]) = 0 /\ writer # t /\ \A ops : Of(frames, t, ops) = {}
<1>1. Len(frames[t]) = 0 /\ DOMAIN frames[t] = {}
  BY TopIs DEF Idle, LockInv, Locked
<1>2. \A ops : Of(frames, t, ops) = {}
  BY <1>1 DEF Of
<1>3. writer # t
  BY <1>2, Zenon DEF LockInv, Locked, Counted
<1>4. QED
  BY <1>1, <1>2, <1>3

\* What is not on top is a reader.
LEMMA Below ==
  ASSUME Shaped(frames), NEW t \in Threads, NEW ops, NEW k \in Of(frames, t, ops), k # Len(frames[t])
  PROVE  Held(frames[t][k], ops) /\ Held(frames[t][k], Readers)
<1>1. k \in 1 .. Len(frames[t]) /\ Held(frames[t][k], ops) /\ Len(frames[t]) \in Nat
  BY TopIs DEF Of
<1>2. Low(frames[t])
  BY TopIs
<1>3. \A n \in Nat : n <= 2 => \A l \in 1 .. n : l = n \/ (n = 2 /\ l = 1)
  OBVIOUS
<1>4. Len(frames[t]) <= 2
  BY <1>2 DEF Low
<1>5. k = 1 /\ Len(frames[t]) = 2
  BY <1>1, <1>3, <1>4
<1>6. QED
  BY <1>1, <1>2, <1>5 DEF Low

LEMMA Unfound ==
  ASSUME Shaped(frames), NEW t \in Threads, ~OthersIn(t, Found)
  PROVE  Lone(frames, t, Found)
<1>1. ASSUME NEW u \in Threads \ {t}, NEW k \in Of(frames, u, Found)
      PROVE  FALSE
  <2>1. k \in 1 .. Len(frames[u]) /\ Held(frames[u][k], Found) /\ Len(frames[u]) \in Nat
    BY TopIs DEF Of
  <2>2. k = Len(frames[u])
    BY Below DEF Held, Readers, Found
  <2>3. frames[u] # <<>>
    BY <2>1, TopIs
  <2>4. In(u, Found)
    BY <2>1, <2>2, <2>3, TopIs DEF In, Held
  <2>5. QED
    BY <2>4 DEF OthersIn
<1>2. QED
  BY <1>1 DEF Lone

\* Nobody is between finding and popping: any values will do.
LEMMA SureLone ==
  ASSUME NEW new, NEW fr, NEW vals, NEW t \in Threads, Lone(fr, t, Found),
         \A u \in Threads \ {t} : new[u] = fr[u], Of(new, t, Found) = {}
  PROVE  Sure(new, vals)
<1>1. \A u \in Threads \ {t} : Of(new, u, Found) = {}
  BY DEF Lone, Of
<1>2. \A u \in Threads : Of(new, u, Found) = {}
  BY <1>1
<1>3. QED
  BY <1>2 DEF Sure

\* Nobody else has found anything while t extends or sorts.
LEMMA LoneChanger ==
  ASSUME Sure(frames, values), NEW t \in Threads, Of(frames, t, Changers) # {}
  PROVE  Lone(frames, t, Found)
<1>1. ASSUME NEW u \in Threads \ {t}, NEW k \in Of(frames, u, Found)
      PROVE  FALSE
  <2>1. \A w \in Threads \ {u} : Of(frames, w, Changers) = {}
    BY Zenon DEF Sure
  <2>2. QED
    BY <2>1
<1>2. QED
  BY <1>1 DEF Lone

\* A thread that only reads and writes for a moment, with nothing in hand,
\* leaves the lock as it was.
LEMMA IdleWrites ==
  ASSUME LockInv, Sound, NEW t \in Threads, Idle(t), Writing(t)
  PROVE  writer' = writer /\ readers' = readers /\ writer = Nobody /\ Lone(frames, t, Found)
<1>1. writer # t /\ Shaped(frames)
  BY IdleIs DEF LockInv, Locked
<1>2. ~OthersIn(t, Found) /\ MayWrite(t) /\ writer' = Nobody /\ readers' = readers
  BY Zenon DEF Writing, Sound, Found
<1>3. writer = Nobody
  BY <1>1, <1>2, Zenon DEF MayWrite
<1>4. QED
  BY <1>1, <1>2, <1>3, Unfound, Zenon

LEMMA IdleReads ==
  ASSUME LockInv, NEW t \in Threads, Idle(t), Reading(t)
  PROVE  writer' = writer /\ readers' = readers
<1>1. writer # t
  BY IdleIs
<1>2. QED
  BY <1>1, Zenon DEF Reading

\* No call begins or ends, whatever becomes of the values.
LEMMA Stays ==
  ASSUME LockInv, NEW t \in Threads, Idle(t) \/ Of(frames, t, Found) = {}, Lone(frames, t, Found),
         frames' = frames, readers' = readers, writer' = writer
  PROVE  Locked(frames', readers', writer', values')
<1>1. Shaped(frames) /\ Counted(frames, readers, writer)
  BY DEF LockInv, Locked
<1>2. Of(frames, t, Found) = {}
  BY IdleIs
<1>3. Sure(frames, values')
  BY <1>2, SureLone, Zenon
<1>4. QED
  BY <1>1, <1>3, Zenon DEF Locked

\* A call that is over at once leaves its answer.
LEMMA Answers ==
  ASSUME LockInv, NEW t \in Threads, Idle(t), NEW f, Push(t, f), Framed(f), f.reply # <<>>,
         Lone(frames, t, Found) \/ values' = values, readers' = readers, writer' = writer
  PROVE  Locked(frames', readers', writer', values')
<1>1. Shaped(frames) /\ Counted(frames, readers, writer) /\ Sure(frames, values) /\ Stacked(frames)
  BY DEF LockInv, Locked, Shaped
<1>2. IsPushed(frames', frames, t, f)
  BY <1>1, PushedIs, Zenon DEF Push
<1>3. Len(frames[t]) = 0
  BY IdleIs
<1>4. Shaped(frames')
  BY <1>1, <1>2, <1>3, ShapedPushed, Zenon
<1>5. \A ops : ~Held(f, ops)
  BY DEF Held
<1>6. \A ops : Of(frames', t, ops) = Of(frames, t, ops)
  BY <1>2, <1>5, OfPushed
<1>7. \A u \in Threads \ {t} : (frames')[u] = frames[u]
  BY <1>2 DEF IsPushed
<1>8. \A u \in Threads : \A ops : Of(frames', u, ops) = Of(frames, u, ops)
  BY <1>6, <1>7, Zenon DEF Of
<1>9. Counted(frames', readers, writer)
  BY <1>1, <1>8, CountedSame, Zenon
<1>10. Sure(frames', values')
  <2>1. CASE values' = values
    BY <1>1, <1>2, <1>5, <2>1, SurePushed, Zenon
  <2>2. CASE Lone(frames, t, Found)
    <3>1. Of(frames', t, Found) = {}
      BY <1>6, IdleIs
    <3>2. QED
      BY <1>7, <2>2, <3>1, SureLone, Zenon
  <2>3. QED
    BY <2>1, <2>2
<1>11. QED
  BY <1>4, <1>9, <1>10, Zenon DEF Locked

\* t reads: on its own, or above a reader of its own.
LEMMA Reads ==
  ASSUME LockInv, NEW t \in Threads, NEW f, Push(t, f), Framed(f), Held(f, Readers),
         Idle(t) \/ (Len(frames[t]) = 1 /\ Held(Top(t), Readers) /\ f.op = "contains"),
         TakeRead(t), values' = values
  PROVE  Locked(frames', readers', writer', values')
<1>1. Shaped(frames) /\ Counted(frames, readers, writer) /\ Sure(frames, values) /\ Stacked(frames)
  BY DEF LockInv, Locked, Shaped
<1>2. IsPushed(frames', frames, t, f)
  BY <1>1, PushedIs, Zenon DEF Push
<1>3. Len(frames[t]) = 0 \/ (Len(frames[t]) = 1 /\ Held(frames[t][1], Readers) /\ f.op = "contains")
  BY <1>1, IdleIs, TopIs
<1>4. Shaped(frames')
  BY <1>1, <1>2, <1>3, ShapedPushed, Zenon
<1>5. ~Held(f, Writers) /\ ~Held(f, Found) /\ ~Held(f, Changers)
  BY DEF Held, Readers, Writers, Found, Changers
<1>6. \A u \in Threads \ {t} : (frames')[u] = frames[u]
  BY <1>2 DEF IsPushed
<1>7. \A u \in Threads \ {t} : \A ops : Of(frames', u, ops) = Of(frames, u, ops)
  BY <1>6, Zenon DEF Of
<1>8. Of(frames', t, Writers) = Of(frames, t, Writers)
  BY <1>2, <1>5, OfPushed
<1>9. /\ Of(frames', t, Readers) = Of(frames, t, Readers) \cup {Len(frames[t]) + 1}
      /\ Len(frames[t]) + 1 \notin Of(frames, t, Readers)
  BY <1>2, OfPushed
<1>10. Counted(frames', readers + 1, writer)
  <2>1. \A u \in Threads \ {t} : Of(frames', u, Readers) = Of(frames, u, Readers)
    BY <1>7
  <2>2. \A u \in Threads : Of(frames', u, Writers) = Of(frames, u, Writers)
    BY <1>7, <1>8
  <2>3. QED
    BY <1>1, <1>9, <2>1, <2>2, CountedMore
<1>11. writer # t
  <2>1. Of(frames, t, Writers) = {}
    <3>1. ASSUME NEW k \in Of(frames, t, Writers)
          PROVE  FALSE
      <4>1. k \in 1 .. Len(frames[t]) /\ Held(frames[t][k], Writers)
        BY <1>1, TopIs DEF Of
      <4>2. k = 1 /\ Len(frames[t]) = 1
        BY <1>3, <4>1
      <4>3. QED
        BY <1>3, <4>1, <4>2 DEF Held, Readers, Writers
    <3>2. QED
      BY <3>1
  <2>2. QED
    BY <1>1, <2>1, Zenon DEF Counted
<1>12. readers' = readers + 1 /\ writer' = writer
  BY <1>11, Zenon DEF TakeRead
<1>13. Sure(frames', values')
  BY <1>1, <1>2, <1>5, SurePushed, Zenon
<1>14. QED
  BY <1>4, <1>10, <1>12, <1>13, Zenon DEF Locked

\* t takes the lock for writing.
LEMMA Writes ==
  ASSUME LockInv, NEW t \in Threads, Idle(t), NEW f, Push(t, f), Framed(f), Held(f, Writers),
         TakeWrite(t), ListAssumption,
         Lone(frames, t, Found) \/ (values' = values /\ f.op = "remove")
  PROVE  Locked(frames', readers', writer', values')
<1>1. Shaped(frames) /\ Counted(frames, readers, writer) /\ Sure(frames, values) /\ Stacked(frames)
  BY DEF LockInv, Locked, Shaped
<1>2. IsPushed(frames', frames, t, f)
  BY <1>1, PushedIs, Zenon DEF Push
<1>3. Len(frames[t]) = 0 /\ writer # t /\ \A ops : Of(frames, t, ops) = {}
  BY IdleIs
<1>4. Shaped(frames')
  BY <1>1, <1>2, <1>3, ShapedPushed, Zenon
<1>5. ~Held(f, Readers) /\ ~Held(f, Found)
  BY DEF Held, Readers, Writers, Found
<1>6. \A u \in Threads \ {t} : (frames')[u] = frames[u]
  BY <1>2 DEF IsPushed
<1>7. \A u \in Threads \ {t} : \A ops : Of(frames', u, ops) = Of(frames, u, ops)
  BY <1>6, Zenon DEF Of
<1>8. Of(frames', t, Readers) = Of(frames, t, Readers) /\ Of(frames', t, Found) = Of(frames, t, Found)
  BY <1>2, <1>5, OfPushed
<1>9. Of(frames', t, Writers) # {}
  BY <1>2, OfPushed
<1>10. writer = Nobody /\ writer' = t /\ readers' = readers
  BY <1>3, Zenon DEF TakeWrite, MayWrite
<1>11. Counted(frames', readers, t)
  <2>1. \A u \in Threads \ {t} : Of(frames', u, Writers) = Of(frames, u, Writers)
    BY <1>7
  <2>2. \A u \in Threads : Of(frames', u, Readers) = Of(frames, u, Readers)
    BY <1>7, <1>8
  <2>3. writer \notin Threads \ {t}
    BY <1>10 DEF ListAssumption
  <2>4. QED
    BY <1>1, <1>9, <2>1, <2>2, <2>3, CountedTaken
<1>12. Sure(frames', values')
  <2>1. CASE Lone(frames, t, Found)
    <3>1. Of(frames', t, Found) = {}
      BY <1>3, <1>8
    <3>2. QED
      BY <1>6, <2>1, <3>1, SureLone, Zenon
  <2>2. CASE values' = values /\ f.op = "remove"
    <3>1. ~Held(f, Changers)
      BY <2>2 DEF Held, Changers
    <3>2. QED
      BY <1>1, <1>2, <1>5, <2>2, <3>1, SurePushed, Zenon
  <2>3. QED
    BY <2>1, <2>2
<1>13. QED
  BY <1>4, <1>10, <1>11, <1>12, Zenon DEF Locked

\* Whoever is on top of a stack and counts has what it releases.
Without(new, fr, t) ==
  /\ \A u \in Threads \ {t} : new[u] = fr[u]
  /\ Of(new, t, Readers) = Of(fr, t, Readers) \ {Len(fr[t])}
  /\ Of(new, t, Writers) = Of(fr, t, Writers) \ {Len(fr[t])}

LEMMA WriterAlone ==
  ASSUME Shaped(frames), NEW t \in Threads, frames[t] # <<>>, ~Held(Top(t), Writers)
  PROVE  Of(frames, t, Writers) = {}
<1>1. ASSUME NEW k \in Of(frames, t, Writers)
      PROVE  FALSE
  <2>1. Top(t) = frames[t][Len(frames[t])]
    BY TopIs
  <2>2. Held(frames[t][k], Writers)
    BY DEF Of
  <2>3. k # Len(frames[t])
    BY <2>1, <2>2
  <2>4. QED
    BY <2>2, <2>3, Below DEF Held, Readers, Writers
<1>2. QED
  BY <1>1

LEMMA WriterLast ==
  ASSUME Shaped(frames), NEW t \in Threads, frames[t] # <<>>, Top(t).op # "contains"
  PROVE  Len(frames[t]) = 1 /\ Of(frames, t, Writers) \ {Len(frames[t])} = {}
<1>1. Low(frames[t]) /\ Top(t) = frames[t][Len(frames[t])] /\ Len(frames[t]) \in Nat \ {0} /\ DOMAIN frames[t] = 1 .. Len(frames[t])
  BY TopIs
<1>2. Len(frames[t]) = 1
  <2>1. ASSUME Len(frames[t]) = 2
        PROVE  FALSE
    BY <1>1, <2>1 DEF Low
  <2>2. Len(frames[t]) <= 2
    BY <1>1 DEF Low
  <2>3. \A n \in Nat \ {0} : n <= 2 /\ n # 2 => n = 1
    OBVIOUS
  <2>4. QED
    BY <1>1, <2>1, <2>2, <2>3
<1>3. Of(frames, t, Writers) \subseteq 1 .. 1
  BY <1>1, <1>2 DEF Of
<1>4. QED
  BY <1>2, <1>3

LEMMA Releases ==
  ASSUME LockInv, ListAssumption, NEW t \in Threads, In(t, Readers) \/ In(t, Writers), Release(t),
         Without(frames', frames, t)
  PROVE  Counted(frames', readers', writer')
<1>1. Shaped(frames) /\ Counted(frames, readers, writer)
  BY DEF LockInv, Locked
<1>2. \A u \in Threads \ {t} : (frames')[u] = frames[u]
  BY DEF Without
<1>3. \A u \in Threads \ {t} : \A ops : Of(frames', u, ops) = Of(frames, u, ops)
  BY <1>2, Zenon DEF Of
<1>4. CASE In(t, Readers)
  <2>1. frames[t] # <<>> /\ Held(Top(t), Readers) /\ Len(frames[t]) \in Of(frames, t, Readers)
    BY <1>1, <1>4, InIs
  <2>2. Of(frames, t, Writers) = {}
    BY <1>1, <2>1, WriterAlone DEF Held, Readers, Writers
  <2>3. writer # t
    BY <1>1, <2>2, Zenon DEF Counted
  <2>4. readers' = readers - 1 /\ writer' = writer
    BY <2>3, Zenon DEF Release
  <2>5. Of(frames', t, Readers) = Of(frames, t, Readers) \ {Len(frames[t])}
    BY DEF Without
  <2>6. \A u \in Threads \ {t} : Of(frames', u, Readers) = Of(frames, u, Readers)
    BY <1>3
  <2>7. \A u \in Threads : Of(frames', u, Writers) = Of(frames, u, Writers)
    BY <1>3, <2>2 DEF Without
  <2>8. Counted(frames', readers - 1, writer)
    BY <1>1, <2>1, <2>5, <2>6, <2>7, CountedLess
  <2>9. QED
    BY <2>4, <2>8, Zenon
<1>5. CASE In(t, Writers)
  <2>1. frames[t] # <<>> /\ Held(Top(t), Writers) /\ Len(frames[t]) \in Of(frames, t, Writers)
    BY <1>1, <1>5, InIs
  <2>2. Len(frames[t]) = 1 /\ Of(frames', t, Writers) = {}
    BY <1>1, <2>1, WriterLast DEF Held, Writers, Without
  <2>3. writer = t
    BY <1>1, <2>1, Zenon DEF Counted
  <2>4. readers' = readers /\ writer' = Nobody
    BY <2>3, Zenon DEF Release
  <2>5. Len(frames[t]) \notin Of(frames, t, Readers)
    <3>1. Top(t) = frames[t][Len(frames[t])]
      BY <1>1, <2>1, TopIs
    <3>2. QED
      BY <2>1, <3>1 DEF Of, Held, Readers, Writers
  <2>6. \A u \in Threads : Of(frames', u, Readers) = Of(frames, u, Readers)
    BY <1>3, <2>5 DEF Without
  <2>7. \A u \in Threads \ {t} : Of(frames', u, Writers) = Of(frames, u, Writers)
    BY <1>3
  <2>8. Counted(frames', readers, Nobody)
    BY <1>1, <2>2, <2>3, <2>6, <2>7, CountedGiven DEF ListAssumption
  <2>9. QED
    BY <2>4, <2>8, Zenon
<1>6. QED
  BY <1>4, <1>5

\* A call gives the lock back and is over, or has its answer, or goes on to
\* pop what it found.
LEMMA Ends ==
  ASSUME LockInv, ListAssumption, NEW t \in Threads, In(t, Readers) \/ In(t, Writers), Release(t),
         Leave(t), values' = values \/ Of(frames, t, Changers) # {}
  PROVE  Locked(frames', readers', writer', values')
<1>1. Shaped(frames) /\ Counted(frames, readers, writer) /\ Sure(frames, values) /\ Stacked(frames)
  BY DEF LockInv, Locked, Shaped
<1>2. frames[t] # <<>> /\ (Held(Top(t), Readers) \/ Held(Top(t), Writers))
  BY <1>1, InIs
<1>3. IsPopped(frames', frames, t)
  BY <1>1, <1>2, PoppedIs, Zenon DEF Leave
<1>4. Shaped(frames')
  BY <1>1, <1>3, ShapedPopped, Zenon
<1>5. \A u \in Threads \ {t} : (frames')[u] = frames[u]
  BY <1>3 DEF IsPopped
<1>6. \A ops : Of(frames', t, ops) = Of(frames, t, ops) \ {Len(frames[t])}
  BY <1>3, OfPopped
<1>7. Counted(frames', readers', writer')
  <2>1. Without(frames', frames, t)
    BY <1>5, <1>6, Zenon DEF Without
  <2>2. QED
    BY <2>1, Releases, Zenon
<1>8. Sure(frames', values')
  <2>1. CASE values' = values
    BY <1>1, <1>3, <2>1, SurePopped, Zenon
  <2>2. CASE Of(frames, t, Changers) # {}
    <3>1. Lone(frames, t, Found)
      BY <1>1, <2>2, LoneChanger, Zenon
    <3>2. Of(frames', t, Found) = {}
      <4>1. ASSUME NEW k \in Of(frames', t, Found)
            PROVE  FALSE
        <5>1. k \in Of(frames, t, Found) /\ k # Len(frames[t])
          BY <1>6
        <5>2. QED
          BY <1>1, <5>1, Below DEF Held, Readers, Found
      <4>2. QED
        BY <4>1
    <3>3. QED
      BY <1>5, <3>1, <3>2, SureLone, Zenon
  <2>3. QED
    BY <2>1, <2>2
<1>9. QED
  BY <1>4, <1>7, <1>8, Zenon DEF Locked

LEMMA Settles ==
  ASSUME LockInv, ListAssumption, NEW t \in Threads, In(t, Readers) \/ In(t, Writers), Release(t),
         NEW f, Become(t, f), Framed(f), f.op = Top(t).op \/ Top(t).op # "contains",
         ~Held(f, Readers), ~Held(f, Writers),
         Held(f, Found) => f.i < Len(values) /\ In(t, Writers),
         values' = values
  PROVE  Locked(frames', readers', writer', values')
<1>1. Shaped(frames) /\ Counted(frames, readers, writer) /\ Sure(frames, values) /\ Stacked(frames)
  BY DEF LockInv, Locked, Shaped
<1>2. frames[t] # <<>> /\ (Held(Top(t), Readers) \/ Held(Top(t), Writers))
  BY <1>1, InIs
<1>3. IsTurned(frames', frames, t, f)
  BY <1>1, <1>2, TurnedIs, Zenon DEF Become
<1>4. f.op = frames[t][Len(frames[t])].op \/ Len(frames[t]) = 1
  BY <1>1, <1>2, TopIs, WriterLast
<1>5. Shaped(frames')
  BY <1>1, <1>3, <1>4, ShapedTurned, Zenon
<1>6. \A u \in Threads \ {t} : (frames')[u] = frames[u]
  BY <1>3 DEF IsTurned
<1>7. \A ops : ~Held(f, ops) => Of(frames', t, ops) = Of(frames, t, ops) \ {Len(frames[t])}
  BY <1>3, OfTurned
<1>8. Counted(frames', readers', writer')
  <2>1. Without(frames', frames, t)
    BY <1>6, <1>7, Zenon DEF Without
  <2>2. QED
    BY <2>1, Releases, Zenon
<1>9. ~Held(f, Changers)
  BY DEF Held, Changers, Writers
<1>10. Sure(frames', values')
  <2>1. CASE ~Held(f, Found)
    BY <1>1, <1>3, <1>9, <2>1, SureTurned, Zenon
  <2>2. CASE Held(f, Found)
    <3>1. \A u \in Threads \ {t} : Of(frames, u, Changers) = {}
      <4>1. writer = t
        BY <1>1, <2>2, InIs, Zenon DEF Counted
      <4>2. \A u \in Threads \ {t} : Of(frames, u, Writers) = {}
        BY <1>1, <4>1, Zenon DEF Counted
      <4>3. \A u \in Threads : Of(frames, u, Changers) \subseteq Of(frames, u, Writers)
        BY DEF Of, Held, Changers, Writers
      <4>4. QED
        BY <4>2, <4>3
    <3>2. \A u \in Threads \ {t} : \A ops : Of(frames', u, ops) = Of(frames, u, ops)
      BY <1>6, Zenon DEF Of
    <3>3. Of(frames', t, Changers) \subseteq Of(frames, t, Changers)
      BY <1>7, <1>9
    <3>4. ASSUME NEW u \in Threads, NEW k \in Of(frames', u, Found)
          PROVE  (frames')[u][k].i < Len(values) /\ \A w \in Threads \ {u} : Of(frames', w, Changers) = {}
      <4>1. CASE u = t
        <5>1. k = Len(frames[t])
          <6>1. ASSUME k # Len(frames[t])
                PROVE  FALSE
            <7>1. Of(frames', t, Found) = Of(frames, t, Found) \cup {Len(frames[t])}
              BY <1>3, <2>2, OfTurned
            <7>2. k \in Of(frames, t, Found)
              BY <4>1, <6>1, <7>1
            <7>3. QED
              BY <1>1, <6>1, <7>2, Below DEF Held, Readers, Found
          <6>2. QED
            BY <6>1
        <5>2. (frames')[t][k] = f
          BY <1>3, <5>1 DEF IsTurned
        <5>3. \A w \in Threads \ {t} : Of(frames', w, Changers) = {}
          BY <3>1, <3>2
        <5>4. QED
          BY <2>2, <4>1, <5>2, <5>3, Zenon
      <4>2. CASE u # t
        <5>1. k \in Of(frames, u, Found) /\ (frames')[u] = frames[u]
          BY <1>6, <3>2, <4>2
        <5>2. frames[u][k].i < Len(values) /\ \A w \in Threads \ {u} : Of(frames, w, Changers) = {}
          BY <1>1, <5>1, Zenon DEF Sure
        <5>3. \A w \in Threads \ {u} : Of(frames', w, Changers) = {}
          BY <3>2, <3>3, <5>2
        <5>4. QED
          BY <5>1, <5>2, <5>3, Zenon
      <4>3. QED
        BY <4>1, <4>2, Zenon
    <3>5. QED
      BY <3>4, Zenon DEF Sure
  <2>3. QED
    BY <2>1, <2>2
<1>11. QED
  BY <1>5, <1>8, <1>10, Zenon DEF Locked

\* A call goes on.
LEMMA Proceeds ==
  ASSUME LockInv, NEW t \in Threads, In(t, Readers) \/ In(t, Writers), readers' = readers, writer' = writer,
         NEW f, Become(t, f), Framed(f), f.op = Top(t).op, f.reply = <<>>,
         values' = values \/ Of(frames, t, Changers) # {}
  PROVE  Locked(frames', readers', writer', values')
<1>1. Shaped(frames) /\ Counted(frames, readers, writer) /\ Sure(frames, values) /\ Stacked(frames)
  BY DEF LockInv, Locked, Shaped
<1>2. frames[t] # <<>> /\ (Held(Top(t), Readers) \/ Held(Top(t), Writers))
  BY <1>1, InIs
<1>3. IsTurned(frames', frames, t, f)
  BY <1>1, <1>2, TurnedIs, Zenon DEF Become
<1>4. Top(t) = frames[t][Len(frames[t])]
  BY <1>1, <1>2, TopIs
<1>5. Shaped(frames')
  BY <1>1, <1>3, <1>4, ShapedTurned, Zenon
<1>6. \A u \in Threads \ {t} : (frames')[u] = frames[u]
  BY <1>3 DEF IsTurned
<1>7. \A ops : Held(f, ops) <=> Held(Top(t), ops)
  BY <1>2 DEF Held
<1>8. \A ops : Of(frames', t, ops) = Of(frames, t, ops)
  <2>1. ASSUME NEW ops
        PROVE  Of(frames', t, ops) = Of(frames, t, ops)
    <3>1. Held(f, ops) => Of(frames', t, ops) = Of(frames, t, ops) \cup {Len(frames[t])}
      BY <1>3, OfTurned
    <3>2. ~Held(f, ops) => Of(frames', t, ops) = Of(frames, t, ops) \ {Len(frames[t])}
      BY <1>3, OfTurned
    <3>3. Len(frames[t]) \in Of(frames, t, ops) <=> Held(frames[t][Len(frames[t])], ops)
      BY <1>3, OfTurned
    <3>4. Held(f, ops) <=> Held(frames[t][Len(frames[t])], ops)
      BY <1>4, <1>7
    <3>5. QED
      BY <3>1, <3>2, <3>3, <3>4
  <2>2. QED
    BY <2>1
<1>9. \A u \in Threads : \A ops : Of(frames', u, ops) = Of(frames, u, ops)
  BY <1>6, <1>8, Zenon DEF Of
<1>10. Counted(frames', readers, writer)
  BY <1>1, <1>9, CountedSame, Zenon
<1>11. Of(frames, t, Found) = {}
  <2>1. ASSUME NEW k \in Of(frames, t, Found)
        PROVE  FALSE
    <3>1. Held(frames[t][k], Found)
      BY DEF Of
    <3>2. k # Len(frames[t])
      BY <1>2, <1>4, <3>1 DEF Held, Readers, Writers, Found
    <3>3. QED
      BY <1>1, <3>1, <3>2, Below DEF Held, Readers, Found
  <2>2. QED
    BY <2>1
<1>12. Sure(frames', values')
  <2>1. CASE values' = values
    <3>1. \A u \in Threads : \A k \in Of(frames', u, Found) : k \in Of(frames, u, Found) /\ (frames')[u][k] = frames[u][k]
      BY <1>6, <1>9, <1>11
    <3>2. \A u \in Threads : Of(frames', u, Changers) \subseteq Of(frames, u, Changers)
      BY <1>9
    <3>3. QED
      BY <1>1, <2>1, <3>1, <3>2, SureSame, Zenon
  <2>2. CASE Of(frames, t, Changers) # {}
    <3>1. Lone(frames, t, Found) /\ Of(frames', t, Found) = {}
      BY <1>1, <1>8, <1>11, <2>2, LoneChanger
    <3>2. QED
      BY <1>6, <3>1, SureLone, Zenon
  <2>3. QED
    BY <2>1, <2>2
<1>13. QED
  BY <1>5, <1>10, <1>12, Zenon DEF Locked

\* A call that holds nothing is over.
LEMMA Leaves ==
  ASSUME LockInv, NEW t \in Threads, frames[t] # <<>>, ~Held(Top(t), Readers), ~Held(Top(t), Writers),
         Leave(t), readers' = readers, writer' = writer,
         values' = values \/ (Lone(frames, t, Found) /\ Held(Top(t), Found))
  PROVE  Locked(frames', readers', writer', values')
<1>1. Shaped(frames) /\ Counted(frames, readers, writer) /\ Sure(frames, values) /\ Stacked(frames)
  BY DEF LockInv, Locked, Shaped
<1>2. IsPopped(frames', frames, t)
  BY <1>1, PoppedIs, Zenon DEF Leave
<1>3. Shaped(frames')
  BY <1>1, <1>2, ShapedPopped, Zenon
<1>4. \A u \in Threads \ {t} : (frames')[u] = frames[u]
  BY <1>2 DEF IsPopped
<1>5. Top(t) = frames[t][Len(frames[t])]
  BY <1>1, TopIs
<1>6. \A ops : Of(frames', t, ops) = Of(frames, t, ops) \ {Len(frames[t])}
  BY <1>2, OfPopped
<1>7. Len(frames[t]) \notin Of(frames, t, Readers) /\ Len(frames[t]) \notin Of(frames, t, Writers)
  BY <1>2, <1>5, OfPopped
<1>8. Of(frames', t, Readers) = Of(frames, t, Readers) /\ Of(frames', t, Writers) = Of(frames, t, Writers)
  BY <1>6, <1>7
<1>9. \A u \in Threads : Of(frames', u, Readers) = Of(frames, u, Readers) /\ Of(frames', u, Writers) = Of(frames, u, Writers)
  BY <1>4, <1>8, Zenon DEF Of
<1>10. Counted(frames', readers, writer)
  BY <1>1, <1>9, CountedSame, Zenon
<1>11. Sure(frames', values')
  <2>1. CASE values' = values
    BY <1>1, <1>2, <2>1, SurePopped, Zenon
  <2>2. CASE Lone(frames, t, Found) /\ Held(Top(t), Found)
    <3>1. Of(frames', t, Found) = {}
      <4>1. ASSUME NEW k \in Of(frames', t, Found)
            PROVE  FALSE
        <5>1. k \in Of(frames, t, Found) /\ k # Len(frames[t])
          BY <1>6
        <5>2. QED
          BY <1>1, <5>1, Below DEF Held, Readers, Found
      <4>2. QED
        BY <4>1
    <3>2. QED
      BY <1>4, <2>2, <3>1, SureLone, Zenon
  <2>3. QED
    BY <2>1, <2>2
<1>12. QED
  BY <1>3, <1>10, <1>11, Zenon DEF Locked

-----------------------------------------------------------------------------
(* The actions.                                                            *)

LEMMA AnsweredIs ==
  ASSUME NEW f, Framed(f), NEW x
  PROVE  /\ Framed(Answered(f, x)) /\ Answered(f, x).op = f.op
         /\ Answered(f, x).reply # <<>> /\ \A ops : ~Held(Answered(f, x), ops)
<1> DEFINE g == Answered(f, x)
<1>1. g = [f EXCEPT !.reply = <<x>>]
  BY DEF Answered
<1>2. "op" \in DOMAIN f /\ "reply" \in DOMAIN f
  BY DEF Framed
<1> HIDE DEF g
<1>3. g.op = f.op /\ g.reply = <<x>> /\ DOMAIN g = DOMAIN f /\ ("i" \in DOMAIN f => g.i = f.i)
  BY <1>1, <1>2
<1>4. g.reply # <<>>
  BY <1>3
<1>5. Framed(g)
  BY <1>3 DEF Framed, Scanning
<1>6. QED
  BY <1>3, <1>4, <1>5, Zenon DEF Held, g

\* A frame as it is at the start.
LEMMA FrameIs ==
  ASSUME NEW op \in Scanning, NEW x, NEW r
  PROVE  Framed(Frame(op, x, r)) /\ Frame(op, x, r).op = op /\ Frame(op, x, r).reply = <<>>
BY DEF Frame, Framed, Scanning

LEMMA CallIs ==
  ASSUME NEW op \in {"pop", "getitem", "sort"}, NEW i
  PROVE  Framed(Call(op, i))
BY DEF Call, Framed, Scanning

\* A scan may be of either kind.
LEMMA ScanIs ==
  ASSUME LockInv, NEW t \in Threads, In(t, Scanning)
  PROVE  /\ In(t, Readers) \/ In(t, Writers)
         /\ Framed(Top(t)) /\ Top(t).op \in Scanning /\ Top(t).reply = <<>>
<1>1. frames[t] # <<>> /\ Top(t).op \in Scanning /\ Top(t).reply = <<>>
  BY Zenon DEF In
<1>2. In(t, Readers) \/ In(t, Writers)
  BY <1>1 DEF In, Scanning, Readers, Writers
<1>3. QED
  BY <1>1, <1>2, TopIs, Zenon DEF LockInv, Locked

LEMMA AtOnceKeeps ==
  ASSUME LockInv, Sound, NEW t \in Threads,
         \/ ListAppend(t) \/ Insert(t) \/ SetItem(t) \/ SetSlice(t) \/ DelSlice(t)
         \/ DelItem(t) \/ ExtendAtOnce(t) \/ Clear(t) \/ ListReverse(t)
  PROVE  Locked(frames', readers', writer', values')
<1>1. CASE SetItem(t)
  <2>1. Idle(t) /\ Reading(t) /\ frames' = frames /\ ~OthersIn(t, Scanning \cup Found)
    BY <1>1, Zenon DEF SetItem, Sound, Found
  <2>2. ~OthersIn(t, Found)
    BY <2>1 DEF OthersIn, In
  <2>3. Lone(frames, t, Found)
    BY <2>2, Unfound, Zenon DEF LockInv, Locked
  <2>4. QED
    BY <2>1, <2>3, IdleReads, Stays, Zenon
<1>2. CASE SetSlice(t) \/ DelSlice(t)
  <2>1. Alone(t) /\ frames' = frames
    BY <1>2, Zenon DEF SetSlice, DelSlice
  <2>2. Idle(t) /\ Writing(t)
    BY <2>1, Zenon DEF Alone
  <2>3. QED
    BY <2>1, <2>2, IdleWrites, Stays, Zenon
<1>3. CASE ListAppend(t) \/ Insert(t) \/ DelItem(t) \/ ExtendAtOnce(t) \/ Clear(t) \/ ListReverse(t)
  <2>1. Idle(t) /\ Writing(t) /\ frames' = frames
    BY <1>3, Zenon DEF ListAppend, Insert, DelItem, ExtendAtOnce, Clear, ListReverse
  <2>2. QED
    BY <2>1, IdleWrites, Stays, Zenon
<1>4. QED
  BY <1>1, <1>2, <1>3, Zenon

LEMMA PopKeeps ==
  ASSUME LockInv, Sound, NEW t \in Threads, Pop(t)
  PROVE  Locked(frames', readers', writer', values')
<1>1. Idle(t)
  BY Zenon DEF Pop
<1>2. PICK i \in Indices :
        /\ InBounds(Len(values), i) /\ Writing(t)
        /\ Push(t, Answered(Call("pop", i), At(values, FromEnd(Len(values), i))))
  BY Zenon DEF Pop, IndexError, Sound
<1>3. writer' = writer /\ readers' = readers /\ Lone(frames, t, Found)
  BY <1>1, <1>2, IdleWrites, Zenon
<1> DEFINE f == Answered(Call("pop", i), At(values, FromEnd(Len(values), i)))
<1>4. Framed(Call("pop", i))
  BY CallIs
<1>5. Framed(f) /\ f.reply # <<>>
  BY <1>4, AnsweredIs, Zenon
<1>6. Push(t, f)
  BY <1>2
<1> HIDE DEF f
<1>7. QED
  BY <1>1, <1>3, <1>5, <1>6, Answers, Zenon

LEMMA GetItemKeeps ==
  ASSUME LockInv, Sound, NEW t \in Threads, GetItem(t)
  PROVE  Locked(frames', readers', writer', values')
<1>1. Idle(t)
  BY Zenon DEF GetItem
<1>2. PICK i \in Indices :
        /\ Reading(t) /\ values' = values
        /\ Push(t, Answered(Call("getitem", i), At(values, FromEnd(Len(values), i))))
  BY Zenon DEF GetItem, IndexError, Sound
<1>3. writer' = writer /\ readers' = readers
  BY <1>1, <1>2, IdleReads, Zenon
<1> DEFINE f == Answered(Call("getitem", i), At(values, FromEnd(Len(values), i)))
<1>4. Framed(Call("getitem", i))
  BY CallIs
<1>5. Framed(f) /\ f.reply # <<>>
  BY <1>4, AnsweredIs, Zenon
<1>6. Push(t, f)
  BY <1>2
<1> HIDE DEF f
<1>7. QED
  BY <1>1, <1>2, <1>3, <1>5, <1>6, Answers, Zenon

LEMMA SortKeyRaisesKeeps ==
  ASSUME LockInv, Sound, NEW t \in Threads, SortKeyRaises(t)
  PROVE  Locked(frames', readers', writer', values')
<1> DEFINE f == Answered(Call("sort", 0), None)
<1>1. Idle(t) /\ Writing(t) /\ Push(t, f)
  BY Zenon DEF SortKeyRaises
<1>2. writer' = writer /\ readers' = readers /\ Lone(frames, t, Found)
  BY <1>1, IdleWrites, Zenon
<1>3. Framed(Call("sort", 0))
  BY CallIs
<1>4. Framed(f) /\ f.reply # <<>>
  BY <1>3, AnsweredIs, Zenon
<1> HIDE DEF f
<1>5. QED
  BY <1>1, <1>2, <1>4, Answers, Zenon

LEMMA ScanStartKeeps ==
  ASSUME LockInv, ListAssumption, NEW t \in Threads, ScanStart(t)
  PROVE  Locked(frames', readers', writer', values')
<1>1. Idle(t) /\ values' = values
  BY Zenon DEF ScanStart
<1>2. PICK op \in Scanning : \E x \in Wanted, r \in Ranges :
        /\ IF op = "remove" THEN TakeWrite(t) ELSE TakeRead(t)
        /\ Push(t, Frame(op, x, r))
  BY Zenon DEF ScanStart
<1>3. PICK x \in Wanted, r \in Ranges :
        /\ IF op = "remove" THEN TakeWrite(t) ELSE TakeRead(t)
        /\ Push(t, Frame(op, x, r))
  BY <1>2, Zenon
<1> DEFINE f == Frame(op, x, r)
<1>4. Framed(f) /\ f.op = op /\ f.reply = <<>> /\ Push(t, f)
  BY <1>3, FrameIs
<1> HIDE DEF f
<1>5. CASE op = "remove"
  <2>1. Held(f, Writers)
    BY <1>4, <1>5 DEF Held, Writers
  <2>2. QED
    BY <1>1, <1>3, <1>4, <1>5, <2>1, Writes, Zenon
<1>6. CASE op # "remove"
  <2>1. Held(f, Readers)
    BY <1>4, <1>6 DEF Held, Readers, Scanning
  <2>2. QED
    BY <1>1, <1>3, <1>4, <1>6, <2>1, Reads, Zenon
<1>7. QED
  BY <1>5, <1>6

LEMMA ScanOnKeeps ==
  ASSUME LockInv, NEW t \in Threads, ScanOn(t)
  PROVE  Locked(frames', readers', writer', values')
<1> DEFINE c == Top(t)
           f == [c EXCEPT !.i = @ + 1, !.n = IF Hit(c) THEN @ + 1 ELSE @]
<1>1. In(t, Scanning) /\ Become(t, f) /\ values' = values /\ readers' = readers /\ writer' = writer
  BY Zenon DEF ScanOn
<1>2. Framed(c) /\ c.op \in Scanning /\ c.reply = <<>> /\ (In(t, Readers) \/ In(t, Writers))
  BY <1>1, ScanIs
<1>3. Framed(f) /\ f.op = c.op /\ f.reply = <<>>
  <2> HIDE DEF c
  <2>1. {"op", "reply", "i"} \subseteq DOMAIN c /\ (c.op = "remove" => c.i \in Nat) /\ c.op # "found"
    BY <1>2 DEF Framed, Scanning
  <2>2. DOMAIN f = DOMAIN c /\ f.op = c.op /\ f.reply = c.reply /\ f.i = c.i + 1
    BY <2>1
  <2>3. c.op = "remove" => f.i \in Nat
    BY <2>1, <2>2
  <2>4. QED
    BY <1>2, <2>1, <2>2, <2>3 DEF Framed
<1> HIDE DEF f
<1>4. QED
  BY <1>1, <1>2, <1>3, Proceeds DEF c

LEMMA ScanAnswersKeep ==
  ASSUME LockInv, ListAssumption, NEW t \in Threads, ScanHit(t) \/ ScanEnd(t)
  PROVE  Locked(frames', readers', writer', values')
<1>1. In(t, Scanning) /\ Release(t) /\ values' = values
  BY Zenon DEF ScanHit, ScanEnd, In, Scanning
<1>2. PICK x : Become(t, Answered(Top(t), x))
  BY Zenon DEF ScanHit, ScanEnd
<1>3. Framed(Top(t)) /\ (In(t, Readers) \/ In(t, Writers))
  BY <1>1, ScanIs
<1> DEFINE f == Answered(Top(t), x)
<1>4. Framed(f) /\ f.op = Top(t).op /\ ~Held(f, Readers) /\ ~Held(f, Writers) /\ ~Held(f, Found)
  BY <1>3, AnsweredIs, Zenon
<1>5. Become(t, f)
  BY <1>2
<1> HIDE DEF f
<1>6. QED
  BY <1>1, <1>3, <1>4, <1>5, Settles

LEMMA RemoveHitKeeps ==
  ASSUME LockInv, ListAssumption, NEW t \in Threads, RemoveHit(t)
  PROVE  Locked(frames', readers', writer', values')
<1> DEFINE c == Top(t)
           f == [c EXCEPT !.op = "found"]
<1>1. In(t, {"remove"}) /\ More(c) /\ Release(t) /\ Become(t, f) /\ values' = values
  BY Zenon DEF RemoveHit
<1>2. In(t, Scanning) /\ In(t, Writers) /\ c.op = "remove"
  BY <1>1 DEF In, Scanning, Writers
<1>3. Framed(c)
  BY <1>2, ScanIs
<1>4. c.i < Len(values)
  BY <1>1, <1>2 DEF More
<1>5. Framed(f) /\ f.op = "found" /\ f.i = c.i
  <2> HIDE DEF c
  <2>1. {"op", "reply", "i"} \subseteq DOMAIN c /\ c.i \in Nat
    BY <1>2, <1>3 DEF Framed, Scanning
  <2>2. DOMAIN f = DOMAIN c /\ f.op = "found" /\ f.i = c.i
    BY <2>1
  <2>3. QED
    BY <2>1, <2>2 DEF Framed
<1> HIDE DEF f
<1>6. ~Held(f, Readers) /\ ~Held(f, Writers)
  BY <1>5 DEF Held, Readers, Writers
<1>7. f.i < Len(values)
  BY <1>4, <1>5
<1>8. QED
  BY <1>1, <1>2, <1>5, <1>6, <1>7, Settles DEF c

LEMMA RemovePopKeeps ==
  ASSUME LockInv, Sound, NEW t \in Threads, RemovePop(t)
  PROVE  Locked(frames', readers', writer', values')
<1>1. In(t, Found) /\ Leave(t)
  BY Zenon DEF RemovePop, Found
<1>2. Shaped(frames) /\ Counted(frames, readers, writer) /\ Sure(frames, values)
  BY DEF LockInv, Locked
<1>3. /\ frames[t] # <<>> /\ Held(Top(t), Found) /\ Len(frames[t]) \in Of(frames, t, Found)
      /\ Top(t) = frames[t][Len(frames[t])] /\ Framed(Top(t))
  BY <1>1, <1>2, InIs, TopIs
<1>4. ~Held(Top(t), Readers) /\ ~Held(Top(t), Writers)
  BY <1>3 DEF Held, Found, Readers, Writers
<1>5. InBounds(Len(values), Top(t).i)
  <2>1. Top(t).i \in Nat
    BY <1>3 DEF Framed, Held, Found
  <2>2. Top(t).i < Len(values)
    BY <1>2, <1>3 DEF Sure
  <2>3. QED
    BY <2>1, <2>2 DEF InBounds, FromEnd
<1>6. Writing(t)
  BY <1>5, Zenon DEF RemovePop
<1>7. writer # t
  BY <1>2, <1>3, <1>4, WriterAlone, Zenon DEF Counted
<1>8. writer' = writer /\ readers' = readers /\ ~OthersIn(t, Found)
  BY <1>6, <1>7, Zenon DEF Writing, MayWrite, Sound, Found
<1>9. Lone(frames, t, Found)
  BY <1>2, <1>8, Unfound, Zenon
<1>10. QED
  BY <1>1, <1>3, <1>4, <1>8, <1>9, Leaves, Zenon

LEMMA ScanRaisesKeeps ==
  ASSUME LockInv, ListAssumption, NEW t \in Threads, ScanRaises(t)
  PROVE  Locked(frames', readers', writer', values')
<1>1. In(t, Scanning) /\ Release(t) /\ Leave(t) /\ values' = values
  BY Zenon DEF ScanRaises
<1>2. QED
  BY <1>1, ScanIs, Ends

LEMMA NestKeeps ==
  ASSUME LockInv, Sound, NEW t \in Threads, Nest(t)
  PROVE  Locked(frames', readers', writer', values')
<1>1. In(t, Scanning) /\ Len(frames[t]) = 1 /\ Top(t).op # "remove" /\ TakeRead(t) /\ values' = values
  BY Zenon DEF Nest, Sound
<1>2. PICK x \in Wanted : Push(t, Frame("contains", x, Everywhere))
  BY Zenon DEF Nest
<1> DEFINE f == Frame("contains", x, Everywhere)
<1>3. Framed(f) /\ f.op = "contains" /\ f.reply = <<>>
  BY FrameIs DEF Scanning
<1>4. Push(t, f)
  BY <1>2
<1> HIDE DEF f
<1>5. Held(f, Readers)
  BY <1>3 DEF Held, Readers
<1>6. Held(Top(t), Readers)
  BY <1>1, ScanIs DEF Held, Readers, Scanning
<1>7. QED
  BY <1>1, <1>3, <1>4, <1>5, <1>6, Reads, Zenon

LEMMA ReturnKeeps ==
  ASSUME LockInv, NEW t \in Threads, Return(t)
  PROVE  Locked(frames', readers', writer', values')
<1>1. /\ frames[t] # <<>> /\ Top(t).reply # <<>> /\ Leave(t)
      /\ values' = values /\ readers' = readers /\ writer' = writer
  BY Zenon DEF Return
<1>2. ~Held(Top(t), Readers) /\ ~Held(Top(t), Writers)
  BY <1>1, Zenon DEF Held
<1>3. QED
  BY <1>1, <1>2, Leaves, Zenon

LEMMA ExtendStartKeeps ==
  ASSUME LockInv, ListAssumption, Sound, NEW t \in Threads, ExtendStart(t)
  PROVE  Locked(frames', readers', writer', values')
<1> DEFINE f == [op |-> "extend", reply |-> <<>>]
<1>1. Idle(t) /\ ~OthersIn(t, Found) /\ TakeWrite(t) /\ Push(t, f)
  BY Zenon DEF ExtendStart, Sound, Found
<1>2. Framed(f) /\ Held(f, Writers)
  BY DEF Framed, Held, Scanning, Writers
<1>3. Lone(frames, t, Found)
  BY <1>1, Unfound, Zenon DEF LockInv, Locked
<1> HIDE DEF f
<1>4. QED
  BY <1>1, <1>2, <1>3, Writes, Zenon

LEMMA SortStartKeeps ==
  ASSUME LockInv, ListAssumption, Sound, NEW t \in Threads, SortStart(t)
  PROVE  Locked(frames', readers', writer', values')
<1>1. Idle(t) /\ ~OthersIn(t, Found) /\ TakeWrite(t)
  BY Zenon DEF SortStart, Sound, Found
<1>2. PICK reverse, start :
        Push(t, [op |-> "sort", reply |-> <<>>, reverse |-> reverse, was |-> values,
                 a |-> Run(start, 1), b |-> None, power |-> 0, stack |-> <<>>])
  BY Zenon DEF SortStart
<1> DEFINE f == [op |-> "sort", reply |-> <<>>, reverse |-> reverse, was |-> values,
                 a |-> Run(start, 1), b |-> None, power |-> 0, stack |-> <<>>]
<1>3. Framed(f) /\ Held(f, Writers)
  BY DEF Framed, Held, Scanning, Writers
<1>4. Lone(frames, t, Found)
  BY <1>1, Unfound, Zenon DEF LockInv, Locked
<1>5. Push(t, f)
  BY <1>2
<1> HIDE DEF f
<1>6. QED
  BY <1>1, <1>3, <1>4, <1>5, Writes, Zenon

\* A thread that extends or sorts is in hand of the lock.
LEMMA ChangerIs ==
  ASSUME LockInv, NEW t \in Threads, In(t, {"extend"}) \/ In(t, {"sort"})
  PROVE  /\ In(t, Writers) /\ Of(frames, t, Changers) # {} /\ Lone(frames, t, Found)
         /\ Framed(Top(t)) /\ Top(t).op # "contains" /\ Top(t).reply = <<>>
<1>1. frames[t] # <<>> /\ Top(t).op \in {"extend", "sort"} /\ Top(t).reply = <<>>
  BY DEF In
<1>2. In(t, Writers) /\ In(t, Changers)
  BY <1>1 DEF In, Writers, Changers
<1>3. Shaped(frames) /\ Sure(frames, values)
  BY DEF LockInv, Locked
<1>4. Of(frames, t, Changers) # {} /\ Framed(Top(t))
  BY <1>1, <1>2, <1>3, InIs, TopIs
<1>5. QED
  BY <1>1, <1>2, <1>3, <1>4, LoneChanger

LEMMA ExtendItemKeeps ==
  ASSUME LockInv, NEW t \in Threads, ExtendItem(t)
  PROVE  Locked(frames', readers', writer', values')
<1>1. In(t, {"extend"}) /\ frames' = frames /\ readers' = readers /\ writer' = writer
  BY Zenon DEF ExtendItem
<1>2. Lone(frames, t, Found)
  BY <1>1, ChangerIs
<1>3. Of(frames, t, Found) = {}
  <2>1. ASSUME NEW k \in Of(frames, t, Found)
        PROVE  FALSE
    <3>1. Held(frames[t][k], Found) /\ Shaped(frames)
      BY DEF Of, LockInv, Locked
    <3>2. Held(Top(t), {"extend"}) /\ Top(t) = frames[t][Len(frames[t])]
      BY <1>1, <3>1, InIs, TopIs
    <3>3. k # Len(frames[t])
      BY <3>1, <3>2 DEF Held, Found
    <3>4. QED
      BY <3>1, <3>3, Below DEF Held, Readers, Found
  <2>2. QED
    BY <2>1
<1>4. QED
  BY <1>1, <1>2, <1>3, Stays, Zenon

LEMMA ChangersEnd ==
  ASSUME LockInv, ListAssumption, NEW t \in Threads, ExtendEnd(t) \/ SortEnd(t)
  PROVE  Locked(frames', readers', writer', values')
<1>1. (In(t, {"extend"}) \/ In(t, {"sort"})) /\ Release(t) /\ Leave(t)
  BY Zenon DEF ExtendEnd, SortEnd
<1>2. In(t, Writers) /\ Of(frames, t, Changers) # {}
  BY <1>1, ChangerIs
<1>3. QED
  BY <1>1, <1>2, Ends, Zenon

\* Sorting, step by step, in the frame that it has.
LEMMA SortsKeep ==
  ASSUME LockInv, NEW t \in Threads, SortNextRun(t) \/ SortCollapse(t) \/ SortPush(t) \/ SortMergeRest(t)
  PROVE  Locked(frames', readers', writer', values')
<1> DEFINE c == Top(t)
<1>1. In(t, {"sort"}) /\ readers' = readers /\ writer' = writer
  BY Zenon DEF SortNextRun, SortCollapse, SortPush, SortMergeRest, MergeTop
<1>2. /\ In(t, Writers) /\ Of(frames, t, Changers) # {}
      /\ Framed(c) /\ c.op = "sort" /\ c.reply = <<>>
  BY <1>1, ChangerIs DEF In
<1>3. \E f : Become(t, f) /\ Framed(f) /\ f.op = c.op /\ f.reply = <<>>
  <2>1. CASE SortNextRun(t)
    <3> DEFINE f == [c EXCEPT !.b = Run(values, c.a.end), !.power = Power(Len(values), c.a, Run(values, c.a.end))]
    <3>1. Become(t, f)
      BY <2>1, Zenon DEF SortNextRun
    <3>2. Framed(f) /\ f.op = c.op /\ f.reply = <<>>
      <4> HIDE DEF c
      <4>1. QED
        BY <1>2 DEF Framed, Scanning
    <3>3. QED
      BY <3>1, <3>2
  <2>2. CASE SortCollapse(t) \/ SortMergeRest(t)
    <3> DEFINE f == [c EXCEPT !.a.start = Last(c.stack).begin, !.stack = Front(@)]
    <3>1. Become(t, f)
      BY <2>2, Zenon DEF SortCollapse, SortMergeRest, MergeTop
    <3>2. Framed(f) /\ f.op = c.op /\ f.reply = <<>>
      <4> HIDE DEF c
      <4>1. QED
        BY <1>2 DEF Framed, Scanning
    <3>3. QED
      BY <3>1, <3>2
  <2>3. CASE SortPush(t)
    <3> DEFINE f == [c EXCEPT !.stack = Append(@, [begin |-> c.a.start, power |-> c.power]),
                              !.a = c.b, !.b = None]
    <3>1. Become(t, f)
      BY <2>3, Zenon DEF SortPush
    <3>2. Framed(f) /\ f.op = c.op /\ f.reply = <<>>
      <4> HIDE DEF c
      <4>1. QED
        BY <1>2 DEF Framed, Scanning
    <3>3. QED
      BY <3>1, <3>2
  <2>4. QED
    BY <2>1, <2>2, <2>3, Zenon
<1>4. QED
  BY <1>1, <1>2, <1>3, Proceeds, Zenon

LEMMA LockStep ==
  ASSUME LockInv, ListAssumption, Sound, NEW t \in Threads, Step(t)
  PROVE  LockInv'
<1>1. Locked(frames', readers', writer', values')
  BY AtOnceKeeps, PopKeeps, GetItemKeeps, SortKeyRaisesKeeps, ScanStartKeeps, ScanOnKeeps, ScanAnswersKeep,
     RemoveHitKeeps, RemovePopKeeps, ScanRaisesKeeps, NestKeeps, ReturnKeeps, ExtendStartKeeps,
     SortStartKeeps, ExtendItemKeeps, ChangersEnd, SortsKeep, Zenon DEF Step
<1>2. QED
  BY <1>1 DEF LockInv

LEMMA LockInit ==
  ASSUME LInit, ListAssumption
  PROVE  LockInv
<1>1. writer = Nobody /\ readers = 0 /\ frames = [t \in Threads |-> <<>>]
  BY DEF LInit
<1>2. Shaped(frames)
  <2>1. frames \in [Threads -> Seq({})]
    BY <1>1
  <2>2. Stacked(frames)
    BY <2>1, StackedIs
  <2>3. \A t \in Threads : DOMAIN frames[t] = {} /\ Len(frames[t]) = 0
    BY <1>1
  <2>4. QED
    BY <2>2, <2>3 DEF Shaped, Low
<1>3. \A t \in Threads : \A ops : Of(frames, t, ops) = {}
  BY <1>1 DEF Of
<1>4. Counted(frames, readers, writer)
  <2>1. Inside(frames, Readers) = {}
    <3>1. ASSUME NEW c \in Inside(frames, Readers)
          PROVE  FALSE
      BY <1>3, InsideAre
    <3>2. QED
      BY <3>1
  <2>2. IsFiniteSet(Inside(frames, Readers)) /\ readers = Cardinality(Inside(frames, Readers))
    BY <1>1, <2>1, FS_EmptySet
  <2>3. \A t \in Threads : writer = t <=> Of(frames, t, Writers) # {}
    BY <1>1, <1>3 DEF ListAssumption
  <2>4. QED
    BY <2>2, <2>3, Zenon DEF Counted
<1>5. Sure(frames, values)
  BY <1>3 DEF Sure
<1>6. QED
  BY <1>2, <1>4, <1>5, Zenon DEF LockInv, Locked

LEMMA LockFollows ==
  ASSUME LockInv
  PROVE  LockIsOfCallers
<1>1. Counted(frames, readers, writer)
  BY DEF LockInv, Locked
<1>2. readers = Cardinality(Callers({"contains", "index", "count"}))
  BY <1>1, CallersInside, Zenon DEF Counted, Readers
<1>3. ASSUME NEW t \in Threads
      PROVE  (\E c \in Callers({"remove", "extend", "sort"}) : c[1] = t) <=> Of(frames, t, Writers) # {}
  <2>1. Callers({"remove", "extend", "sort"}) = Inside(frames, Writers)
    BY CallersInside, Zenon DEF Writers
  <2>2. ASSUME NEW c \in Inside(frames, Writers), c[1] = t
        PROVE  Of(frames, t, Writers) # {}
    <3>1. PICK u \in Threads : \E k \in Of(frames, u, Writers) : c = <<u, k>>
      BY InsideAre
    <3>2. QED
      BY <2>2, <3>1
  <2>3. ASSUME NEW k \in Of(frames, t, Writers)
        PROVE  \E c \in Inside(frames, Writers) : c[1] = t
    <3>1. <<t, k>> \in Inside(frames, Writers)
      BY InsideOf, Zenon
    <3>2. <<t, k>>[1] = t
      OBVIOUS
    <3>3. QED
      BY <3>1, <3>2, Zenon
  <2>4. QED
    BY <2>1, <2>2, <2>3
<1>4. QED
  BY <1>1, <1>2, <1>3, Zenon DEF LockIsOfCallers, Counted

\* Of any number of threads, with any list: the lock is held for writing by
\* the thread that is inside remove, extend or sort, and for reading as often
\* as there are calls inside contains, index and count, those that __eq__ makes
\* included.  Whether they find something, come to the end or raise, they give
\* back what they took, and a pop by remove finds its index still in bounds.
THEOREM LockHeldByCallers ==
  ASSUME ListAssumption, Sound
  PROVE  LSpec => []LockIsOfCallers
<1>1. LInit => LockInv
  BY LockInit
<1>2. LockInv /\ [LNext]_listVars => LockInv'
  <2> SUFFICES ASSUME LockInv, [LNext]_listVars PROVE LockInv'
    OBVIOUS
  <2>1. CASE LNext
    BY <2>1, LockStep, Zenon DEF LNext
  <2>2. CASE UNCHANGED listVars
    <3>1. frames' = frames /\ readers' = readers /\ writer' = writer /\ values' = values
      BY <2>2, Zenon DEF listVars
    <3>2. QED
      BY <3>1 DEF LockInv
  <2>3. QED
    BY <2>1, <2>2, Zenon
<1>3. LockInv => LockIsOfCallers
  BY LockFollows
<1>4. QED
  BY <1>1, <1>2, <1>3, PTL DEF LSpec

-----------------------------------------------------------------------------
(* Recursive functions.  up says for which other argument a function asks, *)
(* Stop where it asks for none; whatever set of arguments one takes, there *)
(* is one in it that asks for none in it.                                  *)

Founded(D, up, Stop) ==
  /\ \A c \in D : c \in Stop \/ up[c] \in D
  /\ \A S \in (SUBSET D) \ {{}} : \E c \in S : c \in Stop \/ up[c] \notin S

LEMMA Lowest ==
  ASSUME NEW D, NEW up, NEW Stop, Founded(D, up, Stop), NEW S, S \subseteq D, S # {}
  PROVE  \E c \in S : c \in Stop \/ up[c] \notin S
<1>1. S \in SUBSET D /\ S \notin {{}}
  OBVIOUS
<1>2. QED
  BY <1>1 DEF Founded

\* What it asks for is less in some measure.
LEMMA Measured ==
  ASSUME NEW D, NEW up, NEW Stop, NEW h,
         \A c \in D : h[c] \in Nat /\ (c \in Stop \/ (up[c] \in D /\ h[up[c]] < h[c]))
  PROVE  Founded(D, up, Stop)
<1>1. SUFFICES ASSUME NEW S \in (SUBSET D) \ {{}}
               PROVE  \E c \in S : c \in Stop \/ up[c] \notin S
  BY DEF Founded
<1> DEFINE M == {h[c] : c \in S}
<1>2. M \subseteq Nat /\ M # {}
  OBVIOUS
<1>3. \E m \in M : \A k \in M : ~ (<<k, m>> \in OpToRel(<, Nat))
  <2>1. IsWellFoundedOn(OpToRel(<, Nat), Nat)
    BY NatLessThanWellFounded
  <2> HIDE DEF M
  <2>2. QED
    BY <1>2, <2>1, WFMin
<1>4. PICK c \in S : \A d \in S : ~ (<<h[d], h[c]>> \in OpToRel(<, Nat))
  BY <1>3
<1>5. \A d \in S : ~ (h[d] < h[c])
  BY <1>4 DEF OpToRel
<1>6. QED
  BY <1>5

\* g is the function on S, a set with all arguments it asks for.
Solves(D, up, Stop, start, step, S, g) ==
  /\ S \subseteq D
  /\ DOMAIN g = S
  /\ \A c \in S : c \in Stop \/ up[c] \in S
  /\ \A c \in S : g[c] = IF c \in Stop THEN start[c] ELSE step[c][g[up[c]]]

LEMMA SolutionsAgree ==
  ASSUME NEW D, NEW up, NEW Stop, Founded(D, up, Stop), NEW start, NEW step, NEW S, NEW g, NEW R, NEW h,
         Solves(D, up, Stop, start, step, S, g), Solves(D, up, Stop, start, step, R, h), NEW c \in S \cap R
  PROVE  g[c] = h[c]
<1> DEFINE T == {d \in S \cap R : g[d] # h[d]}
<1>1. SUFFICES ASSUME T # {} PROVE FALSE
  BY <1>1
<1>2. T \subseteq D
  BY DEF Solves
<1>3. PICK d \in T : d \in Stop \/ up[d] \notin T
  BY <1>1, <1>2, Lowest
<1>4. CASE d \in Stop
  BY <1>3, <1>4 DEF Solves
<1>5. CASE d \notin Stop
  BY <1>3, <1>5 DEF Solves
<1>6. QED
  BY <1>4, <1>5

LEMMA SolutionAt ==
  ASSUME NEW D, NEW up, NEW Stop, Founded(D, up, Stop),
         NEW start, NEW step, NEW c \in D
  PROVE  \E S, g : Solves(D, up, Stop, start, step, S, g) /\ c \in S
<1> DEFINE Done(d) == \E S, g : Solves(D, up, Stop, start, step, S, g) /\ d \in S
           T == {d \in D : ~ Done(d)}
<1>1. SUFFICES ASSUME T # {} PROVE FALSE
  <2> HIDE DEF Done
  <2>1. ~ Done(c) => T # {}
    OBVIOUS
  <2>2. QED
    BY <1>1, <2>1 DEF Done
<1>2. PICK d \in T : d \in Stop \/ up[d] \notin T
  <2>1. T \subseteq D
    OBVIOUS
  <2> HIDE DEF T
  <2>2. QED
    BY <1>1, <2>1, Lowest
<1>3. CASE d \in Stop
  <2> DEFINE g == [x \in {d} |-> start[x]]
  <2>1. Solves(D, up, Stop, start, step, {d}, g)
    BY <1>2, <1>3 DEF Solves
  <2>2. QED
    BY <1>2, <2>1
<1>4. CASE d \notin Stop
  <2>1. up[d] \in D
    BY <1>2, <1>4 DEF Founded
  <2>2. PICK S, g : Solves(D, up, Stop, start, step, S, g) /\ up[d] \in S
    <3>1. up[d] \notin T
      BY <1>2, <1>4
    <3>2. Done(up[d])
      BY <2>1, <3>1
    <3>3. QED
      BY <3>2
  <2> DEFINE h == [x \in S \union {d} |-> IF x \in S THEN g[x] ELSE step[d][g[up[d]]]]
  <2>3. Solves(D, up, Stop, start, step, S \union {d}, h)
    <3>1. S \union {d} \subseteq D /\ DOMAIN h = S \union {d}
      BY <1>2, <2>2 DEF Solves
    <3>2. \A x \in S \union {d} : x \in Stop \/ up[x] \in S \union {d}
      BY <2>2 DEF Solves
    <3>3. ASSUME NEW x \in S \union {d}
          PROVE  h[x] = IF x \in Stop THEN start[x] ELSE step[x][h[up[x]]]
      <4>1. CASE x \in S
        <5>1. h[x] = g[x] /\ (x \notin Stop => up[x] \in S /\ h[up[x]] = g[up[x]])
          BY <2>2, <4>1 DEF Solves
        <5>2. g[x] = IF x \in Stop THEN start[x] ELSE step[x][g[up[x]]]
          BY <2>2, <4>1 DEF Solves
        <5> HIDE DEF h
        <5>3. QED
          BY <5>1, <5>2
      <4>2. CASE x \notin S
        <5>1. x = d /\ h[d] = step[d][g[up[d]]] /\ h[up[d]] = g[up[d]]
          BY <2>2, <3>3, <4>2
        <5> HIDE DEF h
        <5>2. QED
          BY <1>4, <5>1
      <4>3. QED
        BY <4>1, <4>2
    <3> HIDE DEF h
    <3>4. QED
      BY <3>1, <3>2, <3>3 DEF Solves
  <2>4. QED
    BY <1>2, <2>3
<1>5. QED
  BY <1>3, <1>4

Follows(D, up, Stop, start, step, f) ==
  \A c \in D : f[c] = IF c \in Stop THEN start[c] ELSE step[c][f[up[c]]]

LEMMA Recursion ==
  ASSUME NEW D, NEW up, NEW Stop, Founded(D, up, Stop),
         NEW V, NEW start \in [D -> V], NEW step \in [D -> [V -> V]]
  PROVE  \E f \in [D -> V] : Follows(D, up, Stop, start, step, f)
<1> DEFINE Is(c, v) == \E S, g : Solves(D, up, Stop, start, step, S, g) /\ c \in S /\ v = g[c]
           f == [c \in D |-> CHOOSE v : Is(c, v)]
<1>1. ASSUME NEW S, NEW g, Solves(D, up, Stop, start, step, S, g), NEW c \in S
      PROVE  f[c] = g[c]
  <2>1. Is(c, g[c])
    BY <1>1
  <2>2. Is(c, CHOOSE v : Is(c, v))
    <3> HIDE DEF Is
    <3> QED
      BY <2>1
  <2>3. c \in D
    BY <1>1 DEF Solves
  <2>4. Is(c, f[c])
    <3> HIDE DEF Is
    <3> QED
      BY <2>2, <2>3
  <2> HIDE DEF f
  <2>5. PICK R, h : Solves(D, up, Stop, start, step, R, h) /\ c \in R /\ f[c] = h[c]
    BY <2>4
  <2>6. QED
    BY <1>1, <2>5, SolutionsAgree
<1>2. ASSUME NEW c \in D
      PROVE  f[c] = IF c \in Stop THEN start[c] ELSE step[c][f[up[c]]]
  <2>1. PICK S, g : Solves(D, up, Stop, start, step, S, g) /\ c \in S
    BY SolutionAt
  <2>2. f[c] = g[c]
    BY <1>1, <2>1
  <2>3. c \notin Stop => up[c] \in S
    BY <2>1 DEF Solves
  <2>4. c \notin Stop => f[up[c]] = g[up[c]]
    <3> HIDE DEF f
    <3> QED
      BY <1>1, <2>1, <2>3
  <2>5. g[c] = IF c \in Stop THEN start[c] ELSE step[c][g[up[c]]]
    BY <2>1 DEF Solves
  <2> HIDE DEF f
  <2>6. QED
    BY <2>2, <2>4, <2>5
<1>3. f = [c \in D |-> f[c]]
  OBVIOUS
<1> HIDE DEF f
<1>4. f \in [D -> V]
  <2> DEFINE T == {c \in D : f[c] \notin V}
  <2>1. SUFFICES ASSUME T # {} PROVE FALSE
    BY <1>3, <2>1
  <2>2. PICK c \in T : c \in Stop \/ up[c] \notin T
    BY <2>1, Lowest
  <2>3. CASE c \in Stop
    BY <1>2, <2>2, <2>3
  <2>4. CASE c \notin Stop
    <3>1. f[up[c]] \in V
      BY <2>2, <2>4 DEF Founded
    <3>2. QED
      BY <1>2, <2>2, <2>4, <3>1
  <2>5. QED
    BY <2>3, <2>4
<1>5. QED
  BY <1>2, <1>4 DEF Follows

-----------------------------------------------------------------------------
(* Runs.                                                                   *)

Item == DOMAIN Worth
Rising(s, low, high) == \A i \in low .. high - 1 : Worth[s[i]] <= Worth[s[i + 1]]

\* In one direction at k as where the run began.
Onward(s, b, k) == k < Len(s) /\ Strictly(s[k + 1], s[k]) = GoesDown(s, b)

LEMMA ChainFounded ==
  ASSUME NEW s, NEW b, Len(s) \in Nat
  PROVE  Founded(1 .. Len(s), [k \in 1 .. Len(s) |-> k + 1], {k \in 1 .. Len(s) : ~ Onward(s, b, k)})
<1> DEFINE n == Len(s)
           up == [k \in 1 .. n |-> k + 1]
           Stop == {k \in 1 .. n : ~ Onward(s, b, k)}
           h == [k \in 1 .. n |-> n - k]
<1>1. ASSUME NEW k \in 1 .. n
      PROVE  h[k] \in Nat /\ (k \in Stop \/ (up[k] \in 1 .. n /\ h[up[k]] < h[k]))
  <2>1. h[k] = n - k /\ up[k] = k + 1 /\ (k \notin Stop => k < n)
    BY DEF Onward
  <2>2. n - k \in Nat
    OBVIOUS
  <2>3. CASE k \in Stop
    BY <2>1, <2>2, <2>3
  <2>4. CASE k \notin Stop
    <3>1. k + 1 \in 1 .. n /\ h[k + 1] = n - (k + 1) /\ n - (k + 1) < n - k
      BY <2>1, <2>4
    <3> HIDE DEF h, up, Stop
    <3>2. QED
      BY <2>1, <2>2, <3>1
  <2>5. QED
    BY <2>3, <2>4
<1> HIDE DEF h, up, Stop
<1>2. Founded(1 .. n, up, Stop)
  BY <1>1, Measured
<1>3. QED
  BY <1>2 DEF up, Stop

LEMMA ChainIs ==
  ASSUME NEW s, NEW b, Len(s) \in Nat, DOMAIN s = 1 .. Len(s)
  PROVE  \E g : /\ \A k \in 1 .. Len(s) : g[k] = IF Onward(s, b, k) THEN g[k + 1] ELSE k + 1
                /\ RunEnd(s, b) = IF b > Len(s) THEN b ELSE g[b]
<1> DEFINE n == Len(s)
           up == [k \in 1 .. n |-> k + 1]
           Stop == {k \in 1 .. n : ~ Onward(s, b, k)}
           start == [k \in 1 .. n |-> k + 1]
           step == [k \in 1 .. n |-> [x \in Nat |-> x]]
           Is(f) == f = [k \in DOMAIN s |-> IF k < Len(s) /\ Strictly(s[k + 1], s[k]) = GoesDown(s, b) THEN f[k + 1] ELSE k + 1]
<1>1. Founded(1 .. n, up, Stop)
  BY ChainFounded
<1>2. start \in [1 .. n -> Nat] /\ step \in [1 .. n -> [Nat -> Nat]]
  OBVIOUS
<1>3. PICK f \in [1 .. n -> Nat] : Follows(1 .. n, up, Stop, start, step, f)
  <2> HIDE DEF n, up, Stop, start, step
  <2>1. QED
    BY <1>1, <1>2, Recursion
<1>4. ASSUME NEW k \in 1 .. n
      PROVE  f[k] = IF Onward(s, b, k) THEN f[k + 1] ELSE k + 1
  <2>1. f[k] = IF k \in Stop THEN start[k] ELSE step[k][f[up[k]]]
    BY <1>3, Zenon DEF Follows
  <2>2. CASE Onward(s, b, k)
    <3>1. k + 1 \in 1 .. n
      BY <2>2 DEF Onward
    <3>2. f[k + 1] \in Nat
      BY <1>3, <3>1
    <3>3. k \notin Stop /\ up[k] = k + 1 /\ step[k][f[k + 1]] = f[k + 1]
      BY <2>2, <3>2
    <3> HIDE DEF Stop, up, step
    <3>4. QED
      BY <2>1, <2>2, <3>3
  <2>3. CASE ~ Onward(s, b, k)
    <3>1. k \in Stop /\ start[k] = k + 1
      BY <2>3
    <3> HIDE DEF Stop, up, step, start
    <3>2. QED
      BY <2>1, <2>3, <3>1
  <2>4. QED
    BY <2>2, <2>3
<1>5. Is(f)
  <2>1. f = [k \in 1 .. n |-> f[k]]
    BY <1>3
  <2>2. f = [k \in 1 .. n |-> IF Onward(s, b, k) THEN f[k + 1] ELSE k + 1]
    BY <1>4, <2>1
  <2>3. QED
    BY <2>2 DEF Onward
<1> DEFINE g == CHOOSE f0 : Is(f0)
<1>6. Is(g)
  <2> HIDE DEF Is
  <2> QED
    BY <1>5, Zenon
<1>7. RunEnd(s, b) = IF b > Len(s) THEN b ELSE g[b]
  BY DEF RunEnd
<1> HIDE DEF g
<1>8. \A k \in 1 .. n : g[k] = IF Onward(s, b, k) THEN g[k + 1] ELSE k + 1
  BY <1>6 DEF Onward
<1>9. QED
  BY <1>7, <1>8

LEMMA RunEndIs ==
  ASSUME NEW s, NEW b \in 1 .. Len(s), Len(s) \in Nat, DOMAIN s = 1 .. Len(s)
  PROVE  /\ RunEnd(s, b) \in b + 1 .. Len(s) + 1
         /\ \A i \in b .. RunEnd(s, b) - 2 : Onward(s, b, i)
<1> DEFINE n == Len(s)
<1>1. PICK g : /\ \A k \in 1 .. n : g[k] = IF Onward(s, b, k) THEN g[k + 1] ELSE k + 1
               /\ RunEnd(s, b) = IF b > n THEN b ELSE g[b]
  BY ChainIs
<1> DEFINE Right(k) == g[k] \in k + 1 .. n + 1 /\ \A i \in k .. g[k] - 2 : Onward(s, b, i)
           T == {k \in 1 .. n : ~ Right(k)}
<1>2. ASSUME T # {}
      PROVE  FALSE
  <2> DEFINE up == [k \in 1 .. n |-> k + 1]
             Stop == {k \in 1 .. n : ~ Onward(s, b, k)}
  <2>1. Founded(1 .. n, up, Stop)
    BY ChainFounded
  <2>2. PICK k \in T : k \in Stop \/ up[k] \notin T
    <3>1. T \subseteq 1 .. n
      OBVIOUS
    <3> HIDE DEF T, up, Stop, n
    <3>2. QED
      BY <1>2, <2>1, <3>1, Lowest
  <2>3. CASE ~ Onward(s, b, k)
    BY <1>1, <2>2, <2>3
  <2>4. CASE Onward(s, b, k)
    <3>1. k + 1 \in 1 .. n /\ up[k] = k + 1 /\ k \notin Stop /\ g[k] = g[k + 1]
      BY <1>1, <2>2, <2>4 DEF Onward
    <3>2. Right(k + 1)
      BY <2>2, <3>1
    <3>3. g[k] \in k + 1 .. n + 1
      BY <2>2, <3>1, <3>2
    <3>4. \A i \in k .. g[k] - 2 : i = k \/ i \in k + 1 .. g[k + 1] - 2
      BY <2>2, <3>1, <3>2
    <3>5. QED
      BY <2>2, <2>4, <3>1, <3>2, <3>3, <3>4
  <2>5. QED
    BY <2>3, <2>4
<1>3. Right(b)
  BY <1>2
<1>4. ~ (b > n)
  OBVIOUS
<1>5. QED
  BY <1>1, <1>3, <1>4

\* r is a list like s, of the same length.
Like(r, s) == r \in Seq(Item) /\ Len(r) = Len(s) /\ DOMAIN r = DOMAIN s

LEMMA MadeIs ==
  ASSUME NEW s \in Seq(Item), NEW r, DOMAIN r = DOMAIN s, r = [k \in DOMAIN s |-> r[k]],
         \A k \in 1 .. Len(s) : r[k] \in Item
  PROVE  Like(r, s)
<1>1. Len(s) \in Nat /\ DOMAIN s = 1 .. Len(s)
  OBVIOUS
<1>2. ASSUME NEW n \in Nat, NEW q \in [1 .. n -> Item]
      PROVE  q \in Seq(Item) /\ Len(q) = n
  OBVIOUS
<1>3. r \in [1 .. Len(s) -> Item]
  BY <1>1
<1>4. QED
  BY <1>1, <1>2, <1>3 DEF Like

LEMMA ReversedIs ==
  ASSUME NEW s \in Seq(Item), NEW low \in Nat \ {0}, NEW high \in Int, high <= Len(s)
  PROVE  /\ Like(Reversed(s, low, high), s)
         /\ \A k \in 1 .. Len(s) : Reversed(s, low, high)[k] = IF k \in low .. high THEN s[low + high - k] ELSE s[k]
<1> DEFINE r == Reversed(s, low, high)
<1>1. Len(s) \in Nat /\ DOMAIN s = 1 .. Len(s)
  OBVIOUS
<1>2. DOMAIN r = DOMAIN s /\ \A k \in 1 .. Len(s) : r[k] = IF k \in low .. high THEN s[low + high - k] ELSE s[k]
  BY <1>1 DEF Reversed
<1>3. r = [k \in DOMAIN s |-> r[k]]
  BY DEF Reversed
<1> HIDE DEF r
<1>4. ASSUME NEW k \in 1 .. Len(s)
      PROVE  r[k] \in Item
  <2>1. CASE k \in low .. high
    <3>1. low + high - k \in 1 .. Len(s)
      BY <1>1, <2>1
    <3>2. QED
      BY <1>2, <2>1, <3>1
  <2>2. CASE k \notin low .. high
    BY <1>2, <2>2
  <2>3. QED
    BY <2>1, <2>2
<1>5. Like(r, s)
  BY <1>2, <1>3, <1>4, MadeIs, Zenon
<1>6. QED
  BY <1>2, <1>5 DEF r

LEMMA WorthIs ==
  ASSUME ElementAssumption, NEW s \in Seq(Item), NEW i \in 1 .. Len(s)
  PROVE  s[i] \in Item /\ Worth[s[i]] \in Int
BY DEF ElementAssumption, Item

\* A run that goes down is turned round; all else stays where it is.
LEMMA UpwardIs ==
  ASSUME ElementAssumption, NEW s \in Seq(Item), NEW b \in 1 .. Len(s)
  PROVE  /\ Like(Upward(s, b), s)
         /\ RunEnd(s, b) \in b + 1 .. Len(s) + 1
         /\ \A k \in 1 .. Len(s) : k < b \/ k >= RunEnd(s, b) => Upward(s, b)[k] = s[k]
         /\ Rising(Upward(s, b), b, RunEnd(s, b) - 1)
<1> DEFINE n == Len(s)
           e == RunEnd(s, b)
           r == Upward(s, b)
<1>1. n \in Nat /\ DOMAIN s = 1 .. n
  OBVIOUS
<1>2. e \in b + 1 .. n + 1 /\ \A i \in b .. e - 2 : Onward(s, b, i)
  BY <1>1, RunEndIs
<1> HIDE DEF e, n
<1>3. \A i \in b .. e - 2 : i \in 1 .. n /\ i + 1 \in 1 .. n
  BY <1>1, <1>2
<1>4. ASSUME NEW i \in b .. e - 2
      PROVE  (Worth[s[i + 1]] < Worth[s[i]]) = GoesDown(s, b)
  BY <1>2 DEF Onward, Strictly
<1>5. \A i \in 1 .. n : Worth[s[i]] \in Int
  BY WorthIs DEF n
<1>6. CASE GoesDown(s, b)
  <2>1. r = Reversed(s, b, e - 1)
    BY <1>6 DEF Upward, e
  <2>2. b \in Nat \ {0} /\ e - 1 \in Int /\ e - 1 <= Len(s)
    BY <1>1, <1>2 DEF n
  <2>3. /\ Like(r, s)
        /\ \A k \in 1 .. n : r[k] = IF k \in b .. e - 1 THEN s[b + (e - 1) - k] ELSE s[k]
    BY <2>1, <2>2, ReversedIs DEF n
  <2> HIDE DEF r
  <2>4. \A k \in 1 .. n : k < b \/ k >= e => r[k] = s[k]
    BY <1>1, <1>2, <2>3
  <2>5. ASSUME NEW i \in b .. (e - 1) - 1
        PROVE  Worth[r[i]] <= Worth[r[i + 1]]
    <3> DEFINE j == b + (e - 1) - (i + 1)
    <3>1. j \in b .. e - 2 /\ j + 1 = b + (e - 1) - i /\ i \in 1 .. n /\ i + 1 \in 1 .. n
          /\ i \in b .. e - 1 /\ i + 1 \in b .. e - 1
      BY <1>1, <1>2
    <3>2. r[i] = s[j + 1] /\ r[i + 1] = s[j]
      BY <2>3, <3>1
    <3> HIDE DEF j
    <3>3. Worth[s[j + 1]] < Worth[s[j]]
      BY <1>4, <1>6, <3>1
    <3>4. Worth[s[j + 1]] \in Int /\ Worth[s[j]] \in Int
      BY <1>3, <1>5, <3>1
    <3>5. QED
      BY <3>2, <3>3, <3>4
  <2>6. QED
    BY <1>2, <2>3, <2>4, <2>5 DEF e, r, n, Rising
<1>7. CASE ~ GoesDown(s, b)
  <2>1. r = s
    BY <1>7 DEF Upward
  <2>2. ASSUME NEW i \in b .. (e - 1) - 1
        PROVE  Worth[s[i]] <= Worth[s[i + 1]]
    <3>1. i \in b .. e - 2
      BY <1>1, <1>2
    <3>2. ~ (Worth[s[i + 1]] < Worth[s[i]])
      BY <1>4, <1>7, <3>1
    <3>3. QED
      BY <1>3, <1>5, <3>1, <3>2
  <2>3. Like(s, s)
    BY DEF Like
  <2>4. QED
    BY <1>2, <2>1, <2>2, <2>3 DEF e, r, n, Rising
<1>8. QED
  BY <1>6, <1>7

-----------------------------------------------------------------------------
(* Powers.                                                                 *)

\* The middles are on different sides of a half.
Apart(n, p) == (p[1] >= n) # (p[2] >= n)

LEMMA ShiftedIs ==
  ASSUME NEW n \in Nat \ {0}, NEW p \in Middles(n), ~ Apart(n, p)
  PROVE  /\ Shifted(n, p) \in Middles(n)
         /\ Shifted(n, p)[2] - Shifted(n, p)[1] = 2 * (p[2] - p[1])
<1>1. p[1] \in 0 .. 2 * n - 1 /\ p[2] \in 0 .. 2 * n - 1 /\ p[1] < p[2]
  BY DEF Middles
<1>2. \A l, r \in 0 .. 2 * n - 1 : l < r => <<l, r>> \in Middles(n)
  BY DEF Middles
<1>3. CASE p[1] >= n
  <2>1. Shifted(n, p) = <<2 * (p[1] - n), 2 * (p[2] - n)>> /\ p[2] >= n
    BY <1>3 DEF Shifted, Apart
  <2>2. 2 * (p[1] - n) \in 0 .. 2 * n - 1 /\ 2 * (p[2] - n) \in 0 .. 2 * n - 1 /\ 2 * (p[1] - n) < 2 * (p[2] - n)
    BY <1>1, <1>3, <2>1
  <2>3. 2 * (p[2] - n) - 2 * (p[1] - n) = 2 * (p[2] - p[1])
    BY <1>1
  <2>4. QED
    BY <1>2, <2>1, <2>2, <2>3
<1>4. CASE ~ (p[1] >= n)
  <2>1. Shifted(n, p) = <<2 * p[1], 2 * p[2]>> /\ ~ (p[2] >= n)
    BY <1>4 DEF Shifted, Apart
  <2>2. 2 * p[1] \in 0 .. 2 * n - 1 /\ 2 * p[2] \in 0 .. 2 * n - 1 /\ 2 * p[1] < 2 * p[2]
    BY <1>1, <1>4, <2>1
  <2>3. 2 * p[2] - 2 * p[1] = 2 * (p[2] - p[1])
    BY <1>1
  <2>4. QED
    BY <1>2, <2>1, <2>2, <2>3
<1>5. QED
  BY <1>3, <1>4

LEMMA MiddlesFounded ==
  ASSUME NEW n \in Nat \ {0}
  PROVE  Founded(Middles(n), [p \in Middles(n) |-> Shifted(n, p)], {p \in Middles(n) : Apart(n, p)})
<1> DEFINE up == [p \in Middles(n) |-> Shifted(n, p)]
           Stop == {p \in Middles(n) : Apart(n, p)}
           h == [p \in Middles(n) |-> 2 * n - (p[2] - p[1])]
<1>1. ASSUME NEW p \in Middles(n)
      PROVE  h[p] \in Nat /\ (p \in Stop \/ (up[p] \in Middles(n) /\ h[up[p]] < h[p]))
  <2>1. p[1] \in 0 .. 2 * n - 1 /\ p[2] \in 0 .. 2 * n - 1 /\ p[1] < p[2]
    BY DEF Middles
  <2>2. h[p] = 2 * n - (p[2] - p[1]) /\ h[p] \in Nat
    BY <2>1
  <2>3. CASE Apart(n, p)
    BY <2>2, <2>3
  <2>4. CASE ~ Apart(n, p)
    <3> DEFINE q == Shifted(n, p)
    <3>1. q \in Middles(n) /\ q[2] - q[1] = 2 * (p[2] - p[1]) /\ up[p] = q
      BY <2>4, ShiftedIs
    <3>2. h[q] = 2 * n - (q[2] - q[1])
      BY <3>1
    <3> HIDE DEF h, up, q
    <3>3. h[q] < h[p]
      BY <2>1, <2>2, <3>1, <3>2
    <3>4. QED
      BY <2>2, <3>1, <3>3
  <2>5. QED
    BY <2>3, <2>4
<1> HIDE DEF up, Stop, h
<1>2. Founded(Middles(n), up, Stop)
  BY <1>1, Measured
<1>3. QED
  BY <1>2 DEF up, Stop

LEMMA DigitsIs ==
  ASSUME NEW n \in Nat \ {0}, NEW p \in Middles(n)
  PROVE  /\ Digits(n, p) \in Nat \ {0}
         /\ Digits(n, p) = IF Apart(n, p) THEN 1 ELSE 1 + Digits(n, Shifted(n, p))
<1> DEFINE D == Middles(n)
           up == [c \in D |-> Shifted(n, c)]
           Stop == {c \in D : Apart(n, c)}
           start == [c \in D |-> 1]
           step == [c \in D |-> [x \in Nat \ {0} |-> 1 + x]]
           Is(f) == f = [c \in D |-> IF (c[1] >= n) # (c[2] >= n) THEN 1 ELSE 1 + f[Shifted(n, c)]]
<1>1. Founded(D, up, Stop)
  BY MiddlesFounded
<1>2. start \in [D -> Nat \ {0}] /\ step \in [D -> [Nat \ {0} -> Nat \ {0}]]
  OBVIOUS
<1>3. PICK f \in [D -> Nat \ {0}] : Follows(D, up, Stop, start, step, f)
  <2> HIDE DEF D, up, Stop, start, step
  <2>1. QED
    BY <1>1, <1>2, Recursion
<1>4. ASSUME NEW c \in D
      PROVE  f[c] = IF Apart(n, c) THEN 1 ELSE 1 + f[Shifted(n, c)]
  <2>1. f[c] = IF c \in Stop THEN start[c] ELSE step[c][f[up[c]]]
    BY <1>3, Zenon DEF Follows
  <2>2. CASE Apart(n, c)
    <3>1. c \in Stop /\ start[c] = 1
      BY <2>2
    <3> HIDE DEF Stop, start
    <3>2. QED
      BY <2>1, <2>2, <3>1
  <2>3. CASE ~ Apart(n, c)
    <3>1. Shifted(n, c) \in D
      BY <2>3, ShiftedIs
    <3>2. f[Shifted(n, c)] \in Nat \ {0}
      BY <1>3, <3>1
    <3>3. c \notin Stop /\ up[c] = Shifted(n, c) /\ step[c][f[Shifted(n, c)]] = 1 + f[Shifted(n, c)]
      BY <2>3, <3>2
    <3> HIDE DEF Stop, up, step
    <3>4. QED
      BY <2>1, <2>3, <3>3
  <2>4. QED
    BY <2>2, <2>3
<1>5. Is(f)
  <2>1. f = [c \in D |-> f[c]]
    BY <1>3
  <2>2. f = [c \in D |-> IF Apart(n, c) THEN 1 ELSE 1 + f[Shifted(n, c)]]
    BY <1>4, <2>1
  <2>3. QED
    BY <2>2 DEF Apart
<1> DEFINE g == CHOOSE f0 : Is(f0)
<1>6. Is(g)
  <2> HIDE DEF Is
  <2> QED
    BY <1>5, Zenon
<1>7. \A c \in D : Digits(n, c) = g[c]
  BY DEF Digits
<1> HIDE DEF g
<1>8. ASSUME NEW c \in D
      PROVE  g[c] = IF Apart(n, c) THEN 1 ELSE 1 + g[Shifted(n, c)]
  BY <1>6 DEF Apart
<1>9. \A c \in D : g[c] \in Nat \ {0}
  <2> DEFINE T == {c \in D : g[c] \notin Nat \ {0}}
  <2>1. SUFFICES ASSUME T # {} PROVE FALSE
    BY <2>1
  <2>2. PICK c \in T : c \in Stop \/ up[c] \notin T
    <3>1. T \subseteq D
      OBVIOUS
    <3> HIDE DEF T, up, Stop, D
    <3>2. QED
      BY <1>1, <2>1, <3>1, Lowest
  <2>3. ~ Apart(n, c)
    BY <1>8, <2>2
  <2>4. c \notin Stop /\ up[c] = Shifted(n, c) /\ Shifted(n, c) \in D
    BY <2>2, <2>3, ShiftedIs
  <2>5. g[Shifted(n, c)] \in Nat \ {0}
    BY <2>2, <2>4
  <2>6. QED
    BY <1>8, <2>2, <2>3, <2>5
<1>10. ~ Apart(n, p) => Shifted(n, p) \in D
  BY ShiftedIs
<1> HIDE DEF D
<1>11. QED
  BY <1>7, <1>8, <1>9, <1>10 DEF D

\* Powers on the two sides of a middle differ; if the left one is less it is
\* also that of the two outer middles.  (A power says at which digit the lower
\* middle has a zero and the higher one a one.)
Between(n, p, m) ==
  /\ Digits(n, <<p[1], m>>) # Digits(n, <<m, p[2]>>)
  /\ Digits(n, <<p[1], m>>) < Digits(n, <<m, p[2]>>) => Digits(n, p) = Digits(n, <<p[1], m>>)

LEMMA PowersDiffer ==
  ASSUME NEW n \in Nat \ {0}, NEW p \in Middles(n), NEW m \in p[1] + 1 .. p[2] - 1
  PROVE  Between(n, p, m)
<1> DEFINE D == Middles(n)
           up == [q \in D |-> Shifted(n, q)]
           Stop == {q \in D : Apart(n, q)}
           Good(q) == \A k \in q[1] + 1 .. q[2] - 1 : Between(n, q, k)
           T == {q \in D : ~ Good(q)}
<1>1. \A l, r \in 0 .. 2 * n - 1 : l < r => <<l, r>> \in D
  BY DEF Middles
<1>2. \A q \in D : q[1] \in 0 .. 2 * n - 1 /\ q[2] \in 0 .. 2 * n - 1 /\ q[1] < q[2] /\ q = <<q[1], q[2]>>
  BY DEF Middles
<1>3. ASSUME T # {}
      PROVE  FALSE
  <2>1. PICK q \in T : q \in Stop \/ up[q] \notin T
    <3>1. T \subseteq D
      OBVIOUS
    <3>2. Founded(D, up, Stop)
      BY MiddlesFounded
    <3> HIDE DEF T, up, Stop, D
    <3>3. QED
      BY <1>3, <3>1, <3>2, Lowest
  <2> DEFINE l == q[1]
             r == q[2]
  <2>2. q \in D /\ l \in 0 .. 2 * n - 1 /\ r \in 0 .. 2 * n - 1 /\ l < r /\ q = <<l, r>>
    BY <1>2, <2>1
  <2>3. ASSUME NEW k \in l + 1 .. r - 1
        PROVE  Between(n, q, k)
    <3>1. <<l, k>> \in D /\ <<k, r>> \in D /\ k \in 0 .. 2 * n - 1 /\ k < r /\ l < k
      BY <1>1, <2>2
    <3> HIDE DEF D, up, Stop, l, r
    <3>2. /\ Digits(n, <<l, k>>) \in Nat \ {0}
          /\ Digits(n, <<l, k>>) = IF Apart(n, <<l, k>>) THEN 1 ELSE 1 + Digits(n, Shifted(n, <<l, k>>))
      BY <3>1, DigitsIs DEF D
    <3>3. /\ Digits(n, <<k, r>>) \in Nat \ {0}
          /\ Digits(n, <<k, r>>) = IF Apart(n, <<k, r>>) THEN 1 ELSE 1 + Digits(n, Shifted(n, <<k, r>>))
      BY <3>1, DigitsIs DEF D
    <3>4. /\ Digits(n, q) \in Nat \ {0}
          /\ Digits(n, q) = IF Apart(n, q) THEN 1 ELSE 1 + Digits(n, Shifted(n, q))
      BY <2>2, DigitsIs DEF D
    <3>5. ~ Apart(n, <<l, k>>) => Digits(n, Shifted(n, <<l, k>>)) \in Nat \ {0}
      BY <3>1, ShiftedIs, DigitsIs DEF D
    <3>6. ~ Apart(n, <<k, r>>) => Digits(n, Shifted(n, <<k, r>>)) \in Nat \ {0}
      BY <3>1, ShiftedIs, DigitsIs DEF D
    <3>7. q[1] = l /\ q[2] = r
      BY DEF l, r
    <3>8. CASE Apart(n, q)
      <4>1. l < n /\ r >= n /\ Digits(n, q) = 1
        BY <2>2, <3>4, <3>7, <3>8 DEF Apart
      <4>2. CASE k >= n
        <5>1. Apart(n, <<l, k>>) /\ ~ Apart(n, <<k, r>>)
          BY <2>2, <3>1, <4>1, <4>2 DEF Apart
        <5>2. Digits(n, <<l, k>>) = 1 /\ Digits(n, <<k, r>>) > 1
          BY <3>2, <3>3, <3>6, <5>1
        <5>3. QED
          BY <3>7, <4>1, <5>2 DEF Between
      <4>3. CASE ~ (k >= n)
        <5>1. ~ Apart(n, <<l, k>>) /\ Apart(n, <<k, r>>)
          BY <2>2, <3>1, <4>1, <4>3 DEF Apart
        <5>2. Digits(n, <<k, r>>) = 1 /\ Digits(n, <<l, k>>) > 1
          BY <3>2, <3>3, <3>5, <5>1
        <5>3. QED
          BY <3>2, <3>7, <5>2 DEF Between
      <4>4. QED
        BY <4>2, <4>3
    <3>9. CASE ~ Apart(n, q)
      <4> DEFINE o == Shifted(n, q)
                 j == IF l >= n THEN 2 * (k - n) ELSE 2 * k
      <4>1. (l >= n) = (r >= n) /\ (k >= n) = (l >= n)
        BY <2>2, <3>1, <3>7, <3>9 DEF Apart
      <4>2. ~ Apart(n, <<l, k>>) /\ ~ Apart(n, <<k, r>>)
        BY <4>1 DEF Apart
      <4>3. /\ o = <<o[1], o[2]>>
            /\ Shifted(n, <<l, k>>) = <<o[1], j>> /\ Shifted(n, <<k, r>>) = <<j, o[2]>>
            /\ j \in o[1] + 1 .. o[2] - 1
        BY <2>2, <3>1, <3>7, <4>1 DEF Shifted
      <4>4. Good(o)
        <5>1. o \in D /\ up[q] = o /\ q \notin Stop
          BY <2>2, <3>9, ShiftedIs DEF D, up, Stop
        <5>2. QED
          BY <2>1, <5>1
      <4>5. Between(n, o, j)
        BY <4>3, <4>4
      <4> HIDE DEF o, j
      <4>6. /\ Digits(n, <<l, k>>) = 1 + Digits(n, <<o[1], j>>)
            /\ Digits(n, <<k, r>>) = 1 + Digits(n, <<j, o[2]>>)
            /\ Digits(n, q) = 1 + Digits(n, o)
            /\ Digits(n, <<o[1], j>>) \in Nat /\ Digits(n, <<j, o[2]>>) \in Nat
        BY <3>2, <3>3, <3>4, <3>5, <3>6, <3>9, <4>2, <4>3 DEF o
      <4>7. QED
        BY <3>7, <4>5, <4>6 DEF Between
    <3>10. QED
      BY <3>8, <3>9
  <2>4. QED
    BY <2>1, <2>3
<1>4. QED
  BY <1>3

LEMMA DoubledIs ==
  /\ Doubled[0] = 1
  /\ \A k \in Nat : Doubled[k] \in Nat \ {0} /\ Doubled[k + 1] = 2 * Doubled[k]
<1> DEFINE up == [k \in Nat |-> k - 1]
           Stop == {0}
           start == [k \in Nat |-> 1]
           step == [k \in Nat |-> [x \in Nat \ {0} |-> 2 * x]]
           h == [k \in Nat |-> k]
           Is(f) == f = [k \in Nat |-> IF k = 0 THEN 1 ELSE 2 * f[k - 1]]
<1>1. Founded(Nat, up, Stop)
  <2>1. \A k \in Nat : h[k] \in Nat /\ (k \in Stop \/ (up[k] \in Nat /\ h[up[k]] < h[k]))
    OBVIOUS
  <2> HIDE DEF h, up, Stop
  <2>2. QED
    BY <2>1, Measured
<1>2. start \in [Nat -> Nat \ {0}] /\ step \in [Nat -> [Nat \ {0} -> Nat \ {0}]]
  OBVIOUS
<1>3. PICK f \in [Nat -> Nat \ {0}] : Follows(Nat, up, Stop, start, step, f)
  <2> HIDE DEF up, Stop, start, step
  <2>1. QED
    BY <1>1, <1>2, Recursion
<1>4. ASSUME NEW k \in Nat
      PROVE  f[k] = IF k = 0 THEN 1 ELSE 2 * f[k - 1]
  <2>1. f[k] = IF k \in Stop THEN start[k] ELSE step[k][f[up[k]]]
    BY <1>3, Zenon DEF Follows
  <2>2. start[k] = 1 /\ up[k] = k - 1 /\ (k # 0 => step[k][f[k - 1]] = 2 * f[k - 1]) /\ (k \in Stop <=> k = 0)
    BY <1>3
  <2> HIDE DEF start, step, up, Stop
  <2>3. QED
    BY <2>1, <2>2
<1>5. Is(f)
  BY <1>3, <1>4
<1>6. Doubled = CHOOSE f0 : Is(f0)
  BY DEF Doubled
<1>7. Is(Doubled)
  <2> HIDE DEF Is
  <2> QED
    BY <1>5, <1>6, Zenon
<1>8. \A k \in Nat : Doubled[k] = IF k = 0 THEN 1 ELSE 2 * Doubled[k - 1]
  BY <1>7
<1>9. \A k \in Nat : Doubled[k] \in Nat \ {0}
  <2> DEFINE T == {k \in Nat : Doubled[k] \notin Nat \ {0}}
  <2>1. SUFFICES ASSUME T # {} PROVE FALSE
    BY <2>1
  <2>2. PICK k \in T : k \in Stop \/ up[k] \notin T
    <3>1. T \subseteq Nat
      OBVIOUS
    <3> HIDE DEF T, up, Stop
    <3>2. QED
      BY <1>1, <2>1, <3>1, Lowest
  <2>3. QED
    BY <1>8, <2>2
<1>10. QED
  BY <1>8, <1>9

\* Twice as often doubled, twice as much; and more is no less.
LEMMA DoubledGrows ==
  ASSUME NEW i \in Nat, NEW j \in Nat, i <= j
  PROVE  Doubled[i] <= Doubled[j]
<1> DEFINE up == [k \in Nat |-> k - 1]
           h == [k \in Nat |-> k]
           Good(k) == i <= k => Doubled[i] <= Doubled[k]
           T == {k \in Nat : ~ Good(k)}
<1>1. Founded(Nat, up, {0})
  <2>1. \A k \in Nat : h[k] \in Nat /\ (k \in {0} \/ (up[k] \in Nat /\ h[up[k]] < h[k]))
    OBVIOUS
  <2> HIDE DEF h, up
  <2>2. QED
    BY <2>1, Measured
<1>2. ASSUME T # {}
      PROVE  FALSE
  <2>1. PICK k \in T : k \in {0} \/ up[k] \notin T
    <3>1. T \subseteq Nat
      OBVIOUS
    <3> HIDE DEF T, up
    <3>2. QED
      BY <1>1, <1>2, <3>1, Lowest
  <2>2. Doubled[i] \in Nat /\ Doubled[k] \in Nat
    BY <2>1, DoubledIs
  <2>3. i < k
    BY <2>1, <2>2
  <2>4. k - 1 \in Nat /\ up[k] = k - 1 /\ i <= k - 1
    BY <2>1, <2>3
  <2>5. Doubled[i] <= Doubled[k - 1]
    BY <2>1, <2>3, <2>4
  <2>6. Doubled[(k - 1) + 1] = 2 * Doubled[k - 1] /\ Doubled[k - 1] \in Nat /\ (k - 1) + 1 = k
    BY <2>1, <2>4, DoubledIs
  <2>7. QED
    BY <2>1, <2>2, <2>5, <2>6
<1>3. QED
  BY <1>2

\* Each digit in which the middles agree doubles their distance.
LEMMA PowerBounded ==
  ASSUME NEW n \in Nat \ {0}, NEW p \in Middles(n)
  PROVE  Doubled[Digits(n, p) - 1] * (p[2] - p[1]) < 2 * n
<1> DEFINE D == Middles(n)
           up == [q \in D |-> Shifted(n, q)]
           Stop == {q \in D : Apart(n, q)}
           Good(q) == Doubled[Digits(n, q) - 1] * (q[2] - q[1]) < 2 * n
           T == {q \in D : ~ Good(q)}
<1>1. ASSUME T # {}
      PROVE  FALSE
  <2>1. PICK q \in T : q \in Stop \/ up[q] \notin T
    <3>1. T \subseteq D
      OBVIOUS
    <3>2. Founded(D, up, Stop)
      BY MiddlesFounded
    <3> HIDE DEF T, up, Stop, D
    <3>3. QED
      BY <1>1, <3>1, <3>2, Lowest
  <2>2. /\ Digits(n, q) \in Nat \ {0}
        /\ Digits(n, q) = IF Apart(n, q) THEN 1 ELSE 1 + Digits(n, Shifted(n, q))
    BY <2>1, DigitsIs
  <2>3. q[1] \in 0 .. 2 * n - 1 /\ q[2] \in 0 .. 2 * n - 1 /\ q[1] < q[2]
    BY <2>1 DEF Middles
  <2>4. CASE Apart(n, q)
    <3>1. Digits(n, q) - 1 = 0
      BY <2>2, <2>4
    <3>2. Doubled[Digits(n, q) - 1] = 1
      BY <3>1, DoubledIs
    <3>3. Good(q)
      BY <2>3, <3>2
    <3>4. QED
      BY <2>1, <3>3
  <2>5. CASE ~ Apart(n, q)
    <3> DEFINE o == Shifted(n, q)
               x == Doubled[Digits(n, o) - 1]
               y == q[2] - q[1]
    <3>1. o \in D /\ up[q] = o /\ q \notin Stop /\ o[2] - o[1] = 2 * y
      BY <2>1, <2>5, ShiftedIs
    <3>2. Good(o)
      BY <2>1, <3>1
    <3>3. Digits(n, o) \in Nat \ {0} /\ Digits(n, q) - 1 = Digits(n, o)
      BY <2>2, <2>5, <3>1, DigitsIs
    <3>4. Digits(n, o) - 1 \in Nat /\ (Digits(n, o) - 1) + 1 = Digits(n, o)
      BY <3>3
    <3>5. Doubled[Digits(n, o)] = 2 * x /\ x \in Nat
      BY <3>4, DoubledIs
    <3>6. x * (2 * y) < 2 * n
      BY <3>1, <3>2
    <3>7. y \in Int
      BY <2>3
    <3> HIDE DEF x, y, o
    <3>8. \A u, v \in Int : u * (2 * v) = (2 * u) * v
      OBVIOUS
    <3>9. (2 * x) * y < 2 * n
      BY <3>5, <3>6, <3>7, <3>8
    <3>10. Doubled[Digits(n, q) - 1] * y < 2 * n
      BY <3>3, <3>5, <3>9
    <3>11. QED
      BY <2>1, <3>10 DEF y
  <2>6. QED
    BY <2>4, <2>5
<1>2. QED
  BY <1>1

-----------------------------------------------------------------------------
(* Merging.                                                                *)

LEMMA PartIs ==
  ASSUME NEW s \in Seq(Item), NEW i \in Nat \ {0}, NEW j \in Int, j <= Len(s), i <= j + 1
  PROVE  /\ SubSeq(s, i, j) \in Seq(Item) /\ Len(SubSeq(s, i, j)) = j - i + 1
         /\ \A k \in 1 .. j - i + 1 : SubSeq(s, i, j)[k] = s[i + k - 1]
<1> DEFINE n == j - i + 1
           q == SubSeq(s, i, j)
<1>1. n \in Nat /\ \A k \in 1 .. n : i + k - 1 \in 1 .. Len(s)
  OBVIOUS
<1>2. \A k \in 1 .. n : s[i + k - 1] \in Item
  BY <1>1
<1>3. q = [k \in 1 .. n |-> s[i + k - 1]]
  OBVIOUS
<1>4. q \in [1 .. n -> Item]
  BY <1>2, <1>3
<1>5. ASSUME NEW k \in Nat, NEW p \in [1 .. k -> Item]
      PROVE  p \in Seq(Item) /\ Len(p) = k
  OBVIOUS
<1>6. q \in Seq(Item) /\ Len(q) = n
  BY <1>1, <1>4, <1>5
<1>7. QED
  BY <1>3, <1>6

LEMMA PutBefore ==
  ASSUME NEW q \in Seq(Item), NEW x \in Item
  PROVE  /\ <<x>> \o q \in Seq(Item) /\ Len(<<x>> \o q) = Len(q) + 1
         /\ (<<x>> \o q)[1] = x
         /\ \A k \in 1 .. Len(q) : (<<x>> \o q)[k + 1] = q[k]
OBVIOUS

LEMMA PutAfter ==
  ASSUME NEW q \in Seq(Item), NEW x \in Item
  PROVE  /\ Append(q, x) \in Seq(Item) /\ Len(Append(q, x)) = Len(q) + 1
         /\ Append(q, x)[Len(q) + 1] = x
         /\ \A k \in 1 .. Len(q) : Append(q, x)[k] = q[k]
OBVIOUS

\* q has n items in order, and begins (ends) with one of two.
Ordered(q, n) == q \in Seq(Item) /\ Len(q) = n /\ Rising(q, 1, n)

LEMMA OrderedBefore ==
  ASSUME ElementAssumption, NEW n \in Nat, NEW q, Ordered(q, n), NEW x \in Item,
         n > 0 => Worth[x] <= Worth[q[1]]
  PROVE  Ordered(<<x>> \o q, n + 1) /\ (<<x>> \o q)[1] = x
<1> DEFINE p == <<x>> \o q
<1>1. /\ p \in Seq(Item) /\ Len(p) = n + 1 /\ p[1] = x
      /\ \A k \in 1 .. n : p[k + 1] = q[k]
  BY PutBefore DEF Ordered
<1> HIDE DEF p
<1>2. ASSUME NEW i \in 1 .. (n + 1) - 1
      PROVE  Worth[p[i]] <= Worth[p[i + 1]]
  <2>1. CASE i = 1
    BY <1>1, <2>1
  <2>2. CASE i # 1
    <3>1. i - 1 \in 1 .. n - 1 /\ i - 1 \in 1 .. n /\ i \in 1 .. n /\ (i - 1) + 1 = i
      BY <2>2
    <3>2. Worth[q[i - 1]] <= Worth[q[(i - 1) + 1]]
      BY <3>1 DEF Ordered, Rising
    <3>3. p[i] = q[i - 1] /\ p[i + 1] = q[i]
      BY <1>1, <3>1
    <3>4. QED
      BY <3>1, <3>2, <3>3
  <2>3. QED
    BY <2>1, <2>2
<1>3. QED
  BY <1>1, <1>2 DEF Ordered, Rising, p

LEMMA OrderedAfter ==
  ASSUME ElementAssumption, NEW n \in Nat, NEW q, Ordered(q, n), NEW x \in Item,
         n > 0 => Worth[q[n]] <= Worth[x]
  PROVE  Ordered(Append(q, x), n + 1) /\ Append(q, x)[n + 1] = x
<1> DEFINE p == Append(q, x)
<1>1. /\ p \in Seq(Item) /\ Len(p) = n + 1 /\ p[n + 1] = x
      /\ \A k \in 1 .. n : p[k] = q[k]
  BY PutAfter DEF Ordered
<1> HIDE DEF p
<1>2. ASSUME NEW i \in 1 .. (n + 1) - 1
      PROVE  Worth[p[i]] <= Worth[p[i + 1]]
  <2>1. CASE i = n
    BY <1>1, <2>1
  <2>2. CASE i # n
    <3>1. i \in 1 .. n - 1 /\ i \in 1 .. n /\ i + 1 \in 1 .. n
      BY <2>2
    <3>2. Worth[q[i]] <= Worth[q[i + 1]]
      BY <3>1 DEF Ordered, Rising
    <3>3. QED
      BY <1>1, <3>1, <3>2
  <2>3. QED
    BY <2>1, <2>2
<1>3. QED
  BY <1>1, <1>2 DEF Ordered, Rising, p

\* A part of a list in order.
LEMMA OrderedPart ==
  ASSUME NEW s \in Seq(Item), NEW low \in Nat \ {0}, NEW high \in Int, high <= Len(s), Rising(s, low, high),
         NEW i \in Int, NEW j \in Int, low <= i, j <= high, i <= j + 1
  PROVE  /\ Ordered(SubSeq(s, i, j), j - i + 1)
         /\ i <= j => SubSeq(s, i, j)[1] = s[i] /\ SubSeq(s, i, j)[j - i + 1] = s[j]
<1> DEFINE q == SubSeq(s, i, j)
           n == j - i + 1
<1>1. q \in Seq(Item) /\ Len(q) = n /\ \A k \in 1 .. n : q[k] = s[i + k - 1]
  BY PartIs
<1> HIDE DEF q
<1>2. ASSUME NEW k \in 1 .. n - 1
      PROVE  Worth[q[k]] <= Worth[q[k + 1]]
  <2>1. k \in 1 .. n /\ k + 1 \in 1 .. n /\ i + k - 1 \in low .. high - 1 /\ i + (k + 1) - 1 = (i + k - 1) + 1
    OBVIOUS
  <2>2. Worth[s[i + k - 1]] <= Worth[s[(i + k - 1) + 1]]
    BY <2>1 DEF Rising
  <2>3. q[k] = s[i + k - 1] /\ q[k + 1] = s[i + (k + 1) - 1]
    BY <1>1, <2>1
  <2>4. QED
    BY <2>1, <2>2, <2>3
<1>3. i <= j => q[1] = s[i] /\ q[n] = s[j]
  <2>1. i <= j => 1 \in 1 .. n /\ n \in 1 .. n /\ i + 1 - 1 = i /\ i + n - 1 = j
    OBVIOUS
  <2> HIDE DEF n
  <2>2. QED
    BY <1>1, <2>1
<1>4. QED
  BY <1>1, <1>2, <1>3 DEF Ordered, Rising, q

\* Two runs side by side.
Beside(s, l, m, r) ==
  /\ s \in Seq(Item) /\ l \in Nat \ {0} /\ m \in Nat /\ r \in Nat
  /\ l < m /\ m < r /\ r <= Len(s) + 1
  /\ Rising(s, l, m - 1) /\ Rising(s, m, r - 1)

\* Which one forth takes from where it is; where it goes on.
Left(s, c) == ~ Strictly(s[c[2]], s[c[1]])
NextForth(s, c) == IF Left(s, c) THEN <<c[1] + 1, c[2]>> ELSE <<c[1], c[2] + 1>>

LEMMA Fewer ==
  ASSUME NEW l \in Nat, NEW m \in Nat, NEW r \in Nat, NEW i \in l .. m - 1, NEW j \in m .. r - 1
  PROVE  /\ (m - (i + 1)) + (r - j) \in Nat /\ (m - (i + 1)) + (r - j) + 1 = (m - i) + (r - j)
         /\ (m - i) + (r - (j + 1)) \in Nat /\ (m - i) + (r - (j + 1)) + 1 = (m - i) + (r - j)
<1>1. i \in Int /\ j \in Int /\ i <= m - 1 /\ j <= r - 1
  OBVIOUS
<1>2. (m - (i + 1)) + (r - j) \in Nat /\ (m - i) + (r - (j + 1)) \in Nat
  BY <1>1
<1>3. QED
  BY <1>1, <1>2

LEMMA ForthIs ==
  ASSUME ElementAssumption, NEW s, NEW l, NEW m, NEW r, Beside(s, l, m, r)
  PROVE  Ordered(Forth(s, l, m, r), r - l)
<1> DEFINE D == (l .. m) \X (m .. r)
           End(c) == c[1] = m \/ c[2] = r
           up == [c \in D |-> NextForth(s, c)]
           Stop == {c \in D : End(c)}
           Rest(c) == IF c[1] = m THEN SubSeq(s, c[2], r - 1) ELSE SubSeq(s, c[1], m - 1)
           Taken(c) == IF Left(s, c) THEN s[c[1]] ELSE s[c[2]]
           start == [c \in D |-> Rest(c)]
           step == [c \in D |-> [q \in Seq(Item) |-> IF End(c) THEN <<>> ELSE <<Taken(c)>> \o q]]
           h == [c \in D |-> (m - c[1]) + (r - c[2])]
           Is(f) == f = [c \in D |->
             CASE c[1] = m -> SubSeq(s, c[2], r - 1)
               [] c[1] < m /\ c[2] = r -> SubSeq(s, c[1], m - 1)
               [] c[1] < m /\ c[2] < r /\ ~Strictly(s[c[2]], s[c[1]]) -> <<s[c[1]]>> \o f[<<c[1] + 1, c[2]>>]
               [] OTHER -> <<s[c[2]]>> \o f[<<c[1], c[2] + 1>>]]
<1>1. /\ s \in Seq(Item) /\ l \in Nat \ {0} /\ m \in Nat /\ r \in Nat /\ Len(s) \in Nat
      /\ l < m /\ m < r /\ r <= Len(s) + 1 /\ Rising(s, l, m - 1) /\ Rising(s, m, r - 1)
  BY DEF Beside
<1>2. \A c \in D : c[1] \in l .. m /\ c[2] \in m .. r /\ c = <<c[1], c[2]>>
  OBVIOUS
<1>3. \A i \in l .. m, j \in m .. r : <<i, j>> \in D
  OBVIOUS
<1>4. ASSUME NEW c \in D
      PROVE  /\ ~ End(c) => c[1] \in l .. m - 1 /\ c[2] \in m .. r - 1 /\ NextForth(s, c) \in D
             /\ ~ End(c) => h[NextForth(s, c)] < h[c]
             /\ h[c] \in Nat
  <2>1. c[1] \in l .. m /\ c[2] \in m .. r
    BY <1>2
  <2>2. h[c] = (m - c[1]) + (r - c[2]) /\ h[c] \in Nat
    BY <1>1, <2>1
  <2>3. ASSUME ~ End(c)
        PROVE  /\ c[1] \in l .. m - 1 /\ c[2] \in m .. r - 1
               /\ NextForth(s, c) \in D /\ h[NextForth(s, c)] < h[c]
    <3>1. c[1] \in l .. m - 1 /\ c[2] \in m .. r - 1
      BY <1>1, <2>1, <2>3
    <3>2. CASE Left(s, c)
      <4> DEFINE d == <<c[1] + 1, c[2]>>
      <4>1. NextForth(s, c) = d /\ d \in D /\ d[1] = c[1] + 1 /\ d[2] = c[2]
        BY <1>1, <3>1, <3>2 DEF NextForth
      <4>2. h[d] = (m - d[1]) + (r - d[2])
        BY <4>1
      <4> DEFINE i == c[1]
                 j == c[2]
      <4>3. h[d] = (m - (i + 1)) + (r - j) /\ h[c] = (m - i) + (r - j) /\ i \in l .. m - 1 /\ j \in m .. r - 1
        BY <2>2, <3>1, <4>1, <4>2
      <4> HIDE DEF d, h, D, i, j
      <4>4. (m - (i + 1)) + (r - j) < (m - i) + (r - j)
        BY <1>1, <4>3
      <4>5. h[d] < h[c]
        BY <4>3, <4>4
      <4>6. QED
        BY <3>1, <4>1, <4>5
    <3>3. CASE ~ Left(s, c)
      <4> DEFINE d == <<c[1], c[2] + 1>>
      <4>1. NextForth(s, c) = d /\ d \in D /\ d[1] = c[1] /\ d[2] = c[2] + 1
        BY <1>1, <3>1, <3>3 DEF NextForth
      <4>2. h[d] = (m - d[1]) + (r - d[2])
        BY <4>1
      <4> DEFINE i == c[1]
                 j == c[2]
      <4>3. h[d] = (m - i) + (r - (j + 1)) /\ h[c] = (m - i) + (r - j) /\ i \in l .. m - 1 /\ j \in m .. r - 1
        BY <2>2, <3>1, <4>1, <4>2
      <4> HIDE DEF d, h, D, i, j
      <4>4. (m - i) + (r - (j + 1)) < (m - i) + (r - j)
        BY <1>1, <4>3
      <4>5. h[d] < h[c]
        BY <4>3, <4>4
      <4>6. QED
        BY <3>1, <4>1, <4>5
    <3>4. QED
      BY <3>2, <3>3
  <2>4. QED
    BY <2>2, <2>3
<1>5. Founded(D, up, Stop)
  <2>1. \A c \in D : h[c] \in Nat /\ (c \in Stop \/ (up[c] \in D /\ h[up[c]] < h[c]))
    <3>1. \A c \in D : up[c] = NextForth(s, c) /\ (c \notin Stop <=> ~ End(c))
      OBVIOUS
    <3> HIDE DEF h, up, Stop, D, End
    <3>2. QED
      BY <1>4, <3>1
  <2> HIDE DEF h, up, Stop, D
  <2>2. QED
    BY <2>1, Measured
<1>6. ASSUME NEW c \in D
      PROVE  /\ Rest(c) \in Seq(Item)
             /\ End(c) => /\ Ordered(Rest(c), (m - c[1]) + (r - c[2]))
                          /\ (m - c[1]) + (r - c[2]) > 0 =>
                               \/ c[1] < m /\ Rest(c)[1] = s[c[1]]
                               \/ c[2] < r /\ Rest(c)[1] = s[c[2]]
  <2>1. c[1] \in l .. m /\ c[2] \in m .. r
    BY <1>2
  <2>2. CASE c[1] = m
    <3>1. /\ m \in Nat \ {0} /\ r - 1 \in Int /\ r - 1 <= Len(s) /\ c[2] \in Int
          /\ m <= c[2] /\ c[2] <= (r - 1) + 1
      BY <1>1, <2>1
    <3>2. /\ Ordered(SubSeq(s, c[2], r - 1), (r - 1) - c[2] + 1)
          /\ c[2] <= r - 1 => SubSeq(s, c[2], r - 1)[1] = s[c[2]]
      BY <1>1, <3>1, OrderedPart
    <3>3. (r - 1) - c[2] + 1 = (m - c[1]) + (r - c[2])
      BY <1>1, <2>1, <2>2
    <3>4. Rest(c) = SubSeq(s, c[2], r - 1)
      BY <2>2
    <3>5. (m - c[1]) + (r - c[2]) > 0 => c[2] < r /\ c[2] <= r - 1
      BY <1>1, <2>1, <2>2
    <3> HIDE DEF Rest, End
    <3>6. Ordered(Rest(c), (m - c[1]) + (r - c[2])) /\ Rest(c) \in Seq(Item)
      BY <3>2, <3>3, <3>4 DEF Ordered
    <3>7. QED
      BY <3>2, <3>4, <3>5, <3>6
  <2>3. CASE c[1] # m
    <3>1. /\ m - 1 \in Int /\ m - 1 <= Len(s) /\ c[1] \in Int
          /\ l <= c[1] /\ c[1] <= (m - 1) + 1
      BY <1>1, <2>1
    <3>2. /\ Ordered(SubSeq(s, c[1], m - 1), (m - 1) - c[1] + 1)
          /\ c[1] <= m - 1 => SubSeq(s, c[1], m - 1)[1] = s[c[1]]
      BY <1>1, <3>1, OrderedPart
    <3>3. c[2] = r => (m - 1) - c[1] + 1 = (m - c[1]) + (r - c[2])
      BY <1>1, <2>1
    <3>4. Rest(c) = SubSeq(s, c[1], m - 1) /\ (End(c) => c[2] = r)
      BY <2>3
    <3>5. c[1] \in Nat /\ c[1] <= m - 1
      BY <1>1, <2>1, <2>3
    <3> HIDE DEF Rest, End
    <3>6. Ordered(Rest(c), (m - 1) - c[1] + 1) /\ Rest(c)[1] = s[c[1]]
      BY <3>2, <3>4, <3>5
    <3>7. Rest(c) \in Seq(Item)
      BY <3>6 DEF Ordered
    <3>8. End(c) => Ordered(Rest(c), (m - c[1]) + (r - c[2]))
      BY <3>3, <3>4, <3>6
    <3>9. c[1] < m
      BY <1>1, <3>5
    <3>10. QED
      BY <3>6, <3>7, <3>8, <3>9
  <2>4. QED
    BY <2>2, <2>3
<1>7. ASSUME NEW c \in D, ~ End(c)
      PROVE  s[c[1]] \in Item /\ s[c[2]] \in Item /\ Taken(c) \in Item
  <2>1. c[1] \in 1 .. Len(s) /\ c[2] \in 1 .. Len(s)
    <3>1. c[1] \in l .. m - 1 /\ c[2] \in m .. r - 1
      BY <1>4, <1>7
    <3>2. QED
      BY <1>1, <3>1
  <2>2. s[c[1]] \in Item /\ s[c[2]] \in Item
    BY <1>1, <2>1, WorthIs
  <2>3. QED
    BY <2>2
<1>8. start \in [D -> Seq(Item)] /\ step \in [D -> [Seq(Item) -> Seq(Item)]]
  <2>1. start \in [D -> Seq(Item)]
    <3> HIDE DEF D, Rest, End
    <3>1. QED
      BY <1>6
  <2>2. ASSUME NEW c \in D
        PROVE  [q \in Seq(Item) |-> IF End(c) THEN <<>> ELSE <<Taken(c)>> \o q] \in [Seq(Item) -> Seq(Item)]
    <3>1. ASSUME NEW q \in Seq(Item)
          PROVE  (IF End(c) THEN <<>> ELSE <<Taken(c)>> \o q) \in Seq(Item)
      <4>1. ~ End(c) => <<Taken(c)>> \o q \in Seq(Item)
        <5> HIDE DEF Taken, End
        <5>1. QED
          BY <1>7, PutBefore
      <4>2. <<>> \in Seq(Item)
        OBVIOUS
      <4> HIDE DEF Taken, End
      <4>3. QED
        BY <4>1, <4>2
    <3> HIDE DEF Taken, End
    <3>2. QED
      BY <3>1
  <2> HIDE DEF D, Taken, End
  <2>3. step \in [D -> [Seq(Item) -> Seq(Item)]]
    BY <2>2
  <2>4. QED
    BY <2>1, <2>3
<1>9. PICK f \in [D -> Seq(Item)] : Follows(D, up, Stop, start, step, f)
  <2> HIDE DEF D, up, Stop, start, step
  <2>1. QED
    BY <1>5, <1>8, Recursion
<1>10. ASSUME NEW c \in D
       PROVE  f[c] = IF End(c) THEN Rest(c) ELSE <<Taken(c)>> \o f[NextForth(s, c)]
  <2>1. f[c] = IF c \in Stop THEN start[c] ELSE step[c][f[up[c]]]
    BY <1>9, Zenon DEF Follows
  <2>2. CASE End(c)
    <3>1. c \in Stop /\ start[c] = Rest(c)
      BY <2>2
    <3> HIDE DEF Stop, start, End, Rest
    <3>2. QED
      BY <2>1, <2>2, <3>1
  <2>3. CASE ~ End(c)
    <3>1. f[NextForth(s, c)] \in Seq(Item)
      <4>1. NextForth(s, c) \in D
        BY <1>4, <2>3
      <4> HIDE DEF D
      <4>2. QED
        BY <1>9, <4>1
    <3>2. c \notin Stop /\ up[c] = NextForth(s, c)
      BY <2>3
    <3>3. step[c] = [q \in Seq(Item) |-> IF End(c) THEN <<>> ELSE <<Taken(c)>> \o q]
      <4> HIDE DEF Taken, End, D
      <4>1. QED
        OBVIOUS
    <3> HIDE DEF Stop, up, step, Taken, End, D
    <3>4. step[c][f[NextForth(s, c)]] = <<Taken(c)>> \o f[NextForth(s, c)]
      BY <2>3, <3>1, <3>3
    <3>5. QED
      BY <2>1, <2>3, <3>2, <3>4
  <2>4. QED
    BY <2>2, <2>3
<1>11. ASSUME NEW e, NEW c \in D
       PROVE  (CASE c[1] = m -> SubSeq(s, c[2], r - 1)
                 [] c[1] < m /\ c[2] = r -> SubSeq(s, c[1], m - 1)
                 [] c[1] < m /\ c[2] < r /\ ~Strictly(s[c[2]], s[c[1]]) -> <<s[c[1]]>> \o e[<<c[1] + 1, c[2]>>]
                 [] OTHER -> <<s[c[2]]>> \o e[<<c[1], c[2] + 1>>])
              = IF End(c) THEN Rest(c) ELSE <<Taken(c)>> \o e[NextForth(s, c)]
  <2>1. c[1] \in l .. m /\ c[2] \in m .. r
    BY <1>2
  <2>2. c[1] = m \/ c[1] < m
    BY <1>1, <2>1
  <2>3. c[2] = r \/ c[2] < r
    BY <1>1, <2>1
  <2>4. ~ (c[1] = m /\ c[1] < m) /\ ~ (c[2] = r /\ c[2] < r)
    BY <1>1, <2>1
  <2>5. CASE c[1] = m
    BY <2>4, <2>5
  <2>6. CASE c[1] < m /\ c[2] = r
    BY <2>4, <2>6
  <2>7. CASE c[1] < m /\ c[2] < r /\ ~Strictly(s[c[2]], s[c[1]])
    BY <2>4, <2>7 DEF Left, NextForth
  <2>8. CASE c[1] < m /\ c[2] < r /\ Strictly(s[c[2]], s[c[1]])
    BY <2>4, <2>8 DEF Left, NextForth
  <2>9. QED
    BY <2>2, <2>3, <2>5, <2>6, <2>7, <2>8
<1>12. Is(f)
  <2>1. f = [c \in D |-> f[c]]
    <3> HIDE DEF D
    <3>1. QED
      BY <1>9
  <2> DEFINE case(c) ==
        CASE c[1] = m -> SubSeq(s, c[2], r - 1)
          [] c[1] < m /\ c[2] = r -> SubSeq(s, c[1], m - 1)
          [] c[1] < m /\ c[2] < r /\ ~Strictly(s[c[2]], s[c[1]]) -> <<s[c[1]]>> \o f[<<c[1] + 1, c[2]>>]
          [] OTHER -> <<s[c[2]]>> \o f[<<c[1], c[2] + 1>>]
  <2>2. \A c \in D : f[c] = case(c)
    <3>1. \A c \in D : case(c) = IF End(c) THEN Rest(c) ELSE <<Taken(c)>> \o f[NextForth(s, c)]
      BY <1>11, Zenon
    <3> HIDE DEF D, End, Rest, Taken, case
    <3>2. QED
      BY <1>10, <3>1
  <2>3. f = [c \in D |-> case(c)]
    <3> HIDE DEF D, case
    <3>1. QED
      BY <2>1, <2>2
  <2>4. QED
    BY <2>3, Zenon
<1> DEFINE g == CHOOSE f0 : Is(f0)
<1>13. Is(g)
  <2> HIDE DEF Is
  <2> QED
    BY <1>12, Zenon
<1>14. Forth(s, l, m, r) = g[<<l, m>>]
  BY Zenon DEF Forth
<1> HIDE DEF g
<1>15. ASSUME NEW c \in D
       PROVE  g[c] = IF End(c) THEN Rest(c) ELSE <<Taken(c)>> \o g[NextForth(s, c)]
  <2> DEFINE case(d) ==
        CASE d[1] = m -> SubSeq(s, d[2], r - 1)
          [] d[1] < m /\ d[2] = r -> SubSeq(s, d[1], m - 1)
          [] d[1] < m /\ d[2] < r /\ ~Strictly(s[d[2]], s[d[1]]) -> <<s[d[1]]>> \o g[<<d[1] + 1, d[2]>>]
          [] OTHER -> <<s[d[2]]>> \o g[<<d[1], d[2] + 1>>]
  <2>1. g = [d \in D |-> case(d)]
    BY <1>13, Zenon
  <2>2. case(c) = IF End(c) THEN Rest(c) ELSE <<Taken(c)>> \o g[NextForth(s, c)]
    BY <1>11, Zenon
  <2> HIDE DEF case, D
  <2>3. g[c] = case(c)
    BY <2>1
  <2> HIDE DEF End, Rest, Taken
  <2>4. QED
    BY <2>2, <2>3
<1> DEFINE Good(c) ==
      /\ Ordered(g[c], (m - c[1]) + (r - c[2]))
      /\ (m - c[1]) + (r - c[2]) > 0 => (c[1] < m /\ g[c][1] = s[c[1]]) \/ (c[2] < r /\ g[c][1] = s[c[2]])
<1>16. ASSUME NEW c \in D, End(c)
       PROVE  Good(c)
  <2>1. g[c] = Rest(c)
    <3> HIDE DEF D, End, Rest, Taken
    <3>1. QED
      BY <1>15, <1>16
  <2> HIDE DEF D, End, Rest
  <2>2. QED
    BY <1>6, <1>16, <2>1
<1>17. ASSUME NEW c \in D, ~ End(c), Good(NextForth(s, c))
       PROVE  Good(c)
  <2> DEFINE d == NextForth(s, c)
             n == (m - d[1]) + (r - d[2])
             x == Taken(c)
  <2>1. /\ c[1] \in l .. m - 1 /\ c[2] \in m .. r - 1
        /\ s[c[1]] \in Item /\ s[c[2]] \in Item /\ x \in Item
    BY <1>4, <1>7, <1>17
  <2>2. Worth[s[c[1]]] \in Int /\ Worth[s[c[2]]] \in Int
    BY <2>1 DEF ElementAssumption, Item
  <2>3. g[c] = <<x>> \o g[d]
    <3> HIDE DEF D, End, Rest, Taken
    <3>1. QED
      BY <1>15, <1>17 DEF x
  <2>4. Ordered(g[d], n) /\ (n > 0 => (d[1] < m /\ g[d][1] = s[d[1]]) \/ (d[2] < r /\ g[d][1] = s[d[2]]))
    BY <1>17
  <2>5. CASE Left(s, c)
    <3>1. x = s[c[1]] /\ d = <<c[1] + 1, c[2]>> /\ ~ (Worth[s[c[2]]] < Worth[s[c[1]]])
      BY <2>5 DEF NextForth, Left, Strictly
    <3> HIDE DEF x, d
    <3>2. d[1] = c[1] + 1 /\ d[2] = c[2]
      BY <3>1
    <3>3. n \in Nat /\ n + 1 = (m - c[1]) + (r - c[2])
      <4>1. n = (m - (c[1] + 1)) + (r - c[2])
        BY <3>2
      <4>2. c[1] \in l .. m - 1 /\ c[2] \in m .. r - 1
        BY <2>1
      <4>3. \A i \in l .. m - 1, j \in m .. r - 1 :
              (m - (i + 1)) + (r - j) \in Nat /\ (m - (i + 1)) + (r - j) + 1 = (m - i) + (r - j)
        BY <1>1, Fewer
      <4> HIDE DEF n
      <4>4. QED
        BY <4>1, <4>2, <4>3
    <3>4. d[1] < m => Worth[s[c[1]]] <= Worth[s[d[1]]]
      <4>1. c[1] + 1 < m => c[1] \in l .. (m - 1) - 1
        BY <1>1, <2>1
      <4>2. QED
        BY <1>1, <3>2, <4>1 DEF Rising
    <3>5. Worth[s[c[1]]] <= Worth[s[c[2]]]
      BY <2>2, <3>1
    <3>6. n > 0 => Worth[x] <= Worth[g[d][1]]
      BY <2>4, <3>1, <3>2, <3>4, <3>5
    <3>7. Ordered(g[c], n + 1) /\ g[c][1] = x
      <4> HIDE DEF n
      <4>1. QED
        BY <2>1, <2>3, <2>4, <3>3, <3>6, OrderedBefore
    <3> HIDE DEF n
    <3>8. QED
      BY <1>1, <2>1, <3>1, <3>3, <3>7
  <2>6. CASE ~ Left(s, c)
    <3>1. x = s[c[2]] /\ d = <<c[1], c[2] + 1>> /\ Worth[s[c[2]]] < Worth[s[c[1]]]
      BY <2>6 DEF NextForth, Left, Strictly
    <3> HIDE DEF x, d
    <3>2. d[1] = c[1] /\ d[2] = c[2] + 1
      BY <3>1
    <3>3. n \in Nat /\ n + 1 = (m - c[1]) + (r - c[2])
      <4>1. n = (m - c[1]) + (r - (c[2] + 1))
        BY <3>2
      <4>2. c[1] \in l .. m - 1 /\ c[2] \in m .. r - 1
        BY <2>1
      <4>3. \A i \in l .. m - 1, j \in m .. r - 1 :
              (m - i) + (r - (j + 1)) \in Nat /\ (m - i) + (r - (j + 1)) + 1 = (m - i) + (r - j)
        BY <1>1, Fewer
      <4> HIDE DEF n
      <4>4. QED
        BY <4>1, <4>2, <4>3
    <3>4. d[2] < r => Worth[s[c[2]]] <= Worth[s[d[2]]]
      <4>1. c[2] + 1 < r => c[2] \in m .. (r - 1) - 1
        BY <1>1, <2>1
      <4>2. QED
        BY <1>1, <3>2, <4>1 DEF Rising
    <3>5. Worth[s[c[2]]] <= Worth[s[c[1]]]
      BY <2>2, <3>1
    <3>6. n > 0 => Worth[x] <= Worth[g[d][1]]
      BY <2>4, <3>1, <3>2, <3>4, <3>5
    <3>7. Ordered(g[c], n + 1) /\ g[c][1] = x
      <4> HIDE DEF n
      <4>1. QED
        BY <2>1, <2>3, <2>4, <3>3, <3>6, OrderedBefore
    <3> HIDE DEF n
    <3>8. QED
      BY <1>1, <2>1, <3>1, <3>3, <3>7
  <2>7. QED
    BY <2>5, <2>6
<1>18. \A c \in D : Good(c)
  <2> DEFINE T == {c \in D : ~ Good(c)}
  <2>1. SUFFICES ASSUME T # {} PROVE FALSE
    <3> HIDE DEF Good, D
    <3>1. QED
      BY <2>1
  <2>2. PICK c \in T : c \in Stop \/ up[c] \notin T
    <3>1. T \subseteq D
      OBVIOUS
    <3> HIDE DEF T, up, Stop, D
    <3>2. QED
      BY <1>5, <2>1, <3>1, Lowest
  <2>3. c \in D /\ ~ Good(c)
    BY <2>2
  <2>4. ~ End(c)
    BY <1>16, <2>3
  <2>5. c \notin Stop /\ up[c] = NextForth(s, c) /\ NextForth(s, c) \in D
    <3>1. NextForth(s, c) \in D
      BY <1>4, <2>3, <2>4
    <3>2. c \notin Stop
      BY <2>4
    <3>3. up[c] = NextForth(s, c)
      BY <2>3
    <3>4. QED
      BY <3>1, <3>2, <3>3
  <2> HIDE DEF Good, D, End, Stop, up
  <2>6. Good(NextForth(s, c))
    BY <2>2, <2>5
  <2>7. QED
    BY <1>17, <2>3, <2>4, <2>6
<1>19. <<l, m>> \in D /\ (m - l) + (r - m) = r - l
  BY <1>1
<1>20. Good(<<l, m>>)
  <2> HIDE DEF Good, D
  <2>1. QED
    BY <1>18, <1>19
<1>21. Ordered(g[<<l, m>>], (m - l) + (r - m))
  BY <1>20
<1>22. QED
  BY <1>14, <1>19, <1>21

\* The same for back, which takes from the ends.
NextBack(s, c) == IF Left(s, c) THEN <<c[1], c[2] - 1>> ELSE <<c[1] - 1, c[2]>>

LEMMA FewerBack ==
  ASSUME NEW l \in Nat, NEW m \in Nat, NEW r \in Nat, NEW i \in l .. m - 1, NEW j \in m .. r - 1
  PROVE  /\ (i - (l - 1)) + ((j - 1) - (m - 1)) \in Nat
         /\ (i - (l - 1)) + ((j - 1) - (m - 1)) + 1 = (i - (l - 1)) + (j - (m - 1))
         /\ ((i - 1) - (l - 1)) + (j - (m - 1)) \in Nat
         /\ ((i - 1) - (l - 1)) + (j - (m - 1)) + 1 = (i - (l - 1)) + (j - (m - 1))
<1>1. i \in Int /\ j \in Int /\ i >= l /\ j >= m
  OBVIOUS
<1>2. QED
  BY <1>1

LEMMA BackIs ==
  ASSUME ElementAssumption, NEW s, NEW l, NEW m, NEW r, Beside(s, l, m, r)
  PROVE  Ordered(Back(s, l, m, r), r - l)
<1> DEFINE D == (l - 1 .. m - 1) \X (m - 1 .. r - 1)
           End(c) == c[1] = l - 1 \/ c[2] = m - 1
           up == [c \in D |-> NextBack(s, c)]
           Stop == {c \in D : End(c)}
           Rest(c) == IF c[2] = m - 1 THEN SubSeq(s, l, c[1]) ELSE SubSeq(s, m, c[2])
           Taken(c) == IF Left(s, c) THEN s[c[2]] ELSE s[c[1]]
           start == [c \in D |-> Rest(c)]
           step == [c \in D |-> [q \in Seq(Item) |-> IF End(c) THEN <<>> ELSE Append(q, Taken(c))]]
           h == [c \in D |-> (c[1] - (l - 1)) + (c[2] - (m - 1))]
           Is(f) == f = [c \in D |->
             CASE c[2] = m - 1 -> SubSeq(s, l, c[1])
               [] c[2] >= m /\ c[1] = l - 1 -> SubSeq(s, m, c[2])
               [] c[2] >= m /\ c[1] >= l /\ ~Strictly(s[c[2]], s[c[1]]) -> Append(f[<<c[1], c[2] - 1>>], s[c[2]])
               [] OTHER -> Append(f[<<c[1] - 1, c[2]>>], s[c[1]])]
<1>1. /\ s \in Seq(Item) /\ l \in Nat \ {0} /\ m \in Nat /\ r \in Nat /\ Len(s) \in Nat
      /\ l < m /\ m < r /\ r <= Len(s) + 1 /\ Rising(s, l, m - 1) /\ Rising(s, m, r - 1)
  BY DEF Beside
<1>2. \A c \in D : c[1] \in l - 1 .. m - 1 /\ c[2] \in m - 1 .. r - 1 /\ c = <<c[1], c[2]>>
  OBVIOUS
<1>3. \A i \in l - 1 .. m - 1, j \in m - 1 .. r - 1 : <<i, j>> \in D
  OBVIOUS
<1>4. ASSUME NEW c \in D
      PROVE  /\ ~ End(c) => c[1] \in l .. m - 1 /\ c[2] \in m .. r - 1 /\ NextBack(s, c) \in D
             /\ ~ End(c) => h[NextBack(s, c)] < h[c]
             /\ h[c] \in Nat
  <2>1. c[1] \in l - 1 .. m - 1 /\ c[2] \in m - 1 .. r - 1
    BY <1>2
  <2>2. h[c] = (c[1] - (l - 1)) + (c[2] - (m - 1)) /\ h[c] \in Nat
    BY <1>1, <2>1
  <2>3. ASSUME ~ End(c)
        PROVE  /\ c[1] \in l .. m - 1 /\ c[2] \in m .. r - 1
               /\ NextBack(s, c) \in D /\ h[NextBack(s, c)] < h[c]
    <3>1. c[1] \in l .. m - 1 /\ c[2] \in m .. r - 1
      <4>1. c[1] # l - 1 /\ c[2] # m - 1
        BY <2>3
      <4> DEFINE i == c[1]
                 j == c[2]
      <4>2. i \in l - 1 .. m - 1 /\ j \in m - 1 .. r - 1 /\ i # l - 1 /\ j # m - 1
        BY <2>1, <4>1
      <4> HIDE DEF D, End, h, i, j
      <4>3. i \in l .. m - 1
        BY <1>1, <4>2
      <4>4. j \in m .. r - 1
        BY <1>1, <4>2
      <4>5. QED
        BY <4>3, <4>4 DEF i, j
    <3>2. CASE Left(s, c)
      <4> DEFINE d == <<c[1], c[2] - 1>>
      <4>1. NextBack(s, c) = d /\ d \in D /\ d[1] = c[1] /\ d[2] = c[2] - 1
        BY <1>1, <3>1, <3>2 DEF NextBack
      <4>2. h[d] = (d[1] - (l - 1)) + (d[2] - (m - 1))
        BY <4>1
      <4>3. h[d] \in Nat /\ h[d] + 1 = h[c]
        <5> DEFINE i == c[1]
                   j == c[2]
        <5>1. h[d] = (i - (l - 1)) + ((j - 1) - (m - 1)) /\ h[c] = (i - (l - 1)) + (j - (m - 1))
              /\ i \in l .. m - 1 /\ j \in m .. r - 1
          BY <2>2, <3>1, <4>1, <4>2
        <5> HIDE DEF d, h, D, i, j
        <5>2. /\ ((i - (l - 1)) + ((j - 1) - (m - 1))) \in Nat
              /\ ((i - (l - 1)) + ((j - 1) - (m - 1))) + 1 = (i - (l - 1)) + (j - (m - 1))
          BY <1>1, <5>1, FewerBack
        <5>3. QED
          BY <5>1, <5>2
      <4> HIDE DEF d, h, D
      <4>4. QED
        BY <2>2, <3>1, <4>1, <4>3
    <3>3. CASE ~ Left(s, c)
      <4> DEFINE d == <<c[1] - 1, c[2]>>
      <4>1. NextBack(s, c) = d /\ d \in D /\ d[1] = c[1] - 1 /\ d[2] = c[2]
        BY <1>1, <3>1, <3>3 DEF NextBack
      <4>2. h[d] = (d[1] - (l - 1)) + (d[2] - (m - 1))
        BY <4>1
      <4>3. h[d] \in Nat /\ h[d] + 1 = h[c]
        <5> DEFINE i == c[1]
                   j == c[2]
        <5>1. h[d] = ((i - 1) - (l - 1)) + (j - (m - 1)) /\ h[c] = (i - (l - 1)) + (j - (m - 1))
              /\ i \in l .. m - 1 /\ j \in m .. r - 1
          BY <2>2, <3>1, <4>1, <4>2
        <5> HIDE DEF d, h, D, i, j
        <5>2. /\ (((i - 1) - (l - 1)) + (j - (m - 1))) \in Nat
              /\ (((i - 1) - (l - 1)) + (j - (m - 1))) + 1 = (i - (l - 1)) + (j - (m - 1))
          BY <1>1, <5>1, FewerBack
        <5>3. QED
          BY <5>1, <5>2
      <4> HIDE DEF d, h, D
      <4>4. QED
        BY <2>2, <3>1, <4>1, <4>3
    <3>4. QED
      BY <3>2, <3>3
  <2>4. QED
    BY <2>2, <2>3
<1>5. Founded(D, up, Stop)
  <2>1. \A c \in D : h[c] \in Nat /\ (c \in Stop \/ (up[c] \in D /\ h[up[c]] < h[c]))
    <3>1. \A c \in D : up[c] = NextBack(s, c) /\ (c \notin Stop <=> ~ End(c))
      OBVIOUS
    <3> HIDE DEF h, up, Stop, D, End
    <3>2. QED
      BY <1>4, <3>1
  <2> HIDE DEF h, up, Stop, D
  <2>2. QED
    BY <2>1, Measured
<1>6. ASSUME NEW c \in D
      PROVE  /\ Rest(c) \in Seq(Item)
             /\ End(c) => /\ Ordered(Rest(c), (c[1] - (l - 1)) + (c[2] - (m - 1)))
                          /\ (c[1] - (l - 1)) + (c[2] - (m - 1)) > 0 =>
                               \/ c[1] >= l /\ Rest(c)[(c[1] - (l - 1)) + (c[2] - (m - 1))] = s[c[1]]
                               \/ c[2] >= m /\ Rest(c)[(c[1] - (l - 1)) + (c[2] - (m - 1))] = s[c[2]]
  <2>1. c[1] \in l - 1 .. m - 1 /\ c[2] \in m - 1 .. r - 1
    BY <1>2
  <2> DEFINE k == (c[1] - (l - 1)) + (c[2] - (m - 1))
  <2>2. CASE c[2] = m - 1
    <3>1. /\ m - 1 \in Int /\ m - 1 <= Len(s) /\ c[1] \in Int /\ l \in Int
          /\ l <= l /\ l <= c[1] + 1 /\ c[1] <= m - 1
      BY <1>1, <2>1
    <3>2. /\ Ordered(SubSeq(s, l, c[1]), c[1] - l + 1)
          /\ l <= c[1] => SubSeq(s, l, c[1])[c[1] - l + 1] = s[c[1]]
      <4>1. ASSUME NEW j \in Int, l <= j + 1, j <= m - 1
            PROVE  /\ Ordered(SubSeq(s, l, j), j - l + 1)
                   /\ l <= j => SubSeq(s, l, j)[j - l + 1] = s[j]
        <5> HIDE DEF D, Rest, End, k, h, Taken
        <5>1. /\ s \in Seq(Item) /\ l \in Nat \ {0} /\ l \in Int /\ m - 1 \in Int /\ m - 1 <= Len(s)
              /\ Rising(s, l, m - 1) /\ l <= l
          BY <1>1, <3>1
        <5>2. QED
          BY <4>1, <5>1, OrderedPart
      <4>2. QED
        BY <3>1, <4>1
    <3>3. c[1] - l + 1 = k
      BY <1>1, <2>1, <2>2
    <3>4. Rest(c) = SubSeq(s, l, c[1])
      BY <2>2
    <3>5. k > 0 => l <= c[1]
      BY <1>1, <2>1, <2>2
    <3> HIDE DEF Rest, End, k
    <3>6. Ordered(Rest(c), k) /\ Rest(c) \in Seq(Item)
      BY <3>2, <3>3, <3>4 DEF Ordered
    <3>7. k > 0 => c[1] >= l /\ Rest(c)[k] = s[c[1]]
      BY <1>1, <2>1, <3>2, <3>3, <3>4, <3>5
    <3>8. QED
      BY <3>6, <3>7 DEF k
  <2>3. CASE c[2] # m - 1
    <3>1. /\ r - 1 \in Int /\ r - 1 <= Len(s) /\ c[2] \in Int /\ m \in Nat \ {0}
          /\ m <= m /\ m <= c[2] + 1 /\ c[2] <= r - 1 /\ m <= c[2]
      BY <1>1, <2>1, <2>3
    <3>2. /\ Ordered(SubSeq(s, m, c[2]), c[2] - m + 1)
          /\ SubSeq(s, m, c[2])[c[2] - m + 1] = s[c[2]]
      <4>1. ASSUME NEW j \in Int, m <= j, j <= r - 1
            PROVE  /\ Ordered(SubSeq(s, m, j), j - m + 1)
                   /\ SubSeq(s, m, j)[j - m + 1] = s[j]
        <5> HIDE DEF D, Rest, End, k, h, Taken
        <5>1. /\ s \in Seq(Item) /\ m \in Nat \ {0} /\ m \in Int /\ r - 1 \in Int /\ r - 1 <= Len(s)
              /\ Rising(s, m, r - 1) /\ m <= m /\ m <= j + 1
          BY <1>1, <3>1, <4>1
        <5>2. QED
          BY <4>1, <5>1, OrderedPart
      <4>2. QED
        BY <3>1, <4>1
    <3>3. c[1] = l - 1 => c[2] - m + 1 = k
      BY <1>1, <2>1
    <3>4. Rest(c) = SubSeq(s, m, c[2]) /\ (End(c) => c[1] = l - 1)
      BY <2>3
    <3> HIDE DEF Rest, End, k
    <3>5. Rest(c) \in Seq(Item)
      BY <3>2, <3>4 DEF Ordered
    <3>6. End(c) => Ordered(Rest(c), k) /\ c[2] >= m /\ Rest(c)[k] = s[c[2]]
      BY <1>1, <2>1, <3>1, <3>2, <3>3, <3>4
    <3>7. QED
      BY <3>5, <3>6 DEF k
  <2>4. QED
    BY <2>2, <2>3
<1>7. ASSUME NEW c \in D, ~ End(c)
      PROVE  s[c[1]] \in Item /\ s[c[2]] \in Item /\ Taken(c) \in Item
  <2>1. c[1] \in 1 .. Len(s) /\ c[2] \in 1 .. Len(s)
    <3>1. c[1] \in l .. m - 1 /\ c[2] \in m .. r - 1
      BY <1>4, <1>7
    <3>2. QED
      BY <1>1, <3>1
  <2>2. s[c[1]] \in Item /\ s[c[2]] \in Item
    BY <1>1, <2>1, WorthIs
  <2>3. QED
    BY <2>2
<1>8. start \in [D -> Seq(Item)] /\ step \in [D -> [Seq(Item) -> Seq(Item)]]
  <2>1. start \in [D -> Seq(Item)]
    <3> HIDE DEF D, Rest, End
    <3>1. QED
      BY <1>6
  <2>2. ASSUME NEW c \in D
        PROVE  [q \in Seq(Item) |-> IF End(c) THEN <<>> ELSE Append(q, Taken(c))] \in [Seq(Item) -> Seq(Item)]
    <3>1. ASSUME NEW q \in Seq(Item)
          PROVE  (IF End(c) THEN <<>> ELSE Append(q, Taken(c))) \in Seq(Item)
      <4>1. ~ End(c) => Append(q, Taken(c)) \in Seq(Item)
        <5> HIDE DEF Taken, End
        <5>1. QED
          BY <1>7, PutAfter
      <4>2. <<>> \in Seq(Item)
        OBVIOUS
      <4> HIDE DEF Taken, End
      <4>3. QED
        BY <4>1, <4>2
    <3> HIDE DEF Taken, End
    <3>2. QED
      BY <3>1
  <2> HIDE DEF D, Taken, End
  <2>3. step \in [D -> [Seq(Item) -> Seq(Item)]]
    BY <2>2
  <2>4. QED
    BY <2>1, <2>3
<1>9. PICK f \in [D -> Seq(Item)] : Follows(D, up, Stop, start, step, f)
  <2> HIDE DEF D, up, Stop, start, step
  <2>1. QED
    BY <1>5, <1>8, Recursion
<1>10. ASSUME NEW c \in D
       PROVE  f[c] = IF End(c) THEN Rest(c) ELSE Append(f[NextBack(s, c)], Taken(c))
  <2>1. f[c] = IF c \in Stop THEN start[c] ELSE step[c][f[up[c]]]
    BY <1>9, Zenon DEF Follows
  <2>2. CASE End(c)
    <3>1. c \in Stop /\ start[c] = Rest(c)
      BY <2>2
    <3> HIDE DEF Stop, start, End, Rest
    <3>2. QED
      BY <2>1, <2>2, <3>1
  <2>3. CASE ~ End(c)
    <3>1. f[NextBack(s, c)] \in Seq(Item)
      <4>1. NextBack(s, c) \in D
        BY <1>4, <2>3
      <4> HIDE DEF D
      <4>2. QED
        BY <1>9, <4>1
    <3>2. c \notin Stop /\ up[c] = NextBack(s, c)
      BY <2>3
    <3>3. step[c] = [q \in Seq(Item) |-> IF End(c) THEN <<>> ELSE Append(q, Taken(c))]
      <4> HIDE DEF Taken, End, D
      <4>1. QED
        OBVIOUS
    <3> HIDE DEF Stop, up, step, Taken, End, D
    <3>4. step[c][f[NextBack(s, c)]] = Append(f[NextBack(s, c)], Taken(c))
      BY <2>3, <3>1, <3>3
    <3>5. QED
      BY <2>1, <2>3, <3>2, <3>4
  <2>4. QED
    BY <2>2, <2>3
<1>11. ASSUME NEW e, NEW c \in D
       PROVE  (CASE c[2] = m - 1 -> SubSeq(s, l, c[1])
                 [] c[2] >= m /\ c[1] = l - 1 -> SubSeq(s, m, c[2])
                 [] c[2] >= m /\ c[1] >= l /\ ~Strictly(s[c[2]], s[c[1]]) -> Append(e[<<c[1], c[2] - 1>>], s[c[2]])
                 [] OTHER -> Append(e[<<c[1] - 1, c[2]>>], s[c[1]]))
              = IF End(c) THEN Rest(c) ELSE Append(e[NextBack(s, c)], Taken(c))
  <2>1. c[1] \in l - 1 .. m - 1 /\ c[2] \in m - 1 .. r - 1
    BY <1>2
  <2>2. c[2] = m - 1 \/ c[2] >= m
    BY <1>1, <2>1
  <2>3. c[1] = l - 1 \/ c[1] >= l
    BY <1>1, <2>1
  <2>4. ~ (c[2] = m - 1 /\ c[2] >= m) /\ ~ (c[1] = l - 1 /\ c[1] >= l)
    BY <1>1, <2>1
  <2>5. CASE c[2] = m - 1
    BY <2>4, <2>5
  <2>6. CASE c[2] >= m /\ c[1] = l - 1
    BY <2>4, <2>6
  <2>7. CASE c[2] >= m /\ c[1] >= l /\ ~Strictly(s[c[2]], s[c[1]])
    BY <2>4, <2>7 DEF Left, NextBack
  <2>8. CASE c[2] >= m /\ c[1] >= l /\ Strictly(s[c[2]], s[c[1]])
    BY <2>4, <2>8 DEF Left, NextBack
  <2>9. QED
    BY <2>2, <2>3, <2>5, <2>6, <2>7, <2>8
<1>12. Is(f)
  <2>1. f = [c \in D |-> f[c]]
    <3> HIDE DEF D
    <3>1. QED
      BY <1>9
  <2> DEFINE case(c) ==
        CASE c[2] = m - 1 -> SubSeq(s, l, c[1])
          [] c[2] >= m /\ c[1] = l - 1 -> SubSeq(s, m, c[2])
          [] c[2] >= m /\ c[1] >= l /\ ~Strictly(s[c[2]], s[c[1]]) -> Append(f[<<c[1], c[2] - 1>>], s[c[2]])
          [] OTHER -> Append(f[<<c[1] - 1, c[2]>>], s[c[1]])
  <2>2. \A c \in D : f[c] = case(c)
    <3>1. \A c \in D : case(c) = IF End(c) THEN Rest(c) ELSE Append(f[NextBack(s, c)], Taken(c))
      BY <1>11, Zenon
    <3> HIDE DEF D, End, Rest, Taken, case
    <3>2. QED
      BY <1>10, <3>1
  <2>3. f = [c \in D |-> case(c)]
    <3> HIDE DEF D, case
    <3>1. QED
      BY <2>1, <2>2
  <2>4. QED
    BY <2>3, Zenon
<1> DEFINE g == CHOOSE f0 : Is(f0)
<1>13. Is(g)
  <2> HIDE DEF Is
  <2> QED
    BY <1>12, Zenon
<1>14. Back(s, l, m, r) = g[<<m - 1, r - 1>>]
  BY Zenon DEF Back
<1> HIDE DEF g
<1>15. ASSUME NEW c \in D
       PROVE  g[c] = IF End(c) THEN Rest(c) ELSE Append(g[NextBack(s, c)], Taken(c))
  <2> DEFINE case(d) ==
        CASE d[2] = m - 1 -> SubSeq(s, l, d[1])
          [] d[2] >= m /\ d[1] = l - 1 -> SubSeq(s, m, d[2])
          [] d[2] >= m /\ d[1] >= l /\ ~Strictly(s[d[2]], s[d[1]]) -> Append(g[<<d[1], d[2] - 1>>], s[d[2]])
          [] OTHER -> Append(g[<<d[1] - 1, d[2]>>], s[d[1]])
  <2>1. g = [d \in D |-> case(d)]
    BY <1>13, Zenon
  <2>2. case(c) = IF End(c) THEN Rest(c) ELSE Append(g[NextBack(s, c)], Taken(c))
    BY <1>11, Zenon
  <2> HIDE DEF case, D
  <2>3. g[c] = case(c)
    BY <2>1
  <2> HIDE DEF End, Rest, Taken
  <2>4. QED
    BY <2>2, <2>3
<1> DEFINE Good(c) ==
      /\ Ordered(g[c], (c[1] - (l - 1)) + (c[2] - (m - 1)))
      /\ (c[1] - (l - 1)) + (c[2] - (m - 1)) > 0 =>
           \/ c[1] >= l /\ g[c][(c[1] - (l - 1)) + (c[2] - (m - 1))] = s[c[1]]
           \/ c[2] >= m /\ g[c][(c[1] - (l - 1)) + (c[2] - (m - 1))] = s[c[2]]
<1>16. ASSUME NEW c \in D, End(c)
       PROVE  Good(c)
  <2>1. g[c] = Rest(c)
    <3> HIDE DEF D, End, Rest, Taken
    <3>1. QED
      BY <1>15, <1>16
  <2> HIDE DEF D, End, Rest
  <2>2. QED
    BY <1>6, <1>16, <2>1
<1>17. ASSUME NEW c \in D, ~ End(c), Good(NextBack(s, c))
       PROVE  Good(c)
  <2> DEFINE d == NextBack(s, c)
             n == (d[1] - (l - 1)) + (d[2] - (m - 1))
             x == Taken(c)
  <2>1. /\ c[1] \in l .. m - 1 /\ c[2] \in m .. r - 1
        /\ s[c[1]] \in Item /\ s[c[2]] \in Item /\ x \in Item
    BY <1>4, <1>7, <1>17
  <2>2. Worth[s[c[1]]] \in Int /\ Worth[s[c[2]]] \in Int
    BY <2>1 DEF ElementAssumption, Item
  <2>3. g[c] = Append(g[d], x)
    <3> HIDE DEF D, End, Rest, Taken
    <3>1. QED
      BY <1>15, <1>17 DEF x
  <2>4. Ordered(g[d], n) /\ (n > 0 => (d[1] >= l /\ g[d][n] = s[d[1]]) \/ (d[2] >= m /\ g[d][n] = s[d[2]]))
    BY <1>17
  <2>5. CASE Left(s, c)
    <3>1. x = s[c[2]] /\ d = <<c[1], c[2] - 1>> /\ ~ (Worth[s[c[2]]] < Worth[s[c[1]]])
      BY <2>5 DEF NextBack, Left, Strictly
    <3> HIDE DEF x, d
    <3>2. d[1] = c[1] /\ d[2] = c[2] - 1
      BY <3>1
    <3>3. n \in Nat /\ n + 1 = (c[1] - (l - 1)) + (c[2] - (m - 1))
      <4>1. n = (c[1] - (l - 1)) + ((c[2] - 1) - (m - 1))
        BY <3>2
      <4>2. (c[1] - (l - 1)) + ((c[2] - 1) - (m - 1)) \in Nat /\ (c[1] - (l - 1)) + ((c[2] - 1) - (m - 1)) + 1 = (c[1] - (l - 1)) + (c[2] - (m - 1))
        BY <1>1, <2>1, FewerBack
      <4> HIDE DEF n
      <4>3. QED
        BY <4>1, <4>2
    <3>4. d[2] >= m => Worth[s[d[2]]] <= Worth[s[c[2]]]
      <4>1. c[2] - 1 >= m => c[2] - 1 \in m .. (r - 1) - 1 /\ (c[2] - 1) + 1 = c[2]
        BY <1>1, <2>1
      <4>2. QED
        BY <1>1, <3>2, <4>1 DEF Rising
    <3>5. Worth[s[c[1]]] <= Worth[s[c[2]]]
      BY <2>2, <3>1
    <3>6. n > 0 => Worth[g[d][n]] <= Worth[x]
      BY <2>4, <3>1, <3>2, <3>4, <3>5
    <3>7. Ordered(g[c], n + 1) /\ g[c][n + 1] = x
      <4> HIDE DEF n
      <4>1. Ordered(Append(g[d], x), n + 1) /\ Append(g[d], x)[n + 1] = x
        BY <2>1, <2>4, <3>3, <3>6, OrderedAfter
      <4>2. QED
        BY <2>3, <4>1
    <3> HIDE DEF n
    <3>8. QED
      BY <1>1, <2>1, <3>1, <3>3, <3>7
  <2>6. CASE ~ Left(s, c)
    <3>1. x = s[c[1]] /\ d = <<c[1] - 1, c[2]>> /\ Worth[s[c[2]]] < Worth[s[c[1]]]
      BY <2>6 DEF NextBack, Left, Strictly
    <3> HIDE DEF x, d
    <3>2. d[1] = c[1] - 1 /\ d[2] = c[2]
      BY <3>1
    <3>3. n \in Nat /\ n + 1 = (c[1] - (l - 1)) + (c[2] - (m - 1))
      <4>1. n = ((c[1] - 1) - (l - 1)) + (c[2] - (m - 1))
        BY <3>2
      <4>2. ((c[1] - 1) - (l - 1)) + (c[2] - (m - 1)) \in Nat /\ ((c[1] - 1) - (l - 1)) + (c[2] - (m - 1)) + 1 = (c[1] - (l - 1)) + (c[2] - (m - 1))
        BY <1>1, <2>1, FewerBack
      <4> HIDE DEF n
      <4>3. QED
        BY <4>1, <4>2
    <3>4. d[1] >= l => Worth[s[d[1]]] <= Worth[s[c[1]]]
      <4>1. c[1] - 1 >= l => c[1] - 1 \in l .. (m - 1) - 1 /\ (c[1] - 1) + 1 = c[1]
        BY <1>1, <2>1
      <4>2. QED
        BY <1>1, <3>2, <4>1 DEF Rising
    <3>5. Worth[s[c[2]]] <= Worth[s[c[1]]]
      BY <2>2, <3>1
    <3>6. n > 0 => Worth[g[d][n]] <= Worth[x]
      BY <2>4, <3>1, <3>2, <3>4, <3>5
    <3>7. Ordered(g[c], n + 1) /\ g[c][n + 1] = x
      <4> HIDE DEF n
      <4>1. Ordered(Append(g[d], x), n + 1) /\ Append(g[d], x)[n + 1] = x
        BY <2>1, <2>4, <3>3, <3>6, OrderedAfter
      <4>2. QED
        BY <2>3, <4>1
    <3> HIDE DEF n
    <3>8. QED
      BY <1>1, <2>1, <3>1, <3>3, <3>7
  <2>7. QED
    BY <2>5, <2>6
<1>18. \A c \in D : Good(c)
  <2> DEFINE T == {c \in D : ~ Good(c)}
  <2>1. SUFFICES ASSUME T # {} PROVE FALSE
    <3> HIDE DEF Good, D
    <3>1. QED
      BY <2>1
  <2>2. PICK c \in T : c \in Stop \/ up[c] \notin T
    <3>1. T \subseteq D
      OBVIOUS
    <3> HIDE DEF T, up, Stop, D
    <3>2. QED
      BY <1>5, <2>1, <3>1, Lowest
  <2>3. c \in D /\ ~ Good(c)
    BY <2>2
  <2>4. ~ End(c)
    BY <1>16, <2>3
  <2>5. c \notin Stop /\ up[c] = NextBack(s, c) /\ NextBack(s, c) \in D
    <3>1. NextBack(s, c) \in D
      BY <1>4, <2>3, <2>4
    <3>2. c \notin Stop
      BY <2>4
    <3>3. up[c] = NextBack(s, c)
      BY <2>3
    <3>4. QED
      BY <3>1, <3>2, <3>3
  <2> HIDE DEF Good, D, End, Stop, up
  <2>6. Good(NextBack(s, c))
    BY <2>2, <2>5
  <2>7. QED
    BY <1>17, <2>3, <2>4, <2>6
<1>19. <<m - 1, r - 1>> \in D /\ ((m - 1) - (l - 1)) + ((r - 1) - (m - 1)) = r - l
  BY <1>1
<1>20. Good(<<m - 1, r - 1>>)
  <2> HIDE DEF Good, D
  <2>1. QED
    BY <1>18, <1>19
<1>21. Ordered(g[<<m - 1, r - 1>>], ((m - 1) - (l - 1)) + ((r - 1) - (m - 1)))
  BY <1>20
<1>22. QED
  BY <1>14, <1>19, <1>21

\* Merging two runs makes one; all else stays where it is.
LEMMA MergedIs ==
  ASSUME ElementAssumption, NEW s, NEW l, NEW m, NEW r, Beside(s, l, m, r)
  PROVE  /\ Like(Merged(s, l, m, r), s)
         /\ \A k \in 1 .. Len(s) : k < l \/ k >= r => Merged(s, l, m, r)[k] = s[k]
         /\ Rising(Merged(s, l, m, r), l, r - 1)
<1> DEFINE q == IF m - l <= r - m THEN Forth(s, l, m, r) ELSE Back(s, l, m, r)
           p == Merged(s, l, m, r)
<1>1. /\ s \in Seq(Item) /\ l \in Nat \ {0} /\ m \in Nat /\ r \in Nat /\ Len(s) \in Nat
      /\ l < m /\ m < r /\ r <= Len(s) + 1 /\ DOMAIN s = 1 .. Len(s)
  BY DEF Beside
<1>2. Ordered(q, r - l)
  BY ForthIs, BackIs
<1>3. p = [k \in DOMAIN s |-> IF k \in l .. r - 1 THEN q[k - l + 1] ELSE s[k]]
  BY Zenon DEF Merged
<1> HIDE DEF p, q
<1>4. /\ q \in Seq(Item) /\ Len(q) = r - l /\ \A k \in 1 .. r - l : q[k] \in Item
      /\ \A k \in 1 .. (r - l) - 1 : Worth[q[k]] <= Worth[q[k + 1]]
  BY <1>1, <1>2 DEF Ordered, Rising
<1>5. DOMAIN p = DOMAIN s /\ p = [k \in DOMAIN s |-> p[k]]
  BY <1>3
<1>6. \A k \in 1 .. Len(s) : p[k] = IF k \in l .. r - 1 THEN q[k - l + 1] ELSE s[k]
  BY <1>1, <1>3
<1>7. ASSUME NEW k \in 1 .. Len(s)
      PROVE  p[k] \in Item
  <2>1. CASE k \in l .. r - 1
    <3>1. k - l + 1 \in 1 .. r - l
      BY <1>1, <2>1
    <3>2. QED
      BY <1>4, <1>6, <2>1, <3>1
  <2>2. CASE k \notin l .. r - 1
    BY <1>1, <1>6, <2>2
  <2>3. QED
    BY <2>1, <2>2
<1>8. Like(p, s)
  BY <1>1, <1>5, <1>7, MadeIs
<1>9. ASSUME NEW k \in 1 .. Len(s), k < l \/ k >= r
      PROVE  p[k] = s[k]
  BY <1>1, <1>6, <1>9
<1>10. ASSUME NEW k \in l .. (r - 1) - 1
       PROVE  Worth[p[k]] <= Worth[p[k + 1]]
  <2>1. /\ k \in 1 .. Len(s) /\ k \in l .. r - 1 /\ k + 1 \in 1 .. Len(s) /\ k + 1 \in l .. r - 1
        /\ k - l + 1 \in 1 .. (r - l) - 1 /\ (k + 1) - l + 1 = (k - l + 1) + 1
    <3> DEFINE n == Len(s)
    <3>1. n \in Nat /\ r <= n + 1
      BY <1>1
    <3> HIDE DEF n
    <3>2. k \in 1 .. n /\ k + 1 \in 1 .. n
      BY <1>1, <3>1
    <3>3. /\ k \in l .. r - 1 /\ k + 1 \in l .. r - 1
          /\ k - l + 1 \in 1 .. (r - l) - 1 /\ (k + 1) - l + 1 = (k - l + 1) + 1
      BY <1>1
    <3>4. QED
      BY <3>2, <3>3 DEF n
  <2>2. p[k] = q[k - l + 1] /\ p[k + 1] = q[(k - l + 1) + 1]
    BY <1>6, <2>1
  <2>3. QED
    BY <1>4, <2>1, <2>2
<1>11. QED
  BY <1>8, <1>9, <1>10 DEF p, Rising

-----------------------------------------------------------------------------
(* The elements of the list.                                               *)

LEMMA InsertedIs ==
  ASSUME NEW s \in Seq(Item), NEW i \in 1 .. Len(s) + 1, NEW x \in Item
  PROVE  InsertAt(s, i, x) \in Seq(Item) /\ Len(InsertAt(s, i, x)) = Len(s) + 1
<1>1. Len(s) \in Nat
  OBVIOUS
<1>2. SubSeq(s, 1, i - 1) \in Seq(Item) /\ Len(SubSeq(s, 1, i - 1)) = (i - 1) - 1 + 1
  <2>1. i - 1 \in Int /\ i - 1 <= Len(s) /\ 1 <= (i - 1) + 1 /\ 1 \in Nat \ {0}
    BY <1>1
  <2>2. QED
    BY <2>1, PartIs
<1>3. SubSeq(s, i, Len(s)) \in Seq(Item) /\ Len(SubSeq(s, i, Len(s))) = Len(s) - i + 1
  <2>1. i \in Nat \ {0} /\ Len(s) \in Int /\ Len(s) <= Len(s) /\ i <= Len(s) + 1
    BY <1>1
  <2>2. QED
    BY <2>1, PartIs
<1>4. ASSUME NEW p \in Seq(Item), NEW q \in Seq(Item)
      PROVE  p \o <<x>> \o q \in Seq(Item) /\ Len(p \o <<x>> \o q) = Len(p) + 1 + Len(q)
  OBVIOUS
<1>5. InsertAt(s, i, x) = SubSeq(s, 1, i - 1) \o <<x>> \o SubSeq(s, i, Len(s))
  BY DEF InsertAt
<1>6. InsertAt(s, i, x) \in Seq(Item) /\ Len(InsertAt(s, i, x)) = ((i - 1) - 1 + 1) + 1 + (Len(s) - i + 1)
  BY <1>2, <1>3, <1>4, <1>5
<1>7. QED
  BY <1>1, <1>6

LEMMA TakenOutIs ==
  ASSUME NEW s \in Seq(Item), NEW i \in 0 .. Len(s) - 1
  PROVE  PopAt(s, i) \in Seq(Item) /\ Len(PopAt(s, i)) = Len(s) - 1
<1>1. Len(s) \in Nat
  OBVIOUS
<1> DEFINE j == i + 1
<1>2. j \in 1 .. Len(s)
  BY <1>1
<1> HIDE DEF j
<1>3. SubSeq(s, 1, j - 1) \in Seq(Item) /\ Len(SubSeq(s, 1, j - 1)) = (j - 1) - 1 + 1
  <2>1. j - 1 \in Int /\ j - 1 <= Len(s) /\ 1 <= (j - 1) + 1 /\ 1 \in Nat \ {0}
    BY <1>1, <1>2
  <2>2. QED
    BY <2>1, PartIs
<1>4. SubSeq(s, j + 1, Len(s)) \in Seq(Item) /\ Len(SubSeq(s, j + 1, Len(s))) = Len(s) - (j + 1) + 1
  <2>1. j + 1 \in Nat \ {0} /\ Len(s) \in Int /\ Len(s) <= Len(s) /\ j + 1 <= Len(s) + 1
    BY <1>1, <1>2
  <2>2. QED
    BY <2>1, PartIs
<1>5. ASSUME NEW p \in Seq(Item), NEW q \in Seq(Item)
      PROVE  p \o q \in Seq(Item) /\ Len(p \o q) = Len(p) + Len(q)
  OBVIOUS
<1>6. PopAt(s, i) = SubSeq(s, 1, j - 1) \o SubSeq(s, j + 1, Len(s))
  BY DEF PopAt, RemoveAt, j
<1>7. PopAt(s, i) \in Seq(Item) /\ Len(PopAt(s, i)) = ((j - 1) - 1 + 1) + (Len(s) - (j + 1) + 1)
  BY <1>3, <1>4, <1>5, <1>6
<1>8. QED
  BY <1>1, <1>2, <1>7

\* What holds at first and from each to the next.
LEMMA UpTo ==
  ASSUME NEW c \in Nat, NEW T, 0 \in T, \A k \in 1 .. c : k - 1 \in T => k \in T
  PROVE  0 .. c \subseteq T
<1> DEFINE D == 0 .. c
           up == [k \in D |-> k - 1]
           Stop == {0}
           h == [k \in D |-> k]
           R == {k \in D : k \notin T}
<1>1. \A k \in D : h[k] \in Nat /\ (k \in Stop \/ (up[k] \in D /\ h[up[k]] < h[k]))
  OBVIOUS
<1>2. Founded(D, up, Stop)
  <2> HIDE DEF h, up, Stop, D
  <2>1. QED
    BY <1>1, Measured
<1>3. ASSUME R # {}
      PROVE  FALSE
  <2>1. R \subseteq D
    OBVIOUS
  <2>2. PICK k \in R : k \in Stop \/ up[k] \notin R
    <3> HIDE DEF R, up, Stop, D
    <3>1. QED
      BY <1>2, <1>3, <2>1, Lowest
  <2>3. k \in 0 .. c /\ k \notin T
    BY <2>2
  <2>4. k # 0 /\ k \in 1 .. c /\ k - 1 \in 0 .. c
    BY <2>3
  <2>5. up[k] = k - 1 /\ k \notin Stop
    BY <2>4
  <2>6. k - 1 \in T
    BY <2>2, <2>4, <2>5
  <2>7. QED
    BY <2>3, <2>4, <2>6
<1>4. QED
  BY <1>3

\* Steps counted from 1.
Counts(f, S, s, c, step) ==
  f \in [0 .. c -> S] /\ f[0] = s /\ \A k \in 1 .. c : f[k] = step[k][f[k - 1]]

LEMMA CountedUp ==
  ASSUME NEW S, NEW s \in S, NEW c \in Nat, NEW step \in [0 .. c -> [S -> S]]
  PROVE  \E f : Counts(f, S, s, c, step)
<1> DEFINE D == 0 .. c
           up == [k \in D |-> k - 1]
           Stop == {0}
           start == [k \in D |-> s]
           h == [k \in D |-> k]
<1>1. Founded(D, up, Stop)
  <2>1. \A k \in D : h[k] \in Nat /\ (k \in Stop \/ (up[k] \in D /\ h[up[k]] < h[k]))
    OBVIOUS
  <2> HIDE DEF h, up, Stop, D
  <2>2. QED
    BY <2>1, Measured
<1>2. start \in [D -> S] /\ step \in [D -> [S -> S]]
  OBVIOUS
<1>3. PICK f \in [D -> S] : Follows(D, up, Stop, start, step, f)
  <2> HIDE DEF D, up, Stop, start
  <2>1. QED
    BY <1>1, <1>2, Recursion
<1>4. \A k \in D : f[k] = IF k \in Stop THEN start[k] ELSE step[k][f[up[k]]]
  <2> HIDE DEF D, up, Stop, start
  <2>1. QED
    BY <1>3, Zenon DEF Follows
<1>5. f[0] = s
  <2>1. 0 \in D /\ 0 \in Stop /\ start[0] = s
    OBVIOUS
  <2> HIDE DEF D, up, Stop, start
  <2>2. QED
    BY <1>4, <2>1
<1>6. ASSUME NEW k \in 1 .. c
      PROVE  f[k] = step[k][f[k - 1]]
  <2>1. k \in D /\ k \notin Stop /\ up[k] = k - 1
    OBVIOUS
  <2> HIDE DEF D, up, Stop, start
  <2>2. QED
    BY <1>4, <2>1
<1>7. Counts(f, S, s, c, step)
  BY <1>3, <1>5, <1>6 DEF Counts
<1>8. QED
  BY <1>7

LEMMA DeletedIs ==
  ASSUME NEW s \in Seq(Item), NEW b, b.start \in 0 .. Len(s), b.end \in b.start .. Len(s)
  PROVE  Deleted(s, b) \in Seq(Item)
<1> DEFINE c == b.end - b.start
           S == Seq(Item)
           Is(f) == f = [k \in 0 .. c |-> IF k = 0 THEN s ELSE PopAt(f[k - 1], b.start)]
           step == [k \in 0 .. c |-> [q \in S |-> IF b.start < Len(q) THEN PopAt(q, b.start) ELSE q]]
<1>1. Len(s) \in Nat /\ b.start \in Nat /\ c \in Nat /\ b.start + c <= Len(s)
  OBVIOUS
<1>2. step \in [0 .. c -> [S -> S]]
  <2>1. ASSUME NEW q \in S
        PROVE  (IF b.start < Len(q) THEN PopAt(q, b.start) ELSE q) \in S
    <3>1. b.start < Len(q) => b.start \in 0 .. Len(q) - 1
      BY <1>1
    <3>2. QED
      BY <3>1, TakenOutIs
  <2> HIDE DEF S, c
  <2>2. QED
    BY <2>1
<1>3. PICK f \in [0 .. c -> S] : f[0] = s /\ \A k \in 1 .. c : f[k] = step[k][f[k - 1]]
  <2>1. \E f : Counts(f, S, s, c, step)
    <3> HIDE DEF step, c
    <3>1. QED
      BY <1>1, <1>2, CountedUp
  <2> HIDE DEF step, c, S
  <2>2. QED
    BY <2>1 DEF Counts
<1> DEFINE Good(g, k) == g[k] \in S /\ Len(g[k]) = Len(s) - k
<1>4. ASSUME NEW g, Good(g, 0), \A k \in 1 .. c : Good(g, k - 1) => Good(g, k)
      PROVE  \A k \in 0 .. c : Good(g, k)
  <2> DEFINE T == {k \in 0 .. c : Good(g, k)}
  <2>1. 0 \in T
    BY <1>1, <1>4
  <2>2. \A k \in 1 .. c : k - 1 \in T => k \in T
    <3>1. \A k \in 1 .. c : k \in 0 .. c
      OBVIOUS
    <3> HIDE DEF Good, c
    <3>2. QED
      BY <1>4, <3>1
  <2>3. 0 .. c \subseteq T
    <3> HIDE DEF T, c
    <3>1. QED
      BY <1>1, <2>1, <2>2, UpTo
  <2> HIDE DEF Good, c
  <2>4. QED
    BY <2>3
<1>5. ASSUME NEW k \in 1 .. c, NEW q \in S, Len(q) = Len(s) - (k - 1)
      PROVE  /\ step[k][q] = PopAt(q, b.start)
             /\ PopAt(q, b.start) \in S /\ Len(PopAt(q, b.start)) = Len(s) - k
  <2>1. b.start < Len(q) /\ b.start \in 0 .. Len(q) - 1
    BY <1>1, <1>5
  <2>2. step[k][q] = PopAt(q, b.start)
    BY <1>1, <2>1
  <2>3. PopAt(q, b.start) \in S /\ Len(PopAt(q, b.start)) = Len(q) - 1
    BY <2>1, TakenOutIs
  <2>4. QED
    BY <1>1, <1>5, <2>2, <2>3
<1> HIDE DEF step
<1>6. \A k \in 0 .. c : Good(f, k)
  <2>1. Good(f, 0)
    BY <1>1, <1>3
  <2>2. ASSUME NEW k \in 1 .. c, Good(f, k - 1)
        PROVE  Good(f, k)
    <3>1. f[k - 1] \in S /\ Len(f[k - 1]) = Len(s) - (k - 1)
      BY <2>2
    <3>2. f[k] = step[k][f[k - 1]]
      BY <1>3
    <3> DEFINE q == f[k - 1]
    <3> HIDE DEF S, c, q
    <3>3. q \in S /\ Len(q) = Len(s) - (k - 1) /\ f[k] = step[k][q]
      BY <3>1, <3>2 DEF q
    <3>4. QED
      BY <1>5, <3>3
  <2> HIDE DEF Good, c
  <2>3. QED
    BY <1>4, <2>1, <2>2
<1>7. Is(f)
  <2>1. ASSUME NEW k \in 0 .. c
        PROVE  f[k] = IF k = 0 THEN s ELSE PopAt(f[k - 1], b.start)
    <3>1. CASE k = 0
      BY <1>3, <3>1
    <3>2. CASE k # 0
      <4>1. k \in 1 .. c /\ k - 1 \in 0 .. c
        BY <1>1, <3>2
      <4>2. f[k - 1] \in S /\ Len(f[k - 1]) = Len(s) - (k - 1)
        BY <1>6, <4>1
      <4> HIDE DEF S, c
      <4>3. QED
        BY <1>3, <1>5, <3>2, <4>1, <4>2
    <3>3. QED
      BY <3>1, <3>2
  <2>2. f = [k \in 0 .. c |-> f[k]]
    OBVIOUS
  <2> HIDE DEF c
  <2>3. QED
    BY <2>1, <2>2
<1> DEFINE g == CHOOSE f0 : Is(f0)
<1>8. Is(g)
  <2> HIDE DEF Is
  <2> QED
    BY <1>7, Zenon
<1>9. Deleted(s, b) = g[c]
  BY Zenon DEF Deleted
<1> HIDE DEF g
<1>10. g[0] = s /\ \A k \in 1 .. c : g[k] = PopAt(g[k - 1], b.start)
  <2>1. 0 \in 0 .. c /\ \A k \in 1 .. c : k \in 0 .. c /\ k # 0
    BY <1>1
  <2> HIDE DEF c
  <2>2. QED
    BY <1>8, <2>1
<1>11. \A k \in 0 .. c : Good(g, k)
  <2>1. Good(g, 0)
    BY <1>1, <1>10
  <2>2. ASSUME NEW k \in 1 .. c, Good(g, k - 1)
        PROVE  Good(g, k)
    <3> HIDE DEF S, c
    <3>1. QED
      BY <1>5, <1>10, <2>2
  <2> HIDE DEF Good, c
  <2>3. QED
    BY <1>4, <2>1, <2>2
<1>12. c \in 0 .. c
  BY <1>1
<1>13. QED
  BY <1>9, <1>11, <1>12

LEMMA ReplacedIs ==
  ASSUME NEW q \in Seq(Item), NEW i \in 1 .. Len(q), NEW x \in Item
  PROVE  [q EXCEPT ![i] = x] \in Seq(Item) /\ Len([q EXCEPT ![i] = x]) = Len(q)
OBVIOUS

LEMMA AssignedIs ==
  ASSUME NEW s \in Seq(Item), NEW b, b.start \in 0 .. Len(s), b.end \in b.start .. Len(s),
         NEW new \in Seq(Item), NEW itself \in BOOLEAN, itself => new = s
  PROVE  Assigned(s, b, new, itself) \in Seq(Item)
<1> DEFINE len == b.end - b.start
           count == Len(new)
           c == IF len < count THEN count ELSE len
           S == Seq(Item)
           Room(k) == IF k > count THEN Len(s) - (k - count) ELSE IF k > len THEN Len(s) + (k - len) ELSE Len(s)
           x(k, q) == IF itself THEN q[k] ELSE new[k]
           Put(k, q) == IF k > count THEN PopAt(q, b.start + len + count - k)
                        ELSE IF k > len THEN InsertAt(q, b.start + k, x(k, q))
                        ELSE [q EXCEPT ![b.start + k] = x(k, q)]
           Is(f) == f =
             [k \in 0 .. c |->
                IF k = 0 THEN s
                ELSE LET cur == f[k - 1]
                         y == IF itself THEN cur[k] ELSE new[k]
                     IN IF k > count THEN PopAt(cur, b.start + len + count - k)
                        ELSE IF k > len THEN InsertAt(cur, b.start + k, y)
                        ELSE [cur EXCEPT ![b.start + k] = y]]
           step == [k \in 0 .. c |-> [q \in S |-> IF k >= 1 /\ Len(q) = Room(k - 1) THEN Put(k, q) ELSE q]]
           Good(g, k) == g[k] \in S /\ Len(g[k]) = Room(k)
<1>1. /\ Len(s) \in Nat /\ b.start \in Nat /\ len \in Nat /\ count \in Nat
      /\ b.start + len <= Len(s) /\ itself => count = Len(s)
  OBVIOUS
<1>2. c \in Nat /\ \A k \in 1 .. c : k <= len \/ k <= count
  BY <1>1
<1>3. ASSUME NEW k \in 1 .. c, NEW q \in S, Len(q) = Room(k - 1)
      PROVE  Put(k, q) \in S /\ Len(Put(k, q)) = Room(k)
  <2>0. k \in Nat /\ k >= 1
    BY <1>2
  <2>9. /\ k > count /\ k <= len => /\ b.start + len + count - k \in 0 .. (Len(s) - (k - 1 - count)) - 1
                                  /\ (Len(s) - (k - 1 - count)) - 1 = Len(s) - (k - count)
        /\ k > len => /\ b.start + k \in 1 .. (Len(s) + (k - 1 - len)) + 1
                     /\ (Len(s) + (k - 1 - len)) + 1 = Len(s) + (k - len)
                     /\ (IF k - 1 > len THEN Len(s) + (k - 1 - len) ELSE Len(s)) = Len(s) + (k - 1 - len)
        /\ k <= len => b.start + k \in 1 .. Len(s) /\ ~ (k - 1 > len)
        /\ (IF k - 1 > len THEN Len(s) + (k - 1 - len) ELSE Len(s)) \in Nat
        /\ (IF k - 1 > len THEN Len(s) + (k - 1 - len) ELSE Len(s)) >= Len(s)
    <3> DEFINE from == b.start
               n == Len(s)
    <3>1. from \in Nat /\ len \in Nat /\ count \in Nat /\ k \in Nat /\ n \in Nat /\ from + len <= n /\ k >= 1
      BY <1>1, <2>0
    <3> HIDE DEF len, count, c, from, n
    <3>2. /\ k > count /\ k <= len => /\ from + len + count - k \in 0 .. (n - (k - 1 - count)) - 1
                                     /\ (n - (k - 1 - count)) - 1 = n - (k - count)
          /\ k > len => /\ from + k \in 1 .. (n + (k - 1 - len)) + 1
                       /\ (n + (k - 1 - len)) + 1 = n + (k - len)
                       /\ (IF k - 1 > len THEN n + (k - 1 - len) ELSE n) = n + (k - 1 - len)
          /\ k <= len => from + k \in 1 .. n /\ ~ (k - 1 > len)
          /\ (IF k - 1 > len THEN n + (k - 1 - len) ELSE n) \in Nat
          /\ (IF k - 1 > len THEN n + (k - 1 - len) ELSE n) >= n
      BY <3>1
    <3>3. QED
      BY <3>2 DEF from, n
  <2>1. CASE k > count
    <3> DEFINE i == b.start + len + count - k
    <3>1. Len(q) = Len(s) - (k - 1 - count)
      BY <1>1, <1>3, <2>1
    <3>2. k <= len
      BY <1>1, <1>2, <2>1
    <3>3. i \in 0 .. Len(q) - 1 /\ Len(q) - 1 = Len(s) - (k - count)
      <4> HIDE DEF len, count, c
      <4>1. QED
        BY <2>1, <2>9, <3>1, <3>2
    <3>4. PopAt(q, i) \in S /\ Len(PopAt(q, i)) = Len(q) - 1
      <4> HIDE DEF i
      <4>1. QED
        BY <3>3, TakenOutIs
    <3>5. Put(k, q) = PopAt(q, i) /\ Room(k) = Len(s) - (k - count)
      BY <2>1
    <3> HIDE DEF len, count, c, i, Put, Room
    <3>6. QED
      BY <3>3, <3>4, <3>5
  <2>2. CASE ~ (k > count)
    <3>1. k \in 1 .. count /\ ~ (k - 1 > count)
      BY <1>1, <2>0, <2>2
    <3>2. Len(q) = IF k - 1 > len THEN Len(s) + (k - 1 - len) ELSE Len(s)
      BY <1>3, <3>1
    <3>3. Len(q) >= Len(s) /\ Len(q) \in Nat
      <4> HIDE DEF len, count, c, S
      <4>1. QED
        BY <2>9, <3>2
    <3>4. x(k, q) \in Item
      <4>1. CASE itself
        <5>1. count = Len(s)
          BY <1>1, <4>1
        <5>2. k \in 1 .. Len(q)
          <6> HIDE DEF len, count, c, S
          <6>1. QED
            BY <1>1, <2>0, <3>1, <3>3, <5>1
        <5>3. QED
          BY <4>1, <5>2
      <4>2. CASE ~ itself
        BY <3>1, <4>2
      <4>3. QED
        BY <4>1, <4>2
    <3> DEFINE y == x(k, q)
    <3> HIDE DEF x
    <3>5. CASE k > len
      <4>1. Len(q) = Len(s) + (k - 1 - len)
        <5> HIDE DEF len, count, c, S, y
        <5>1. QED
          BY <2>9, <3>2, <3>5
      <4>2. b.start + k \in 1 .. Len(q) + 1 /\ Len(q) + 1 = Len(s) + (k - len)
        <5> HIDE DEF len, count, c, S, y
        <5>1. QED
          BY <2>9, <3>5, <4>1
      <4>3. InsertAt(q, b.start + k, y) \in S /\ Len(InsertAt(q, b.start + k, y)) = Len(q) + 1
        BY <3>4, <4>2, InsertedIs
      <4>4. Put(k, q) = InsertAt(q, b.start + k, y) /\ Room(k) = Len(s) + (k - len)
        BY <2>2, <3>5
      <4> HIDE DEF len, count, c, y, Put, Room
      <4>5. QED
        BY <4>2, <4>3, <4>4
    <3>6. CASE ~ (k > len)
      <4>1. k <= len
        BY <1>1, <2>0, <3>6
      <4>2. Len(q) = Len(s) /\ b.start + k \in 1 .. Len(q)
        <5> HIDE DEF len, count, c, S, y
        <5>1. QED
          BY <2>9, <3>2, <4>1
      <4>3. [q EXCEPT ![b.start + k] = y] \in S /\ Len([q EXCEPT ![b.start + k] = y]) = Len(q)
        BY <3>4, <4>2, ReplacedIs
      <4>4. Put(k, q) = [q EXCEPT ![b.start + k] = y] /\ Room(k) = Len(s)
        BY <2>2, <3>6
      <4> HIDE DEF len, count, c, y, Put, Room
      <4>5. QED
        BY <4>2, <4>3, <4>4
    <3>7. QED
      BY <3>5, <3>6
  <2>3. QED
    BY <2>1, <2>2
<1> HIDE DEF Put
<1>4. step \in [0 .. c -> [S -> S]]
  <2>1. ASSUME NEW k \in 0 .. c, NEW q \in S
        PROVE  (IF k >= 1 /\ Len(q) = Room(k - 1) THEN Put(k, q) ELSE q) \in S
    <3>1. k >= 1 => k \in 1 .. c
      BY <1>2
    <3> HIDE DEF Room, S, c
    <3>2. QED
      BY <1>3, <2>1, <3>1
  <2> HIDE DEF S, c, Room
  <2>2. QED
    BY <2>1
<1>5. PICK f \in [0 .. c -> S] : f[0] = s /\ \A k \in 1 .. c : f[k] = step[k][f[k - 1]]
  <2>1. \E f : Counts(f, S, s, c, step)
    <3> HIDE DEF step, c
    <3>1. QED
      BY <1>2, <1>4, CountedUp
  <2> HIDE DEF step, c, S
  <2>2. QED
    BY <2>1 DEF Counts
<1>6. ASSUME NEW g, Good(g, 0), \A k \in 1 .. c : Good(g, k - 1) => Good(g, k)
      PROVE  \A k \in 0 .. c : Good(g, k)
  <2> DEFINE T == {k \in 0 .. c : Good(g, k)}
  <2>1. 0 \in T
    BY <1>2, <1>6
  <2>2. \A k \in 1 .. c : k - 1 \in T => k \in T
    <3> HIDE DEF Good, c
    <3>1. \A k \in 1 .. c : k \in 0 .. c
      BY <1>2
    <3>2. QED
      BY <1>6, <3>1
  <2>3. 0 .. c \subseteq T
    <3> HIDE DEF T, c
    <3>1. QED
      BY <1>2, <2>1, <2>2, UpTo
  <2> HIDE DEF Good, c
  <2>4. QED
    BY <2>3
<1>7. ASSUME NEW k \in 1 .. c, NEW q \in S, Len(q) = Room(k - 1)
      PROVE  step[k][q] = Put(k, q)
  <2>1. k \in 0 .. c /\ k >= 1
    OBVIOUS
  <2> HIDE DEF Room, c, S
  <2>2. QED
    BY <1>7, <2>1
<1> HIDE DEF step
<1>8. Room(0) = Len(s)
  BY <1>1
<1>9. \A k \in 0 .. c : Good(f, k)
  <2>1. Good(f, 0)
    BY <1>5, <1>8
  <2>2. ASSUME NEW k \in 1 .. c, Good(f, k - 1)
        PROVE  Good(f, k)
    <3> DEFINE q == f[k - 1]
    <3>1. q \in S /\ Len(q) = Room(k - 1)
      BY <2>2
    <3>2. f[k] = step[k][q]
      BY <1>5
    <3> HIDE DEF S, c, q, Room
    <3>3. f[k] = Put(k, q)
      BY <1>7, <3>1, <3>2
    <3>4. QED
      BY <1>3, <3>1, <3>3
  <2> HIDE DEF Good, c
  <2>3. QED
    BY <1>6, <2>1, <2>2
<1>10. Is(f)
  <2> DEFINE body(k) ==
        IF k = 0 THEN s
        ELSE LET cur == f[k - 1]
                 y == IF itself THEN cur[k] ELSE new[k]
             IN IF k > count THEN PopAt(cur, b.start + len + count - k)
                ELSE IF k > len THEN InsertAt(cur, b.start + k, y)
                ELSE [cur EXCEPT ![b.start + k] = y]
  <2>1. \A k : k # 0 => body(k) = Put(k, f[k - 1])
    BY Zenon DEF Put
  <2>2. ASSUME NEW k \in 0 .. c
        PROVE  f[k] = body(k)
    <3>1. CASE k = 0
      BY <1>5, <3>1
    <3>2. CASE k # 0
      <4> DEFINE q == f[k - 1]
      <4>1. k \in 1 .. c /\ k - 1 \in 0 .. c
        BY <1>2, <3>2
      <4>2. q \in S /\ Len(q) = Room(k - 1)
        <5> HIDE DEF S, Room, c
        <5>1. QED
          BY <1>9, <4>1
      <4>3. f[k] = step[k][q]
        <5> HIDE DEF c
        <5>1. QED
          BY <1>5, <4>1
      <4> HIDE DEF S, c, q, Room
      <4>4. f[k] = Put(k, q)
        BY <1>7, <4>1, <4>2, <4>3
      <4> HIDE DEF body
      <4>5. QED
        BY <2>1, <3>2, <4>4 DEF q
    <3>3. QED
      BY <3>1, <3>2
  <2>3. f = [k \in 0 .. c |-> f[k]]
    OBVIOUS
  <2>4. f = [k \in 0 .. c |-> body(k)]
    <3> HIDE DEF c, body
    <3>1. QED
      BY <2>2, <2>3
  <2>5. QED
    BY <2>4, Zenon
<1> DEFINE g == CHOOSE f0 : Is(f0)
<1>11. Is(g)
  <2> HIDE DEF Is
  <2> QED
    BY <1>10, Zenon
<1>12. Assigned(s, b, new, itself) = g[c]
  BY Zenon DEF Assigned
<1> HIDE DEF g
<1>13. g[0] = s /\ \A k \in 1 .. c : g[k] = Put(k, g[k - 1])
  <2> DEFINE body(k) ==
        IF k = 0 THEN s
        ELSE LET cur == g[k - 1]
                 y == IF itself THEN cur[k] ELSE new[k]
             IN IF k > count THEN PopAt(cur, b.start + len + count - k)
                ELSE IF k > len THEN InsertAt(cur, b.start + k, y)
                ELSE [cur EXCEPT ![b.start + k] = y]
  <2>1. g = [k \in 0 .. c |-> body(k)]
    BY <1>11, Zenon
  <2>2. \A k : k # 0 => body(k) = Put(k, g[k - 1])
    BY Zenon DEF Put
  <2>3. body(0) = s
    OBVIOUS
  <2>4. 0 \in 0 .. c /\ \A k \in 1 .. c : k \in 0 .. c /\ k # 0
    BY <1>2
  <2> HIDE DEF c, body
  <2>5. QED
    BY <2>1, <2>2, <2>3, <2>4
<1>14. \A k \in 0 .. c : Good(g, k)
  <2>1. Good(g, 0)
    BY <1>8, <1>13
  <2>2. ASSUME NEW k \in 1 .. c, Good(g, k - 1)
        PROVE  Good(g, k)
    <3> DEFINE q == g[k - 1]
    <3>1. q \in S /\ Len(q) = Room(k - 1)
      BY <2>2
    <3>2. g[k] = Put(k, q)
      BY <1>13
    <3> HIDE DEF S, c, q, Room
    <3>3. QED
      BY <1>3, <3>1, <3>2
  <2> HIDE DEF Good, c
  <2>3. QED
    BY <1>6, <2>1, <2>2
<1>15. c \in 0 .. c
  BY <1>2
<1>16. QED
  <2> HIDE DEF c
  <2>1. QED
    BY <1>12, <1>14, <1>15

\* The bounds of a slice without a step.
LEMMA BoundsAre ==
  ASSUME IndexAssumption, NEW slice \in Slices, NEW n \in Nat, Bounds(n, slice).step = 1
  PROVE  /\ Bounds(n, slice).start \in 0 .. n
         /\ Bounds(n, slice).end \in Bounds(n, slice).start .. n
<1>1. {slice.start, slice.end, slice.step} \subseteq Int \cup {None}
  BY DEF IndexAssumption
<1>2. \A i \in Int : Wrap(n, i) \in 0 .. n
  BY DEF Wrap, Clipped, FromEnd
<1> DEFINE step == Or(slice.step, 1)
           start == Wrap(n, Or(slice.start, IF step > 0 THEN 0 ELSE n - 1))
           first == IF step < 0 /\ start >= n THEN n - 1 ELSE start
           end == IF step > 0 THEN Wrap(n, Or(slice.end, n))
                  ELSE IF slice.end = None THEN -1 ELSE WrapN(n, slice.end)
           last == IF (step > 0 /\ end < first) \/ (step < 0 /\ end > first) THEN first ELSE end
<1>3. Bounds(n, slice) = IF n = 0 THEN [start |-> 0, end |-> 0, step |-> 1]
                         ELSE [start |-> first, end |-> last, step |-> step]
  BY Zenon DEF Bounds
<1>4. CASE n = 0
  BY <1>3, <1>4
<1>5. CASE n # 0
  <2>1. Bounds(n, slice).start = first /\ Bounds(n, slice).end = last /\ step = 1
    <3> HIDE DEF step, first, last
    <3>1. QED
      BY <1>3, <1>5
  <2>2. first = Wrap(n, Or(slice.start, 0)) /\ end = Wrap(n, Or(slice.end, n))
    <3> HIDE DEF step
    <3>1. QED
      BY <2>1
  <2>3. Or(slice.start, 0) \in Int /\ Or(slice.end, n) \in Int
    BY <1>1 DEF Or
  <2>4. first \in 0 .. n /\ end \in 0 .. n
    <3> HIDE DEF first, end
    <3>1. QED
      BY <1>2, <2>2, <2>3
  <2>5. last = IF end < first THEN first ELSE end
    <3> HIDE DEF step, first, end
    <3>1. QED
      BY <2>1
  <2> HIDE DEF first, end, last
  <2>6. QED
    BY <2>1, <2>4, <2>5
<1>6. QED
  BY <1>4, <1>5

-----------------------------------------------------------------------------
(* The invariant of sorting.                                               *)

RunOf == [start : Nat \ {0}, end : Nat \ {0}]
SortFrames ==
  [op : {"sort"}, reply : {<<>>}, reverse : BOOLEAN, was : Seq(Item), a : RunOf, b : RunOf \cup {None},
   power : Nat, stack : Seq([begin : Nat \ {0}, power : Nat \ {0}])]

\* Where the runs on the stack begin, and the one after them.
Place(f, k) == IF k <= Len(f.stack) THEN f.stack[k].begin ELSE f.a.start

RunIn(s, r) == r.start < r.end /\ r.end <= Len(s) + 1 /\ Rising(s, r.start, r.end - 1)

Laid(s, f) ==
  /\ Place(f, 1) = 1
  /\ \A j, k \in 1 .. Len(f.stack) + 1 : j < k => Place(f, j) < Place(f, k)
  /\ \A k \in 1 .. Len(f.stack) : Rising(s, Place(f, k), Place(f, k + 1) - 1)
  /\ RunIn(s, f.a)
  /\ f.b # None => f.b.start = f.a.end /\ RunIn(s, f.b)

\* The powers that a run with this middle may have with one on its left.
Mid(r) == (r.start - 1) + (r.end - 1)
Ones(n, middle) == {Digits(n, <<x, middle>>) : x \in 0 .. middle - 1}

\* No power is on the stack twice: those that stay when a run is put there
\* are, by what the last run was next to, powers of the next run as well.
Powered(n, f) ==
  /\ \A j, k \in 1 .. Len(f.stack) : j < k => f.stack[j].power < f.stack[k].power
  /\ \A k \in 1 .. Len(f.stack) : k <= f.stack[k].power /\ Doubled[f.stack[k].power - 1] < n
  /\ f.b = None /\ f.a.end <= n => \A k \in 1 .. Len(f.stack) : f.stack[k].power \in Ones(n, Mid(f.a))
  /\ f.b # None =>
       /\ f.power # 0 /\ Doubled[f.power - 1] < n /\ f.power \in Ones(n, Mid(f.b))
       /\ \A k \in 1 .. Len(f.stack) :
            /\ f.stack[k].power # f.power
            /\ f.stack[k].power < f.power => f.stack[k].power \in Ones(n, Mid(f.b))

Sorting(s, f) == f \in SortFrames /\ Laid(s, f) /\ Powered(Len(s), f)

\* A call in progress that changes the list has the lock and is on top.
Changing(fr, wr, s, t) ==
  \A k \in DOMAIN fr[t] : Held(fr[t][k], Changers) =>
    k = Len(fr[t]) /\ wr = t /\ (fr[t][k].op = "sort" => Sorting(s, fr[t][k]))

\* What a frame has; a remove has a position.
Known(f) ==
  /\ {"op", "reply"} \subseteq DOMAIN f
  /\ f.op \in {"remove", "found"} => "i" \in DOMAIN f /\ f.i \in Nat

SortInv ==
  /\ values \in Seq(Item)
  /\ Stacked(frames)
  /\ \A t \in Threads : \A k \in DOMAIN frames[t] : Known(frames[t][k])
  /\ \A t \in Threads : Changing(frames, writer, values, t)

LEMMA SortFrameIs ==
  ASSUME NEW f \in SortFrames
  PROVE  /\ f.op = "sort" /\ f.reply = <<>> /\ f.power \in Nat /\ f.reverse \in BOOLEAN
         /\ f.a \in RunOf /\ f.b \in RunOf \cup {None}
         /\ f.a.start \in Nat \ {0} /\ f.a.end \in Nat \ {0}
         /\ f.stack \in Seq([begin : Nat \ {0}, power : Nat \ {0}])
         /\ Len(f.stack) \in Nat /\ DOMAIN f.stack = 1 .. Len(f.stack)
         /\ \A k \in 1 .. Len(f.stack) : f.stack[k].begin \in Nat \ {0} /\ f.stack[k].power \in Nat \ {0}
         /\ {"op", "reply"} \subseteq DOMAIN f
<1>1. /\ f.op = "sort" /\ f.reply = <<>> /\ f.power \in Nat /\ f.reverse \in BOOLEAN
      /\ f.a \in RunOf /\ f.b \in RunOf \cup {None}
      /\ f.stack \in Seq([begin : Nat \ {0}, power : Nat \ {0}])
      /\ {"op", "reply"} \subseteq DOMAIN f
  BY DEF SortFrames
<1>2. f.a.start \in Nat \ {0} /\ f.a.end \in Nat \ {0}
  BY <1>1 DEF RunOf
<1> DEFINE st == f.stack
           S == [begin : Nat \ {0}, power : Nat \ {0}]
<1> HIDE DEF st, S
<1>3. st \in Seq(S)
  BY <1>1 DEF st, S
<1>4. Len(st) \in Nat /\ DOMAIN st = 1 .. Len(st)
  BY <1>3
<1>5. \A k \in 1 .. Len(st) : st[k] \in S
  BY <1>3, <1>4
<1>6. \A k \in 1 .. Len(st) : st[k].begin \in Nat \ {0} /\ st[k].power \in Nat \ {0}
  BY <1>5 DEF S
<1>7. QED
  BY <1>1, <1>2, <1>4, <1>6 DEF st

LEMMA PlaceIs ==
  ASSUME NEW f \in SortFrames
  PROVE  /\ \A k \in 1 .. Len(f.stack) : Place(f, k) = f.stack[k].begin
         /\ Place(f, Len(f.stack) + 1) = f.a.start
         /\ \A k \in 1 .. Len(f.stack) + 1 : Place(f, k) \in Nat \ {0}
<1>1. Len(f.stack) \in Nat /\ f.a.start \in Nat \ {0}
      /\ \A k \in 1 .. Len(f.stack) : f.stack[k].begin \in Nat \ {0}
  BY SortFrameIs
<1>2. \A k \in 1 .. Len(f.stack) : Place(f, k) = f.stack[k].begin
  BY <1>1 DEF Place
<1>3. Place(f, Len(f.stack) + 1) = f.a.start
  BY <1>1 DEF Place
<1>4. ASSUME NEW k \in 1 .. Len(f.stack) + 1
      PROVE  Place(f, k) \in Nat \ {0}
  <2>1. k \in 1 .. Len(f.stack) \/ k = Len(f.stack) + 1
    BY <1>1
  <2>2. QED
    BY <1>1, <1>2, <1>3, <2>1
<1>5. QED
  BY <1>2, <1>3, <1>4

LEMMA RisingSame ==
  ASSUME NEW s, NEW r, NEW low \in Int, NEW high \in Int, Rising(s, low, high),
         \A k \in low .. high : r[k] = s[k]
  PROVE  Rising(r, low, high)
<1>1. ASSUME NEW i \in low .. high - 1
      PROVE  Worth[r[i]] <= Worth[r[i + 1]]
  <2>1. i \in low .. high /\ i + 1 \in low .. high
    OBVIOUS
  <2>2. r[i] = s[i] /\ r[i + 1] = s[i + 1]
    BY <2>1
  <2>3. Worth[s[i]] <= Worth[s[i + 1]]
    BY DEF Rising
  <2>4. QED
    BY <2>2, <2>3
<1>2. QED
  BY <1>1 DEF Rising

\* A run after one with middle x: its power and those of the runs before.
LEMMA NextPower ==
  ASSUME NEW n \in Nat \ {0}, NEW x \in Nat, NEW y \in Nat, x + 2 <= y, y <= 2 * n - 1
  PROVE  /\ Digits(n, <<x, y>>) \in Nat \ {0}
         /\ Digits(n, <<x, y>>) \in Ones(n, y)
         /\ Doubled[Digits(n, <<x, y>>) - 1] < n
         /\ \A p \in Ones(n, x) : /\ p # Digits(n, <<x, y>>)
                                  /\ p < Digits(n, <<x, y>>) => p \in Ones(n, y)
<1>1. ASSUME NEW i \in 0 .. 2 * n - 1, NEW j \in 0 .. 2 * n - 1, i < j
      PROVE  <<i, j>> \in Middles(n)
  BY <1>1 DEF Middles
<1>2. x \in 0 .. 2 * n - 1 /\ y \in 0 .. 2 * n - 1 /\ x < y /\ x \in 0 .. y - 1
  OBVIOUS
<1>3. <<x, y>> \in Middles(n)
  BY <1>1, <1>2
<1> DEFINE d == Digits(n, <<x, y>>)
<1>4. d \in Nat \ {0}
  BY <1>3, DigitsIs
<1>5. d \in Ones(n, y)
  BY <1>2 DEF Ones
<1>6. Doubled[d - 1] < n
  <2>1. Doubled[d - 1] * (<<x, y>>[2] - <<x, y>>[1]) < 2 * n
    BY <1>3, PowerBounded
  <2>2. <<x, y>>[2] - <<x, y>>[1] = y - x
    OBVIOUS
  <2> DEFINE e == Doubled[d - 1]
             z == y - x
  <2>3. e \in Nat \ {0}
    <3>1. d - 1 \in Nat
      BY <1>4
    <3> HIDE DEF d
    <3>2. QED
      BY <3>1, DoubledIs
  <2>4. e * z < 2 * n
    BY <2>1, <2>2
  <2>5. z \in Nat /\ z >= 2
    OBVIOUS
  <2> HIDE DEF e, z, d
  <2>6. e * 2 <= e * z
    BY <2>3, <2>5
  <2>7. e * 2 < 2 * n
    <3>1. e * z \in Nat /\ e * 2 \in Nat
      BY <2>3, <2>5
    <3> HIDE DEF e, z
    <3>2. QED
      BY <2>4, <2>6, <3>1
  <2>8. e < n
    BY <2>3, <2>7
  <2>9. QED
    BY <2>8 DEF e
<1>7. ASSUME NEW p \in Ones(n, x)
      PROVE  p # d /\ (p < d => p \in Ones(n, y))
  <2>1. PICK w \in 0 .. x - 1 : p = Digits(n, <<w, x>>)
    BY DEF Ones
  <2>2. w \in 0 .. 2 * n - 1 /\ w < y /\ x \in w + 1 .. y - 1 /\ w \in 0 .. y - 1
    BY <1>2
  <2>3. <<w, y>> \in Middles(n)
    BY <1>1, <1>2, <2>2
  <2>4. <<w, y>>[1] = w /\ <<w, y>>[2] = y
    OBVIOUS
  <2>5. Between(n, <<w, y>>, x)
    BY <2>2, <2>3, <2>4, PowersDiffer
  <2>6. Digits(n, <<w, x>>) # d /\ (Digits(n, <<w, x>>) < d => Digits(n, <<w, y>>) = Digits(n, <<w, x>>))
    BY <2>4, <2>5 DEF Between
  <2> HIDE DEF d
  <2>7. Digits(n, <<w, y>>) \in Ones(n, y)
    BY <2>2 DEF Ones
  <2>8. QED
    BY <2>1, <2>6, <2>7
<1> HIDE DEF d
<1>8. QED
  BY <1>4, <1>5, <1>6, <1>7 DEF d

LEMMA PlaceSame ==
  ASSUME NEW f, NEW g, g.stack = f.stack, g.a = f.a
  PROVE  \A k : Place(g, k) = Place(f, k)
BY Zenon DEF Place

LEMMA LaidBelow ==
  ASSUME NEW s, NEW f \in SortFrames, Laid(s, f)
  PROVE  \A k \in 1 .. Len(f.stack) + 1 : Place(f, k) \in Nat \ {0} /\ Place(f, k) <= f.a.start
<1>1. Len(f.stack) \in Nat /\ f.a.start \in Nat \ {0}
  BY SortFrameIs
<1>2. Place(f, Len(f.stack) + 1) = f.a.start /\ \A k \in 1 .. Len(f.stack) + 1 : Place(f, k) \in Nat \ {0}
  BY PlaceIs
<1>3. ASSUME NEW k \in 1 .. Len(f.stack) + 1
      PROVE  Place(f, k) <= f.a.start
  <2>1. CASE k = Len(f.stack) + 1
    BY <1>1, <1>2, <2>1
  <2>2. CASE k < Len(f.stack) + 1
    <3>1. Len(f.stack) + 1 \in 1 .. Len(f.stack) + 1
      BY <1>1
    <3>2. Place(f, k) < Place(f, Len(f.stack) + 1)
      BY <2>2, <3>1 DEF Laid
    <3>3. QED
      BY <1>1, <1>2, <3>2
  <2>3. QED
    BY <1>1, <2>1, <2>2
<1>4. QED
  BY <1>2, <1>3

\* What is left of the end of the last run has not changed.
LEMMA LaidKept ==
  ASSUME NEW s, NEW r, NEW f \in SortFrames, Laid(s, f), Len(r) = Len(s), Len(s) \in Nat,
         \A k \in 1 .. Len(s) : k < f.a.end => r[k] = s[k]
  PROVE  /\ \A k \in 1 .. Len(f.stack) : Rising(r, Place(f, k), Place(f, k + 1) - 1)
         /\ RunIn(r, f.a)
<1>1. Len(f.stack) \in Nat /\ f.a.start \in Nat \ {0} /\ f.a.end \in Nat \ {0}
  BY SortFrameIs
<1>2. f.a.start < f.a.end /\ f.a.end <= Len(s) + 1 /\ Rising(s, f.a.start, f.a.end - 1)
  BY DEF Laid, RunIn
<1>3. ASSUME NEW k \in 1 .. Len(f.stack)
      PROVE  Rising(r, Place(f, k), Place(f, k + 1) - 1)
  <2>1. k \in 1 .. Len(f.stack) + 1 /\ k + 1 \in 1 .. Len(f.stack) + 1
    BY <1>1
  <2>2. Place(f, k) \in Nat \ {0} /\ Place(f, k + 1) \in Nat \ {0} /\ Place(f, k + 1) <= f.a.start
    BY <2>1, LaidBelow
  <2>3. Rising(s, Place(f, k), Place(f, k + 1) - 1)
    BY DEF Laid
  <2> DEFINE low == Place(f, k)
             high == Place(f, k + 1) - 1
  <2>4. low \in Nat \ {0} /\ high \in Int /\ high < f.a.end /\ high <= Len(s)
    BY <1>1, <1>2, <2>2
  <2>5. Rising(s, low, high)
    BY <2>3
  <2> HIDE DEF low, high
  <2>6. \A i \in low .. high : r[i] = s[i]
    BY <1>1, <2>4
  <2>7. Rising(r, low, high)
    BY <2>4, <2>5, <2>6, RisingSame
  <2>8. QED
    BY <2>7 DEF low, high
<1>4. Rising(r, f.a.start, f.a.end - 1)
  <2> DEFINE low == f.a.start
             high == f.a.end - 1
  <2>1. low \in Nat \ {0} /\ high \in Int /\ high < f.a.end /\ high <= Len(s) /\ Rising(s, low, high)
    BY <1>1, <1>2
  <2> HIDE DEF low, high
  <2>2. \A i \in low .. high : r[i] = s[i]
    BY <1>1, <2>1
  <2>3. Rising(r, low, high)
    BY <2>1, <2>2, RisingSame
  <2>4. QED
    BY <2>3 DEF low, high
<1>5. QED
  BY <1>2, <1>3, <1>4 DEF RunIn

\* SortStart: the first run.
LEMMA Started ==
  ASSUME ElementAssumption, NEW s \in Seq(Item), Len(s) >= 2, NEW reverse \in BOOLEAN, NEW was \in Seq(Item), NEW f,
         f = [op |-> "sort", reply |-> <<>>, reverse |-> reverse, was |-> was,
              a |-> Run(s, 1), b |-> None, power |-> 0, stack |-> <<>>]
  PROVE  Like(Upward(s, 1), s) /\ Sorting(Upward(s, 1), f)
<1>1. Len(s) \in Nat /\ 1 \in 1 .. Len(s)
  OBVIOUS
<1>2. /\ Like(Upward(s, 1), s)
      /\ RunEnd(s, 1) \in 2 .. Len(s) + 1
      /\ Rising(Upward(s, 1), 1, RunEnd(s, 1) - 1)
  <2>1. RunEnd(s, 1) \in 1 + 1 .. Len(s) + 1
    BY <1>1, UpwardIs
  <2>2. Like(Upward(s, 1), s) /\ Rising(Upward(s, 1), 1, RunEnd(s, 1) - 1)
    BY <1>1, UpwardIs
  <2>3. QED
    BY <2>1, <2>2
<1>3. f.a = [start |-> 1, end |-> RunEnd(s, 1)] /\ f.a.start = 1 /\ f.a.end = RunEnd(s, 1)
      /\ f.b = None /\ f.stack = <<>> /\ Len(f.stack) = 0
  BY DEF Run
<1>4. f \in SortFrames
  <2>1. [start |-> 1, end |-> RunEnd(s, 1)] \in RunOf
    BY <1>2 DEF RunOf
  <2>2. <<>> \in Seq([begin : Nat \ {0}, power : Nat \ {0}])
    OBVIOUS
  <2>3. QED
    BY <1>3, <2>1, <2>2 DEF SortFrames, Run
<1>5. Laid(Upward(s, 1), f)
  <2>1. Place(f, 1) = 1
    BY <1>3 DEF Place
  <2>2. Len(Upward(s, 1)) = Len(s)
    BY <1>2 DEF Like
  <2>3. RunIn(Upward(s, 1), f.a)
    BY <1>1, <1>2, <1>3, <2>2 DEF RunIn
  <2>4. 1 .. Len(f.stack) = {} /\ 1 .. Len(f.stack) + 1 = {1}
    BY <1>3
  <2>5. QED
    BY <1>3, <2>1, <2>3, <2>4 DEF Laid
<1>6. Powered(Len(Upward(s, 1)), f)
  <2>1. 1 .. Len(f.stack) = {}
    BY <1>3
  <2>2. QED
    BY <1>3, <2>1 DEF Powered
<1>7. QED
  BY <1>2, <1>4, <1>5, <1>6 DEF Sorting

LEMMA NoneIs ==
  ASSUME NoneAssumption
  PROVE  None \notin RunOf
<1>1. RunOf \subseteq [start : Nat, end : Nat]
  BY DEF RunOf
<1>2. QED
  BY <1>1 DEF NoneAssumption

\* SortNextRun: the run after the last one, and its power.
LEMMA WentOn ==
  ASSUME ElementAssumption, NoneAssumption, NEW s \in Seq(Item), NEW f, Sorting(s, f), f.b = None, f.a.end <= Len(s),
         NEW g, g = [f EXCEPT !.b = Run(s, f.a.end), !.power = Power(Len(s), f.a, Run(s, f.a.end))]
  PROVE  Like(Upward(s, f.a.end), s) /\ Sorting(Upward(s, f.a.end), g)
<1> DEFINE n == Len(s)
           m == f.a.end
           e == RunEnd(s, m)
           r == Upward(s, m)
           x == Mid(f.a)
           y == (m - 1) + (e - 1)
           L == Len(f.stack)
<1>1. f \in SortFrames /\ Laid(s, f) /\ Powered(n, f)
  BY DEF Sorting
<1>2. /\ f.a \in RunOf /\ f.a.start \in Nat \ {0} /\ m \in Nat \ {0} /\ L \in Nat
      /\ f.a.start < m
  <2>1. f.a \in RunOf /\ f.a.start \in Nat \ {0} /\ f.a.end \in Nat \ {0} /\ Len(f.stack) \in Nat
    BY <1>1, SortFrameIs
  <2>2. f.a.start < f.a.end
    BY <1>1 DEF Laid, RunIn
  <2>3. QED
    BY <2>1, <2>2
<1>3. n \in Nat \ {0} /\ m \in 1 .. Len(s)
  BY <1>2
<1>4. /\ Like(r, s)
      /\ e \in m + 1 .. n + 1
      /\ \A k \in 1 .. Len(s) : k < m \/ k >= e => r[k] = s[k]
      /\ Rising(r, m, e - 1)
  BY <1>3, UpwardIs
<1>5. Run(s, m) = [start |-> m, end |-> e] /\ Run(s, m) \in RunOf
  BY <1>2, <1>4 DEF Run, RunOf
<1>6. Mid(f.a) = (f.a.start - 1) + (m - 1) /\ Mid(Run(s, m)) = y
  BY <1>5 DEF Mid
<1> DEFINE d == Digits(n, <<x, y>>)
<1>7. Power(n, f.a, Run(s, m)) = d
  BY <1>5, <1>6 DEF Power
<1>8. x \in Nat /\ y \in Nat /\ x + 2 <= y /\ y <= 2 * n - 1
  <2> DEFINE st == f.a.start
  <2>1. x = (st - 1) + (m - 1) /\ y = (m - 1) + (e - 1)
    BY <1>6
  <2>2. st \in Nat \ {0} /\ m \in Nat \ {0} /\ st < m /\ m <= n /\ e \in Nat /\ m + 1 <= e /\ e <= n + 1
        /\ n \in Nat
    BY <1>2, <1>3, <1>4
  <2> HIDE DEF st, m, e, n, x, y
  <2>3. x \in Nat
    BY <2>1, <2>2
  <2>4. y \in Nat /\ y <= 2 * n - 1
    BY <2>1, <2>2
  <2>5. x + 2 <= y
    BY <2>1, <2>2
  <2>6. QED
    BY <2>3, <2>4, <2>5
<1>9. /\ d \in Nat \ {0} /\ d \in Ones(n, y) /\ Doubled[d - 1] < n
      /\ \A p \in Ones(n, x) : p # d /\ (p < d => p \in Ones(n, y))
  <2> HIDE DEF x, y, n
  <2>1. QED
    BY <1>3, <1>8, NextPower DEF n
<1>10. g.a = f.a /\ g.stack = f.stack /\ g.b = Run(s, m) /\ g.power = d /\ g \in SortFrames
  <2> DEFINE rn == Run(s, m)
  <2>1. rn \in RunOf /\ d \in Nat /\ g = [f EXCEPT !.b = rn, !.power = d]
    BY <1>5, <1>7, <1>9
  <2> HIDE DEF rn, d
  <2>2. QED
    BY <1>1, <2>1 DEF SortFrames, rn
<1>11. g.b # None
  BY <1>5, <1>10, NoneIs
<1>12. Laid(r, g)
  <2>1. Len(r) = n /\ \A k \in 1 .. Len(s) : k < f.a.end => r[k] = s[k]
    BY <1>4 DEF Like
  <2>2. /\ \A k \in 1 .. Len(f.stack) : Rising(r, Place(f, k), Place(f, k + 1) - 1)
        /\ RunIn(r, f.a)
    <3>1. Len(r) = Len(s) /\ Len(s) \in Nat
      BY <1>3, <2>1
    <3> HIDE DEF r
    <3>2. QED
      BY <1>1, <2>1, <3>1, LaidKept
  <2>3. \A k : Place(g, k) = Place(f, k)
    BY <1>10, PlaceSame
  <2>4. g.b.start = g.a.end /\ RunIn(r, g.b)
    BY <1>2, <1>3, <1>4, <1>5, <1>10, <2>1 DEF RunIn
  <2>5. QED
    BY <1>1, <1>10, <2>2, <2>3, <2>4 DEF Laid
<1>13. Powered(Len(r), g)
  <2>1. Len(r) = n
    BY <1>4 DEF Like
  <2>2. \A k \in 1 .. L : f.stack[k].power \in Ones(n, x)
    BY <1>1, <1>3 DEF Powered
  <2>3. /\ \A j, k \in 1 .. L : j < k => f.stack[j].power < f.stack[k].power
        /\ \A k \in 1 .. L : k <= f.stack[k].power /\ Doubled[f.stack[k].power - 1] < n
    BY <1>1 DEF Powered
  <2>4. Mid(g.b) = y
    BY <1>6, <1>10
  <2>5. \A k \in 1 .. L : f.stack[k].power # d /\ (f.stack[k].power < d => f.stack[k].power \in Ones(n, y))
    BY <1>9, <2>2
  <2> HIDE DEF d, x, y, n, r
  <2>6. d # 0 /\ Doubled[d - 1] < n /\ d \in Ones(n, y)
    BY <1>9
  <2>7. QED
    BY <1>10, <1>11, <2>1, <2>3, <2>4, <2>5, <2>6 DEF Powered
<1>14. QED
  BY <1>4, <1>10, <1>12, <1>13 DEF Sorting

\* SortPush: the next run becomes the last one.
LEMMA Stashed ==
  ASSUME NoneAssumption, NEW s \in Seq(Item), NEW f, Sorting(s, f), f.b # None, ~ Higher(f),
         NEW g, g = [f EXCEPT !.stack = Append(@, [begin |-> f.a.start, power |-> f.power]), !.a = f.b, !.b = None]
  PROVE  Sorting(s, g)
<1> DEFINE n == Len(s)
           L == Len(f.stack)
           S == [begin : Nat \ {0}, power : Nat \ {0}]
           x == [begin |-> f.a.start, power |-> f.power]
           new == Append(f.stack, x)
<1>1. f \in SortFrames /\ Laid(s, f) /\ Powered(n, f)
  BY DEF Sorting
<1>2. /\ f.a.start \in Nat \ {0} /\ f.a.end \in Nat \ {0} /\ L \in Nat /\ f.power \in Nat
      /\ f.stack \in Seq(S) /\ f.b \in RunOf
      /\ \A k \in 1 .. L : f.stack[k].begin \in Nat \ {0} /\ f.stack[k].power \in Nat \ {0}
  BY <1>1, SortFrameIs
<1>3. /\ f.power \in Nat \ {0} /\ Doubled[f.power - 1] < n /\ f.power \in Ones(n, Mid(f.b))
      /\ \A k \in 1 .. L : /\ f.stack[k].power # f.power
                           /\ f.stack[k].power < f.power => f.stack[k].power \in Ones(n, Mid(f.b))
  BY <1>1, <1>2 DEF Powered
<1>4. x \in S /\ x.begin = f.a.start /\ x.power = f.power
  BY <1>2, <1>3
<1>5. /\ new \in Seq(S) /\ Len(new) = L + 1
      /\ \A k \in 1 .. L : new[k] = f.stack[k]
      /\ new[L + 1] = x
  <2> HIDE DEF S, x
  <2>1. IsAppended(new, S, f.stack, x)
    BY <1>2, <1>4, Appended
  <2>2. QED
    BY <2>1 DEF IsAppended
<1>6. /\ g.a = f.b /\ g.b = None /\ g.stack = new /\ g.power = f.power /\ g \in SortFrames
  <2>1. g = [f EXCEPT !.stack = new, !.a = f.b, !.b = None]
    OBVIOUS
  <2> HIDE DEF new
  <2>2. QED
    BY <1>1, <1>2, <1>5, <2>1 DEF SortFrames
<1> HIDE DEF new
<1>7. /\ \A k \in 1 .. L + 1 : Place(g, k) = Place(f, k)
      /\ Place(g, L + 2) = f.b.start
  <2>1. ASSUME NEW k \in 1 .. L
        PROVE  Place(g, k) = Place(f, k)
    <3>1. k <= Len(g.stack) /\ k <= Len(f.stack)
      BY <1>2, <1>5, <1>6
    <3>2. QED
      BY <1>5, <1>6, <3>1 DEF Place
  <2>2. Place(g, L + 1) = f.a.start /\ Place(f, L + 1) = f.a.start
    BY <1>2, <1>4, <1>5, <1>6 DEF Place
  <2>3. Place(g, L + 2) = f.b.start
    BY <1>2, <1>5, <1>6 DEF Place
  <2>4. \A k \in 1 .. L + 1 : k \in 1 .. L \/ k = L + 1
    BY <1>2
  <2>5. QED
    BY <2>1, <2>2, <2>3, <2>4
<1>8. /\ f.b.start = f.a.end /\ RunIn(s, f.b) /\ RunIn(s, f.a) /\ f.a.start < f.a.end
      /\ Place(f, L + 1) = f.a.start
  BY <1>1, PlaceIs DEF Laid, RunIn
<1>9. Laid(s, g)
  <2>1. Place(g, 1) = 1
    BY <1>1, <1>2, <1>7 DEF Laid
  <2>2. ASSUME NEW j \in 1 .. L + 2, NEW k \in 1 .. L + 2, j < k
        PROVE  Place(g, j) < Place(g, k)
    <3>1. CASE k \in 1 .. L + 1
      <4>1. j \in 1 .. L + 1
        BY <1>2, <2>2, <3>1
      <4>2. Place(f, j) < Place(f, k)
        BY <1>1, <2>2, <3>1, <4>1 DEF Laid
      <4>3. QED
        BY <1>7, <3>1, <4>1, <4>2
    <3>2. CASE k = L + 2
      <4>1. j \in 1 .. L + 1
        BY <1>2, <2>2, <3>2
      <4>2. Place(f, j) \in Nat /\ Place(f, j) <= f.a.start
        BY <1>1, <4>1, LaidBelow
      <4>3. Place(f, j) < f.b.start
        BY <1>2, <1>8, <4>2
      <4>4. QED
        BY <1>7, <3>2, <4>1, <4>3
    <3>3. k \in 1 .. L + 1 \/ k = L + 2
      BY <1>2
    <3>4. QED
      BY <3>1, <3>2, <3>3
  <2>3. ASSUME NEW k \in 1 .. L + 1
        PROVE  Rising(s, Place(g, k), Place(g, k + 1) - 1)
    <3>1. CASE k \in 1 .. L
      <4>1. k + 1 \in 1 .. L + 1
        BY <1>2, <3>1
      <4>2. Rising(s, Place(f, k), Place(f, k + 1) - 1)
        BY <1>1, <3>1 DEF Laid
      <4>3. QED
        BY <1>7, <4>1, <4>2
    <3>2. CASE k = L + 1
      <4>1. Place(g, k) = f.a.start /\ Place(g, k + 1) = f.a.end
        <5>1. k + 1 = L + 2 /\ L + 1 \in 1 .. L + 1
          BY <1>2, <3>2
        <5>2. QED
          BY <1>7, <1>8, <3>2, <5>1
      <4>2. QED
        BY <1>8, <4>1 DEF RunIn
    <3>3. k \in 1 .. L \/ k = L + 1
      BY <1>2
    <3>4. QED
      BY <3>1, <3>2, <3>3
  <2>4. Len(g.stack) = L + 1 /\ Len(g.stack) + 1 = L + 2 /\ g.b = None /\ RunIn(s, g.a)
    BY <1>2, <1>5, <1>6, <1>8
  <2>5. QED
    BY <2>1, <2>2, <2>3, <2>4, Zenon DEF Laid
<1>10. Powered(n, g)
  <2> DEFINE p == f.power
  <2>1. ASSUME NEW k \in 1 .. L
        PROVE  f.stack[k].power < p
    <3>1. L \in 1 .. L /\ f.stack # <<>> /\ Last(f.stack) = f.stack[L]
      BY <1>2 DEF Last
    <3>2. f.stack[L].power <= p
      <4>1. ~ (f.stack[L].power > p)
        BY <3>1 DEF Higher
      <4>2. f.stack[L].power \in Nat
        BY <1>2, <3>1
      <4>3. QED
        BY <1>3, <4>1, <4>2
    <3>3. f.stack[L].power < p
      <4>1. f.stack[L].power # p /\ f.stack[L].power \in Nat
        BY <1>2, <1>3, <3>1
      <4>2. QED
        BY <1>3, <3>2, <4>1
    <3>4. k = L \/ f.stack[k].power < f.stack[L].power
      <4>1. k = L \/ k < L
        BY <1>2
      <4>2. \A j, i \in 1 .. L : j < i => f.stack[j].power < f.stack[i].power
        BY <1>1 DEF Powered
      <4>3. QED
        BY <3>1, <4>1, <4>2
    <3>5. f.stack[k].power \in Nat /\ f.stack[L].power \in Nat
      BY <1>2, <3>1
    <3>6. QED
      BY <1>3, <3>3, <3>4, <3>5
  <2>2. ASSUME NEW j \in 1 .. L + 1, NEW k \in 1 .. L + 1, j < k
        PROVE  g.stack[j].power < g.stack[k].power
    <3>1. j \in 1 .. L
      BY <1>2, <2>2
    <3>2. CASE k \in 1 .. L
      <4>1. f.stack[j].power < f.stack[k].power
        BY <1>1, <2>2, <3>1, <3>2 DEF Powered
      <4>2. QED
        BY <1>5, <1>6, <3>1, <3>2, <4>1
    <3>3. CASE k = L + 1
      BY <1>4, <1>5, <1>6, <2>1, <3>1, <3>3
    <3>4. k \in 1 .. L \/ k = L + 1
      BY <1>2
    <3>5. QED
      BY <3>2, <3>3, <3>4
  <2>3. ASSUME NEW k \in 1 .. L + 1
        PROVE  /\ k <= g.stack[k].power /\ Doubled[g.stack[k].power - 1] < n
               /\ g.stack[k].power \in Ones(n, Mid(f.b))
    <3>1. CASE k \in 1 .. L
      <4>1. k <= f.stack[k].power /\ Doubled[f.stack[k].power - 1] < n
        BY <1>1, <3>1 DEF Powered
      <4>2. f.stack[k].power \in Ones(n, Mid(f.b))
        BY <1>3, <2>1, <3>1
      <4>3. QED
        BY <1>5, <1>6, <3>1, <4>1, <4>2
    <3>2. CASE k = L + 1
      <4>1. L + 1 <= p
        <5>1. CASE L = 0
          BY <1>3, <5>1
        <5>2. CASE L # 0
          <6>1. L \in 1 .. L
            BY <1>2, <5>2
          <6>2. L <= f.stack[L].power /\ f.stack[L].power < p /\ f.stack[L].power \in Nat
            BY <1>1, <1>2, <2>1, <6>1 DEF Powered
          <6>3. QED
            BY <1>2, <1>3, <6>2
        <5>3. QED
          BY <5>1, <5>2
      <4>2. QED
        BY <1>3, <1>4, <1>5, <1>6, <3>2, <4>1
    <3>3. QED
      BY <1>2, <3>1, <3>2
  <2>4. Len(g.stack) = L + 1 /\ g.b = None /\ g.a = f.b
    BY <1>5, <1>6
  <2>5. QED
    BY <2>2, <2>3, <2>4, Zenon DEF Powered
<1>11. QED
  BY <1>6, <1>9, <1>10 DEF Sorting

\* SortCollapse, SortMergeRest: the run on top of the stack and the last one.
LEMMA Combined ==
  ASSUME ElementAssumption, NEW s \in Seq(Item), NEW f, Sorting(s, f), f.stack # <<>>,
         f.b # None \/ f.a.end > Len(s),
         NEW g, g = [f EXCEPT !.a.start = Last(f.stack).begin, !.stack = Front(@)]
  PROVE  /\ Like(Merged(s, Last(f.stack).begin, f.a.start, f.a.end), s)
         /\ Sorting(Merged(s, Last(f.stack).begin, f.a.start, f.a.end), g)
<1> DEFINE n == Len(s)
           L == Len(f.stack)
           S == [begin : Nat \ {0}, power : Nat \ {0}]
           l == Last(f.stack).begin
           m == f.a.start
           e == f.a.end
           r == Merged(s, l, m, e)
           rest == Front(f.stack)
<1>1. f \in SortFrames /\ Laid(s, f) /\ Powered(n, f)
  BY DEF Sorting
<1>2. /\ m \in Nat \ {0} /\ e \in Nat \ {0} /\ L \in Nat
      /\ f.stack \in Seq(S) /\ f.b \in RunOf \cup {None} /\ f.a \in RunOf
      /\ \A k \in 1 .. L : f.stack[k].begin \in Nat \ {0} /\ f.stack[k].power \in Nat \ {0}
  BY <1>1, SortFrameIs
<1>3. L \in 1 .. L /\ l = f.stack[L].begin /\ l \in Nat \ {0} /\ L + 1 \in 1 .. L + 1 /\ L \in 1 .. L + 1
  <2>1. L # 0
    BY <1>2
  <2>2. L \in 1 .. L /\ L + 1 \in 1 .. L + 1 /\ L \in 1 .. L + 1
    BY <1>2, <2>1
  <2>3. Last(f.stack) = f.stack[L]
    BY DEF Last
  <2>4. QED
    BY <1>2, <2>2, <2>3
<1>4. Place(f, L) = l /\ Place(f, L + 1) = m
  BY <1>1, <1>3, PlaceIs
<1>5. l < m /\ Rising(s, l, m - 1) /\ m < e /\ e <= n + 1 /\ Rising(s, m, e - 1)
  <2>1. Place(f, L) < Place(f, L + 1)
    <3>1. \A j, k \in 1 .. L + 1 : j < k => Place(f, j) < Place(f, k)
      BY <1>1 DEF Laid
    <3>2. L < L + 1
      BY <1>2
    <3>3. QED
      BY <1>3, <3>1, <3>2
  <2>2. Rising(s, Place(f, L), Place(f, L + 1) - 1)
    BY <1>1, <1>3 DEF Laid
  <2>3. RunIn(s, f.a)
    BY <1>1 DEF Laid
  <2>4. QED
    BY <1>4, <2>1, <2>2, <2>3 DEF RunIn
<1>6. /\ Like(r, s)
      /\ \A k \in 1 .. Len(s) : k < l \/ k >= e => r[k] = s[k]
      /\ Rising(r, l, e - 1)
  <2>1. Beside(s, l, m, e)
    BY <1>2, <1>3, <1>5 DEF Beside
  <2>2. QED
    BY <2>1, MergedIs
<1>7. /\ rest \in Seq(S) /\ Len(rest) = L - 1
      /\ \A k \in 1 .. L - 1 : rest[k] = f.stack[k]
  <2> HIDE DEF S
  <2>1. IsFront(rest, S, f.stack)
    BY <1>2, FrontOf
  <2>2. QED
    BY <2>1 DEF IsFront
<1>8. /\ g.a.start = l /\ g.a.end = e /\ g.b = f.b /\ g.stack = rest /\ g.power = f.power /\ g \in SortFrames
  <2> DEFINE a == [f.a EXCEPT !.start = l]
  <2>1. g = [f EXCEPT !.a = a, !.stack = rest]
    OBVIOUS
  <2>2. a \in RunOf /\ a.start = l /\ a.end = e
    BY <1>2, <1>3 DEF RunOf
  <2> HIDE DEF rest, l, a
  <2>3. QED
    BY <1>1, <1>7, <2>1, <2>2 DEF SortFrames
<1> HIDE DEF rest, r, l
<1>9. \A k \in 1 .. L : Place(g, k) = Place(f, k)
  <2>1. ASSUME NEW k \in 1 .. L - 1
        PROVE  Place(g, k) = Place(f, k)
    <3>1. L \in Nat /\ Len(g.stack) = L - 1
      BY <1>2, <1>7, <1>8
    <3> HIDE DEF L
    <3>2. k <= L /\ k <= Len(g.stack)
      BY <3>1
    <3>3. QED
      BY <1>7, <1>8, <3>2 DEF Place, L
  <2>2. Place(g, L) = l
    BY <1>2, <1>7, <1>8 DEF Place
  <2>3. \A k \in 1 .. L : k \in 1 .. L - 1 \/ k = L
    BY <1>2
  <2>4. QED
    BY <1>4, <2>1, <2>2, <2>3
<1>10. Len(r) = n /\ n \in Nat
  BY <1>6 DEF Like
<1>11. \A k \in 1 .. L - 1 : k \in 1 .. L /\ k \in 1 .. L + 1 /\ k + 1 \in 1 .. L /\ k + 1 \in 1 .. L + 1
  <2>1. L \in Nat
    BY <1>2
  <2> HIDE DEF L
  <2>2. QED
    BY <2>1
<1>12. Laid(r, g)
  <2>1. Place(g, 1) = 1
    <3>1. 1 \in 1 .. L
      BY <1>2, <1>3
    <3>2. QED
      BY <1>1, <1>9, <3>1 DEF Laid
  <2>2. ASSUME NEW j \in 1 .. L, NEW k \in 1 .. L, j < k
        PROVE  Place(g, j) < Place(g, k)
    <3>1. j \in 1 .. L + 1 /\ k \in 1 .. L + 1
      BY <1>2
    <3>2. Place(f, j) < Place(f, k)
      BY <1>1, <2>2, <3>1 DEF Laid
    <3>3. QED
      BY <1>9, <3>2
  <2>3. ASSUME NEW k \in 1 .. L - 1
        PROVE  Rising(r, Place(g, k), Place(g, k + 1) - 1)
    <3> DEFINE low == Place(f, k)
               high == Place(f, k + 1) - 1
    <3>1. Rising(s, low, high)
      BY <1>1, <1>11 DEF Laid
    <3>2. Place(f, k + 1) <= l
      <4>1. k + 1 = L \/ Place(f, k + 1) < Place(f, L)
        <5>1. k + 1 = L \/ k + 1 < L
          BY <1>2
        <5>2. \A j, i \in 1 .. L + 1 : j < i => Place(f, j) < Place(f, i)
          BY <1>1 DEF Laid
        <5>3. QED
          BY <1>3, <1>11, <5>1, <5>2
      <4>2. l \in Nat /\ Place(f, k + 1) \in Nat
        BY <1>1, <1>3, <1>11, PlaceIs
      <4>3. QED
        BY <1>4, <4>1, <4>2
    <3>3. Place(f, k) \in Nat \ {0} /\ Place(f, k + 1) \in Nat \ {0}
      BY <1>1, <1>11, PlaceIs
    <3>4. low \in Nat \ {0} /\ high \in Int /\ high < l
      BY <1>3, <3>2, <3>3
    <3>5. l \in Nat /\ m \in Nat /\ e \in Nat /\ n \in Nat /\ l < m /\ m < e /\ e <= n + 1
      BY <1>2, <1>3, <1>5, <1>10
    <3> HIDE DEF low, high, n, m, e
    <3>10. high <= n
      BY <3>4, <3>5
    <3>6. \A i \in low .. high : r[i] = s[i]
      BY <1>3, <1>6, <3>4, <3>10 DEF n
    <3>11. low \in Int /\ high \in Int
      BY <3>4
    <3>7. Rising(r, low, high)
      BY <3>1, <3>6, <3>11, RisingSame, Zenon
    <3>8. Place(g, k) = Place(f, k) /\ Place(g, k + 1) = Place(f, k + 1)
      BY <1>9, <1>11
    <3>9. QED
      BY <3>7, <3>8 DEF low, high
  <2>4. RunIn(r, g.a)
    <3>1. l < e /\ e <= n + 1
      <4>1. l \in Nat /\ m \in Nat /\ e \in Nat /\ l < m /\ m < e
        BY <1>2, <1>3, <1>5
      <4> HIDE DEF m, e
      <4>2. l < e
        BY <4>1
      <4>3. QED
        BY <1>5, <4>2
    <3>2. QED
      BY <1>6, <1>8, <1>10, <3>1 DEF RunIn
  <2>5. ASSUME g.b # None
        PROVE  g.b.start = g.a.end /\ RunIn(r, g.b)
    <3>1. f.b \in RunOf /\ f.b.start = e /\ RunIn(s, f.b)
      BY <1>1, <1>2, <1>8, <2>5 DEF Laid
    <3> DEFINE low == f.b.start
               high == f.b.end - 1
    <3>2. low \in Nat \ {0} /\ high \in Int /\ low = e /\ high <= Len(s) /\ Rising(s, low, high)
          /\ f.b.start < f.b.end /\ f.b.end <= Len(s) + 1
      BY <1>2, <1>10, <3>1 DEF RunIn, RunOf
    <3> HIDE DEF low, high
    <3>3. \A i \in low .. high : r[i] = s[i]
      BY <1>2, <1>6, <1>10, <3>2
    <3>6. low \in Int /\ high \in Int /\ Rising(s, low, high)
      BY <3>2
    <3>4. Rising(r, low, high)
      BY <3>3, <3>6, RisingSame, Zenon
    <3>5. QED
      BY <1>8, <1>10, <3>1, <3>2, <3>4 DEF RunIn, low, high
  <2>6. Len(g.stack) = L - 1 /\ Len(g.stack) + 1 = L
    BY <1>2, <1>7, <1>8
  <2>7. QED
    BY <2>1, <2>2, <2>3, <2>4, <2>5, <2>6, Zenon DEF Laid
<1>13. Powered(Len(r), g)
  <2>1. \A k \in 1 .. L - 1 : g.stack[k].power = f.stack[k].power
    BY <1>7, <1>8
  <2>2. Len(g.stack) = L - 1 /\ g.a.end = f.a.end /\ g.b = f.b /\ g.power = f.power
    BY <1>7, <1>8
  <2>3. ~ (g.b = None /\ g.a.end <= n)
    BY <1>2, <1>8, <1>10
  <2>4. \A j, k \in 1 .. L - 1 : j < k => g.stack[j].power < g.stack[k].power
    BY <1>1, <1>11, <2>1 DEF Powered
  <2>5. \A k \in 1 .. L - 1 : k <= g.stack[k].power /\ Doubled[g.stack[k].power - 1] < n
    BY <1>1, <1>11, <2>1 DEF Powered
  <2>6. ASSUME g.b # None
        PROVE  /\ g.power # 0 /\ Doubled[g.power - 1] < n /\ g.power \in Ones(n, Mid(g.b))
               /\ \A k \in 1 .. L - 1 :
                    /\ g.stack[k].power # g.power
                    /\ g.stack[k].power < g.power => g.stack[k].power \in Ones(n, Mid(g.b))
    BY <1>1, <1>11, <2>1, <2>2, <2>6 DEF Powered
  <2> HIDE DEF n
  <2>7. Powered(n, g)
    BY <2>2, <2>3, <2>4, <2>5, <2>6, Zenon DEF Powered
  <2>8. QED
    BY <1>10, <2>7 DEF n
<1>14. QED
  BY <1>6, <1>8, <1>12, <1>13 DEF Sorting, r, l

LEMMA SortFollows ==
  ASSUME ElementAssumption, SortInv
  PROVE  RunsInOrder
<1> SUFFICES ASSUME NEW u \in Threads, In(u, {"sort"})
             PROVE  LET f == Top(u)
                        starts == [k \in 1 .. Len(f.stack) + 1 |->
                                     IF k <= Len(f.stack) THEN f.stack[k].begin ELSE f.a.start]
                    IN /\ starts[1] = 1
                       /\ \A k \in DOMAIN f.stack :
                            /\ starts[k] < starts[k + 1] /\ Ascending(starts[k], starts[k + 1] - 1)
                            /\ k > 1 => f.stack[k - 1].power < f.stack[k].power
                       /\ Ascending(f.a.start, f.a.end - 1)
                       /\ f.b # None => Ascending(f.b.start, f.b.end - 1)
                       /\ f.stack # <<>> => Doubled[Len(f.stack) - 1] < Len(values)
  BY DEF RunsInOrder
<1> DEFINE f == Top(u)
           L == Len(f.stack)
           starts == [k \in 1 .. L + 1 |-> IF k <= Len(f.stack) THEN f.stack[k].begin ELSE f.a.start]
<1>1. Sorting(values, f) /\ f.op = "sort"
  <2>1. frames[u] # <<>> /\ f.op = "sort" /\ f.reply = <<>>
    BY DEF In
  <2>2. Len(frames[u]) \in DOMAIN frames[u] /\ f = frames[u][Len(frames[u])]
    <3>1. Stacked(frames)
      BY DEF SortInv
    <3>2. /\ Len(frames[u]) \in Nat /\ DOMAIN frames[u] = 1 .. Len(frames[u])
          /\ frames[u] # <<>> => Len(frames[u]) # 0 /\ Last(frames[u]) = frames[u][Len(frames[u])]
      BY <3>1, StackOf, Zenon
    <3>3. Len(frames[u]) # 0 /\ f = frames[u][Len(frames[u])]
      BY <2>1, <3>2 DEF Top
    <3> HIDE DEF f
    <3>4. QED
      BY <3>2, <3>3
  <2>3. Changing(frames, writer, values, u)
    BY DEF SortInv
  <2> HIDE DEF f
  <2>4. QED
    BY <2>1, <2>2, <2>3 DEF Changing, Held, Changers
<1> HIDE DEF f
<1>2. f \in SortFrames /\ Laid(values, f) /\ Powered(Len(values), f)
  BY <1>1 DEF Sorting
<1>3. /\ L \in Nat /\ DOMAIN f.stack = 1 .. L /\ f.stack \in Seq([begin : Nat \ {0}, power : Nat \ {0}])
      /\ \A k \in 1 .. L : f.stack[k].begin \in Nat \ {0} /\ f.stack[k].power \in Nat \ {0}
  BY <1>2, SortFrameIs
<1>4. \A k \in 1 .. L + 1 : starts[k] = Place(f, k)
  BY DEF Place
<1> HIDE DEF starts
<1>5. \A low, high : Rising(values, low, high) => Ascending(low, high)
  BY DEF Rising, Ascending
<1>6. starts[1] = 1
  <2>1. 1 \in 1 .. L + 1
    BY <1>3
  <2>2. QED
    BY <1>2, <1>4, <2>1 DEF Laid
<1>7. ASSUME NEW k \in 1 .. L
      PROVE  /\ starts[k] < starts[k + 1] /\ Ascending(starts[k], starts[k + 1] - 1)
             /\ k > 1 => f.stack[k - 1].power < f.stack[k].power
  <2>1. k \in 1 .. L + 1 /\ k + 1 \in 1 .. L + 1 /\ k < k + 1
    BY <1>3
  <2>2. Place(f, k) < Place(f, k + 1) /\ Rising(values, Place(f, k), Place(f, k + 1) - 1)
    BY <1>2, <2>1 DEF Laid
  <2>3. ASSUME k > 1
        PROVE  f.stack[k - 1].power < f.stack[k].power
    <3>1. k - 1 \in 1 .. L /\ k - 1 < k
      BY <1>3, <2>3
    <3>2. QED
      BY <1>2, <3>1 DEF Powered
  <2>4. QED
    BY <1>4, <1>5, <2>1, <2>2, <2>3
<1>8. Ascending(f.a.start, f.a.end - 1)
  BY <1>2, <1>5 DEF Laid, RunIn
<1>9. f.b # None => Ascending(f.b.start, f.b.end - 1)
  BY <1>2, <1>5 DEF Laid, RunIn
<1>10. ASSUME f.stack # <<>>
       PROVE  Doubled[L - 1] < Len(values)
  <2>1. L \in 1 .. L
    <3>1. L # 0
      BY <1>3, <1>10
    <3>2. QED
      BY <1>3, <3>1
  <2> DEFINE p == f.stack[L].power
             n == Len(values)
  <2>2. L <= p /\ Doubled[p - 1] < n
    BY <1>2, <2>1 DEF Powered
  <2>3. p \in Nat \ {0} /\ L \in Nat \ {0} /\ n \in Nat
    BY <1>3, <2>1 DEF SortInv
  <2> HIDE DEF p, L, n
  <2>4. L - 1 \in Nat /\ p - 1 \in Nat /\ L - 1 <= p - 1
    BY <2>2, <2>3
  <2>5. Doubled[L - 1] <= Doubled[p - 1]
    BY <2>4, DoubledGrows
  <2>6. Doubled[L - 1] \in Nat /\ Doubled[p - 1] \in Nat
    BY <2>4, DoubledIs
  <2>7. Doubled[L - 1] < n
    BY <2>2, <2>3, <2>5, <2>6
  <2>8. QED
    BY <2>7 DEF n
<1>11. QED
  BY <1>3, <1>6, <1>7, <1>8, <1>9, <1>10 DEF f, starts

-----------------------------------------------------------------------------
(* What a step does to the frames.                                         *)

Free(fr, t) == \A k \in DOMAIN fr[t] : ~ Held(fr[t][k], Changers)

\* Of the threads that change the list, only one that is not t's goes on.
Waits(t) == writer \in Threads \ {t} => writer' = writer /\ values' = values

Rest(t) == Waits(t) /\ values' \in Seq(Item)

LEMMA FreeIs ==
  ASSUME SortInv, NEW t \in Threads, frames[t] = <<>> \/ ~ Held(Top(t), Changers)
  PROVE  Free(frames, t)
<1>1. Stacked(frames) /\ Changing(frames, writer, values, t)
  BY DEF SortInv
<1>2. /\ Len(frames[t]) \in Nat /\ DOMAIN frames[t] = 1 .. Len(frames[t])
      /\ frames[t] # <<>> => Last(frames[t]) = frames[t][Len(frames[t])]
      /\ frames[t] = <<>> => Len(frames[t]) = 0
  BY <1>1, StackOf
<1>3. SUFFICES ASSUME NEW k \in DOMAIN frames[t], Held(frames[t][k], Changers)
               PROVE  FALSE
  BY DEF Free
<1>4. k = Len(frames[t]) /\ frames[t] # <<>>
  BY <1>1, <1>2, <1>3 DEF Changing
<1>5. Top(t) = frames[t][k]
  BY <1>2, <1>4 DEF Top
<1>6. QED
  BY <1>3, <1>4, <1>5

LEMMA OthersKeep ==
  ASSUME SortInv, NEW t \in Threads, Waits(t), NEW u \in Threads \ {t}, frames'[u] = frames[u]
  PROVE  Changing(frames', writer', values', u) /\ \A k \in DOMAIN frames'[u] : Known(frames'[u][k])
<1>1. Changing(frames, writer, values, u) /\ \A k \in DOMAIN frames[u] : Known(frames[u][k])
  BY DEF SortInv
<1>2. ASSUME NEW k \in DOMAIN frames[u], Held(frames[u][k], Changers)
      PROVE  k = Len(frames[u]) /\ writer' = u /\ values' = values
             /\ (frames[u][k].op = "sort" => Sorting(values, frames[u][k]))
  <2>1. k = Len(frames[u]) /\ writer = u /\ (frames[u][k].op = "sort" => Sorting(values, frames[u][k]))
    BY <1>1, <1>2 DEF Changing
  <2>2. QED
    BY <2>1 DEF Waits
<1>3. Changing(frames', writer', values', u)
  BY <1>2 DEF Changing
<1>4. QED
  BY <1>1, <1>3

LEMMA StepKeeps ==
  ASSUME SortInv, NEW t \in Threads, Rest(t), Stacked(frames'),
         \A u \in Threads \ {t} : frames'[u] = frames[u],
         \A k \in DOMAIN frames'[t] : Known(frames'[t][k]),
         Changing(frames', writer', values', t)
  PROVE  SortInv'
<1>1. \A u \in Threads \ {t} :
        Changing(frames', writer', values', u) /\ \A k \in DOMAIN frames'[u] : Known(frames'[u][k])
  BY OthersKeep DEF Rest
<1>2. \A u \in Threads : u = t \/ u \in Threads \ {t}
  OBVIOUS
<1>3. \A u \in Threads : Changing(frames', writer', values', u)
  BY <1>1, <1>2
<1>4. \A u \in Threads : \A k \in DOMAIN frames'[u] : Known(frames'[u][k])
  BY <1>1, <1>2
<1>5. values' \in Seq(Item)
  BY DEF Rest
<1>6. QED
  BY <1>3, <1>4, <1>5, Zenon DEF SortInv

LEMMA FreeKeeps ==
  ASSUME SortInv, NEW t \in Threads, Rest(t), Stacked(frames'),
         \A u \in Threads \ {t} : frames'[u] = frames[u],
         \A k \in DOMAIN frames'[t] : Known(frames'[t][k]),
         Free(frames', t)
  PROVE  SortInv'
<1>1. Changing(frames', writer', values', t)
  BY DEF Free, Changing
<1>2. QED
  BY <1>1, StepKeeps

LEMMA StayingKeeps ==
  ASSUME SortInv, NEW t \in Threads, Rest(t), frames' = frames, frames[t] = <<>> \/ ~ Held(Top(t), Changers)
  PROVE  SortInv'
<1>1. Free(frames, t) /\ Stacked(frames) /\ \A k \in DOMAIN frames[t] : Known(frames[t][k])
  BY FreeIs DEF SortInv
<1>2. QED
  BY <1>1, FreeKeeps

LEMMA PushingKeeps ==
  ASSUME SortInv, NEW t \in Threads, Rest(t), NEW f, Push(t, f), Known(f), ~ Held(f, Changers),
         frames[t] = <<>> \/ ~ Held(Top(t), Changers)
  PROVE  SortInv'
<1>1. Free(frames, t) /\ Stacked(frames) /\ \A k \in DOMAIN frames[t] : Known(frames[t][k])
  BY FreeIs DEF SortInv
<1>2. IsPushed(frames', frames, t, f)
  BY <1>1, PushedIs DEF Push
<1>3. \A k \in DOMAIN frames'[t] :
        (k \in DOMAIN frames[t] /\ frames'[t][k] = frames[t][k]) \/ frames'[t][k] = f
  BY <1>2 DEF IsPushed
<1>4. Free(frames', t) /\ \A k \in DOMAIN frames'[t] : Known(frames'[t][k])
  BY <1>1, <1>3 DEF Free
<1>5. QED
  BY <1>2, <1>4, FreeKeeps DEF IsPushed

LEMMA TurningKeeps ==
  ASSUME SortInv, NEW t \in Threads, Rest(t), frames[t] # <<>>, NEW f, Become(t, f), Known(f), ~ Held(f, Changers),
         ~ Held(Top(t), Changers)
  PROVE  SortInv'
<1>1. Free(frames, t) /\ Stacked(frames) /\ \A k \in DOMAIN frames[t] : Known(frames[t][k])
  BY FreeIs DEF SortInv
<1>2. IsTurned(frames', frames, t, f)
  BY <1>1, TurnedIs DEF Become
<1>3. \A k \in DOMAIN frames'[t] :
        (k \in DOMAIN frames[t] /\ frames'[t][k] = frames[t][k]) \/ frames'[t][k] = f
  BY <1>2 DEF IsTurned
<1>4. Free(frames', t) /\ \A k \in DOMAIN frames'[t] : Known(frames'[t][k])
  BY <1>1, <1>3 DEF Free
<1>5. QED
  BY <1>2, <1>4, FreeKeeps DEF IsTurned

LEMMA LeavingKeeps ==
  ASSUME SortInv, NEW t \in Threads, Rest(t), frames[t] # <<>>, Leave(t)
  PROVE  SortInv'
<1>1. Stacked(frames) /\ Changing(frames, writer, values, t) /\ \A k \in DOMAIN frames[t] : Known(frames[t][k])
  BY DEF SortInv
<1>2. IsPopped(frames', frames, t)
  BY <1>1, PoppedIs DEF Leave
<1>3. \A k \in DOMAIN frames'[t] :
        k \in DOMAIN frames[t] /\ k # Len(frames[t]) /\ frames'[t][k] = frames[t][k]
  BY <1>2 DEF IsPopped
<1>4. Free(frames', t) /\ \A k \in DOMAIN frames'[t] : Known(frames'[t][k])
  BY <1>1, <1>3 DEF Free, Changing
<1>5. QED
  BY <1>2, <1>4, FreeKeeps DEF IsPopped

-----------------------------------------------------------------------------
(* Who may go on.                                                          *)

LEMMA Waiting ==
  ASSUME ListAssumption, NEW t \in Threads,
         \/ MayRead(t) \/ MayWrite(t) \/ writer = t
         \/ writer' = writer /\ values' = values
         \/ Release(t) /\ values' = values
  PROVE  Waits(t)
<1>1. SUFFICES ASSUME writer \in Threads \ {t}
               PROVE  writer' = writer /\ values' = values
  BY DEF Waits
<1>2. writer # t /\ writer # Nobody
  BY <1>1 DEF ListAssumption
<1>3. ~ MayRead(t) /\ ~ MayWrite(t)
  BY <1>2 DEF MayRead, MayWrite
<1>4. QED
  BY <1>2, <1>3 DEF Release

LEMMA TopChanger ==
  ASSUME SortInv, NEW t \in Threads, In(t, Changers)
  PROVE  /\ writer = t /\ frames[t] # <<>> /\ Known(Top(t))
         /\ Top(t).op \in Changers /\ Top(t).reply = <<>>
         /\ Top(t).op = "sort" => Sorting(values, Top(t))
<1>1. Stacked(frames) /\ Changing(frames, writer, values, t) /\ \A k \in DOMAIN frames[t] : Known(frames[t][k])
  BY DEF SortInv
<1>2. /\ Len(frames[t]) \in Nat /\ DOMAIN frames[t] = 1 .. Len(frames[t])
      /\ frames[t] # <<>> => Len(frames[t]) # 0 /\ Last(frames[t]) = frames[t][Len(frames[t])]
  BY <1>1, StackOf, Zenon
<1>3. frames[t] # <<>> /\ Held(Top(t), Changers)
  BY DEF In, Held
<1>4. Len(frames[t]) \in DOMAIN frames[t] /\ Top(t) = frames[t][Len(frames[t])]
  BY <1>2, <1>3 DEF Top
<1>5. QED
  BY <1>1, <1>3, <1>4 DEF Changing, Held

LEMMA TopKnown ==
  ASSUME SortInv, NEW t \in Threads, frames[t] # <<>>
  PROVE  Known(Top(t))
<1>1. Stacked(frames) /\ \A k \in DOMAIN frames[t] : Known(frames[t][k])
  BY DEF SortInv
<1>2. /\ Len(frames[t]) \in Nat /\ DOMAIN frames[t] = 1 .. Len(frames[t])
      /\ frames[t] # <<>> => Len(frames[t]) # 0 /\ Last(frames[t]) = frames[t][Len(frames[t])]
  BY <1>1, StackOf, Zenon
<1>3. Len(frames[t]) \in DOMAIN frames[t] /\ Top(t) = frames[t][Len(frames[t])]
  BY <1>2 DEF Top
<1>4. QED
  BY <1>1, <1>3

-----------------------------------------------------------------------------
(* The steps.                                                              *)

LEMMA Appends ==
  ASSUME ElementAssumption, NEW s \in Seq(Item), NEW x \in Elements
  PROVE  Append(s, x) \in Seq(Item)
<1>1. x \in Item
  BY DEF ElementAssumption, Item
<1>2. QED
  BY <1>1

LEMMA WholeReversed ==
  ASSUME NEW s \in Seq(Item)
  PROVE  Reversed(s, 1, Len(s)) \in Seq(Item) /\ Len(Reversed(s, 1, Len(s))) = Len(s)
<1> DEFINE n == Len(s)
           low == 1
<1>1. n \in Int /\ n <= Len(s) /\ low \in Nat \ {0}
  OBVIOUS
<1> HIDE DEF n, low
<1>2. Like(Reversed(s, low, n), s)
  BY <1>1, ReversedIs
<1>3. QED
  BY <1>2 DEF Like, n, low

LEMMA WritingIs ==
  ASSUME NEW t \in Threads, Writing(t)
  PROVE  MayWrite(t)
BY DEF Writing

LEMMA AtOnceSorts ==
  ASSUME SortInv, ListAssumption, ElementAssumption, NEW t \in Threads, Idle(t), Writing(t),
         values' \in Seq(Item), frames' = frames
  PROVE  SortInv'
<1>1. frames[t] = <<>>
  BY DEF Idle
<1>2. Rest(t)
  BY WritingIs, Waiting DEF Rest
<1>3. QED
  BY <1>1, <1>2, StayingKeeps

LEMMA WrapIs ==
  ASSUME NEW n \in Nat, NEW i \in Int
  PROVE  Wrap(n, i) \in 0 .. n
BY DEF Wrap, Clipped, FromEnd

LEMMA InsideBounds ==
  ASSUME NEW n \in Nat, NEW i \in Int, InBounds(n, i)
  PROVE  FromEnd(n, i) \in 0 .. n - 1
BY DEF InBounds, FromEnd

LEMMA ChangesSort ==
  ASSUME SortInv, ListAssumption, ElementAssumption, IndexAssumption, NEW t \in Threads,
         \/ ListAppend(t) \/ Insert(t) \/ SetSlice(t) \/ DelSlice(t)
         \/ DelItem(t) \/ ExtendAtOnce(t) \/ Clear(t) \/ ListReverse(t)
  PROVE  SortInv'
<1>1. values \in Seq(Item) /\ Len(values) \in Nat
  BY DEF SortInv
<1>2. Idle(t) /\ Writing(t) /\ frames' = frames
  <2>1. CASE SetSlice(t) \/ DelSlice(t)
    BY <2>1 DEF SetSlice, DelSlice, Alone
  <2>2. CASE \/ ListAppend(t) \/ Insert(t) \/ DelItem(t) \/ ExtendAtOnce(t) \/ Clear(t) \/ ListReverse(t)
    BY <2>2 DEF ListAppend, Insert, DelItem, ExtendAtOnce, Clear, ListReverse
  <2>3. QED
    BY <2>1, <2>2
<1>3. CASE ListAppend(t)
  <2>1. PICK x \in Elements : values' = Append(values, x)
    BY <1>3 DEF ListAppend
  <2>2. values' \in Seq(Item)
    BY <1>1, <2>1, Appends
  <2>3. QED
    BY <1>2, <2>2, AtOnceSorts
<1>4. CASE Insert(t)
  <2>1. PICK i \in Indices, x \in Elements : values' = InsertAt(values, Wrap(Len(values), i) + 1, x)
    BY <1>4 DEF Insert
  <2>2. i \in Int /\ x \in Item
    BY DEF IndexAssumption, ElementAssumption, Item
  <2>3. Wrap(Len(values), i) \in 0 .. Len(values)
    BY <1>1, <2>2, WrapIs
  <2>4. Wrap(Len(values), i) + 1 \in 1 .. Len(values) + 1
    BY <1>1, <2>3
  <2>5. values' \in Seq(Item)
    BY <1>1, <2>1, <2>2, <2>4, InsertedIs
  <2>6. QED
    BY <1>2, <2>5, AtOnceSorts
<1>5. CASE SetSlice(t)
  <2>1. PICK slice \in Slices :
          /\ Bounds(Len(values), slice).step = 1
          /\ \/ \E new \in Sequels : values' = Assigned(values, Bounds(Len(values), slice), new, FALSE)
             \/ values' = Assigned(values, Bounds(Len(values), slice), values, TRUE)
    BY <1>5 DEF SetSlice
  <2> DEFINE b == Bounds(Len(values), slice)
  <2>2. b.start \in 0 .. Len(values) /\ b.end \in b.start .. Len(values)
    BY <1>1, <2>1, BoundsAre
  <2>3. \A new \in Sequels : new \in Seq(Item)
    BY DEF ElementAssumption, Item
  <2> HIDE DEF b
  <2>4. \A new \in Sequels : Assigned(values, b, new, FALSE) \in Seq(Item)
    BY <1>1, <2>2, <2>3, AssignedIs
  <2>5. Assigned(values, b, values, TRUE) \in Seq(Item)
    BY <1>1, <2>2, AssignedIs
  <2>6. values' \in Seq(Item)
    BY <2>1, <2>4, <2>5 DEF b
  <2>7. QED
    BY <1>2, <2>6, AtOnceSorts
<1>6. CASE DelSlice(t)
  <2>1. PICK slice \in Slices :
          Bounds(Len(values), slice).step = 1 /\ values' = Deleted(values, Bounds(Len(values), slice))
    BY <1>6 DEF DelSlice
  <2> DEFINE b == Bounds(Len(values), slice)
  <2>2. b.start \in 0 .. Len(values) /\ b.end \in b.start .. Len(values)
    BY <1>1, <2>1, BoundsAre
  <2>3. values' = Deleted(values, b)
    BY <2>1
  <2> HIDE DEF b
  <2>4. values' \in Seq(Item)
    BY <1>1, <2>2, <2>3, DeletedIs
  <2>5. QED
    BY <1>2, <2>4, AtOnceSorts
<1>7. CASE DelItem(t)
  <2>1. PICK i \in Indices : InBounds(Len(values), i) /\ values' = PopAt(values, FromEnd(Len(values), i))
    BY <1>7 DEF DelItem
  <2>2. FromEnd(Len(values), i) \in 0 .. Len(values) - 1
    <3>1. i \in Int
      BY DEF IndexAssumption
    <3>2. QED
      BY <1>1, <2>1, <3>1, InsideBounds
  <2>3. values' \in Seq(Item)
    BY <1>1, <2>1, <2>2, TakenOutIs
  <2>4. QED
    BY <1>2, <2>3, AtOnceSorts
<1>8. CASE ExtendAtOnce(t)
  <2>1. PICK new \in Sequels \cup {values} : values' = values \o new
    BY <1>8 DEF ExtendAtOnce
  <2>2. new \in Seq(Item)
    BY <1>1 DEF ElementAssumption, Item
  <2>3. values' \in Seq(Item)
    BY <1>1, <2>1, <2>2
  <2>4. QED
    BY <1>2, <2>3, AtOnceSorts
<1>9. CASE Clear(t)
  <2>1. values' \in Seq(Item)
    BY <1>9 DEF Clear
  <2>2. QED
    BY <1>2, <2>1, AtOnceSorts
<1>10. CASE ListReverse(t)
  <2>1. values' = Reversed(values, 1, Len(values))
    BY <1>10 DEF ListReverse
  <2>2. values' \in Seq(Item)
    BY <1>1, <2>1, WholeReversed
  <2>3. QED
    BY <1>2, <2>2, AtOnceSorts
<1>11. QED
  BY <1>3, <1>4, <1>5, <1>6, <1>7, <1>8, <1>9, <1>10

LEMMA SetItemSorts ==
  ASSUME SortInv, ListAssumption, ElementAssumption, IndexAssumption, NEW t \in Threads, SetItem(t)
  PROVE  SortInv'
<1>1. values \in Seq(Item) /\ Len(values) \in Nat
  BY DEF SortInv
<1>2. frames[t] = <<>> /\ MayRead(t) /\ frames' = frames
  BY DEF SetItem, Reading, Idle
<1>3. PICK i \in Indices, x \in Elements :
        InBounds(Len(values), i) /\ values' = [values EXCEPT ![FromEnd(Len(values), i) + 1] = x]
  BY DEF SetItem
<1>4. i \in Int /\ x \in Item
  BY DEF IndexAssumption, ElementAssumption, Item
<1>5. FromEnd(Len(values), i) + 1 \in 1 .. Len(values)
  <2>1. FromEnd(Len(values), i) \in 0 .. Len(values) - 1
    BY <1>1, <1>3, <1>4, InsideBounds
  <2>2. QED
    BY <1>1, <2>1
<1>6. values' \in Seq(Item)
  BY <1>1, <1>3, <1>4, <1>5, ReplacedIs
<1>7. Rest(t)
  BY <1>2, <1>6, Waiting DEF Rest
<1>8. QED
  BY <1>2, <1>7, StayingKeeps

LEMMA CallKnown ==
  ASSUME NEW op \in {"pop", "getitem", "sort"}, NEW i, NEW x
  PROVE  Known(Answered(Call(op, i), x)) /\ ~ Held(Answered(Call(op, i), x), Changers)
BY DEF Known, Answered, Call, Held

LEMMA PopSorts ==
  ASSUME SortInv, ListAssumption, ElementAssumption, IndexAssumption, NEW t \in Threads, Pop(t)
  PROVE  SortInv'
<1>1. values \in Seq(Item) /\ Len(values) \in Nat
  BY DEF SortInv
<1>2. frames[t] = <<>>
  BY DEF Pop, Idle
<1>3. PICK i \in Indices :
        IF InBounds(Len(values), i)
        THEN /\ Writing(t)
             /\ values' = PopAt(values, FromEnd(Len(values), i))
             /\ Push(t, Answered(Call("pop", i), At(values, FromEnd(Len(values), i))))
        ELSE TakeWrite(t) /\ IndexError
  BY DEF Pop
<1>4. CASE InBounds(Len(values), i)
  <2>1. i \in Int
    BY DEF IndexAssumption
  <2>2. values' \in Seq(Item)
    <3>1. FromEnd(Len(values), i) \in 0 .. Len(values) - 1
      BY <1>1, <1>4, <2>1, InsideBounds
    <3>2. QED
      BY <1>1, <1>3, <1>4, <3>1, TakenOutIs
  <2>3. Rest(t)
    BY <1>3, <1>4, <2>2, WritingIs, Waiting DEF Rest
  <2> DEFINE f == Answered(Call("pop", i), At(values, FromEnd(Len(values), i)))
  <2>4. Push(t, f)
    BY <1>3, <1>4
  <2>5. Known(f) /\ ~ Held(f, Changers)
    BY CallKnown
  <2> HIDE DEF f
  <2>6. QED
    BY <1>2, <2>3, <2>4, <2>5, PushingKeeps
<1>5. CASE ~ InBounds(Len(values), i)
  <2>1. MayWrite(t) /\ values' = values /\ frames' = frames
    BY <1>3, <1>5 DEF TakeWrite, IndexError
  <2>2. Rest(t)
    BY <1>1, <2>1, Waiting DEF Rest
  <2>3. QED
    BY <1>2, <2>1, <2>2, StayingKeeps
<1>6. QED
  BY <1>4, <1>5

LEMMA GetItemSorts ==
  ASSUME SortInv, ListAssumption, NEW t \in Threads, GetItem(t)
  PROVE  SortInv'
<1>1. values \in Seq(Item)
  BY DEF SortInv
<1>2. frames[t] = <<>>
  BY DEF GetItem, Idle
<1>3. PICK i \in Indices :
        IF InBounds(Len(values), i)
        THEN /\ Reading(t)
             /\ Push(t, Answered(Call("getitem", i), At(values, FromEnd(Len(values), i))))
             /\ UNCHANGED values
        ELSE TakeRead(t) /\ IndexError
  BY DEF GetItem
<1>4. MayRead(t) /\ values' = values
  BY <1>3 DEF Reading, TakeRead, IndexError
<1>5. Rest(t)
  BY <1>1, <1>4, Waiting DEF Rest
<1>6. CASE InBounds(Len(values), i)
  <2> DEFINE f == Answered(Call("getitem", i), At(values, FromEnd(Len(values), i)))
  <2>1. Push(t, f)
    BY <1>3, <1>6
  <2>2. Known(f) /\ ~ Held(f, Changers)
    BY CallKnown
  <2> HIDE DEF f
  <2>3. QED
    BY <1>2, <1>5, <2>1, <2>2, PushingKeeps
<1>7. CASE ~ InBounds(Len(values), i)
  <2>1. frames' = frames
    BY <1>3, <1>7 DEF IndexError
  <2>2. QED
    BY <1>2, <1>5, <2>1, StayingKeeps
<1>8. QED
  BY <1>6, <1>7

LEMMA SortKeyRaisesSorts ==
  ASSUME SortInv, ListAssumption, NEW t \in Threads, SortKeyRaises(t)
  PROVE  SortInv'
<1>1. values \in Seq(Item)
  BY DEF SortInv
<1>2. frames[t] = <<>> /\ Writing(t)
  BY DEF SortKeyRaises, Idle
<1>3. values' = values \/ values' = Reversed(values, 1, Len(values))
  BY DEF SortKeyRaises
<1>4. values' \in Seq(Item)
  BY <1>1, <1>3, WholeReversed
<1>5. Rest(t)
  BY <1>2, <1>4, WritingIs, Waiting DEF Rest
<1> DEFINE f == Answered(Call("sort", 0), None)
<1>6. Push(t, f)
  BY DEF SortKeyRaises
<1>7. Known(f) /\ ~ Held(f, Changers)
  BY CallKnown
<1> HIDE DEF f
<1>8. QED
  BY <1>2, <1>5, <1>6, <1>7, PushingKeeps

LEMMA FrameKnown ==
  ASSUME NEW op \in Scanning, NEW x, NEW r
  PROVE  Known(Frame(op, x, r)) /\ ~ Held(Frame(op, x, r), Changers)
<1> DEFINE f == Frame(op, x, r)
<1>1. {"op", "reply", "i"} \subseteq DOMAIN f /\ f.op = op /\ (op # "index" => f.i = 0)
  BY DEF Frame
<1>2. op \notin {"extend", "sort", "found"} /\ (op = "remove" => op # "index")
  BY DEF Scanning
<1> HIDE DEF f
<1>3. Known(f)
  BY <1>1, <1>2 DEF Known
<1>4. ~ Held(f, Changers)
  BY <1>1, <1>2 DEF Held, Changers
<1>5. QED
  BY <1>3, <1>4 DEF f

LEMMA ScanStartSorts ==
  ASSUME SortInv, ListAssumption, NEW t \in Threads, ScanStart(t)
  PROVE  SortInv'
<1>1. values \in Seq(Item)
  BY DEF SortInv
<1>2. frames[t] = <<>> /\ values' = values
  BY DEF ScanStart, Idle
<1>3. PICK op \in Scanning, x \in Wanted, r \in Ranges :
        (TakeRead(t) \/ TakeWrite(t)) /\ Push(t, Frame(op, x, r))
  BY DEF ScanStart
<1>4. Rest(t)
  BY <1>1, <1>2, <1>3, Waiting DEF Rest, TakeRead, TakeWrite
<1> DEFINE f == Frame(op, x, r)
<1>5. Push(t, f) /\ Known(f) /\ ~ Held(f, Changers)
  BY <1>3, FrameKnown
<1> HIDE DEF f
<1>6. QED
  BY <1>2, <1>4, <1>5, PushingKeeps

LEMMA ScanTop ==
  ASSUME SortInv, NEW t \in Threads, In(t, Scanning)
  PROVE  frames[t] # <<>> /\ Known(Top(t)) /\ Top(t).op \in Scanning /\ Top(t).reply = <<>>
         /\ ~ Held(Top(t), Changers)
<1>1. frames[t] # <<>> /\ Top(t).op \in Scanning /\ Top(t).reply = <<>>
  BY DEF In
<1>2. Known(Top(t))
  BY <1>1, TopKnown
<1>3. QED
  BY <1>1, <1>2 DEF Held, Changers, Scanning

LEMMA NestSorts ==
  ASSUME SortInv, ListAssumption, NEW t \in Threads, Nest(t)
  PROVE  SortInv'
<1>1. values \in Seq(Item)
  BY DEF SortInv
<1>2. In(t, Scanning) /\ TakeRead(t) /\ values' = values
  BY DEF Nest
<1>3. PICK x \in Wanted : Push(t, Frame("contains", x, Everywhere))
  BY DEF Nest
<1>4. Rest(t)
  BY <1>1, <1>2, Waiting DEF Rest, TakeRead
<1>5. ~ Held(Top(t), Changers)
  BY <1>2, ScanTop
<1> DEFINE f == Frame("contains", x, Everywhere)
<1>6. Push(t, f) /\ Known(f) /\ ~ Held(f, Changers)
  <2>1. "contains" \in Scanning
    BY DEF Scanning
  <2>2. QED
    BY <1>3, <2>1, FrameKnown
<1> HIDE DEF f
<1>7. QED
  BY <1>4, <1>5, <1>6, PushingKeeps

\* The frame of a search that goes on, that has found and that is over.
LEMMA ScannedKnown ==
  ASSUME NEW f, Known(f), f.op \in Scanning, f.reply = <<>>, NEW n, NEW x
  PROVE  /\ Known([f EXCEPT !.i = @ + 1, !.n = n]) /\ ~ Held([f EXCEPT !.i = @ + 1, !.n = n], Changers)
         /\ Known(Answered(f, x)) /\ ~ Held(Answered(f, x), Changers)
         /\ f.op = "remove" => Known([f EXCEPT !.op = "found"])
         /\ ~ Held([f EXCEPT !.op = "found"], Changers)
<1>1. {"op", "reply"} \subseteq DOMAIN f /\ (f.op = "remove" => "i" \in DOMAIN f /\ f.i \in Nat)
  BY DEF Known
<1>2. f.op \notin {"extend", "sort", "found"}
  BY DEF Scanning
<1> DEFINE g == [f EXCEPT !.i = @ + 1, !.n = n]
<1>3. /\ {"op", "reply"} \subseteq DOMAIN g /\ g.op = f.op
      /\ f.op = "remove" => "i" \in DOMAIN g /\ g.i \in Nat
  BY <1>1
<1> HIDE DEF g
<1>4. Known(g) /\ ~ Held(g, Changers)
  BY <1>2, <1>3 DEF Known, Held, Changers
<1>5. Known(Answered(f, x)) /\ ~ Held(Answered(f, x), Changers)
  BY <1>1, <1>2 DEF Known, Held, Changers, Answered
<1>6. /\ f.op = "remove" => Known([f EXCEPT !.op = "found"])
      /\ ~ Held([f EXCEPT !.op = "found"], Changers)
  BY <1>1, <1>2 DEF Known, Held, Changers
<1>7. QED
  BY <1>4, <1>5, <1>6 DEF g

LEMMA ScanSorts ==
  ASSUME SortInv, ListAssumption, NEW t \in Threads,
         ScanOn(t) \/ ScanHit(t) \/ ScanEnd(t) \/ RemoveHit(t) \/ ScanRaises(t)
  PROVE  SortInv'
<1>1. values \in Seq(Item)
  BY DEF SortInv
<1>2. In(t, Scanning)
  <2>1. {"contains", "index"} \subseteq Scanning /\ {"remove"} \subseteq Scanning
    BY DEF Scanning
  <2>2. QED
    BY <2>1 DEF ScanOn, ScanHit, ScanEnd, RemoveHit, ScanRaises, In
<1>3. frames[t] # <<>> /\ Known(Top(t)) /\ Top(t).op \in Scanning /\ Top(t).reply = <<>>
      /\ ~ Held(Top(t), Changers)
  BY <1>2, ScanTop
<1>4. values' = values /\ (Release(t) \/ writer' = writer)
  BY DEF ScanOn, ScanHit, ScanEnd, RemoveHit, ScanRaises
<1>5. Rest(t)
  BY <1>1, <1>4, Waiting DEF Rest
<1>6. CASE ScanOn(t)
  <2> DEFINE n == IF Hit(Top(t)) THEN Top(t).n + 1 ELSE Top(t).n
             f == [Top(t) EXCEPT !.i = @ + 1, !.n = n]
  <2>1. Become(t, f)
    BY <1>6 DEF ScanOn
  <2> HIDE DEF n
  <2>2. Known(f) /\ ~ Held(f, Changers)
    BY <1>3, ScannedKnown
  <2> HIDE DEF f
  <2>3. QED
    BY <1>3, <1>5, <2>1, <2>2, TurningKeeps
<1>7. CASE ScanHit(t) \/ ScanEnd(t)
  <2>1. PICK x : Become(t, Answered(Top(t), x))
    BY <1>7 DEF ScanHit, ScanEnd
  <2> DEFINE f == Answered(Top(t), x)
  <2>2. Known(f) /\ ~ Held(f, Changers)
    BY <1>3, ScannedKnown
  <2>3. Become(t, f)
    BY <2>1
  <2> HIDE DEF f
  <2>4. QED
    BY <1>3, <1>5, <2>2, <2>3, TurningKeeps
<1>8. CASE RemoveHit(t)
  <2> DEFINE f == [Top(t) EXCEPT !.op = "found"]
  <2>1. Become(t, f) /\ Top(t).op = "remove"
    BY <1>8 DEF RemoveHit, In
  <2>2. Known(f) /\ ~ Held(f, Changers)
    BY <1>3, <2>1, ScannedKnown
  <2> HIDE DEF f
  <2>3. QED
    BY <1>3, <1>5, <2>1, <2>2, TurningKeeps
<1>9. CASE ScanRaises(t)
  <2>1. Leave(t)
    BY <1>9 DEF ScanRaises
  <2>2. QED
    BY <1>3, <1>5, <2>1, LeavingKeeps
<1>10. QED
  BY <1>6, <1>7, <1>8, <1>9

LEMMA RemovePopSorts ==
  ASSUME SortInv, ListAssumption, NEW t \in Threads, RemovePop(t)
  PROVE  SortInv'
<1>1. values \in Seq(Item) /\ Len(values) \in Nat
  BY DEF SortInv
<1>2. frames[t] # <<>> /\ Top(t).op = "found" /\ Leave(t) /\ MayWrite(t)
  BY DEF RemovePop, In, Writing, TakeWrite
<1>3. values' \in Seq(Item)
  <2>1. CASE InBounds(Len(values), Top(t).i)
    <3> DEFINE i == Top(t).i
    <3>1. i \in Nat
      BY <1>2, TopKnown DEF Known
    <3> HIDE DEF i
    <3>2. i \in 0 .. Len(values) - 1
      BY <1>1, <2>1, <3>1 DEF InBounds, FromEnd, i
    <3>3. values' = PopAt(values, i)
      BY <2>1 DEF RemovePop, i
    <3>4. QED
      BY <1>1, <3>2, <3>3, TakenOutIs
  <2>2. CASE ~ InBounds(Len(values), Top(t).i)
    BY <1>1, <2>2 DEF RemovePop
  <2>3. QED
    BY <2>1, <2>2
<1>4. Rest(t)
  BY <1>2, <1>3, Waiting DEF Rest
<1>5. QED
  BY <1>2, <1>4, LeavingKeeps

LEMMA ReturnSorts ==
  ASSUME SortInv, ListAssumption, NEW t \in Threads, Return(t)
  PROVE  SortInv'
<1>1. values \in Seq(Item)
  BY DEF SortInv
<1>2. Rest(t)
  BY <1>1, Waiting DEF Rest, Return
<1>3. frames[t] # <<>> /\ Leave(t)
  BY DEF Return
<1>4. QED
  BY <1>2, <1>3, LeavingKeeps

LEMMA ExtendSorts ==
  ASSUME SortInv, ListAssumption, ElementAssumption, NEW t \in Threads,
         ExtendStart(t) \/ ExtendItem(t) \/ ExtendEnd(t)
  PROVE  SortInv'
<1>1. /\ values \in Seq(Item) /\ Stacked(frames) /\ Changing(frames, writer, values, t)
      /\ \A k \in DOMAIN frames[t] : Known(frames[t][k])
  BY DEF SortInv
<1>2. CASE ExtendStart(t)
  <2> DEFINE f == [op |-> "extend", reply |-> <<>>]
  <2>1. values' = values /\ MayWrite(t) /\ writer' = t /\ frames[t] = <<>> /\ Push(t, f)
    BY <1>2 DEF ExtendStart, TakeWrite, Idle
  <2>2. Rest(t)
    BY <1>1, <2>1, Waiting DEF Rest
  <2>3. Known(f) /\ f.op = "extend"
    BY DEF Known
  <2> HIDE DEF f
  <2>4. IsPushed(frames', frames, t, f) /\ Len(frames[t]) = 0
    BY <1>1, <2>1, PushedIs, StackOf DEF Push
  <2>5. DOMAIN frames'[t] = {1} /\ frames'[t][1] = f /\ Len(frames'[t]) = 1
    BY <2>4 DEF IsPushed
  <2>6. Changing(frames', writer', values', t)
    BY <2>1, <2>3, <2>5 DEF Changing
  <2>7. QED
    BY <2>2, <2>3, <2>4, <2>5, <2>6, StepKeeps DEF IsPushed
<1>3. ASSUME ExtendItem(t) \/ ExtendEnd(t)
      PROVE  writer = t /\ frames[t] # <<>> /\ Top(t).op = "extend"
  <2>1. In(t, {"extend"})
    BY <1>3 DEF ExtendItem, ExtendEnd
  <2>2. In(t, Changers) /\ Top(t).op = "extend"
    BY <2>1 DEF In, Changers
  <2>3. QED
    BY <2>2, TopChanger
<1>4. CASE ExtendItem(t)
  <2>1. writer = t /\ frames[t] # <<>> /\ Top(t).op = "extend"
    BY <1>3, <1>4
  <2>2. values' \in Seq(Item)
    BY <1>1, <1>4, Appends DEF ExtendItem
  <2>3. Rest(t)
    BY <2>1, <2>2, Waiting DEF Rest
  <2>4. frames' = frames /\ writer' = writer
    BY <1>4 DEF ExtendItem
  <2>5. Top(t) = frames[t][Len(frames[t])]
    BY <1>1, <2>1, StackOf DEF Top
  <2>6. Changing(frames', writer', values', t)
    BY <1>1, <2>1, <2>4, <2>5 DEF Changing
  <2>7. QED
    BY <1>1, <2>3, <2>4, <2>6, StepKeeps
<1>5. CASE ExtendEnd(t)
  <2>1. writer = t /\ frames[t] # <<>>
    BY <1>3, <1>5
  <2>2. values' = values /\ Leave(t)
    BY <1>5 DEF ExtendEnd
  <2>3. Rest(t)
    BY <1>1, <2>1, <2>2, Waiting DEF Rest
  <2>4. QED
    BY <2>1, <2>2, <2>3, LeavingKeeps
<1>6. QED
  BY <1>2, <1>4, <1>5

LEMMA SortingKnown ==
  ASSUME NEW s, NEW f, Sorting(s, f)
  PROVE  Known(f) /\ f.op = "sort" /\ f.reply = <<>>
<1>1. f \in SortFrames
  BY DEF Sorting
<1>2. f.op = "sort" /\ f.reply = <<>> /\ {"op", "reply"} \subseteq DOMAIN f
  BY <1>1, SortFrameIs
<1>3. QED
  BY <1>2 DEF Known

LEMMA SortStartSorts ==
  ASSUME SortInv, ListAssumption, ElementAssumption, NEW t \in Threads, SortStart(t)
  PROVE  SortInv'
<1>1. /\ values \in Seq(Item) /\ Stacked(frames)
      /\ \A k \in DOMAIN frames[t] : Known(frames[t][k])
  BY DEF SortInv
<1>2. frames[t] = <<>> /\ Len(values) >= 2 /\ MayWrite(t) /\ writer' = t
  BY DEF SortStart, TakeWrite, Idle
<1>3. PICK reverse \in BOOLEAN :
        LET start == IF reverse THEN Reversed(values, 1, Len(values)) ELSE values
        IN /\ values' = Upward(start, 1)
           /\ Push(t, [op |-> "sort", reply |-> <<>>, reverse |-> reverse, was |-> values,
                       a |-> Run(start, 1), b |-> None, power |-> 0, stack |-> <<>>])
  BY DEF SortStart
<1> DEFINE start == IF reverse THEN Reversed(values, 1, Len(values)) ELSE values
           f == [op |-> "sort", reply |-> <<>>, reverse |-> reverse, was |-> values,
                 a |-> Run(start, 1), b |-> None, power |-> 0, stack |-> <<>>]
<1>4. values' = Upward(start, 1) /\ Push(t, f)
  BY <1>3
<1>5. start \in Seq(Item) /\ Len(start) >= 2
  BY <1>1, <1>2, WholeReversed
<1> HIDE DEF start
<1>6. Like(values', start) /\ Sorting(values', f)
  BY <1>1, <1>4, <1>5, Started
<1> HIDE DEF f
<1>7. Known(f) /\ values' \in Seq(Item)
  BY <1>6, SortingKnown DEF Like
<1>8. Rest(t)
  BY <1>2, <1>7, Waiting DEF Rest
<1>9. IsPushed(frames', frames, t, f) /\ Len(frames[t]) = 0
  BY <1>1, <1>2, <1>4, PushedIs, StackOf DEF Push
<1>10. DOMAIN frames'[t] = {1} /\ frames'[t][1] = f /\ Len(frames'[t]) = 1
  BY <1>9 DEF IsPushed
<1>11. Changing(frames', writer', values', t)
  BY <1>2, <1>6, <1>10 DEF Changing
<1>12. QED
  BY <1>7, <1>8, <1>9, <1>10, <1>11, StepKeeps DEF IsPushed

LEMMA GoingOnSorts ==
  ASSUME SortInv, ListAssumption, NEW t \in Threads, In(t, Changers), writer' = writer,
         NEW g, Become(t, g), Sorting(values', g), values' \in Seq(Item)
  PROVE  SortInv'
<1>1. /\ Stacked(frames) /\ Changing(frames, writer, values, t)
      /\ \A k \in DOMAIN frames[t] : Known(frames[t][k])
  BY DEF SortInv
<1>2. writer = t /\ frames[t] # <<>>
  BY TopChanger
<1>3. Known(g)
  BY SortingKnown
<1>4. Rest(t)
  BY <1>2, Waiting DEF Rest
<1>5. IsTurned(frames', frames, t, g)
  BY <1>1, <1>2, TurnedIs DEF Become
<1>6. \A k \in DOMAIN frames'[t] :
        \/ k \in DOMAIN frames[t] /\ k # Len(frames[t]) /\ frames'[t][k] = frames[t][k]
        \/ k = Len(frames'[t]) /\ frames'[t][k] = g
  BY <1>5 DEF IsTurned
<1>7. Changing(frames', writer', values', t)
  <2>1. ASSUME NEW k \in DOMAIN frames'[t], Held(frames'[t][k], Changers)
        PROVE  k = Len(frames'[t]) /\ frames'[t][k] = g
    BY <1>1, <1>6, <2>1 DEF Changing
  <2>2. QED
    BY <1>2, <2>1 DEF Changing
<1>8. \A k \in DOMAIN frames'[t] : Known(frames'[t][k])
  BY <1>1, <1>3, <1>6
<1>9. QED
  BY <1>4, <1>5, <1>7, <1>8, StepKeeps DEF IsTurned

LEMMA MergingSorts ==
  ASSUME SortInv, ListAssumption, ElementAssumption, NEW t \in Threads, In(t, {"sort"}),
         Top(t).stack # <<>>, Top(t).b # None \/ Top(t).a.end > Len(values), MergeTop(t, Top(t))
  PROVE  SortInv'
<1> DEFINE f == Top(t)
           g == [f EXCEPT !.a.start = Last(f.stack).begin, !.stack = Front(@)]
<1>1. In(t, Changers) /\ f.op = "sort"
  BY DEF In, Changers
<1>2. Sorting(values, f) /\ values \in Seq(Item)
  BY <1>1, TopChanger DEF SortInv
<1>3. values' = Merged(values, Last(f.stack).begin, f.a.start, f.a.end) /\ Become(t, g) /\ writer' = writer
  BY DEF MergeTop
<1>4. f.stack # <<>> /\ (f.b # None \/ f.a.end > Len(values))
  OBVIOUS
<1> HIDE DEF f
<1>5. Like(values', values) /\ Sorting(values', g)
  BY <1>2, <1>3, <1>4, Combined
<1> HIDE DEF g
<1>6. QED
  BY <1>1, <1>3, <1>5, GoingOnSorts DEF Like

LEMMA SortStepSorts ==
  ASSUME SortInv, ListAssumption, ElementAssumption, NoneAssumption, NEW t \in Threads,
         SortNextRun(t) \/ SortCollapse(t) \/ SortPush(t) \/ SortMergeRest(t) \/ SortEnd(t)
  PROVE  SortInv'
<1> DEFINE f == Top(t)
<1>1. In(t, {"sort"})
  BY DEF SortNextRun, SortCollapse, SortPush, SortMergeRest, SortEnd
<1>2. In(t, Changers) /\ f.op = "sort"
  BY <1>1 DEF In, Changers
<1>3. Sorting(values, f) /\ values \in Seq(Item) /\ writer = t /\ frames[t] # <<>>
  BY <1>2, TopChanger DEF SortInv
<1>4. CASE SortNextRun(t)
  <2> DEFINE g == [f EXCEPT !.b = Run(values, f.a.end),
                            !.power = Power(Len(values), f.a, Run(values, f.a.end))]
  <2>1. f.b = None /\ f.a.end <= Len(values) /\ values' = Upward(values, f.a.end) /\ Become(t, g)
        /\ writer' = writer
    BY <1>4 DEF SortNextRun
  <2> HIDE DEF f
  <2>2. Like(values', values) /\ Sorting(values', g)
    BY <1>3, <2>1, WentOn
  <2> HIDE DEF g
  <2>3. QED
    BY <1>2, <2>1, <2>2, GoingOnSorts DEF Like
<1>5. CASE SortCollapse(t)
  <2>1. f.stack # <<>> /\ f.b # None /\ MergeTop(t, f)
    BY <1>5 DEF SortCollapse, Higher
  <2>2. QED
    BY <1>1, <2>1, MergingSorts
<1>6. CASE SortPush(t)
  <2> DEFINE g == [f EXCEPT !.stack = Append(@, [begin |-> f.a.start, power |-> f.power]),
                            !.a = f.b, !.b = None]
  <2>1. f.b # None /\ ~ Higher(f) /\ values' = values /\ Become(t, g) /\ writer' = writer
    BY <1>6 DEF SortPush
  <2> HIDE DEF f
  <2>2. Sorting(values', g)
    BY <1>3, <2>1, Stashed
  <2> HIDE DEF g
  <2>3. QED
    BY <1>2, <1>3, <2>1, <2>2, GoingOnSorts
<1>7. CASE SortMergeRest(t)
  <2>1. f.stack # <<>> /\ f.a.end > Len(values) /\ MergeTop(t, f)
    BY <1>7 DEF SortMergeRest, LastRun
  <2>2. QED
    BY <1>1, <2>1, MergingSorts
<1>8. CASE SortEnd(t)
  <2>1. values' = values \/ values' = Reversed(values, 1, Len(values))
    BY <1>8 DEF SortEnd
  <2>2. values' \in Seq(Item)
    BY <1>3, <2>1, WholeReversed
  <2>3. Rest(t)
    BY <1>3, <2>2, Waiting DEF Rest
  <2>4. Leave(t)
    BY <1>8 DEF SortEnd
  <2>5. QED
    BY <1>3, <2>3, <2>4, LeavingKeeps
<1>9. QED
  BY <1>4, <1>5, <1>6, <1>7, <1>8

LEMMA SortStep ==
  ASSUME SortInv, ListAssumption, ElementAssumption, IndexAssumption, NoneAssumption, NEW t \in Threads, Step(t)
  PROVE  SortInv'
BY ChangesSort, SetItemSorts, PopSorts, GetItemSorts, SortKeyRaisesSorts, ScanStartSorts, NestSorts, ScanSorts,
   RemovePopSorts, ReturnSorts, ExtendSorts, SortStartSorts, SortStepSorts, Zenon DEF Step

LEMMA SortInit ==
  ASSUME LInit, ElementAssumption
  PROVE  SortInv
<1>1. values \in Seq(Item) /\ frames = [t \in Threads |-> <<>>]
  <2>1. ToSort \subseteq Seq(Item) /\ <<>> \in Seq(Item)
    BY DEF ElementAssumption, Item
  <2>2. QED
    BY <2>1 DEF LInit
<1>2. frames \in [Threads -> Seq({})]
  BY <1>1
<1>3. Stacked(frames)
  BY <1>2, StackedIs
<1>4. \A t \in Threads : DOMAIN frames[t] = {}
  BY <1>1
<1>5. QED
  BY <1>1, <1>3, <1>4 DEF SortInv, Changing

\* Of any list, however long, and whatever the other threads do meanwhile:
\* while a call sorts, the runs on its stack lie side by side from the first
\* element on, each of them, the last one and the next one are in order, the
\* powers on the stack go up, and so there are never more of them than the
\* length has bits: the array of 64 in the code does not overflow.
THEOREM RunsKept ==
  ASSUME ListAssumption, ElementAssumption, IndexAssumption, NoneAssumption
  PROVE  LSpec => []RunsInOrder
<1>1. LInit => SortInv
  BY SortInit
<1>2. SortInv /\ [LNext]_listVars => SortInv'
  <2> SUFFICES ASSUME SortInv, [LNext]_listVars PROVE SortInv'
    OBVIOUS
  <2>1. CASE LNext
    BY <2>1, SortStep, Zenon DEF LNext
  <2>2. CASE UNCHANGED listVars
    <3>1. frames' = frames /\ writer' = writer /\ values' = values
      BY <2>2, Zenon DEF listVars
    <3>2. QED
      BY <3>1 DEF SortInv
  <2>3. QED
    BY <2>1, <2>2, Zenon
<1>3. SortInv => RunsInOrder
  BY SortFollows
<1>4. QED
  BY <1>1, <1>2, <1>3, PTL DEF LSpec
===============================================================================
