--------------------------- MODULE KrkImport_proofs ---------------------------
(***************************************************************************)
(* Proofs about KrkImport, for any programs and any number of threads that *)
(* do not load modules at the same time (with which the model checker      *)
(* finds a module loaded twice).                                           *)
(*                                                                         *)
(* The table of modules and the objects that have not failed are each      *)
(* other's inverse, and the objects that are being loaded are those of the *)
(* bodies on the stacks, each of one body.  Of the stacks only the bodies  *)
(* matter: where they are, what each loads, and the module to come back    *)
(* to.                                                                     *)
(***************************************************************************)
EXTENDS KrkImport, TLAPS

Sound == "race" \notin Unsound

Stacked(fr) == fr \in [Threads -> Seq(UNION {Range(fr[t]) : t \in Threads})]

\* Walks, and bodies and functions.
WalkFields == {"kind", "name", "runAs", "k", "last", "found", "result", "from"}
RunFields == {"kind", "obj", "ops", "pc", "stack", "handler", "enclosing"}
IsFrame(f) ==
  \/ f.kind = "walk" /\ DOMAIN f = WalkFields /\ f.found = None
  \/ f.kind \in {"body", "function"} /\ DOMAIN f = RunFields

\* What is above nothing is no body.
StacksRight(fr) ==
  /\ Stacked(fr)
  /\ \A t \in Threads : \A k \in DOMAIN fr[t] : IsFrame(fr[t][k]) /\ (fr[t][k].kind = "body" => k > 1)

BodiesOf(s) == {k \in DOMAIN s : s[k].kind = "body"}

\* m is the module of the innermost of the bodies at B.
Innermost(s, B, m) ==
  \/ B = {} /\ m = None
  \/ \E k \in B : m = s[k].obj /\ \A j \in B : j <= k

\* The module a thread is in, and those it comes back to.
ModulesChained(fr, md) ==
  /\ DOMAIN md = Threads
  /\ \A t \in Threads :
       /\ Innermost(fr[t], BodiesOf(fr[t]), md[t])
       /\ \A k \in BodiesOf(fr[t]) : Innermost(fr[t], {j \in BodiesOf(fr[t]) : j < k}, fr[t][k].enclosing)

\* The table has what has not failed, by its name.
ObjectsKnown(os, ms) ==
  /\ os \in Seq(Range(os))
  /\ \A i \in DOMAIN os :
       /\ {"name", "state"} \subseteq DOMAIN os[i]
       /\ os[i].state \in {"loading", "done", "failed"}
       /\ os[i].state # "failed" => os[i].name \in DOMAIN ms /\ ms[os[i].name] = i
  /\ \A n \in DOMAIN ms : ms[n] \in DOMAIN os /\ os[ms[n]].name = n /\ os[ms[n]].state # "failed"

\* A body loads an object that is being loaded, and no other does.
BodiesLoad(fr, os) ==
  /\ \A t \in Threads : \A k \in BodiesOf(fr[t]) : fr[t][k].obj \in DOMAIN os /\ os[fr[t][k].obj].state = "loading"
  /\ \A t, u \in Threads : \A k \in BodiesOf(fr[t]), l \in BodiesOf(fr[u]) : fr[t][k].obj = fr[u][l].obj => t = u /\ k = l
  /\ \A i \in DOMAIN os : os[i].state = "loading" => \E t \in Threads : \E k \in BodiesOf(fr[t]) : fr[t][k].obj = i

\* The inductive invariant.
Right(fr, os, ms, md) == ModulesChained(fr, md) /\ ObjectsKnown(os, ms) /\ BodiesLoad(fr, os)
ImportInv == StacksRight(frames) /\ Right(frames, objs, modules, module)
-----------------------------------------------------------------------------
(* Stacks of frames.                                                       *)

LEMMA SeqRange ==
  ASSUME NEW S, NEW s \in Seq(S)
  PROVE  s \in Seq(Range(s))
<1>1. Len(s) \in Nat /\ DOMAIN s = 1 .. Len(s) /\ s = [k \in 1 .. Len(s) |-> s[k]]
  OBVIOUS
<1>2. \A k \in 1 .. Len(s) : s[k] \in Range(s)
  BY <1>1 DEF Range
<1>3. s \in [1 .. Len(s) -> Range(s)]
  BY <1>1, <1>2
<1>4. QED
  BY <1>1, <1>3

LEMMA StackedIs ==
  ASSUME NEW S, NEW fr \in [Threads -> Seq(S)]
  PROVE  Stacked(fr)
<1> DEFINE All == UNION {Range(fr[t]) : t \in Threads}
<1>1. ASSUME NEW t \in Threads
      PROVE  fr[t] \in Seq(All)
  <2>1. fr[t] \in Seq(Range(fr[t]))
    <3>1. fr[t] \in Seq(S)
      OBVIOUS
    <3>2. QED
      BY <3>1, SeqRange, Zenon
  <2>2. Range(fr[t]) \subseteq All
    BY Zenon
  <2>3. QED
    BY <2>1, <2>2
<1>2. QED
  BY <1>1 DEF Stacked

\* What the stacks are after a frame is entered, left or changed.

IsPushed(new, fr, t, f) ==
  /\ Stacked(new) /\ Len(fr[t]) \in Nat /\ DOMAIN fr[t] = 1 .. Len(fr[t])
  /\ \A u \in Threads \ {t} : new[u] = fr[u]
  /\ Len(new[t]) = Len(fr[t]) + 1 /\ DOMAIN new[t] = 1 .. Len(fr[t]) + 1
  /\ \A k \in 1 .. Len(fr[t]) : new[t][k] = fr[t][k]
  /\ new[t][Len(fr[t]) + 1] = f
IsPopped(new, fr, t) ==
  /\ Stacked(new) /\ Len(fr[t]) \in Nat \ {0} /\ DOMAIN fr[t] = 1 .. Len(fr[t])
  /\ \A u \in Threads \ {t} : new[u] = fr[u]
  /\ Len(new[t]) = Len(fr[t]) - 1 /\ DOMAIN new[t] = 1 .. Len(fr[t]) - 1
  /\ \A k \in 1 .. Len(fr[t]) - 1 : new[t][k] = fr[t][k]
IsTurned(new, fr, t, f) ==
  /\ Stacked(new) /\ Len(fr[t]) \in Nat \ {0} /\ DOMAIN fr[t] = 1 .. Len(fr[t])
  /\ \A u \in Threads \ {t} : new[u] = fr[u]
  /\ Len(new[t]) = Len(fr[t]) /\ DOMAIN new[t] = 1 .. Len(fr[t])
  /\ \A k \in 1 .. Len(fr[t]) - 1 : new[t][k] = fr[t][k]
  /\ new[t][Len(fr[t])] = f

LEMMA StackOf ==
  ASSUME NEW fr, Stacked(fr), NEW t \in Threads
  PROVE  /\ fr[t] \in Seq(UNION {Range(fr[u]) : u \in Threads})
         /\ Len(fr[t]) \in Nat /\ DOMAIN fr[t] = 1 .. Len(fr[t])
         /\ fr[t] # <<>> => Len(fr[t]) # 0 /\ Last(fr[t]) = fr[t][Len(fr[t])]
         /\ fr[t] = <<>> => Len(fr[t]) = 0
<1>1. fr[t] \in Seq(UNION {Range(fr[u]) : u \in Threads})
  BY DEF Stacked
<1>2. QED
  BY <1>1 DEF Last

\* r is s and x after it; r is s without its last.
IsAppended(r, S, s, x) ==
  /\ r \in Seq(S) /\ Len(r) = Len(s) + 1 /\ DOMAIN r = 1 .. Len(s) + 1
  /\ \A i \in 1 .. Len(s) : r[i] = s[i]
  /\ r[Len(s) + 1] = x
IsFront(r, S, s) ==
  /\ r \in Seq(S) /\ Len(r) = Len(s) - 1 /\ DOMAIN r = 1 .. Len(s) - 1
  /\ \A i \in 1 .. Len(s) - 1 : r[i] = s[i]

LEMMA Appended ==
  ASSUME NEW S, NEW s \in Seq(S), NEW x \in S
  PROVE  IsAppended(Append(s, x), S, s, x)
BY DEF IsAppended

LEMMA FrontOf ==
  ASSUME NEW S, NEW s \in Seq(S), s # <<>>
  PROVE  IsFront(Front(s), S, s)
<1>1. Len(s) \in Nat \ {0}
  OBVIOUS
<1>2. Front(s) = SubSeq(s, 1, Len(s) - 1)
  BY DEF Front
<1>3. \A i \in 1 .. Len(s) - 1 : s[i] \in S
  BY <1>1
<1>4. SubSeq(s, 1, Len(s) - 1) = [i \in 1 .. Len(s) - 1 |-> s[i]]
  BY <1>1
<1>5. ASSUME NEW n \in Nat, NEW q \in [1 .. n -> S]
      PROVE  q \in Seq(S) /\ Len(q) = n
  OBVIOUS
<1>6. Len(s) - 1 \in Nat /\ [i \in 1 .. Len(s) - 1 |-> s[i]] \in [1 .. Len(s) - 1 -> S]
  BY <1>1, <1>3
<1>7. SubSeq(s, 1, Len(s) - 1) \in Seq(S) /\ Len(SubSeq(s, 1, Len(s) - 1)) = Len(s) - 1
  BY <1>4, <1>5, <1>6, Zenon
<1>8. QED
  BY <1>1, <1>2, <1>4, <1>7 DEF IsFront

LEMMA PushedIs ==
  ASSUME NEW fr, Stacked(fr), NEW t \in Threads, NEW f, NEW new, new = [fr EXCEPT ![t] = Append(@, f)]
  PROVE  IsPushed(new, fr, t, f)
<1> DEFINE S == UNION {Range(fr[u]) : u \in Threads}
           W == S \cup {f}
<1>1. fr \in [Threads -> Seq(S)]
  BY DEF Stacked
<1>2. \A u \in Threads : fr[u] \in Seq(W)
  <2>1. S \subseteq W
    OBVIOUS
  <2> HIDE DEF S, W
  <2>2. QED
    BY <1>1, <2>1
<1>3. f \in W
  OBVIOUS
<1> HIDE DEF S, W
<1>4. IsAppended(Append(fr[t], f), W, fr[t], f)
  BY <1>2, <1>3, Appended, Zenon
<1>5. new \in [Threads -> Seq(W)] /\ new[t] = Append(fr[t], f) /\ \A u \in Threads \ {t} : new[u] = fr[u]
  BY <1>1, <1>2, <1>4 DEF IsAppended
<1>6. Stacked(new)
  BY <1>5, StackedIs, Zenon
<1>7. QED
  BY <1>4, <1>5, <1>6, StackOf DEF IsPushed, IsAppended

LEMMA PoppedIs ==
  ASSUME NEW fr, Stacked(fr), NEW t \in Threads, fr[t] # <<>>, NEW new, new = [fr EXCEPT ![t] = Front(@)]
  PROVE  IsPopped(new, fr, t)
<1> DEFINE S == UNION {Range(fr[u]) : u \in Threads}
<1>1. fr \in [Threads -> Seq(S)]
  BY DEF Stacked
<1> HIDE DEF S
<1>2. IsFront(Front(fr[t]), S, fr[t])
  BY <1>1, FrontOf
<1>3. new \in [Threads -> Seq(S)] /\ new[t] = Front(fr[t]) /\ \A u \in Threads \ {t} : new[u] = fr[u]
  BY <1>1, <1>2 DEF IsFront
<1>4. Stacked(new)
  BY <1>3, StackedIs, Zenon
<1>5. Len(fr[t]) \in Nat \ {0} /\ DOMAIN fr[t] = 1 .. Len(fr[t])
  BY StackOf
<1>6. QED
  BY <1>2, <1>3, <1>4, <1>5 DEF IsPopped, IsFront

LEMMA TurnedIs ==
  ASSUME NEW fr, Stacked(fr), NEW t \in Threads, fr[t] # <<>>, NEW f, NEW new,
         new = [fr EXCEPT ![t] = Append(Front(@), f)]
  PROVE  IsTurned(new, fr, t, f)
<1> DEFINE S == UNION {Range(fr[u]) : u \in Threads}
           W == S \cup {f}
<1>1. fr \in [Threads -> Seq(S)]
  BY DEF Stacked
<1>2. \A u \in Threads : fr[u] \in Seq(W)
  <2>1. S \subseteq W
    OBVIOUS
  <2> HIDE DEF S, W
  <2>2. QED
    BY <1>1, <2>1
<1>3. f \in W
  OBVIOUS
<1> HIDE DEF S, W
<1>4. IsFront(Front(fr[t]), W, fr[t])
  BY <1>2, FrontOf
<1> DEFINE p == Front(fr[t])
<1>5. p \in Seq(W)
  BY <1>4 DEF IsFront
<1>6. IsAppended(Append(p, f), W, p, f)
  BY <1>3, <1>5, Appended, Zenon
<1>7. new \in [Threads -> Seq(W)] /\ new[t] = Append(p, f) /\ \A u \in Threads \ {t} : new[u] = fr[u]
  BY <1>1, <1>2, <1>6 DEF IsAppended
<1>8. Stacked(new)
  BY <1>7, StackedIs, Zenon
<1>9. Len(fr[t]) \in Nat \ {0} /\ DOMAIN fr[t] = 1 .. Len(fr[t])
  BY StackOf
<1> HIDE DEF p
<1>10. Len(p) = Len(fr[t]) - 1 /\ \A i \in 1 .. Len(fr[t]) - 1 : p[i] = fr[t][i]
  BY <1>4 DEF IsFront, p
<1>11. /\ Len(new[t]) = Len(p) + 1 /\ DOMAIN new[t] = 1 .. Len(p) + 1
       /\ \A i \in 1 .. Len(p) : new[t][i] = p[i]
       /\ new[t][Len(p) + 1] = f
  BY <1>6, <1>7, Zenon DEF IsAppended
<1>12. (Len(fr[t]) - 1) + 1 = Len(fr[t])
  BY <1>9
<1>13. QED
  BY <1>7, <1>8, <1>9, <1>10, <1>11, <1>12 DEF IsTurned
-----------------------------------------------------------------------------
(* Bodies on the stacks.                                                   *)

\* The same bodies, one more on top, and one less.
SameBody(g, f) == g.kind = f.kind /\ (f.kind = "body" => g.obj = f.obj /\ g.enclosing = f.enclosing)
BodiesKept(new, fr, t) == \A k \in BodiesOf(new[t]) \cap BodiesOf(fr[t]) : SameBody(new[t][k], fr[t][k])
SameBodies(new, fr) == \A t \in Threads : BodiesOf(new[t]) = BodiesOf(fr[t]) /\ BodiesKept(new, fr, t)
BodyOnTop(new, fr, t, f) ==
  /\ \A u \in Threads \ {t} : new[u] = fr[u]
  /\ BodiesKept(new, fr, t)
  /\ f.kind = "body"
  /\ \E n \in Nat : /\ \A k \in BodiesOf(fr[t]) : k \in Nat /\ k < n
                    /\ BodiesOf(new[t]) = BodiesOf(fr[t]) \cup {n}
                    /\ new[t][n] = f

LEMMA SameBodiesTwice ==
  ASSUME NEW a, NEW b, NEW c, SameBodies(a, b), SameBodies(b, c)
  PROVE  SameBodies(a, c)
<1>1. ASSUME NEW t \in Threads
      PROVE  BodiesOf(a[t]) = BodiesOf(c[t]) /\ BodiesKept(a, c, t)
  <2>1. BodiesOf(a[t]) = BodiesOf(b[t]) /\ BodiesOf(b[t]) = BodiesOf(c[t]) /\ BodiesKept(a, b, t) /\ BodiesKept(b, c, t)
    BY DEF SameBodies
  <2>2. ASSUME NEW k \in BodiesOf(a[t]) \cap BodiesOf(c[t])
        PROVE  SameBody(a[t][k], c[t][k])
    <3>1. SameBody(a[t][k], b[t][k]) /\ SameBody(b[t][k], c[t][k])
      BY <2>1 DEF BodiesKept
    <3>2. QED
      BY <3>1 DEF SameBody
  <2>3. QED
    BY <2>1, <2>2 DEF BodiesKept
<1>2. QED
  BY <1>1 DEF SameBodies

LEMMA Turned ==
  ASSUME NEW fr, StacksRight(fr), NEW t \in Threads, fr[t] # <<>>, NEW f, IsFrame(f), SameBody(f, Last(fr[t])),
         NEW new, new = [fr EXCEPT ![t] = Append(Front(@), f)]
  PROVE  StacksRight(new) /\ SameBodies(new, fr)
<1>1. IsTurned(new, fr, t, f)
  BY TurnedIs DEF StacksRight
<1>2. Last(fr[t]) = fr[t][Len(fr[t])] /\ Len(fr[t]) \in Nat \ {0}
  <2>1. Stacked(fr)
    BY DEF StacksRight
  <2>2. Len(fr[t]) # 0
    BY <2>1 DEF Stacked
  <2>3. Last(fr[t]) = fr[t][Len(fr[t])]
    BY <2>1, StackOf, Zenon
  <2>4. Len(fr[t]) \in Nat /\ DOMAIN fr[t] = 1 .. Len(fr[t])
    BY <2>1, StackOf, Zenon
  <2>5. QED
    BY <2>2, <2>3, <2>4
<1>3. ASSUME NEW u \in Threads
      PROVE  DOMAIN new[u] = DOMAIN fr[u]
  BY <1>1, <1>2 DEF IsTurned
<1>4. ASSUME NEW u \in Threads, NEW k \in DOMAIN new[u]
      PROVE  SameBody(new[u][k], fr[u][k]) /\ IsFrame(new[u][k])
  <2>1. CASE u = t /\ k = Len(fr[t])
    BY <1>1, <1>2, <2>1 DEF IsTurned
  <2>2. CASE ~(u = t /\ k = Len(fr[t]))
    <3>1. new[u][k] = fr[u][k]
      BY <1>1, <1>2, <2>2 DEF IsTurned
    <3>2. IsFrame(fr[u][k])
      BY <1>3 DEF StacksRight
    <3>3. QED
      BY <3>1, <3>2 DEF SameBody
  <2>3. QED
    BY <2>1, <2>2
<1>5. StacksRight(new)
  <2>1. \A u \in Threads : \A k \in DOMAIN new[u] : new[u][k].kind = "body" => k > 1
    BY <1>3, <1>4 DEF StacksRight, SameBody
  <2>2. Stacked(new)
    BY <1>1 DEF IsTurned
  <2>3. QED
    BY <1>4, <2>1, <2>2 DEF StacksRight
<1>6. SameBodies(new, fr)
  <2>1. \A u \in Threads : BodiesOf(new[u]) = BodiesOf(fr[u])
    BY <1>3, <1>4 DEF BodiesOf, SameBody
  <2>2. \A u \in Threads : \A k \in BodiesOf(new[u]) : k \in DOMAIN new[u]
    BY DEF BodiesOf
  <2>3. QED
    BY <1>4, <2>1, <2>2 DEF SameBodies, BodiesKept
<1>7. QED
  BY <1>5, <1>6

LEMMA Entered ==
  ASSUME NEW fr, StacksRight(fr), NEW t \in Threads, NEW f, IsFrame(f), f.kind # "body",
         NEW new, new = [fr EXCEPT ![t] = Append(@, f)]
  PROVE  StacksRight(new) /\ SameBodies(new, fr)
<1>1. IsPushed(new, fr, t, f)
  BY PushedIs DEF StacksRight
<1>2. ASSUME NEW u \in Threads, NEW k \in DOMAIN new[u]
      PROVE  \/ k \in DOMAIN fr[u] /\ new[u][k] = fr[u][k]
             \/ k \notin DOMAIN fr[u] /\ new[u][k] = f
  BY <1>1 DEF IsPushed
<1>3. \A u \in Threads : DOMAIN fr[u] \subseteq DOMAIN new[u]
  BY <1>1 DEF IsPushed
<1>4. StacksRight(new)
  <2>1. Stacked(new)
    BY <1>1 DEF IsPushed
  <2>2. QED
    BY <1>2, <2>1 DEF StacksRight
<1>5. \A u \in Threads : BodiesOf(new[u]) = BodiesOf(fr[u])
  BY <1>2, <1>3 DEF BodiesOf
<1>6. \A u \in Threads : \A k \in BodiesOf(fr[u]) : new[u][k] = fr[u][k]
  BY <1>2, <1>3 DEF BodiesOf
<1>7. QED
  BY <1>4, <1>5, <1>6 DEF SameBodies, BodiesKept, SameBody

LEMMA BodyEntered ==
  ASSUME NEW fr, StacksRight(fr), NEW t \in Threads, fr[t] # <<>>, NEW f, IsFrame(f), f.kind = "body",
         NEW new, new = [fr EXCEPT ![t] = Append(@, f)]
  PROVE  StacksRight(new) /\ BodyOnTop(new, fr, t, f)
<1>1. IsPushed(new, fr, t, f)
  BY PushedIs DEF StacksRight
<1>2. Len(fr[t]) \in Nat \ {0}
  BY StackOf DEF StacksRight
<1>3. ASSUME NEW u \in Threads, NEW k \in DOMAIN new[u]
      PROVE  \/ k \in DOMAIN fr[u] /\ new[u][k] = fr[u][k]
             \/ u = t /\ k = Len(fr[t]) + 1 /\ new[u][k] = f
  BY <1>1 DEF IsPushed
<1>4. \A u \in Threads : DOMAIN fr[u] \subseteq DOMAIN new[u]
  BY <1>1 DEF IsPushed
<1>5. StacksRight(new)
  <2>1. Stacked(new)
    BY <1>1 DEF IsPushed
  <2>2. Len(fr[t]) + 1 > 1
    BY <1>2
  <2>3. QED
    BY <1>3, <2>1, <2>2 DEF StacksRight
<1>6. \A k \in BodiesOf(fr[t]) : k \in Nat /\ k < Len(fr[t]) + 1 /\ new[t][k] = fr[t][k]
  BY <1>1, <1>2 DEF BodiesOf, IsPushed
<1>7. BodiesOf(new[t]) = BodiesOf(fr[t]) \cup {Len(fr[t]) + 1}
  <2>1. Len(fr[t]) + 1 \in DOMAIN new[t] /\ new[t][Len(fr[t]) + 1] = f
    BY <1>1, <1>2 DEF IsPushed
  <2>2. \A k \in BodiesOf(fr[t]) : k \in DOMAIN new[t]
    BY <1>4 DEF BodiesOf
  <2>3. QED
    BY <1>3, <1>6, <2>1, <2>2 DEF BodiesOf
<1>8. new[t][Len(fr[t]) + 1] = f /\ Len(fr[t]) + 1 \in Nat /\ \A u \in Threads \ {t} : new[u] = fr[u]
  BY <1>1, <1>2 DEF IsPushed
<1>9. BodyOnTop(new, fr, t, f)
  BY <1>6, <1>7, <1>8 DEF BodyOnTop, BodiesKept, SameBody
<1>10. QED
  BY <1>5, <1>9

\* Leaving a body is entering it backwards.
LEMMA LeftOne ==
  ASSUME NEW fr, StacksRight(fr), NEW t \in Threads, fr[t] # <<>>,
         NEW new, new = [fr EXCEPT ![t] = Front(@)]
  PROVE  /\ StacksRight(new)
         /\ Last(fr[t]).kind # "body" => SameBodies(new, fr)
         /\ Last(fr[t]).kind = "body" => BodyOnTop(fr, new, t, Last(fr[t])) /\ new[t] # <<>>
<1>1. IsPopped(new, fr, t)
  BY PoppedIs DEF StacksRight
<1>2. Last(fr[t]) = fr[t][Len(fr[t])] /\ Len(fr[t]) \in Nat \ {0} /\ DOMAIN fr[t] = 1 .. Len(fr[t])
  <2>1. Stacked(fr)
    BY DEF StacksRight
  <2>2. Len(fr[t]) # 0
    BY <2>1 DEF Stacked
  <2>3. Last(fr[t]) = fr[t][Len(fr[t])]
    BY <2>1, StackOf, Zenon
  <2>4. Len(fr[t]) \in Nat /\ DOMAIN fr[t] = 1 .. Len(fr[t])
    BY <2>1, StackOf, Zenon
  <2>5. QED
    BY <2>2, <2>3, <2>4
<1>3. ASSUME NEW u \in Threads, NEW k \in DOMAIN new[u]
      PROVE  k \in DOMAIN fr[u] /\ new[u][k] = fr[u][k]
  BY <1>1 DEF IsPopped
<1>4. ASSUME NEW u \in Threads, NEW k \in DOMAIN fr[u]
      PROVE  k \in DOMAIN new[u] \/ (u = t /\ k = Len(fr[t]))
  BY <1>1, <1>2 DEF IsPopped
<1>5. StacksRight(new)
  <2>1. Stacked(new)
    BY <1>1 DEF IsPopped
  <2>2. QED
    BY <1>3, <2>1 DEF StacksRight
<1>6. ASSUME Last(fr[t]).kind # "body"
      PROVE  SameBodies(new, fr)
  <2>1. \A u \in Threads : BodiesOf(new[u]) = BodiesOf(fr[u])
    BY <1>2, <1>3, <1>4, <1>6 DEF BodiesOf
  <2>2. \A u \in Threads : \A k \in BodiesOf(new[u]) : new[u][k] = fr[u][k]
    BY <1>3 DEF BodiesOf
  <2>3. QED
    BY <2>1, <2>2 DEF SameBodies, BodiesKept, SameBody
<1>7. ASSUME Last(fr[t]).kind = "body"
      PROVE  BodyOnTop(fr, new, t, Last(fr[t])) /\ new[t] # <<>>
  <2>1. Len(fr[t]) > 1
    BY <1>2, <1>7 DEF StacksRight
  <2>2. new[t] # <<>>
    <3>1. Len(new[t]) # 0
      BY <1>1, <1>2, <2>1 DEF IsPopped
    <3>2. QED
      BY <3>1
  <2>3. \A k \in BodiesOf(new[t]) : k \in Nat /\ k < Len(fr[t]) /\ new[t][k] = fr[t][k]
    BY <1>1, <1>2, <1>3 DEF BodiesOf, IsPopped
  <2>4. BodiesOf(fr[t]) = BodiesOf(new[t]) \cup {Len(fr[t])}
    BY <1>2, <1>3, <1>4, <1>7 DEF BodiesOf
  <2>5. \A u \in Threads \ {t} : fr[u] = new[u]
    BY <1>1 DEF IsPopped
  <2>6. QED
    BY <1>2, <1>7, <2>2, <2>3, <2>4, <2>5 DEF BodyOnTop, BodiesKept, SameBody
<1>8. QED
  BY <1>5, <1>6, <1>7
-----------------------------------------------------------------------------
(* What is kept of the objects and the table while the bodies stay.        *)

\* The objects are the same but for their attributes.
SameObjects(ns, os) ==
  /\ ns \in Seq(Range(ns)) /\ DOMAIN ns = DOMAIN os
  /\ \A i \in DOMAIN os : DOMAIN ns[i] = DOMAIN os[i] /\ ns[i].name = os[i].name /\ ns[i].state = os[i].state

LEMMA ObjectSet ==
  ASSUME NEW os, os \in Seq(Range(os)), NEW i, NEW x, NEW ns, ns = [os EXCEPT ![i] = x]
  PROVE  ns \in Seq(Range(ns)) /\ DOMAIN ns = DOMAIN os /\ \A j \in DOMAIN os : ns[j] = IF j = i THEN x ELSE os[j]
<1>1. Len(os) \in Nat /\ DOMAIN os = 1 .. Len(os)
  OBVIOUS
<1> DEFINE W == Range(os) \cup {x}
<1>2. \A j \in 1 .. Len(os) : os[j] \in W
  BY <1>1 DEF Range
<1>3. x \in W
  OBVIOUS
<1> HIDE DEF W
<1>4. DOMAIN ns = 1 .. Len(os) /\ ns = [j \in 1 .. Len(os) |-> ns[j]] /\ \A j \in 1 .. Len(os) : ns[j] = IF j = i THEN x ELSE os[j]
  BY <1>1
<1>5. ns \in [1 .. Len(os) -> W]
  BY <1>2, <1>3, <1>4
<1>6. ns \in Seq(W)
  <2>1. ASSUME NEW n \in Nat, NEW q \in [1 .. n -> W]
        PROVE  q \in Seq(W)
    OBVIOUS
  <2>2. QED
    BY <1>1, <1>5, <2>1, Zenon
<1>7. ns \in Seq(Range(ns))
  BY <1>6, SeqRange
<1>8. QED
  BY <1>1, <1>4, <1>7

LEMMA FieldSet ==
  ASSUME NEW os, os \in Seq(Range(os)), NEW i, NEW v, NEW ns, ns = [os EXCEPT ![i].fields = v]
  PROVE  SameObjects(ns, os)
<1>1. ns = [os EXCEPT ![i] = [os[i] EXCEPT !.fields = v]]
  OBVIOUS
<1> DEFINE x == [os[i] EXCEPT !.fields = v]
<1>2. DOMAIN x = DOMAIN os[i] /\ \A n \in DOMAIN os[i] : n # "fields" => x[n] = os[i][n]
  OBVIOUS
<1> HIDE DEF x
<1>3. ns = [os EXCEPT ![i] = x]
  BY <1>1 DEF x
<1>4. ns \in Seq(Range(ns)) /\ DOMAIN ns = DOMAIN os /\ \A j \in DOMAIN os : ns[j] = IF j = i THEN x ELSE os[j]
  BY <1>3, ObjectSet
<1>5. QED
  BY <1>2, <1>4 DEF SameObjects

LEMMA BodiesSame ==
  ASSUME NEW new, NEW fr, SameBodies(new, fr), NEW ns, NEW os, SameObjects(ns, os), NEW ms, NEW md, Right(fr, os, ms, md)
  PROVE  Right(new, ns, ms, md)
<1>1. \A t \in Threads : BodiesOf(new[t]) = BodiesOf(fr[t])
  BY DEF SameBodies
<1>2. \A t \in Threads : \A k \in BodiesOf(fr[t]) : new[t][k].obj = fr[t][k].obj /\ new[t][k].enclosing = fr[t][k].enclosing
  BY DEF SameBodies, BodiesKept, SameBody, BodiesOf
<1>3. ModulesChained(new, md)
  <2>1. ASSUME NEW t \in Threads, NEW B, B \subseteq BodiesOf(fr[t]), NEW m, Innermost(fr[t], B, m)
        PROVE  Innermost(new[t], B, m)
    BY <1>2, <2>1 DEF Innermost
  <2>2. ASSUME NEW t \in Threads
        PROVE  Innermost(new[t], BodiesOf(new[t]), md[t])
    BY <1>1, <2>1 DEF Right, ModulesChained
  <2>3. ASSUME NEW t \in Threads, NEW k \in BodiesOf(new[t])
        PROVE  Innermost(new[t], {j \in BodiesOf(new[t]) : j < k}, new[t][k].enclosing)
    <3> DEFINE B == {j \in BodiesOf(fr[t]) : j < k}
    <3>1. Innermost(fr[t], B, fr[t][k].enclosing)
      BY <1>1 DEF Right, ModulesChained
    <3>2. B \subseteq BodiesOf(fr[t])
      OBVIOUS
    <3> HIDE DEF B
    <3>3. Innermost(new[t], B, new[t][k].enclosing)
      BY <1>1, <1>2, <2>1, <3>1, <3>2
    <3>4. QED
      BY <1>1, <3>3 DEF B
  <2>4. QED
    BY <2>2, <2>3 DEF Right, ModulesChained
<1>4. ObjectsKnown(ns, ms)
  BY DEF Right, ObjectsKnown, SameObjects
<1>5. BodiesLoad(new, ns)
  <2>1. \A i \in DOMAIN os : ns[i].state = os[i].state
    BY DEF SameObjects
  <2>2. DOMAIN ns = DOMAIN os
    BY DEF SameObjects
  <2>3. BodiesLoad(fr, os)
    BY DEF Right
  <2>4. QED
    BY <1>1, <1>2, <2>1, <2>2, <2>3 DEF BodiesLoad
<1>6. QED
  BY <1>3, <1>4, <1>5 DEF Right
-----------------------------------------------------------------------------
(* A body begins, or is over.                                              *)

\* f is the body at n, above those of fr.
OnTopAt(new, fr, t, f, n) ==
  /\ n \in BodiesOf(new[t]) \ BodiesOf(fr[t])
  /\ new[t][n] = f
  /\ \A u \in Threads : \A k \in BodiesOf(new[u]) : k \in BodiesOf(fr[u]) \/ (u = t /\ k = n)
  /\ n \in Nat /\ \A k \in BodiesOf(fr[t]) : k \in Nat /\ k < n

LEMMA OnTop ==
  ASSUME NEW new, NEW fr, NEW t \in Threads, NEW f, BodyOnTop(new, fr, t, f)
  PROVE  /\ \A u \in Threads : \A k \in BodiesOf(fr[u]) :
              k \in BodiesOf(new[u]) /\ new[u][k].obj = fr[u][k].obj /\ new[u][k].enclosing = fr[u][k].enclosing
         /\ \E n : OnTopAt(new, fr, t, f, n)
<1>1. PICK n \in Nat : /\ \A k \in BodiesOf(fr[t]) : k \in Nat /\ k < n
                       /\ BodiesOf(new[t]) = BodiesOf(fr[t]) \cup {n}
                       /\ new[t][n] = f
  BY DEF BodyOnTop
<1>2. ASSUME NEW u \in Threads, NEW k \in BodiesOf(fr[u])
      PROVE  k \in BodiesOf(new[u]) /\ new[u][k].obj = fr[u][k].obj /\ new[u][k].enclosing = fr[u][k].enclosing
  <2>1. CASE u = t
    <3>1. k \in BodiesOf(new[t]) /\ fr[t][k].kind = "body"
      BY <1>1, <2>1 DEF BodiesOf
    <3>2. SameBody(new[t][k], fr[t][k])
      BY <2>1, <3>1 DEF BodyOnTop, BodiesKept
    <3>3. QED
      BY <2>1, <3>1, <3>2 DEF SameBody
  <2>2. CASE u # t
    BY <2>2 DEF BodyOnTop
  <2>3. QED
    BY <2>1, <2>2
<1>3. n \notin BodiesOf(fr[t])
  BY <1>1
<1>4. \A u \in Threads : u # t => new[u] = fr[u]
  BY DEF BodyOnTop
<1>5. \A u \in Threads : \A k \in BodiesOf(new[u]) : k \in BodiesOf(fr[u]) \/ (u = t /\ k = n)
  BY <1>1, <1>4
<1>6. n \in BodiesOf(new[t]) \ BodiesOf(fr[t])
  BY <1>1, <1>3
<1>7. OnTopAt(new, fr, t, f, n)
  BY <1>1, <1>5, <1>6 DEF OnTopAt
<1>8. QED
  BY <1>2, <1>7

LEMMA InnermostSame ==
  ASSUME NEW s, NEW r, NEW B, \A k \in B : s[k].obj = r[k].obj, NEW m
  PROVE  Innermost(s, B, m) <=> Innermost(r, B, m)
BY DEF Innermost

LEMMA ChainGrows ==
  ASSUME NEW fr, NEW md, ModulesChained(fr, md), NEW t \in Threads, NEW new, NEW f, BodyOnTop(new, fr, t, f),
         f.enclosing = md[t], NEW nd, nd = [md EXCEPT ![t] = f.obj]
  PROVE  ModulesChained(new, nd)
<1>0. PICK n : OnTopAt(new, fr, t, f, n)
  BY OnTop
<1>1. /\ n \in BodiesOf(new[t]) \ BodiesOf(fr[t])
      /\ new[t][n] = f
      /\ \A u \in Threads : \A k \in BodiesOf(new[u]) : k \in BodiesOf(fr[u]) \/ (u = t /\ k = n)
      /\ n \in Nat /\ \A k \in BodiesOf(fr[t]) : k \in Nat /\ k < n
  BY <1>0 DEF OnTopAt
<1>2. \A u \in Threads : \A k \in BodiesOf(fr[u]) :
        k \in BodiesOf(new[u]) /\ new[u][k].obj = fr[u][k].obj /\ new[u][k].enclosing = fr[u][k].enclosing
  BY OnTop
<1>3. DOMAIN nd = Threads /\ nd[t] = f.obj /\ \A u \in Threads \ {t} : nd[u] = md[u]
  BY DEF ModulesChained
<1>4. \A u \in Threads \ {t} : new[u] = fr[u]
  BY DEF BodyOnTop
<1>5. ASSUME NEW u \in Threads
      PROVE  Innermost(new[u], BodiesOf(new[u]), nd[u])
  <2>1. CASE u = t
    <3>1. \A j \in BodiesOf(new[t]) : j <= n
      BY <1>1
    <3>2. QED
      BY <1>1, <1>3, <2>1, <3>1 DEF Innermost
  <2>2. CASE u # t
    BY <1>3, <1>4, <2>2 DEF ModulesChained
  <2>3. QED
    BY <2>1, <2>2
<1>6. ASSUME NEW u \in Threads, NEW k \in BodiesOf(new[u])
      PROVE  Innermost(new[u], {j \in BodiesOf(new[u]) : j < k}, new[u][k].enclosing)
  <2> DEFINE B == {j \in BodiesOf(new[u]) : j < k}
  <2>1. CASE u # t
    BY <1>4, <2>1 DEF ModulesChained
  <2>2. CASE u = t /\ k = n
    <3>1. B = BodiesOf(fr[t])
      <4>1. \A j \in BodiesOf(new[t]) : j < n => j \in BodiesOf(fr[t])
        BY <1>1
      <4>2. \A j \in BodiesOf(fr[t]) : j \in BodiesOf(new[t]) /\ j < n
        BY <1>1, <1>2
      <4>3. QED
        BY <2>2, <4>1, <4>2, Zenon
    <3>2. Innermost(fr[t], BodiesOf(fr[t]), f.enclosing)
      BY DEF ModulesChained
    <3>3. Innermost(new[t], BodiesOf(fr[t]), f.enclosing)
      BY <1>2, <3>2, InnermostSame
    <3>4. QED
      BY <1>1, <2>2, <3>1, <3>3
  <2>3. CASE u = t /\ k # n
    <3>1. k \in BodiesOf(fr[t])
      BY <1>1, <2>3
    <3>2. B = {j \in BodiesOf(fr[t]) : j < k}
      <4>0. k \in Nat /\ k < n
        BY <1>1, <3>1
      <4>1. \A j \in BodiesOf(new[t]) : j < k => j \in BodiesOf(fr[t])
        BY <1>1, <4>0
      <4>2. \A j \in BodiesOf(fr[t]) : j \in BodiesOf(new[t])
        BY <1>2
      <4>3. QED
        BY <2>3, <4>1, <4>2, Zenon
    <3>3. Innermost(fr[t], B, fr[t][k].enclosing) /\ B \subseteq BodiesOf(fr[t])
      BY <3>1, <3>2 DEF ModulesChained
    <3> HIDE DEF B
    <3>4. Innermost(new[t], B, fr[t][k].enclosing)
      BY <1>2, <3>3, InnermostSame
    <3>5. Innermost(new[u], B, new[u][k].enclosing)
      BY <1>2, <2>3, <3>1, <3>4
    <3>6. QED
      BY <3>5 DEF B
  <2>4. QED
    BY <2>1, <2>2, <2>3
<1>7. QED
  BY <1>3, <1>5, <1>6 DEF ModulesChained

LEMMA ChainShrinks ==
  ASSUME NEW fr, NEW md, ModulesChained(fr, md), NEW t \in Threads, NEW new, NEW f, BodyOnTop(fr, new, t, f),
         NEW nd, nd = [md EXCEPT ![t] = f.enclosing]
  PROVE  ModulesChained(new, nd)
<1>0. PICK n : OnTopAt(fr, new, t, f, n)
  BY OnTop
<1>1. /\ n \in BodiesOf(fr[t]) \ BodiesOf(new[t])
      /\ fr[t][n] = f
      /\ \A u \in Threads : \A k \in BodiesOf(fr[u]) : k \in BodiesOf(new[u]) \/ (u = t /\ k = n)
      /\ n \in Nat /\ \A k \in BodiesOf(new[t]) : k \in Nat /\ k < n
  BY <1>0 DEF OnTopAt
<1>2. \A u \in Threads : \A k \in BodiesOf(new[u]) :
        k \in BodiesOf(fr[u]) /\ fr[u][k].obj = new[u][k].obj /\ fr[u][k].enclosing = new[u][k].enclosing
  BY OnTop
<1>3. DOMAIN nd = Threads /\ nd[t] = f.enclosing /\ \A u \in Threads \ {t} : nd[u] = md[u]
  BY DEF ModulesChained
<1>4. \A u \in Threads \ {t} : new[u] = fr[u]
  BY DEF BodyOnTop
<1>5. ASSUME NEW k \in BodiesOf(fr[t])
      PROVE  Innermost(new[t], {j \in BodiesOf(new[t]) : j < k}, fr[t][k].enclosing)
  <2> DEFINE B == {j \in BodiesOf(new[t]) : j < k}
  <2>1. B = {j \in BodiesOf(fr[t]) : j < k}
    <3>0. k \in BodiesOf(new[t]) \/ k = n
      BY <1>1
    <3>1. k \in Nat /\ k <= n
      <4>1. n \in Nat /\ n <= n
        BY <1>1
      <4>2. \A j \in BodiesOf(new[t]) : j \in Nat /\ j <= n
        BY <1>1
      <4>3. QED
        BY <3>0, <4>1, <4>2, Zenon
    <3>2. \A j \in BodiesOf(fr[t]) : j < k => j \in BodiesOf(new[t])
      BY <1>1, <3>1
    <3>3. \A j \in BodiesOf(new[t]) : j \in BodiesOf(fr[t])
      BY <1>2
    <3>4. QED
      BY <3>2, <3>3, Zenon
  <2>2. Innermost(fr[t], B, fr[t][k].enclosing)
    BY <2>1 DEF ModulesChained
  <2>3. B \subseteq BodiesOf(new[t])
    OBVIOUS
  <2> HIDE DEF B
  <2>4. Innermost(new[t], B, fr[t][k].enclosing)
    BY <1>2, <2>2, <2>3, InnermostSame
  <2>5. QED
    BY <2>4 DEF B
<1>6. ASSUME NEW u \in Threads
      PROVE  Innermost(new[u], BodiesOf(new[u]), nd[u])
  <2>1. CASE u = t
    <3>1. BodiesOf(new[t]) = {j \in BodiesOf(new[t]) : j < n}
      BY <1>1
    <3>2. QED
      BY <1>1, <1>3, <1>5, <2>1, <3>1
  <2>2. CASE u # t
    BY <1>3, <1>4, <2>2 DEF ModulesChained
  <2>3. QED
    BY <2>1, <2>2
<1>7. ASSUME NEW u \in Threads, NEW k \in BodiesOf(new[u])
      PROVE  Innermost(new[u], {j \in BodiesOf(new[u]) : j < k}, new[u][k].enclosing)
  <2>1. CASE u = t
    BY <1>2, <1>5, <2>1
  <2>2. CASE u # t
    BY <1>4, <2>2 DEF ModulesChained
  <2>3. QED
    BY <2>1, <2>2
<1>8. QED
  BY <1>3, <1>6, <1>7 DEF ModulesChained
\* One object more, that has a name the table did not have.
ObjectAdded(ns, os, nt, ms, o) ==
  /\ {"name", "state"} \subseteq DOMAIN o /\ o.name \notin DOMAIN ms
  /\ ns = Append(os, o)
  /\ nt = [n \in DOMAIN ms \cup {o.name} |-> IF n = o.name THEN Len(os) + 1 ELSE ms[n]]

IsOneMore(ns, os, o) ==
  /\ Len(os) \in Nat /\ DOMAIN os = 1 .. Len(os)
  /\ ns \in Seq(Range(ns)) /\ DOMAIN ns = DOMAIN os \cup {Len(os) + 1}
  /\ \A i \in DOMAIN os : ns[i] = os[i]
  /\ ns[Len(os) + 1] = o

LEMMA AddedIs ==
  ASSUME NEW os, NEW ns, NEW ms, NEW nt, NEW o, ObjectsKnown(os, ms), ObjectAdded(ns, os, nt, ms, o)
  PROVE  IsOneMore(ns, os, o)
<1>1. os \in Seq(Range(os))
  BY DEF ObjectsKnown
<1>2. Len(os) \in Nat /\ DOMAIN os = 1 .. Len(os)
  BY <1>1
<1> DEFINE W == Range(os) \cup {o}
<1>3. os \in Seq(W)
  BY <1>1
<1>4. o \in W
  OBVIOUS
<1> HIDE DEF W
<1>5. IsAppended(ns, W, os, o)
  BY <1>3, <1>4, Appended DEF ObjectAdded
<1>6. ns \in Seq(Range(ns))
  BY <1>5, SeqRange DEF IsAppended
<1>7. QED
  BY <1>2, <1>5, <1>6 DEF IsAppended, IsOneMore

LEMMA AddedKnown ==
  ASSUME NEW os, NEW ns, NEW ms, NEW nt, NEW o, ObjectsKnown(os, ms), ObjectAdded(ns, os, nt, ms, o),
         o.state \in {"loading", "done"}
  PROVE  ObjectsKnown(ns, nt)
<1>0. IsOneMore(ns, os, o)
  BY AddedIs, Zenon
<1>1. /\ Len(os) \in Nat /\ DOMAIN os = 1 .. Len(os)
      /\ ns \in Seq(Range(ns)) /\ DOMAIN ns = DOMAIN os \cup {Len(os) + 1}
      /\ \A i \in DOMAIN os : ns[i] = os[i]
      /\ ns[Len(os) + 1] = o
  BY <1>0 DEF IsOneMore
<1>2. /\ {"name", "state"} \subseteq DOMAIN o /\ o.name \notin DOMAIN ms
      /\ DOMAIN nt = DOMAIN ms \cup {o.name} /\ nt[o.name] = Len(os) + 1
      /\ \A n \in DOMAIN ms : nt[n] = ms[n]
  BY DEF ObjectAdded
<1>3. ASSUME NEW i \in DOMAIN ns
      PROVE  /\ {"name", "state"} \subseteq DOMAIN ns[i]
             /\ ns[i].state \in {"loading", "done", "failed"}
             /\ ns[i].state # "failed" => ns[i].name \in DOMAIN nt /\ nt[ns[i].name] = i
  <2>1. CASE i = Len(os) + 1
    BY <1>1, <1>2, <2>1
  <2>2. CASE i \in DOMAIN os
    BY <1>1, <1>2, <2>2 DEF ObjectsKnown
  <2>3. QED
    BY <1>1, <2>1, <2>2
<1>4. ASSUME NEW n \in DOMAIN nt
      PROVE  nt[n] \in DOMAIN ns /\ ns[nt[n]].name = n /\ ns[nt[n]].state # "failed"
  <2>1. CASE n = o.name
    BY <1>1, <1>2, <2>1
  <2>2. CASE n \in DOMAIN ms
    BY <1>1, <1>2, <2>2 DEF ObjectsKnown
  <2>3. QED
    BY <1>2, <2>1, <2>2
<1>5. QED
  BY <1>1, <1>3, <1>4 DEF ObjectsKnown

\* A shared object.
LEMMA AddedDone ==
  ASSUME NEW os, NEW ns, NEW ms, NEW nt, NEW o, ObjectsKnown(os, ms), ObjectAdded(ns, os, nt, ms, o),
         o.state = "done", NEW fr, BodiesLoad(fr, os)
  PROVE  BodiesLoad(fr, ns)
<1>0. IsOneMore(ns, os, o)
  BY AddedIs, Zenon
<1>1. /\ Len(os) \in Nat /\ DOMAIN os = 1 .. Len(os)
      /\ DOMAIN ns = DOMAIN os \cup {Len(os) + 1}
      /\ \A i \in DOMAIN os : ns[i] = os[i]
      /\ ns[Len(os) + 1] = o
  BY <1>0 DEF IsOneMore
<1>2. QED
  BY <1>1 DEF BodiesLoad

LEMMA AddedLoading ==
  ASSUME NEW os, NEW ns, NEW ms, NEW nt, NEW o, ObjectsKnown(os, ms), ObjectAdded(ns, os, nt, ms, o),
         o.state = "loading", NEW fr, BodiesLoad(fr, os),
         NEW t \in Threads, NEW new, NEW f, BodyOnTop(new, fr, t, f), f.obj = Len(os) + 1
  PROVE  BodiesLoad(new, ns)
<1>0. IsOneMore(ns, os, o)
  BY AddedIs, Zenon
<1>1. /\ Len(os) \in Nat /\ DOMAIN os = 1 .. Len(os)
      /\ DOMAIN ns = DOMAIN os \cup {Len(os) + 1}
      /\ \A i \in DOMAIN os : ns[i] = os[i]
      /\ ns[Len(os) + 1] = o
  BY <1>0 DEF IsOneMore
<1>2. Len(os) + 1 \notin DOMAIN os
  BY <1>1
<1>3. PICK n : OnTopAt(new, fr, t, f, n)
  BY OnTop
<1>4. \A u \in Threads : \A k \in BodiesOf(fr[u]) : k \in BodiesOf(new[u]) /\ new[u][k].obj = fr[u][k].obj
  BY OnTop
<1>5. ASSUME NEW u \in Threads, NEW k \in BodiesOf(new[u])
      PROVE  \/ k \in BodiesOf(fr[u]) /\ new[u][k].obj = fr[u][k].obj /\ new[u][k].obj \in DOMAIN os
                                      /\ os[new[u][k].obj].state = "loading"
             \/ u = t /\ k = n /\ new[u][k].obj = Len(os) + 1
  BY <1>3, <1>4 DEF OnTopAt, BodiesLoad
<1>6. ASSUME NEW u \in Threads, NEW k \in BodiesOf(new[u])
      PROVE  new[u][k].obj \in DOMAIN ns /\ ns[new[u][k].obj].state = "loading"
  BY <1>1, <1>5
<1>7. ASSUME NEW u \in Threads, NEW v \in Threads, NEW k \in BodiesOf(new[u]), NEW l \in BodiesOf(new[v]),
             new[u][k].obj = new[v][l].obj
      PROVE  u = v /\ k = l
  <2>1. CASE k \in BodiesOf(fr[u]) /\ l \in BodiesOf(fr[v])
    <3>1. fr[u][k].obj = fr[v][l].obj
      BY <1>4, <1>7, <2>1
    <3>2. QED
      BY <2>1, <3>1 DEF BodiesLoad
  <2>2. CASE u = t /\ k = n /\ v = t /\ l = n
    BY <2>2
  <2>3. CASE new[u][k].obj \in DOMAIN os /\ new[v][l].obj = Len(os) + 1
    BY <1>2, <1>7, <2>3
  <2>4. CASE new[v][l].obj \in DOMAIN os /\ new[u][k].obj = Len(os) + 1
    BY <1>2, <1>7, <2>4
  <2>5. QED
    BY <1>5, <2>1, <2>2, <2>3, <2>4
<1>8. ASSUME NEW i \in DOMAIN ns, ns[i].state = "loading"
      PROVE  \E u \in Threads : \E k \in BodiesOf(new[u]) : new[u][k].obj = i
  <2>1. CASE i = Len(os) + 1
    BY <1>3, <2>1 DEF OnTopAt
  <2>2. CASE i \in DOMAIN os
    <3>1. PICK u \in Threads : \E k \in BodiesOf(fr[u]) : fr[u][k].obj = i
      BY <1>1, <1>8, <2>2 DEF BodiesLoad
    <3>2. QED
      BY <1>4, <3>1
  <2>3. QED
    BY <1>1, <2>1, <2>2
<1>9. QED
  BY <1>6, <1>7, <1>8 DEF BodiesLoad

\* The module of a body that is over is complete, or has failed.
IsStateSet(ns, os, i, st) ==
  /\ ns \in Seq(Range(ns)) /\ DOMAIN ns = DOMAIN os
  /\ \A j \in DOMAIN os : /\ DOMAIN ns[j] = DOMAIN os[j] /\ ns[j].name = os[j].name
                          /\ ns[j].state = IF j = i THEN st ELSE os[j].state

LEMMA StateSet ==
  ASSUME NEW os, NEW ms, ObjectsKnown(os, ms), NEW i, NEW st, NEW ns, ns = [os EXCEPT ![i].state = st]
  PROVE  IsStateSet(ns, os, i, st)
<1> DEFINE x == [os[i] EXCEPT !.state = st]
<1>1. ns = [os EXCEPT ![i] = x]
  OBVIOUS
<1>2. i \in DOMAIN os => DOMAIN x = DOMAIN os[i] /\ x.name = os[i].name /\ x.state = st
  BY DEF ObjectsKnown
<1> HIDE DEF x
<1>3. os \in Seq(Range(os))
  BY DEF ObjectsKnown
<1>4. ns \in Seq(Range(ns)) /\ DOMAIN ns = DOMAIN os /\ \A j \in DOMAIN os : ns[j] = IF j = i THEN x ELSE os[j]
  BY <1>1, <1>3, ObjectSet
<1>5. QED
  BY <1>2, <1>4 DEF IsStateSet

LEMMA OverUnloaded ==
  ASSUME NEW os, NEW fr, BodiesLoad(fr, os), NEW t \in Threads, NEW new, NEW f, BodyOnTop(fr, new, t, f),
         NEW ns, NEW st, st # "loading", IsStateSet(ns, os, f.obj, st)
  PROVE  BodiesLoad(new, ns)
<1>0. DOMAIN ns = DOMAIN os /\ \A i \in DOMAIN os : ns[i].state = IF i = f.obj THEN st ELSE os[i].state
  BY DEF IsStateSet
<1>1. PICK n : OnTopAt(fr, new, t, f, n)
  BY OnTop
<1>2. \A u \in Threads : \A k \in BodiesOf(new[u]) : k \in BodiesOf(fr[u]) /\ new[u][k].obj = fr[u][k].obj
  BY OnTop
<1>3. ASSUME NEW u \in Threads, NEW k \in BodiesOf(new[u])
      PROVE  new[u][k].obj # f.obj
  <2>1. n \in BodiesOf(fr[t]) /\ fr[t][n].obj = f.obj /\ n \notin BodiesOf(new[t])
    BY <1>1 DEF OnTopAt
  <2>2. fr[u][k].obj = f.obj => u = t /\ k = n
    BY <1>2, <2>1 DEF BodiesLoad
  <2>3. QED
    BY <1>2, <2>1, <2>2
<1>4. ASSUME NEW u \in Threads, NEW k \in BodiesOf(new[u])
      PROVE  new[u][k].obj \in DOMAIN ns /\ ns[new[u][k].obj].state = "loading"
  BY <1>0, <1>2, <1>3 DEF BodiesLoad
<1>5. ASSUME NEW u \in Threads, NEW v \in Threads, NEW k \in BodiesOf(new[u]), NEW l \in BodiesOf(new[v]),
             new[u][k].obj = new[v][l].obj
      PROVE  u = v /\ k = l
  BY <1>2, <1>5 DEF BodiesLoad
<1>6. ASSUME NEW i \in DOMAIN ns, ns[i].state = "loading"
      PROVE  \E u \in Threads : \E k \in BodiesOf(new[u]) : new[u][k].obj = i
  <2>1. i # f.obj /\ os[i].state = "loading"
    BY <1>0, <1>6
  <2>2. PICK u \in Threads : \E k \in BodiesOf(fr[u]) : fr[u][k].obj = i
    BY <1>0, <1>6, <2>1 DEF BodiesLoad
  <2>3. PICK k \in BodiesOf(fr[u]) : fr[u][k].obj = i
    BY <2>2
  <2>4. k \in BodiesOf(new[u])
    BY <1>1, <2>1, <2>3 DEF OnTopAt
  <2>5. QED
    BY <1>2, <2>3, <2>4
<1>7. QED
  BY <1>4, <1>5, <1>6 DEF BodiesLoad
LEMMA OverDone ==
  ASSUME NEW fr, NEW os, NEW ms, NEW md, Right(fr, os, ms, md),
         NEW t \in Threads, NEW new, NEW f, BodyOnTop(fr, new, t, f),
         NEW ns, IsStateSet(ns, os, f.obj, "done"), NEW nd, nd = [md EXCEPT ![t] = f.enclosing]
  PROVE  Right(new, ns, ms, nd)
<1>1. ModulesChained(fr, md) /\ ObjectsKnown(os, ms) /\ BodiesLoad(fr, os)
  BY DEF Right
<1>2. /\ ns \in Seq(Range(ns)) /\ DOMAIN ns = DOMAIN os
      /\ \A j \in DOMAIN os : /\ DOMAIN ns[j] = DOMAIN os[j] /\ ns[j].name = os[j].name
                              /\ ns[j].state = IF j = f.obj THEN "done" ELSE os[j].state
  BY DEF IsStateSet
<1>3. ModulesChained(new, nd)
  BY <1>1, ChainShrinks
<1>4. BodiesLoad(new, ns)
  <2>1. "done" # "loading"
    OBVIOUS
  <2>2. \A st : st # "loading" /\ IsStateSet(ns, os, f.obj, st) => BodiesLoad(new, ns)
    BY <1>1, OverUnloaded
  <2>3. QED
    BY <2>1, <2>2
<1>5. f.obj \in DOMAIN os /\ os[f.obj].state = "loading"
  <2>1. PICK n : OnTopAt(fr, new, t, f, n)
    BY OnTop
  <2>2. QED
    BY <1>1, <2>1 DEF OnTopAt, BodiesLoad
<1>6. ObjectsKnown(ns, ms)
  <2>1. ASSUME NEW i \in DOMAIN ns
        PROVE  /\ {"name", "state"} \subseteq DOMAIN ns[i]
               /\ ns[i].state \in {"loading", "done", "failed"}
               /\ ns[i].state # "failed" => ns[i].name \in DOMAIN ms /\ ms[ns[i].name] = i
    BY <1>1, <1>2, <1>5 DEF ObjectsKnown
  <2>2. ASSUME NEW n \in DOMAIN ms
        PROVE  ms[n] \in DOMAIN ns /\ ns[ms[n]].name = n /\ ns[ms[n]].state # "failed"
    BY <1>1, <1>2 DEF ObjectsKnown
  <2>3. QED
    BY <1>2, <2>1, <2>2 DEF ObjectsKnown
<1>7. QED
  BY <1>3, <1>4, <1>6 DEF Right

IsForgotten(nt, ms, name) == DOMAIN nt = DOMAIN ms \ {name} /\ \A n \in DOMAIN nt : nt[n] = ms[n]

LEMMA OverFailed ==
  ASSUME NEW fr, NEW os, NEW ms, NEW md, Right(fr, os, ms, md),
         NEW t \in Threads, NEW new, NEW f, BodyOnTop(fr, new, t, f),
         NEW ns, IsStateSet(ns, os, f.obj, "failed"), NEW nd, nd = [md EXCEPT ![t] = f.enclosing],
         NEW nt, IsForgotten(nt, ms, os[f.obj].name)
  PROVE  Right(new, ns, nt, nd)
<1>1. ModulesChained(fr, md) /\ ObjectsKnown(os, ms) /\ BodiesLoad(fr, os)
  BY DEF Right
<1>2. /\ ns \in Seq(Range(ns)) /\ DOMAIN ns = DOMAIN os
      /\ \A j \in DOMAIN os : /\ DOMAIN ns[j] = DOMAIN os[j] /\ ns[j].name = os[j].name
                              /\ ns[j].state = IF j = f.obj THEN "failed" ELSE os[j].state
  BY DEF IsStateSet
<1>3. ModulesChained(new, nd)
  BY <1>1, ChainShrinks
<1>4. BodiesLoad(new, ns)
  <2>1. "failed" # "loading"
    OBVIOUS
  <2>2. \A st : st # "loading" /\ IsStateSet(ns, os, f.obj, st) => BodiesLoad(new, ns)
    BY <1>1, OverUnloaded
  <2>3. QED
    BY <2>1, <2>2
<1>5. f.obj \in DOMAIN os /\ os[f.obj].state = "loading"
  <2>1. PICK n : OnTopAt(fr, new, t, f, n)
    BY OnTop
  <2>2. QED
    BY <1>1, <2>1 DEF OnTopAt, BodiesLoad
<1>6. os[f.obj].name \in DOMAIN ms /\ ms[os[f.obj].name] = f.obj
  BY <1>1, <1>5 DEF ObjectsKnown
<1>7. DOMAIN nt = DOMAIN ms \ {os[f.obj].name} /\ \A n \in DOMAIN nt : nt[n] = ms[n]
  BY DEF IsForgotten
<1>8. ObjectsKnown(ns, nt)
  <2>1. ASSUME NEW i \in DOMAIN ns
        PROVE  /\ {"name", "state"} \subseteq DOMAIN ns[i]
               /\ ns[i].state \in {"loading", "done", "failed"}
               /\ ns[i].state # "failed" => ns[i].name \in DOMAIN nt /\ nt[ns[i].name] = i
    <3>1. CASE i = f.obj
      BY <1>1, <1>2, <1>5, <3>1 DEF ObjectsKnown
    <3>2. CASE i # f.obj
      <4>1. ns[i].state = os[i].state /\ ns[i].name = os[i].name /\ DOMAIN ns[i] = DOMAIN os[i] /\ i \in DOMAIN os
        BY <1>2, <3>2
      <4>2. os[i].state # "failed" => os[i].name \in DOMAIN ms /\ ms[os[i].name] = i
        BY <1>1, <4>1 DEF ObjectsKnown
      <4>3. os[i].state # "failed" => os[i].name \in DOMAIN nt /\ nt[os[i].name] = i
        BY <1>6, <1>7, <3>2, <4>2
      <4>4. {"name", "state"} \subseteq DOMAIN os[i] /\ os[i].state \in {"loading", "done", "failed"}
        BY <1>1, <4>1 DEF ObjectsKnown
      <4>5. QED
        BY <4>1, <4>3, <4>4
    <3>3. QED
      BY <3>1, <3>2
  <2>2. ASSUME NEW n \in DOMAIN nt
        PROVE  nt[n] \in DOMAIN ns /\ ns[nt[n]].name = n /\ ns[nt[n]].state # "failed"
    <3>1. nt[n] = ms[n] /\ n \in DOMAIN ms /\ n # os[f.obj].name
      BY <1>7
    <3>2. ms[n] \in DOMAIN os /\ os[ms[n]].name = n /\ os[ms[n]].state # "failed"
      BY <1>1, <3>1 DEF ObjectsKnown
    <3>3. ms[n] # f.obj
      BY <3>1, <3>2
    <3>4. QED
      BY <1>2, <3>1, <3>2, <3>3
  <2>3. QED
    BY <1>2, <2>1, <2>2 DEF ObjectsKnown
<1>9. QED
  BY <1>3, <1>4, <1>8 DEF Right

-----------------------------------------------------------------------------
(* The steps.                                                              *)

\* g is f gone on.
GoneOn(g, f) == DOMAIN g = DOMAIN f /\ g.kind = f.kind /\ (f.kind = "walk" => g.found = None)
                                    /\ (f.kind = "body" => g.obj = f.obj /\ g.enclosing = f.enclosing)

LEMMA GoneOnRight ==
  ASSUME NEW f, IsFrame(f), NEW g, GoneOn(g, f)
  PROVE  IsFrame(g) /\ SameBody(g, f)
BY DEF IsFrame, GoneOn, SameBody

LEMMA LastIs ==
  ASSUME NEW fr, StacksRight(fr), NEW t \in Threads, fr[t] # <<>>
  PROVE  IsFrame(Last(fr[t]))
<1>1. Stacked(fr)
  BY DEF StacksRight
<1>2. Len(fr[t]) # 0
  BY <1>1 DEF Stacked
<1>3. Last(fr[t]) = fr[t][Len(fr[t])]
  BY <1>1, StackOf, Zenon
<1>4. Len(fr[t]) \in Nat /\ DOMAIN fr[t] = 1 .. Len(fr[t])
  BY <1>1, StackOf, Zenon
<1>5. Len(fr[t]) \in DOMAIN fr[t]
  BY <1>2, <1>4
<1>6. QED
  BY <1>3, <1>5 DEF StacksRight

LEMMA TopIs ==
  ASSUME StacksRight(frames), NEW t \in Threads, frames[t] # <<>>
  PROVE  IsFrame(Top(t))
BY LastIs DEF Top

LEMMA ObjectsUnchanged ==
  ASSUME ImportInv
  PROVE  SameObjects(objs, objs)
BY DEF ImportInv, Right, ObjectsKnown, SameObjects

\* Nothing is loaded, nothing fails.
LEMMA Quietly ==
  ASSUME ImportInv, StacksRight(frames'), SameBodies(frames', frames), SameObjects(objs', objs),
         UNCHANGED <<modules, module>>
  PROVE  ImportInv'
<1>1. Right(frames', objs', modules, module)
  BY BodiesSame, Zenon DEF ImportInv
<1>2. QED
  BY <1>1 DEF ImportInv

LEMMA StepStays ==
  ASSUME ImportInv, UNCHANGED frames, SameObjects(objs', objs), UNCHANGED <<modules, module>>
  PROVE  ImportInv'
<1>1. SameBodies(frames', frames)
  BY DEF SameBodies, BodiesKept, SameBody
<1>2. StacksRight(frames')
  BY DEF ImportInv
<1>3. QED
  BY <1>1, <1>2, Quietly

LEMMA StepTurns ==
  ASSUME ImportInv, NEW t \in Threads, frames[t] # <<>>, NEW g, GoneOn(g, Top(t)), Become(t, g),
         SameObjects(objs', objs), UNCHANGED <<modules, module>>
  PROVE  ImportInv'
<1>1. StacksRight(frames) /\ IsFrame(Top(t))
  BY TopIs DEF ImportInv
<1>2. IsFrame(g) /\ SameBody(g, Last(frames[t]))
  BY <1>1, GoneOnRight DEF Top
<1>3. frames' = [frames EXCEPT ![t] = Append(Front(@), g)]
  BY DEF Become
<1>4. StacksRight(frames') /\ SameBodies(frames', frames)
  BY <1>1, <1>2, <1>3, Turned
<1>5. QED
  BY <1>4, Quietly

LEMMA StepEnters ==
  ASSUME ImportInv, NEW t \in Threads, NEW g, IsFrame(g), g.kind # "body",
         frames' = [frames EXCEPT ![t] = Append(@, g)], UNCHANGED <<objs, modules, module>>
  PROVE  ImportInv'
<1>1. StacksRight(frames') /\ SameBodies(frames', frames)
  BY Entered DEF ImportInv
<1>2. SameObjects(objs', objs)
  BY ObjectsUnchanged
<1>3. QED
  BY <1>1, <1>2, Quietly
LEMMA InitRight ==
  ASSUME ImportInit
  PROVE  ImportInv
<1> DEFINE W == {Walk(program.start[t], IF t = 1 THEN Main ELSE program.start[t], FALSE) : t \in Threads}
<1>1. \A t \in Threads : frames[t] = <<>> \/ \E w \in W : frames[t] = <<w>>
  BY DEF ImportInit
<1>2. \A w \in W : IsFrame(w) /\ w.kind = "walk"
  BY DEF Walk, IsFrame, WalkFields
<1>3. \A t \in Threads : frames[t] \in Seq(W)
  <2> HIDE DEF W
  <2>1. \A w \in W : <<w>> \in Seq(W)
    OBVIOUS
  <2>2. <<>> \in Seq(W)
    OBVIOUS
  <2>3. QED
    BY <1>1, <2>1, <2>2
<1>4. Stacked(frames)
  <2>1. frames \in [Threads -> Seq(W)]
    <3> HIDE DEF W
    <3>1. frames = [t \in Threads |-> frames[t]]
      BY DEF ImportInit
    <3>2. QED
      BY <1>3, <3>1
  <2>2. QED
    BY <2>1, StackedIs
<1>5. \A t \in Threads : \A k \in DOMAIN frames[t] : frames[t][k] \in W
  <2> HIDE DEF W
  <2>1. QED
    BY <1>3
<1>6. StacksRight(frames)
  <2>1. \A t \in Threads : \A k \in DOMAIN frames[t] : IsFrame(frames[t][k]) /\ frames[t][k].kind # "body"
    BY <1>2, <1>5
  <2>2. QED
    BY <1>4, <2>1 DEF StacksRight
<1>7. \A t \in Threads : BodiesOf(frames[t]) = {}
  BY <1>2, <1>5 DEF BodiesOf
<1>8. ModulesChained(frames, module)
  <2>1. module = [t \in Threads |-> None]
    BY DEF ImportInit
  <2>2. \A t \in Threads : Innermost(frames[t], BodiesOf(frames[t]), module[t])
    BY <1>7, <2>1 DEF Innermost
  <2>3. QED
    BY <1>7, <2>1, <2>2 DEF ModulesChained
<1>9. objs = <<>> /\ modules = <<>> /\ DOMAIN objs = {} /\ DOMAIN modules = {}
  BY DEF ImportInit
<1>10. ObjectsKnown(objs, modules)
  <2>1. objs \in Seq(Range(objs))
    BY <1>9
  <2>2. QED
    BY <1>9, <2>1 DEF ObjectsKnown
<1>11. BodiesLoad(frames, objs)
  BY <1>7, <1>9 DEF BodiesLoad
<1>12. QED
  BY <1>6, <1>8, <1>10, <1>11 DEF ImportInv, Right

\* A body begins: the module is in the table, and the thread is in it.
LEMMA StartRight ==
  ASSUME ImportInv, NEW t \in Threads, frames[t] # <<>>, NEW file,
         ~Known(As(Top(t))), StartModule(t, Top(t), file)
  PROVE  ImportInv'
<1> DEFINE f == Top(t)
           id == Len(objs) + 1
           g == Running("body", id, Code(file.body), module[t])
<1>1. PICK package : objs' = Append(objs, [name |-> As(f), path |-> Path(f), file |-> file, state |-> "loading", fields |-> <<>>,
                                           package |-> package])
  BY Zenon DEF StartModule
<1> DEFINE o == [name |-> As(f), path |-> Path(f), file |-> file, state |-> "loading", fields |-> <<>>, package |-> package]
<1>2. o.name = As(f) /\ o.state = "loading" /\ {"name", "state"} \subseteq DOMAIN o
  OBVIOUS
<1>3. g.obj = id /\ g.enclosing = module[t] /\ g.kind = "body" /\ IsFrame(g)
  BY DEF Running, IsFrame, RunFields
<1>4. frames' = [frames EXCEPT ![t] = Append(@, g)] /\ module' = [module EXCEPT ![t] = id]
  BY Zenon DEF StartModule
<1>5. modules' = [n \in DOMAIN modules \cup {As(f)} |-> IF n = As(f) THEN id ELSE modules[n]]
  BY Zenon DEF StartModule
<1>6. ObjectAdded(objs', objs, modules', modules, o)
  <2>1. As(f) \notin DOMAIN modules
    BY Zenon DEF Known
  <2> HIDE DEF f, o
  <2>2. QED
    BY <1>1, <1>2, <1>5, <2>1 DEF ObjectAdded, o
<1> HIDE DEF f, o, g
<1>7. StacksRight(frames') /\ BodyOnTop(frames', frames, t, g)
  BY <1>3, <1>4, BodyEntered DEF ImportInv
<1>8. ModulesChained(frames, module) /\ ObjectsKnown(objs, modules) /\ BodiesLoad(frames, objs)
  BY DEF ImportInv, Right
<1>9. ModulesChained(frames', module')
  BY <1>3, <1>4, <1>7, <1>8, ChainGrows
<1>10. ObjectsKnown(objs', modules')
  BY <1>2, <1>6, <1>8, AddedKnown
<1>11. BodiesLoad(frames', objs')
  BY <1>2, <1>3, <1>6, <1>7, <1>8, AddedLoading
<1>12. QED
  BY <1>7, <1>9, <1>10, <1>11 DEF ImportInv, Right

LEMMA NativeRight ==
  ASSUME ImportInv, NEW t \in Threads, frames[t] # <<>>, Top(t).kind = "walk", NEW file,
         ~Known(As(Top(t))), LoadNative(t, Top(t), file)
  PROVE  ImportInv'
<1> DEFINE f == Top(t)
           id == Len(objs) + 1
           o == [name |-> As(f), path |-> Path(f), file |-> file, state |-> "done", fields |-> <<>>, package |-> None]
           g == [f EXCEPT !.result = id]
<1>1. o.name = As(f) /\ o.state = "done" /\ {"name", "state"} \subseteq DOMAIN o
  OBVIOUS
<1>2. objs' = Append(objs, o) /\ Become(t, g) /\ UNCHANGED module
  BY Zenon DEF LoadNative
<1>3. modules' = [n \in DOMAIN modules \cup {As(f)} |-> IF n = As(f) THEN id ELSE modules[n]]
  BY Zenon DEF LoadNative
<1>4. ObjectAdded(objs', objs, modules', modules, o)
  <2>1. As(f) \notin DOMAIN modules
    BY Zenon DEF Known
  <2> HIDE DEF f, o
  <2>2. QED
    BY <1>1, <1>2, <1>3, <2>1 DEF ObjectAdded, o
<1>5. StacksRight(frames) /\ IsFrame(f)
  BY TopIs DEF ImportInv
<1>6. IsFrame(g) /\ SameBody(g, f)
  <2>1. GoneOn(g, f)
    BY <1>5 DEF GoneOn, IsFrame, WalkFields
  <2>2. QED
    BY <1>5, <2>1, GoneOnRight
<1>7. SameBody(g, Last(frames[t]))
  BY <1>6 DEF Top
<1> HIDE DEF f, o, g
<1>8. StacksRight(frames') /\ SameBodies(frames', frames)
  BY <1>2, <1>5, <1>6, <1>7, Turned DEF Become
<1>9. ModulesChained(frames, module) /\ ObjectsKnown(objs, modules) /\ BodiesLoad(frames, objs)
  BY DEF ImportInv, Right
<1>10. ObjectsKnown(objs', modules')
  BY <1>1, <1>4, <1>9, AddedKnown
<1>11. BodiesLoad(frames, objs')
  BY <1>1, <1>4, <1>9, AddedDone
<1>12. Right(frames, objs', modules', module)
  BY <1>9, <1>10, <1>11 DEF Right
<1>13. SameObjects(objs', objs')
  BY <1>10 DEF ObjectsKnown, SameObjects
<1>14. Right(frames', objs', modules', module)
  BY <1>8, <1>12, <1>13, BodiesSame
<1>15. QED
  BY <1>2, <1>8, <1>14 DEF ImportInv
LEMMA LeavesMid ==
  ASSUME ImportInv, NEW t \in Threads, frames[t] # <<>>, NEW mid, mid = [frames EXCEPT ![t] = Below(t)]
  PROVE  /\ StacksRight(mid) /\ mid[t] = Below(t)
         /\ Top(t).kind # "body" => SameBodies(mid, frames)
         /\ Top(t).kind = "body" => BodyOnTop(frames, mid, t, Top(t)) /\ mid[t] # <<>>
<1>1. mid = [frames EXCEPT ![t] = Front(@)]
  BY DEF Below
<1>2. StacksRight(frames)
  BY DEF ImportInv
<1>3. t \in DOMAIN frames
  BY <1>2 DEF StacksRight, Stacked
<1>4. /\ StacksRight(mid)
      /\ Last(frames[t]).kind # "body" => SameBodies(mid, frames)
      /\ Last(frames[t]).kind = "body" => BodyOnTop(frames, mid, t, Last(frames[t])) /\ mid[t] # <<>>
  BY <1>1, <1>2, LeftOne
<1>5. QED
  BY <1>3, <1>4 DEF Top

LEMMA StepLeaves ==
  ASSUME ImportInv, NEW t \in Threads, frames[t] # <<>>, Top(t).kind # "body", frames' = [frames EXCEPT ![t] = Below(t)],
         SameObjects(objs', objs), UNCHANGED <<modules, module>>
  PROVE  ImportInv'
<1>1. StacksRight(frames') /\ SameBodies(frames', frames)
  BY LeavesMid
<1>2. QED
  BY <1>1, Quietly

\* The frame below goes on with what the one that is left has found.
LEMMA ReturnsMid ==
  ASSUME ImportInv, NEW t \in Threads, frames[t] # <<>>, NEW mid, mid = [frames EXCEPT ![t] = Below(t)],
         Below(t) # <<>>, NEW g, GoneOn(g, Last(Below(t))), frames' = [frames EXCEPT ![t] = Append(Front(Below(t)), g)]
  PROVE  StacksRight(frames') /\ SameBodies(frames', mid)
<1>1. StacksRight(mid) /\ mid[t] = Below(t)
  BY LeavesMid
<1>2. IsFrame(Last(mid[t]))
  BY <1>1, LastIs
<1>3. IsFrame(g) /\ SameBody(g, Last(mid[t]))
  BY <1>1, <1>2, GoneOnRight
<1>4. frames' = [mid EXCEPT ![t] = Append(Front(@), g)]
  <2>1. DOMAIN frames = Threads
    BY DEF ImportInv, StacksRight, Stacked
  <2>2. QED
    BY <1>1, <2>1
<1>5. QED
  BY <1>1, <1>3, <1>4, Turned

LEMMA StepReturns ==
  ASSUME ImportInv, NEW t \in Threads, frames[t] # <<>>, Top(t).kind # "body", Below(t) # <<>>,
         NEW g, GoneOn(g, Last(Below(t))), frames' = [frames EXCEPT ![t] = Append(Front(Below(t)), g)],
         SameObjects(objs', objs), UNCHANGED <<modules, module>>
  PROVE  ImportInv'
<1> DEFINE mid == [frames EXCEPT ![t] = Below(t)]
<1>1. SameBodies(mid, frames)
  BY LeavesMid
<1>2. StacksRight(frames') /\ SameBodies(frames', mid)
  BY ReturnsMid
<1> HIDE DEF mid
<1>3. SameBodies(frames', frames)
  BY <1>1, <1>2, SameBodiesTwice
<1>4. QED
  BY <1>2, <1>3, Quietly

LEMMA LoadModuleRight ==
  ASSUME Sound, ImportInv, NEW t \in Threads, LoadModule(t)
  PROVE  ImportInv'
<1> DEFINE f == Top(t)
           file == Search(Path(f))
<1>1. frames[t] # <<>> /\ f.kind = "walk"
  BY DEF LoadModule, At
<1>2. IsFrame(f)
  BY <1>1, TopIs DEF ImportInv
<1>3. f.found = None /\ DOMAIN f = WalkFields
  BY <1>1, <1>2 DEF IsFrame
<1>4. \A r : GoneOn([f EXCEPT !.result = r], f)
  BY <1>1, <1>3 DEF GoneOn, WalkFields
<1>5. SameObjects(objs, objs)
  BY ObjectsUnchanged
<1>6. CASE Become(t, [f EXCEPT !.result = modules[As(f)]]) /\ UNCHANGED <<modules, objs, module>>
  <2>1. SameObjects(objs', objs) /\ GoneOn([f EXCEPT !.result = modules[As(f)]], f)
    BY <1>4, <1>5, <1>6
  <2>2. QED
    BY <1>1, <1>6, <2>1, StepTurns
<1>7. CASE UNCHANGED <<modules, objs, frames, module>>
  BY <1>5, <1>7, StepStays
<1>8. CASE ~Known(As(f)) /\ LoadNative(t, f, file)
  BY <1>1, <1>8, NativeRight
<1>9. CASE /\ frames' = [frames EXCEPT ![t] = Append(@, Walk(Append(f.name, "__main__"), Main, FALSE))]
           /\ UNCHANGED <<modules, objs, module>>
  <2> DEFINE g == Walk(Append(f.name, "__main__"), Main, FALSE)
  <2>1. IsFrame(g) /\ g.kind # "body"
    BY DEF Walk, IsFrame, WalkFields
  <2> HIDE DEF g
  <2>2. frames' = [frames EXCEPT ![t] = Append(@, g)]
    BY <1>9 DEF g
  <2>3. QED
    BY <1>9, <2>1, <2>2, StepEnters
<1>10. CASE ~Known(As(f)) /\ StartModule(t, f, file)
  BY <1>1, <1>10, StartRight
<1>11. QED
  <2> HIDE DEF f, file
  <2>1. LoadModule(t) => \/ Become(t, [f EXCEPT !.result = modules[As(f)]]) /\ UNCHANGED <<modules, objs, module>>
                         \/ UNCHANGED <<modules, objs, frames, module>>
                         \/ ~Known(As(f)) /\ LoadNative(t, f, file)
                         \/ frames' = [frames EXCEPT ![t] = Append(@, Walk(Append(f.name, "__main__"), Main, FALSE))]
                            /\ UNCHANGED <<modules, objs, module>>
                         \/ ~Known(As(f)) /\ StartModule(t, f, file)
    BY <1>3, Zenon DEF LoadModule, Sound, f, file
  <2>2. QED
    BY <1>6, <1>7, <1>8, <1>9, <1>10, <2>1

LEMMA AttachedSame ==
  ASSUME ImportInv, NEW f
  PROVE  SameObjects(Attached(f), objs)
<1>1. CASE f.last = None
  BY <1>1, ObjectsUnchanged DEF Attached
<1>2. CASE f.last # None
  <2> DEFINE v == [n \in DOMAIN objs[f.last].fields \cup {f.name[f.k]} |->
                     IF n = f.name[f.k] THEN Module(f.result) ELSE objs[f.last].fields[n]]
  <2>1. Attached(f) = [objs EXCEPT ![f.last].fields = v]
    BY <1>2 DEF Attached, WithField
  <2>2. objs \in Seq(Range(objs))
    BY DEF ImportInv, Right, ObjectsKnown
  <2> HIDE DEF v
  <2>3. QED
    BY <2>1, <2>2, FieldSet
<1>3. QED
  BY <1>1, <1>2

LEMMA ArriveRight ==
  ASSUME ImportInv, NEW t \in Threads, Arrive(t)
  PROVE  ImportInv'
<1> DEFINE f == Top(t)
           rest == Below(t)
           below == Last(rest)
<1>1. frames[t] # <<>> /\ f.kind = "walk"
  BY DEF Arrive, At
<1>2. IsFrame(f)
  BY <1>1, TopIs DEF ImportInv
<1>3. f.found = None /\ DOMAIN f = WalkFields
  BY <1>1, <1>2 DEF IsFrame
<1>4. SameObjects(objs', objs) /\ UNCHANGED <<modules, module>>
  BY AttachedSame DEF Arrive
<1>5. CASE Become(t, [f EXCEPT !.k = @ + 1, !.last = f.result, !.result = None, !.found = None])
  <2> DEFINE g == [f EXCEPT !.k = @ + 1, !.last = f.result, !.result = None, !.found = None]
  <2>1. GoneOn(g, f)
    BY <1>1, <1>3 DEF GoneOn, WalkFields
  <2> HIDE DEF g
  <2>2. Become(t, g)
    BY <1>5 DEF g
  <2>3. QED
    BY <1>1, <1>4, <2>1, <2>2, StepTurns
<1>6. CASE UNCHANGED frames
  BY <1>4, <1>6, StepStays
<1>7. CASE rest = <<>> /\ frames' = [frames EXCEPT ![t] = <<>>]
  <2>1. frames' = [frames EXCEPT ![t] = Below(t)]
    BY <1>7
  <2>2. QED
    BY <1>1, <1>4, <2>1, StepLeaves
<1>8. ASSUME rest # <<>>,
             frames' = [frames EXCEPT ![t] = Append(Front(rest),
                          CASE below.kind = "walk" -> [below EXCEPT !.result = f.result]
                            [] below.kind # "walk" /\ f.from -> [below EXCEPT !.pc = @ + 1, !.stack = Append(Front(@), Module(f.result))]
                            [] OTHER -> Pushed(below, Module(f.result)))]
      PROVE  ImportInv'
  <2> DEFINE g == CASE below.kind = "walk" -> [below EXCEPT !.result = f.result]
                    [] below.kind # "walk" /\ f.from -> [below EXCEPT !.pc = @ + 1, !.stack = Append(Front(@), Module(f.result))]
                    [] OTHER -> Pushed(below, Module(f.result))
             mid == [frames EXCEPT ![t] = Below(t)]
  <2>1. StacksRight(mid) /\ mid[t] = rest
    BY <1>1, LeavesMid
  <2>2. IsFrame(below)
    BY <1>8, <2>1, LastIs
  <2>3. GoneOn(g, below)
    <3> HIDE DEF below, f
    <3>1. CASE below.kind = "walk"
      BY <2>2, <3>1 DEF IsFrame, GoneOn, WalkFields
    <3>2. CASE below.kind # "walk" /\ f.from
      BY <2>2, <3>2 DEF IsFrame, GoneOn, RunFields
    <3>3. CASE below.kind # "walk" /\ ~f.from
      BY <2>2, <3>3 DEF IsFrame, GoneOn, RunFields, Pushed
    <3>4. QED
      BY <3>1, <3>2, <3>3
  <2> HIDE DEF g
  <2>4. frames' = [frames EXCEPT ![t] = Append(Front(Below(t)), g)]
    BY <1>8 DEF g
  <2>5. Top(t).kind # "body"
    BY <1>1
  <2>6. QED
    BY <1>1, <1>4, <1>8, <2>3, <2>4, <2>5, StepReturns
<1>9. QED
  <2>1. CASE rest = <<>>
    <3>1. \/ Become(t, [f EXCEPT !.k = @ + 1, !.last = f.result, !.result = None, !.found = None])
          \/ UNCHANGED frames
          \/ frames' = [frames EXCEPT ![t] = <<>>]
      BY <2>1 DEF Arrive
    <3>2. QED
      BY <1>5, <1>6, <1>7, <2>1, <3>1
  <2>2. CASE rest # <<>>
    BY <1>5, <1>6, <1>8, <2>2, Zenon DEF Arrive
  <2>3. QED
    BY <2>1, <2>2
LEMMA ExecuteRight ==
  ASSUME ImportInv, NEW t \in Threads, Execute(t)
  PROVE  ImportInv'
<1> DEFINE f == Top(t)
           o == f.ops[f.pc]
           top == Last(f.stack)
<1>1. frames[t] # <<>> /\ f.kind \in {"body", "function"}
  BY DEF Execute, At
<1>2. IsFrame(f)
  BY <1>1, TopIs DEF ImportInv
<1>3. DOMAIN f = RunFields
  BY <1>1, <1>2 DEF IsFrame
<1>4. SameObjects(objs, objs)
  BY ObjectsUnchanged
<1>5. UNCHANGED <<modules, module>>
  BY DEF Execute
<1>6. ASSUME NEW g, GoneOn(g, f), Become(t, g), SameObjects(objs', objs)
      PROVE  ImportInv'
  BY <1>1, <1>5, <1>6, StepTurns
<1>7. ASSUME UNCHANGED frames, SameObjects(objs', objs)
      PROVE  ImportInv'
  BY <1>5, <1>7, StepStays
<1>8. ASSUME NEW name, NEW from, frames' = [frames EXCEPT ![t] = Append(@, Walk(name, name, from))], UNCHANGED objs
      PROVE  ImportInv'
  <2> DEFINE g == Walk(name, name, from)
  <2>1. IsFrame(g) /\ g.kind # "body"
    BY DEF Walk, IsFrame, WalkFields
  <2> HIDE DEF g
  <2>2. frames' = [frames EXCEPT ![t] = Append(@, g)]
    BY <1>8 DEF g
  <2>3. QED
    BY <1>5, <1>8, <2>1, <2>2, StepEnters
<1>9. /\ GoneOn(Next1(f), f)
      /\ \A s : GoneOn([Next1(f) EXCEPT !.stack = s], f) /\ GoneOn([f EXCEPT !.pc = @ + 1, !.stack = s], f)
      /\ \A h : GoneOn([Next1(f) EXCEPT !.handler = h], f)
      /\ \A v : GoneOn(Pushed(f, v), f)
  <2> HIDE DEF f
  <2>1. QED
    BY <1>1, <1>3 DEF GoneOn, Next1, Pushed, RunFields
<1>10. CASE o.op = "IMPORT"
  <2>1. UNCHANGED objs
    BY <1>10 DEF Execute
  <2>2. UNCHANGED frames \/ \E name : frames' = [frames EXCEPT ![t] = Append(@, Walk(name, name, FALSE))]
    BY <1>10, Zenon DEF Execute
  <2>3. QED
    BY <1>4, <1>7, <1>8, <2>1, <2>2
<1>11. CASE o.op = "IMPORT_FROM"
  <2>1. UNCHANGED objs
    BY <1>11 DEF Execute
  <2>2. \/ \E s : Become(t, [f EXCEPT !.pc = @ + 1, !.stack = s])
        \/ \E name : frames' = [frames EXCEPT ![t] = Append(@, Walk(name, name, TRUE))]
    BY <1>11, Zenon DEF Execute
  <2>3. QED
    BY <1>4, <1>6, <1>8, <1>9, <2>1, <2>2
<1>12. CASE o.op = "IMPORT_STAR"
  <2> DEFINE s == Star(f.obj, top[2])
  <2>1. SameObjects(objs', objs)
    <3>1. PICK v : s.objs = [objs EXCEPT ![f.obj].fields = v]
      BY DEF Star
    <3>2. objs' = s.objs
      BY <1>12 DEF Execute
    <3>3. objs \in Seq(Range(objs))
      BY DEF ImportInv, Right, ObjectsKnown
    <3> HIDE DEF s, f
    <3>4. QED
      BY <3>1, <3>2, <3>3, FieldSet
  <2>2. UNCHANGED frames \/ Become(t, [Next1(f) EXCEPT !.stack = Front(@)])
    BY <1>12, Zenon DEF Execute
  <2>3. GoneOn([Next1(f) EXCEPT !.stack = Front(@)], f)
    BY <1>9
  <2>4. QED
    BY <1>6, <1>7, <2>1, <2>2, <2>3
<1>13. CASE o.op = "SET"
  <2>1. SameObjects(objs', objs)
    <3>1. PICK v : WithField(objs, f.obj, o.var, top) = [objs EXCEPT ![f.obj].fields = v]
      BY DEF WithField
    <3>2. objs' = WithField(objs, f.obj, o.var, top)
      BY <1>13 DEF Execute
    <3>3. objs \in Seq(Range(objs))
      BY DEF ImportInv, Right, ObjectsKnown
    <3> HIDE DEF f, o, top
    <3>4. QED
      BY <3>1, <3>2, <3>3, FieldSet
  <2>2. Become(t, [Next1(f) EXCEPT !.stack = Front(@)])
    BY <1>13 DEF Execute
  <2>3. GoneOn([Next1(f) EXCEPT !.stack = Front(@)], f)
    BY <1>9
  <2>4. QED
    BY <1>6, <2>1, <2>2, <2>3
<1>14. CASE o.op \in {"POP", "DUP", "CONSTANT", "PUSH_TRY", "END_TRY", "RAISE"}
  <2>1. UNCHANGED objs
    BY <1>14 DEF Execute
  <2>2. \/ Become(t, [Next1(f) EXCEPT !.stack = Front(@)])
        \/ Become(t, Pushed(f, top)) \/ Become(t, Pushed(f, o.value))
        \/ Become(t, [Next1(f) EXCEPT !.handler = f.pc + o.over]) \/ Become(t, [Next1(f) EXCEPT !.handler = 0])
        \/ UNCHANGED frames
    BY <1>14 DEF Execute
  <2>3. /\ GoneOn([Next1(f) EXCEPT !.stack = Front(@)], f) /\ GoneOn(Pushed(f, top), f) /\ GoneOn(Pushed(f, o.value), f)
        /\ GoneOn([Next1(f) EXCEPT !.handler = f.pc + o.over], f) /\ GoneOn([Next1(f) EXCEPT !.handler = 0], f)
    BY <1>9
  <2>4. SameObjects(objs', objs)
    BY <1>4, <2>1
  <2>5. QED
    BY <1>6, <1>7, <2>2, <2>3, <2>4
<1>15. CASE o.op = "CALL"
  <2>1. UNCHANGED objs
    BY <1>15 DEF Execute
  <2>2. PICK callee : frames' = [frames EXCEPT ![t] =
          Append(Append(Front(@), Next1(f)), Running("function", callee, Code(objs[callee].file.lazy), None))]
    BY <1>15, Zenon DEF Execute
  <2> DEFINE mid == [frames EXCEPT ![t] = Append(Front(@), Next1(f))]
             g == Running("function", callee, Code(objs[callee].file.lazy), None)
  <2>3. IsFrame(g) /\ g.kind # "body"
    BY DEF Running, IsFrame, RunFields
  <2>4. IsFrame(Next1(f)) /\ SameBody(Next1(f), Last(frames[t]))
    BY <1>2, <1>9, GoneOnRight DEF Top
  <2>5. StacksRight(mid) /\ SameBodies(mid, frames)
    BY <1>1, <2>4, Turned DEF ImportInv
  <2>6. frames' = [mid EXCEPT ![t] = Append(@, g)]
    <3>1. DOMAIN frames = Threads
      BY DEF ImportInv, StacksRight, Stacked
    <3> HIDE DEF f, g
    <3>2. QED
      BY <2>2, <3>1 DEF g
  <2> HIDE DEF mid, g
  <2>7. StacksRight(frames') /\ SameBodies(frames', mid)
    BY <2>3, <2>5, <2>6, Entered
  <2>8. SameBodies(frames', frames)
    BY <2>5, <2>7, SameBodiesTwice
  <2>9. SameObjects(objs', objs)
    BY <1>4, <2>1
  <2>10. QED
    BY <1>5, <2>7, <2>8, <2>9, Quietly
<1>16. QED
  BY <1>10, <1>11, <1>12, <1>13, <1>14, <1>15, Zenon DEF Execute

LEMMA FinishRight ==
  ASSUME ImportInv, NEW t \in Threads, Finish(t)
  PROVE  ImportInv'
<1> DEFINE f == Top(t)
           rest == Below(t)
           mid == [frames EXCEPT ![t] = Below(t)]
<1>1. frames[t] # <<>> /\ f.kind \in {"body", "function"} /\ UNCHANGED modules
  BY DEF Finish, At
<1>2. SameObjects(objs, objs)
  BY ObjectsUnchanged
<1>3. CASE f.kind = "function"
  <2>1. frames' = [frames EXCEPT ![t] = Below(t)] /\ UNCHANGED <<objs, module>>
    BY <1>3 DEF Finish
  <2>2. Top(t).kind # "body" /\ SameObjects(objs', objs)
    BY <1>2, <1>3, <2>1
  <2>3. QED
    BY <1>1, <2>1, <2>2, StepLeaves
<1>4. CASE f.kind = "body"
  <2>1. /\ objs' = [objs EXCEPT ![f.obj].state = "done"]
        /\ module' = [module EXCEPT ![t] = f.enclosing]
        /\ frames' = [frames EXCEPT ![t] = Append(Front(rest), [Last(rest) EXCEPT !.result = f.obj])]
    BY <1>4 DEF Finish
  <2>2. StacksRight(mid) /\ mid[t] = rest /\ rest # <<>> /\ BodyOnTop(frames, mid, t, f)
    BY <1>1, <1>4, LeavesMid
  <2>3. Right(frames, objs, modules, module) /\ ObjectsKnown(objs, modules)
    BY DEF ImportInv, Right
  <2>4. IsStateSet(objs', objs, f.obj, "done")
    <3> HIDE DEF f
    <3>1. QED
      BY <2>1, <2>3, StateSet
  <2> HIDE DEF mid, f
  <2>5. Right(mid, objs', modules, module')
    BY <2>1, <2>2, <2>3, <2>4, OverDone
  <2>6. IsFrame(Last(rest))
    BY <2>2, LastIs
  <2> DEFINE g == [Last(rest) EXCEPT !.result = f.obj]
  <2>7. GoneOn(g, Last(rest))
    BY <2>6 DEF GoneOn, IsFrame, WalkFields, RunFields
  <2> HIDE DEF g
  <2>8. StacksRight(frames') /\ SameBodies(frames', mid)
    <3>1. frames' = [frames EXCEPT ![t] = Append(Front(Below(t)), g)]
      BY <2>1 DEF g
    <3>2. QED
      BY <1>1, <2>2, <2>7, <3>1, ReturnsMid DEF mid
  <2>9. SameObjects(objs', objs')
    BY <2>5 DEF Right, ObjectsKnown, SameObjects
  <2>10. Right(frames', objs', modules, module')
    BY <2>5, <2>8, <2>9, BodiesSame
  <2>11. QED
    BY <1>1, <2>8, <2>10 DEF ImportInv
<1>5. QED
  BY <1>1, <1>3, <1>4

LEMMA UnwindRight ==
  ASSUME ImportInv, NEW t \in Threads, Unwind(t)
  PROVE  ImportInv'
<1> DEFINE f == Top(t)
<1>1. frames[t] # <<>>
  BY DEF Unwind
<1>2. IsFrame(f)
  BY <1>1, TopIs DEF ImportInv
<1>3. SameObjects(objs, objs)
  BY ObjectsUnchanged
<1>4. CASE f.kind # "walk" /\ f.handler # 0 /\ Become(t, [f EXCEPT !.pc = f.handler, !.stack = <<>>])
           /\ UNCHANGED <<modules, objs, module>>
  <2> DEFINE g == [f EXCEPT !.pc = f.handler, !.stack = <<>>]
  <2>1. GoneOn(g, f)
    <3> HIDE DEF f
    <3>1. QED
      BY <1>2, <1>4 DEF GoneOn, IsFrame, RunFields
  <2> HIDE DEF g
  <2>2. Become(t, g) /\ SameObjects(objs', objs)
    BY <1>3, <1>4 DEF g
  <2>3. QED
    BY <1>1, <1>4, <2>1, <2>2, StepTurns
<1>5. CASE /\ f.kind = "body"
           /\ objs' = [objs EXCEPT ![f.obj].state = "failed"]
           /\ modules' = Forget(objs[f.obj].name)
           /\ module' = [module EXCEPT ![t] = Left(t, f)]
           /\ frames' = [frames EXCEPT ![t] = Below(t)]
  <2>1. StacksRight(frames') /\ BodyOnTop(frames, frames', t, f)
    BY <1>1, <1>5, LeavesMid
  <2>2. Right(frames, objs, modules, module) /\ ObjectsKnown(objs, modules)
    BY DEF ImportInv, Right
  <2> HIDE DEF f
  <2>3. IsStateSet(objs', objs, f.obj, "failed")
    BY <1>5, <2>2, StateSet
  <2>4. IsForgotten(modules', modules, objs[f.obj].name) /\ module' = [module EXCEPT ![t] = f.enclosing]
    BY <1>5 DEF Forget, Left, IsForgotten
  <2>5. Right(frames', objs', modules', module')
    BY <2>1, <2>2, <2>3, <2>4, OverFailed
  <2>6. QED
    BY <2>1, <2>5 DEF ImportInv
<1>6. CASE f.kind # "body" /\ frames' = [frames EXCEPT ![t] = Below(t)] /\ UNCHANGED <<modules, objs, module>>
  <2>1. SameObjects(objs', objs)
    BY <1>3, <1>6
  <2>2. QED
    BY <1>1, <1>6, <2>1, StepLeaves
<1>7. QED
  <2>1. (f.kind = "walk" \/ f.kind = "function") => f.kind # "body"
    OBVIOUS
  <2> HIDE DEF f
  <2>2. QED
    BY <1>4, <1>5, <1>6, <2>1, Zenon DEF Unwind, f

-----------------------------------------------------------------------------
(* The theorems.                                                           *)

LEMMA StepRight ==
  ASSUME Sound, ImportInv, [ImportNext]_importVars
  PROVE  ImportInv'
<1>1. CASE UNCHANGED importVars
  <2>1. SameObjects(objs', objs)
    BY <1>1, ObjectsUnchanged DEF importVars
  <2>2. QED
    BY <1>1, <2>1, StepStays DEF importVars
<1>2. CASE ImportNext
  <2>1. PICK t \in Threads : ImportStep(t)
    BY <1>2 DEF ImportNext
  <2>2. CASE LoadModule(t)
    BY <2>2, LoadModuleRight
  <2>3. CASE Arrive(t)
    BY <2>3, ArriveRight
  <2>4. CASE Execute(t)
    BY <2>4, ExecuteRight
  <2>5. CASE Finish(t)
    BY <2>5, FinishRight
  <2>6. CASE Unwind(t)
    BY <2>6, UnwindRight
  <2>7. QED
    BY <2>1, <2>2, <2>3, <2>4, <2>5, <2>6 DEF ImportStep
<1>3. QED
  BY <1>1, <1>2

\* The table of modules, the objects, the bodies on the stacks and the modules
\* the threads are in agree with each other (krk_importModule, krk_loadModule,
\* and back from krk_runfile).
THEOREM Invariance == ASSUME Sound PROVE ImportSpec => []ImportInv
<1>1. ImportInit => ImportInv
  BY InitRight
<1>2. ImportInv /\ [ImportNext]_importVars => ImportInv'
  BY StepRight
<1>3. QED
  BY <1>1, <1>2, PTL DEF ImportSpec

\* However modules import each other, the body of one runs once, unless it
\* failed before, and the table has none that failed (krk_loadModule).
THEOREM ModulesLoadedOnce == ASSUME Sound PROVE ImportSpec => []LoadedOnce
<1>1. ASSUME ImportInv
      PROVE  LoadedOnce
  <2>1. RunsOnce
    BY <1>1 DEF ImportInv, Right, ObjectsKnown, RunsOnce
  <2>2. ASSUME NEW n \in DOMAIN modules
        PROVE  \/ objs[modules[n]].state = "done"
               \/ objs[modules[n]].state = "loading" /\ \E t \in Threads : \E k \in DOMAIN frames[t] :
                    frames[t][k].kind = "body" /\ frames[t][k].obj = modules[n]
    <3>1. modules[n] \in DOMAIN objs /\ objs[modules[n]].state \in {"done", "loading"}
      BY <1>1 DEF ImportInv, Right, ObjectsKnown
    <3>2. ASSUME objs[modules[n]].state = "loading"
          PROVE  \E t \in Threads : \E k \in BodiesOf(frames[t]) : frames[t][k].obj = modules[n]
      BY <1>1, <3>1, <3>2 DEF ImportInv, Right, BodiesLoad
    <3>3. \A t \in Threads : \A k \in BodiesOf(frames[t]) : k \in DOMAIN frames[t] /\ frames[t][k].kind = "body"
      BY DEF BodiesOf
    <3>4. QED
      BY <3>1, <3>2, <3>3
  <2>3. KnownAreLoaded
    BY <2>2 DEF KnownAreLoaded
  <2>4. QED
    BY <2>1, <2>3 DEF LoadedOnce
<1>2. QED
  BY <1>1, Invariance, PTL

\* A thread is in the innermost module it is loading, after failures too
\* (krk_loadModule, krk_runfile).
THEOREM BackInModule == ASSUME Sound PROVE ImportSpec => []CurrentModule
<1>1. ASSUME ImportInv
      PROVE  CurrentModule
  <2>1. ASSUME NEW t \in Threads
        PROVE  module[t] = IF BodiesOf(frames[t]) = {} THEN None
                           ELSE frames[t][CHOOSE k \in BodiesOf(frames[t]) : \A j \in BodiesOf(frames[t]) : j <= k].obj
    <3> DEFINE B == BodiesOf(frames[t])
    <3>1. Innermost(frames[t], B, module[t])
      BY <1>1 DEF ImportInv, Right, ModulesChained
    <3>2. \A k \in B : k \in Nat
      <4>1. Stacked(frames)
        BY <1>1 DEF ImportInv, StacksRight
      <4>2. DOMAIN frames[t] = 1 .. Len(frames[t]) /\ Len(frames[t]) \in Nat
        BY <4>1, StackOf, Zenon
      <4>3. QED
        BY <4>2 DEF BodiesOf
    <3> HIDE DEF B
    <3>3. CASE B = {}
      BY <3>1, <3>3 DEF Innermost, B
    <3>4. CASE B # {}
      <4>1. PICK k \in B : module[t] = frames[t][k].obj /\ \A j \in B : j <= k
        BY <3>1, <3>4 DEF Innermost
      <4> DEFINE c == CHOOSE l \in B : \A j \in B : j <= l
      <4>2. c \in B /\ \A j \in B : j <= c
        BY <4>1, Zenon
      <4> HIDE DEF c
      <4>3. c = k
        BY <3>2, <4>1, <4>2
      <4>4. QED
        BY <3>4, <4>1, <4>3 DEF c, B
    <3>5. QED
      BY <3>3, <3>4
  <2>2. QED
    BY <2>1, Zenon DEF CurrentModule, BodiesOf
<1>2. QED
  BY <1>1, Invariance, PTL

===============================================================================
