-------------------------------- MODULE Texts ---------------------------------
(***************************************************************************)
(* What the methods of strings promise, of texts as sequences of code      *)
(* points and without their coding; what a method returns is described,    *)
(* not computed.  Only what the operators of the code are compared with;   *)
(* nothing here is translated from it.                                     *)
(***************************************************************************)
EXTENDS Integers, Sequences, FiniteSets

CONSTANT None

Seqs == INSTANCE Sequential WITH Key <- [c \in Int |-> c]

\* The places, from 0, where u stands in t, and those within t[start:end].
Places(t, u) == {p \in 0 .. Len(t) - Len(u) : SubSeq(t, p + 1, p + Len(u)) = u}
Within(t, start, end) ==
  LET place(i) == IF i < 0 THEN (IF Len(t) + i < 0 THEN 0 ELSE Len(t) + i) ELSE IF i > Len(t) THEN Len(t) ELSE i
  IN [low |-> place(start), high |-> place(end)]

PlacesWithin(t, u, start, end) ==
  LET w == Within(t, start, end)
  IN {p \in Places(t, u) : w.low <= p /\ p + Len(u) <= w.high}

Joined(parts, sep) ==
  LET upto[k \in 0 .. Len(parts)] ==
        IF k = 0 THEN <<>> ELSE upto[k - 1] \o (IF k = 1 THEN <<>> ELSE sep) \o parts[k]
  IN upto[Len(parts)]

\* Where u stands in t, from the left, without overlapping, up to most times.
Taken(t, u, most) ==
  CHOOSE P \in SUBSET Places(t, u) :
    \A p \in Places(t, u) :
      p \in P <=> /\ \A q \in P : q < p => q + Len(u) <= p
                  /\ most >= 0 => Cardinality({q \in P : q < p}) < most

\* What is between them.
Divided(t, u, most) ==
  LET P == Taken(t, u, most)
      cut == Seqs!Selected([i \in 1 .. Len(t) + 1 |-> i - 1], {p + 1 : p \in P}, FALSE)
  IN [k \in 1 .. Len(cut) + 1 |->
        SubSeq(t, IF k = 1 THEN 1 ELSE cut[k - 1] + Len(u) + 1, IF k > Len(cut) THEN Len(t) ELSE cut[k])]

\* Divided at runs of white space, most times; what is left is the last part.
White(c) == c \in {32, 9, 10, 13}
Words(parts, t, most) ==
  LET divided == {k \in DOMAIN parts : most < 0 \/ k <= most}
  IN /\ \A k \in divided : parts[k] # <<>> /\ \A i \in DOMAIN parts[k] : ~White(parts[k][i])
     /\ \A k \in DOMAIN parts \ divided :
          /\ k = most + 1 /\ k = Len(parts)
          /\ parts[k] # <<>> /\ ~White(parts[k][1]) /\ parts[k] = SubSeq(t, Len(t) - Len(parts[k]) + 1, Len(t))
     /\ SelectSeq(Joined(parts, <<>>), LAMBDA c : ~White(c)) = SelectSeq(t, LAMBDA c : ~White(c))
     /\ Len(parts) < Cardinality({i \in DOMAIN t : ~White(t[i]) /\ (i = 1 \/ White(t[i - 1]))})
          => Len(parts) = most + 1

\* A part of t that the ends which are all of chars have been cut from.
Stripped(out, t, chars, left, right) ==
  LET in(c) == \E i \in DOMAIN chars : chars[i] = c
      kept == {i \in DOMAIN t : /\ left => \E j \in 1 .. i : ~in(t[j])
                                /\ right => \E j \in i .. Len(t) : ~in(t[j])}
  IN out = Seqs!Selected(t, kept, FALSE)

Great(c) == c \in 65 .. 90
Small(c) == c \in 97 .. 122
Letter(c) == Great(c) \/ Small(c)

\* A letter is great at the start of a word and small in it.
Titled(out, t) ==
  /\ Len(out) = Len(t)
  /\ \A i \in DOMAIN t :
       LET starts == i = 1 \/ ~Letter(t[i - 1])
       IN out[i] = IF starts /\ Small(t[i]) THEN t[i] - 32
                   ELSE IF ~starts /\ Great(t[i]) THEN t[i] + 32 ELSE t[i]
=============================================================================
