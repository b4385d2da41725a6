------------------------------ MODULE KrkLong ------------------------------
(***************************************************************************)
(* Integers as Kuroko keeps them (obj_long.c, obj_numeric.c).  A number is *)
(* an int, a machine word of IntBits bits inside a value, or a long: a     *)
(* string of DIGIT_SHIFT bit digits, lowest first, and a width that gives  *)
(* their count and, by its sign, that of the number.  Operators on two     *)
(* ints try the machine's arithmetic and fall back to longs; everything    *)
(* else works on longs, and the result becomes an int again if it fits.    *)
(*                                                                         *)
(* The operators below are the functions of obj_long.c, with the same      *)
(* names.  Loops over digits that hand on a carry are Chains.  Karatsuba   *)
(* multiplication and decimal conversion of very long numbers, and floats, *)
(* are not modelled.                                                       *)
(***************************************************************************)
EXTENDS Integers, Sequences, FiniteSets, SequencesExt, Bitwise

CONSTANTS
  DIGIT_SHIFT,   \* bits in a digit: 31 in the code
  IntBits,       \* bits in an int: 48 in the code
  ByteBits,      \* bits in a byte: 8
  AccumLimit,    \* parsing collects digits up to this much: 2^60
  Literals,      \* numerals the program may contain: [minus, base, digits]
  Operands,      \* second operands: [other, long], a number and how it is kept
  Shifts,        \* second operands of shifts
  Exponents,     \* second operands of **
  Bases,         \* bases numbers are printed in
  Lengths,       \* lengths asked of to_bytes
  MaxValue,      \* bound: the calculator goes on from numbers up to this size
  MaxPowerBits,  \* bound on the bits of a base times the exponent
  Unsound        \* what a program may also do: "exact" (shift out only zeros of a
                 \* negative number), "least" (negate or divide the least int),
                 \* "amount" (shift by more than DIGIT_SHIFT + 1 bits can say)

VARIABLES acc, call, reply

vars == <<acc, call, reply>>

BASE == 2 ^ DIGIT_SHIFT
DIGIT_MAX == BASE - 1
WordBits == DIGIT_SHIFT + 1                  \* of uint32_t, which holds a digit

Size(n) == IF n < 0 THEN -n ELSE n
Sgn(n) == CASE n < 0 -> -1 [] n = 0 -> 0 [] n > 0 -> 1

\* A loop for i = 1 .. n in which Step(i, carry) yields a digit and a new carry.
Chain(n, carry, Step(_, _)) ==
  LET loop[i \in 0 .. n] == IF i = 0 THEN <<0, carry>> ELSE Step(i, loop[i - 1][2])
  IN [digits |-> [i \in 1 .. n |-> loop[i][1]], carry |-> loop[n][2]]

-----------------------------------------------------------------------------
(* Numbers and their digits.                                               *)

Positive(digits) == [width |-> Len(digits), digits |-> digits]
Zero == Positive(<<>>)
Digit(a, i) == IF i <= Len(a.digits) THEN a.digits[i] ELSE 0
Zeros(n) == [i \in 1 .. n |-> 0]

SetSign(num, sign) == [num EXCEPT !.width = Size(@) * sign]

Trim(num) ==
  LET len == Max({0} \cup {i \in DOMAIN num.digits : num.digits[i] # 0})
  IN [width |-> IF num.width < 0 THEN -len ELSE len, digits |-> SubSeq(num.digits, 1, len)]

InitSi(val) ==
  LET len == CHOOSE k \in 0 .. 30 : BASE ^ k > Size(val) /\ (k = 0 \/ BASE ^ (k - 1) <= Size(val))
  IN SetSign(Positive([i \in 1 .. len |-> (Size(val) \div BASE ^ (i - 1)) % BASE]), Sgn(val))

CompareAbs(a, b) ==
  IF Len(a.digits) # Len(b.digits) THEN Sgn(Len(a.digits) - Len(b.digits))
  ELSE IF a.digits = b.digits THEN 0
  ELSE LET i == Max({j \in DOMAIN a.digits : a.digits[j] # b.digits[j]})
       IN Sgn(a.digits[i] - b.digits[i])

CompareLong(a, b) ==
  IF a.width # b.width THEN Sgn(a.width - b.width)
  ELSE (IF a.width < 0 THEN -1 ELSE 1) * CompareAbs(a, b)

-----------------------------------------------------------------------------
(* Addition, subtraction, multiplication.                                  *)

AddIgnoreSign(a, b) ==
  LET sum == Chain(Max({Len(a.digits), Len(b.digits)}), 0,
                   LAMBDA i, carry :
                     LET out == Digit(a, i) + Digit(b, i) + carry
                     IN <<out % BASE, IF out > DIGIT_MAX THEN 1 ELSE 0>>)
  IN Positive(IF sum.carry # 0 THEN Append(sum.digits, 1) ELSE sum.digits)

\* |a| - |b|, where |a| >= |b|.
SubBigSmall(a, b) ==
  LET difference == Chain(Len(a.digits), 0,
                          LAMBDA i, carry :
                            LET d == Digit(a, i) - carry - Digit(b, i)
                            IN IF d < 0 THEN <<d + BASE, 1>> ELSE <<d, 0>>)
  IN Trim(Positive(difference.digits))

Add(a, b) ==
  IF a.width = 0 THEN b
  ELSE IF b.width = 0 THEN a
  ELSE IF (a.width < 0) = (b.width < 0) THEN SetSign(AddIgnoreSign(a, b), Sgn(a.width))
  ELSE CASE CompareAbs(a, b) = 1 -> SetSign(SubBigSmall(a, b), Sgn(a.width))
         [] CompareAbs(a, b) = -1 -> SetSign(SubBigSmall(b, a), Sgn(b.width))
         [] OTHER -> Zero

Sub(a, b) ==
  IF a.width = 0 THEN SetSign(b, -Sgn(b.width))
  ELSE IF b.width = 0 THEN a
  ELSE IF (a.width < 0) # (b.width < 0) THEN SetSign(AddIgnoreSign(a, b), Sgn(a.width))
  ELSE CASE CompareAbs(a, b) = 1 -> SetSign(SubBigSmall(a, b), Sgn(a.width))
         [] CompareAbs(a, b) = -1 -> SetSign(SubBigSmall(b, a), -Sgn(b.width))
         [] OTHER -> Zero

\* The result is the accumulator: each digit of b adds a row to it.
MulAbs(a, b) ==
  LET aw == Len(a.digits)
      Row(res, i) ==
        LET row == Chain(aw, 0,
                         LAMBDA j, carry :
                           LET tmp == carry + a.digits[j] * b.digits[i] + res[i + j - 1]
                           IN <<tmp % BASE, tmp \div BASE>>)
        IN [k \in DOMAIN res |-> CASE k \in i .. i + aw - 1 -> row.digits[k - i + 1]
                                   [] k = i + aw -> row.carry
                                   [] OTHER -> res[k]]
  IN Trim(Positive(FoldLeft(Row, Zeros(aw + Len(b.digits)), [i \in DOMAIN b.digits |-> i])))

Mul(a, b) ==
  IF a.width = 0 \/ b.width = 0 THEN Zero
  ELSE SetSign(MulAbs(a, b), IF (a.width < 0) = (b.width < 0) THEN 1 ELSE -1)

-----------------------------------------------------------------------------
(* Bits, counted from 0.                                                   *)

BitsIn(num) ==
  IF num.width = 0 THEN 0
  ELSE LET top == num.digits[Len(num.digits)]
       IN Max({c \in 1 .. DIGIT_SHIFT : top >= 2 ^ (c - 1)}) + (Len(num.digits) - 1) * DIGIT_SHIFT

BitIsSet(num, bit) ==
  (num.digits[bit \div DIGIT_SHIFT + 1] \div 2 ^ (bit % DIGIT_SHIFT)) % 2 = 1

BitSetZero(num, val) ==
  IF num.width = 0 THEN InitSi(val)
  ELSE [num EXCEPT !.digits[1] = @ - (@ % 2) + val]

BitSet(num, bit) ==
  LET offset == bit \div DIGIT_SHIFT + 1
      digits == IF offset > Len(num.digits)
                THEN num.digits \o Zeros(offset - Len(num.digits)) ELSE num.digits
  IN Positive([digits EXCEPT ![offset] = @ | 2 ^ (bit % DIGIT_SHIFT)])

LshiftOne(in) ==
  IF in.width = 0 THEN in
  ELSE LET out == Chain(Len(in.digits), 0,
                        LAMBDA i, carry : <<(in.digits[i] * 2 + carry) % BASE,
                                            in.digits[i] \div 2 ^ (DIGIT_SHIFT - 1)>>)
       IN Positive(IF out.carry # 0 THEN Append(out.digits, 1) ELSE out.digits)

-----------------------------------------------------------------------------
(* Division.  _div_abs divides |a| by |b|: at once if b is one, digit by   *)
(* digit if b has a single digit, and bit by bit otherwise.                *)

DivSmall(a, divisor) ==
  LET n == Len(a.digits)
      top == Chain(n, 0, LAMBDA i, remainder :
                           LET r == remainder * BASE + a.digits[n + 1 - i]
                           IN <<(r \div divisor) % BASE, r - divisor * ((r \div divisor) % BASE)>>)
  IN [quot |-> Trim(Positive(Reverse(top.digits))), rem |-> top.carry]

DivBits(a, b) ==
  LET bits == BitsIn(a)
      Bring(state, bit) ==
        LET rem == BitSetZero(LshiftOne(state.rem), IF BitIsSet(a, bit) THEN 1 ELSE 0)
        IN IF CompareLong(rem, b) >= 0
           THEN [quot |-> BitSet(state.quot, bit), rem |-> SubBigSmall(rem, b)]
           ELSE [state EXCEPT !.rem = rem]
      end == FoldLeft(Bring, [quot |-> Zero, rem |-> Zero], [i \in 1 .. bits |-> bits - i])
  IN [end EXCEPT !.quot = Trim(@)]

DivAbs(a, b) ==
  LET absa == SetSign(a, 1)
      absb == SetSign(b, 1)
  IN IF a.width = 0 THEN [quot |-> Zero, rem |-> Zero]
     ELSE IF b.digits = <<1>> THEN [quot |-> absa, rem |-> Zero]
     ELSE IF Len(a.digits) < Len(b.digits) THEN [quot |-> Zero, rem |-> absa]
     ELSE IF Len(b.digits) = 1 THEN [DivSmall(absa, b.digits[1]) EXCEPT !.rem = InitSi(@)]
     ELSE DivBits(absa, absb)

\* Mutant: the quotient is not rounded down.
MutFloored(div, a, b) ==
  [quot |-> SetSign(div.quot, IF (a.width < 0) # (b.width < 0) THEN -1 ELSE 1),
   rem |-> SetSign(div.rem, IF b.width < 0 THEN -1 ELSE 1)]

\* Rounds the quotient down, and gives the remainder the sign of the divisor.
Floored(div, a, b) ==
  LET opposite == (a.width < 0) # (b.width < 0)
      down == opposite /\ div.rem.width # 0
  IN [quot |-> IF ~opposite THEN div.quot
               ELSE SetSign(IF down THEN Add(div.quot, InitSi(1)) ELSE div.quot, -1),
      rem |-> SetSign(IF down THEN SubBigSmall(b, div.rem) ELSE div.rem,
                      IF b.width < 0 THEN -1 ELSE 1)]

DivRem(a, b) == Floored(DivAbs(a, b), a, b)

-----------------------------------------------------------------------------
(* Bitwise operators: operands are complemented digit by digit as they are *)
(* read, the result as it is written.                                      *)

Complemented(digit, carry) == (DIGIT_MAX - digit) + carry

DoBinOp(a, b, op) ==
  LET aneg == a.width < 0
      bneg == b.width < 0
      Op(x, y) == CASE op = "or" -> x | y [] op = "xor" -> x ^^ y [] op = "and" -> x & y
      rneg == CASE op = "or" -> aneg \/ bneg [] op = "xor" -> aneg # bneg [] op = "and" -> aneg /\ bneg
      Read(num, neg, i, carry) == IF neg THEN Complemented(Digit(num, i), carry) ELSE Digit(num, i)
      result == Chain(Max({Len(a.digits), Len(b.digits)}) + 1, [a |-> 1, b |-> 1, r |-> 1],
                      LAMBDA i, carry :
                        LET x == Read(a, aneg, i, carry.a)
                            y == Read(b, bneg, i, carry.b)
                            r == IF rneg THEN Complemented(Op(x, y) % BASE, carry.r) ELSE Op(x, y)
                        IN <<r % BASE, [a |-> x \div BASE, b |-> y \div BASE, r |-> r \div BASE]>>)
      res == Trim(Positive(result.digits))
  IN IF rneg THEN SetSign(res, -1) ELSE res

LongOr(a, b) == IF a.width = 0 THEN b ELSE IF b.width = 0 THEN a ELSE DoBinOp(a, b, "or")
LongAnd(a, b) == IF a.width = 0 \/ b.width = 0 THEN Zero ELSE DoBinOp(a, b, "and")

-----------------------------------------------------------------------------
(* Shifts and powers.                                                      *)

\* The two lowest digits as a machine integer.  digits[1] << 31 is computed in
\* 32 bits, so that only one bit of it is left.
Medium(num) ==
  Sgn(num.width) * (Digit(num, 1) + ((Digit(num, 2) * BASE) % 2 ^ WordBits))

Lshift(val, amount) ==
  LET offset == 2 ^ (amount % DIGIT_SHIFT)
      cycles == amount \div DIGIT_SHIFT
      w == Len(val.digits)
      out == BitSet(Zero, BitsIn(val) - 1 + amount)
      shifted == Chain(w, 0, LAMBDA i, carry : <<((val.digits[i] * offset) % BASE) + carry,
                                                 (val.digits[i] * offset) \div BASE>>)
      Placed(i) == CASE i <= cycles -> out.digits[i]
                     [] i \in cycles + 1 .. cycles + w -> shifted.digits[i - cycles]
                     [] OTHER -> shifted.carry
  IN IF amount = 0 \/ val.width = 0 THEN val
     ELSE SetSign(Positive([i \in DOMAIN out.digits |-> Placed(i)]), Sgn(val.width))

\* A negative number loses bits as a magnitude, and then one more is taken off.
Rshift(val, amount) ==
  LET offset == 2 ^ (amount % DIGIT_SHIFT)
      cycles == amount \div DIGIT_SHIFT
      Shifted(i) == (Digit(val, i + cycles) \div offset)
                    + ((Digit(val, i + cycles + 1) * (BASE \div offset)) % BASE)
      out == BitSet(Zero, BitsIn(val) - 1 - amount)
      left == IF amount < BitsIn(val)
              THEN Positive([i \in DOMAIN out.digits |-> Shifted(i)]) ELSE Zero
  IN IF amount = 0 \/ val.width = 0 THEN val
     ELSE IF val.width < 0 THEN SetSign(Add(left, InitSi(1)), -1)
     ELSE left

\* Left to right: square for each bit of the exponent, leading zeros included.
Pow(a, b) ==
  LET bits == Len(b.digits) * DIGIT_SHIFT
      Take(out, bit) == LET square == Mul(out, out)
                        IN IF BitIsSet(b, bit) THEN Mul(square, a) ELSE square
  IN FoldLeft(Take, InitSi(1), [i \in 1 .. bits |-> bits - i])

-----------------------------------------------------------------------------
(* Numerals: least digit first while they are made.                        *)

\* The size of the buffer the numeral is written to.
DigitsInBase(num, base) ==
  LET bits == BitsIn(num)
  IN CASE num.width = 0 -> 1
       [] num.width # 0 /\ base < 4 -> bits
       [] num.width # 0 /\ base \in 4 .. 7 -> (bits + 1) \div 2
       [] num.width # 0 /\ base \in 8 .. 15 -> (bits + 2) \div 3
       [] num.width # 0 /\ base = 16 -> (bits + 3) \div 4

\* A buffer of cnt bits is refilled with a digit when it is short of a numeral.
RECURSIVE Written(_, _, _, _, _)
Written(abs, bits, ind, buf, cnt) ==
  LET refill == ind < abs.width /\ cnt < bits
      full == IF refill THEN buf + abs.digits[ind + 1] * 2 ^ cnt ELSE buf
      rest == Written(abs, bits, IF refill THEN ind + 1 ELSE ind, full \div 2 ^ bits,
                      (IF refill THEN cnt + DIGIT_SHIFT ELSE cnt) - bits)
  IN IF ind >= abs.width /\ buf = 0 THEN <<>> ELSE <<full % 2 ^ bits>> \o rest

FastConversion(abs, bits) == Written(abs, bits, 1, abs.digits[1], DIGIT_SHIFT)

RECURSIVE Divided(_, _)
Divided(abs, base) ==
  IF abs.width = 0 THEN <<>>
  ELSE LET div == DivSmall(abs, base) IN <<div.rem>> \o Divided(div.quot, base)

ToStr(num, base) ==
  LET abs == SetSign(num, 1)
  IN CASE num.width = 0 -> <<0>>
       [] num.width # 0 /\ base = 2 -> Reverse(FastConversion(abs, 1))
       [] num.width # 0 /\ base = 4 -> Reverse(FastConversion(abs, 2))
       [] num.width # 0 /\ base = 8 -> Reverse(FastConversion(abs, 3))
       [] num.width # 0 /\ base = 16 -> Reverse(FastConversion(abs, 4))
       [] OTHER -> Reverse(Divided(abs, base))

\* Numerals that are read have their first digit first.  In a base that is a
\* power of two they are packed into digits from the end.
RECURSIVE Packed(_, _, _, _)
Packed(text, bits, buf, cnt) ==
  IF text = <<>> /\ buf = 0 THEN <<>>
  ELSE IF text # <<>> /\ cnt < DIGIT_SHIFT
       THEN Packed(Front(text), bits, buf + Last(text) * 2 ^ cnt, cnt + bits)
       ELSE <<buf % BASE>> \o Packed(text, bits, buf \div BASE, cnt - DIGIT_SHIFT)

\* Otherwise as many as fit a machine word are taken at a time.
RECURSIVE Accumulated(_, _, _)
Accumulated(num, text, base) ==
  IF text = <<>> THEN num
  ELSE LET len == CHOOSE k \in 1 .. Len(text) :
                    k = Len(text) \/ base ^ (k + 1) >= AccumLimit
           accum == FoldLeft(LAMBDA sum, d : sum * base + d, 0, SubSeq(text, 1, len))
       IN Accumulated(Add(Mul(num, InitSi(base ^ len)), InitSi(accum)),
                      SubSeq(text, len + 1, Len(text)), base)

ParseFails(text, base) == text = <<>> \/ \E i \in DOMAIN text : text[i] >= base

ParseString(minus, text, base) ==
  LET bits == CHOOSE k \in 1 .. 5 : base = 2 ^ k
      size == (Len(text) * bits - 1) \div DIGIT_SHIFT + 1
      packed == Packed(text, bits, 0, 0)
      num == IF base \in {2, 4, 8, 16, 32}
             THEN Trim(Positive([i \in 1 .. size |-> Digit(Positive(packed), i)]))
             ELSE Accumulated(Zero, text, base)
  IN IF minus THEN SetSign(num, -1) ELSE num

-----------------------------------------------------------------------------
(* Bytes.  A negative number is the complement of |n| - 1.                 *)

Inverted(val) ==
  IF val.width < 0 THEN Sub(SetSign(val, 1), InitSi(1)) ELSE SetSign(val, 1)

\* In a signed representation the top bit is the sign's; zero needs no bits.
ToBytesFails(val, length, signed) ==
  \/ val.width < 0 /\ ~signed
  \/ length * ByteBits < BitsIn(Inverted(val)) + (IF signed /\ val.width # 0 THEN 1 ELSE 0)

RECURSIVE Drained(_, _, _, _, _)
Drained(tmp, length, j, accum, remaining) ==
  LET refill == remaining < ByteBits
      last == refill /\ j > Len(tmp.digits)
      full == IF refill /\ ~last THEN accum + tmp.digits[j] * 2 ^ remaining ELSE accum
      rest == Drained(tmp, length - 1, IF refill THEN j + 1 ELSE j, full \div 2 ^ ByteBits,
                      (IF refill THEN remaining + DIGIT_SHIFT ELSE remaining) - ByteBits)
  IN CASE length = 0 -> <<>>
       [] length > 0 /\ last -> <<full % 2 ^ ByteBits>> \o Zeros(length - 1)
       [] OTHER -> <<full % 2 ^ ByteBits>> \o rest

ToBytes(val, length, little) ==
  LET bytes == Drained(Inverted(val), length, 1, 0, 0)
      signed == IF val.width < 0 THEN [i \in DOMAIN bytes |-> 2 ^ ByteBits - 1 - bytes[i]] ELSE bytes
  IN IF little THEN signed ELSE Reverse(signed)

-----------------------------------------------------------------------------
(* The values of the language: ints and longs.                             *)

IntObj(n) == [kind |-> "int", n |-> n]
LongObj(num) == [kind |-> "long", num |-> num]

LeastInt == -(2 ^ (IntBits - 1))
InInt(n) == LeastInt <= n /\ n < -LeastInt
InWord(n) == -(2 ^ (WordBits - 1)) <= n /\ n < 2 ^ (WordBits - 1)

\* A machine integer put in a value keeps its low bits.
IntVal(n) == IntObj(((n - LeastInt) % 2 ^ IntBits) + LeastInt)

MakeLongObj(val) ==
  CASE Len(val.digits) <= 1 -> IntObj(Sgn(val.width) * Digit(val, 1))
    [] Len(val.digits) = 2 /\ Digit(val, 2) < 2 ^ (IntBits - 1 - DIGIT_SHIFT) ->
         IntObj(Sgn(val.width) * (Digit(val, 2) * BASE + Digit(val, 1)))
    [] OTHER -> LongObj(val)

AsLong(x) == IF x.kind = "int" THEN InitSi(x.n) ELSE x.num

Value(x) ==
  IF x.kind = "int" THEN x.n
  ELSE Sgn(x.num.width) * FoldRight(LAMBDA d, sum : sum * BASE + d, x.num.digits, 0)

LongOp(op, a, b) ==
  CASE op = "add" -> Add(a, b)
    [] op = "sub" -> Sub(a, b)
    [] op = "mul" -> Mul(a, b)
    [] op = "or" -> LongOr(a, b)
    [] op = "xor" -> DoBinOp(a, b, "xor")
    [] op = "and" -> LongAnd(a, b)
    [] op = "floordiv" -> DivRem(a, b).quot
    [] op = "mod" -> DivRem(a, b).rem
    [] op = "lshift" -> Lshift(a, Medium(b))
    [] op = "rshift" -> Rshift(a, Medium(b))
    [] op = "pow" -> Pow(a, b)

\* Sums and products of small ints; LongOp does the others.
Checked(op, a, b) ==
  LET result == CASE op = "add" -> a + b [] op = "sub" -> a - b [] op = "mul" -> a * b
  IN IF InWord(a) /\ InWord(b) /\ InWord(result) THEN IntVal(result)
     ELSE MakeLongObj(LongOp(op, InitSi(a), InitSi(b)))

IntDiv(a, b) ==
  CASE a = 0 -> 0
    [] a # 0 /\ (a < 0) # (b < 0) -> -1 - ((Size(a) - 1) \div Size(b))
    [] OTHER -> Size(a) \div Size(b)

IntMod(a, b) ==
  LET res == IF (a < 0) # (b < 0) THEN Size(b) - 1 - ((Size(a) - 1) % Size(b))
             ELSE Size(a) % Size(b)
  IN CASE a = 0 -> 0 [] a # 0 /\ b < 0 -> -res [] OTHER -> res

IntOp(op, a, b) ==
  LET x == a % 2 ^ IntBits
      y == b % 2 ^ IntBits
  IN CASE op \in {"add", "sub", "mul"} -> Checked(op, a, b)
       [] op = "or" -> IntVal(x | y)
       [] op = "xor" -> IntVal(x ^^ y)
       [] op = "and" -> IntVal(x & y)
       [] op = "floordiv" -> IntVal(IntDiv(a, b))
       [] op = "mod" -> IntVal(IntMod(a, b))
       [] OTHER -> MakeLongObj(LongOp(op, InitSi(a), InitSi(b)))

Binary(op, x, y) ==
  IF x.kind = "int" /\ y.kind = "int" THEN IntOp(op, x.n, y.n)
  ELSE MakeLongObj(LongOp(op, AsLong(x), AsLong(y)))

IntNumeral(n, base) ==
  LET len == CHOOSE k \in 1 .. IntBits : base ^ k > n
  IN [i \in 1 .. len |-> (n \div base ^ (len - i)) % base]

-----------------------------------------------------------------------------
(* A calculator: one operation at a time on acc, and what it replied.      *)

Idle == [op |-> "idle"]
Error == [error |-> TRUE, out |-> <<>>]
Says(out) == [error |-> FALSE, out |-> out]
Done == Says(<<>>)
Truth(b) == IF b THEN 1 ELSE 0

Init == acc = IntObj(0) /\ call = Idle /\ reply = Done

Ready == call = Idle /\ Size(Value(acc)) <= MaxValue

Asked(c, result, answer) ==
  /\ call' = c
  /\ acc' = result
  /\ reply' = answer

\* int(text, base) of a numeral.
Literal ==
  /\ call = Idle
  /\ \E l \in Literals :
       LET c == [op |-> "literal", minus |-> l.minus, base |-> l.base, digits |-> l.digits]
       IN IF ParseFails(l.digits, l.base) THEN Asked(c, acc, Error)
          ELSE Asked(c, MakeLongObj(ParseString(l.minus, l.digits, l.base)), Done)

\* What programs avoid because the answer is wrong, unless Unsound names it.
\* An int shifted by a long is left out altogether: out and val are then the
\* same number, which is cleared before it is read.
Avoided(op, n, other) ==
  \/ op = "rshift" /\ n < 0 /\ other \in 1 .. 20 /\ n % 2 ^ other = 0 /\ "exact" \notin Unsound
  \/ op \in {"lshift", "rshift"} /\ other >= 2 ^ WordBits /\ "amount" \notin Unsound
  \/ op = "floordiv" /\ acc = IntObj(LeastInt) /\ other = -1 /\ "least" \notin Unsound

Undefined(op, other) ==
  \/ op \in {"floordiv", "mod"} /\ other = 0
  \/ op \in {"lshift", "rshift"} /\ other < 0

Operate(op, y) ==
  /\ Ready
  /\ ~Avoided(op, Value(acc), y.other)
  /\ LET c == [op |-> op, other |-> y.other, long |-> y.long]
         operand == IF y.long THEN LongObj(InitSi(y.other)) ELSE IntObj(y.other)
     IN IF Undefined(op, y.other) THEN Asked(c, acc, Error)
        ELSE Asked(c, Binary(op, acc, operand), Done)

BinaryOp == \E y \in Operands :
  \E op \in {"add", "sub", "mul", "floordiv", "mod", "or", "xor", "and"} : Operate(op, y)
ShiftOp == \E y \in Shifts :
  \E op \in {"lshift", "rshift"} : (y.long => acc.kind = "long") /\ Operate(op, y)
PowOp == \E y \in Exponents :
  BitsIn(AsLong(acc)) * y.other <= MaxPowerBits /\ Operate("pow", y)

Compare ==
  /\ Ready
  /\ \E y \in Operands :
       LET sign == IF acc.kind = "int" /\ ~y.long THEN Sgn(acc.n - y.other)
                   ELSE CompareLong(AsLong(acc), InitSi(y.other))
       IN Asked([op |-> "compare", other |-> y.other, long |-> y.long], acc,
                Says(<<Truth(sign < 0), Truth(sign > 0), Truth(sign <= 0),
                       Truth(sign >= 0), Truth(sign = 0)>>))

Sound == "least" \in Unsound \/ acc # IntObj(LeastInt)

Neg ==
  /\ Ready /\ Sound
  /\ Asked([op |-> "neg"],
           IF acc.kind = "int" THEN IntVal(-acc.n)
           ELSE MakeLongObj(SetSign(acc.num, IF acc.num.width > 0 THEN -1 ELSE 1)), Done)

AbsOf ==
  /\ Ready /\ Sound
  /\ Asked([op |-> "abs"],
           IF acc.kind = "int" THEN IntVal(Size(acc.n))
           ELSE MakeLongObj(SetSign(acc.num, 1)), Done)

Invert ==
  /\ Ready
  /\ LET next == Add(acc.num, InitSi(1))
     IN Asked([op |-> "invert"],
              IF acc.kind = "int" THEN IntVal(-acc.n - 1)
              ELSE MakeLongObj(SetSign(next, IF next.width > 0 THEN -1 ELSE 1)), Done)

\* long(n) keeps even a small number as a long.
ToLong == Ready /\ Asked([op |-> "long"], LongObj(AsLong(acc)), Done)

Hash ==
  /\ Ready
  /\ Asked([op |-> "hash"], acc,
           Says(<<(IF acc.kind = "int" THEN acc.n ELSE Medium(acc.num)) % 2 ^ WordBits>>))

Str ==
  /\ Ready
  /\ \E base \in Bases :
       Asked([op |-> "str", base |-> base], acc,
             Says(<<Truth(Value(acc) < 0)>> \o
                  (IF acc.kind = "int" THEN IntNumeral(Size(acc.n), base) ELSE ToStr(acc.num, base))))

BitLength == Ready /\ Asked([op |-> "bit_length"], acc, Says(<<BitsIn(AsLong(acc))>>))

BitCount ==
  /\ Ready
  /\ LET val == AsLong(acc)
     IN Asked([op |-> "bit_count"], acc,
              Says(<<Cardinality({bit \in 0 .. BitsIn(val) - 1 : BitIsSet(val, bit)})>>))

Bytes ==
  /\ Ready
  /\ \E length \in Lengths, signed \in BOOLEAN, little \in BOOLEAN :
       LET c == [op |-> "to_bytes", length |-> length, signed |-> signed, little |-> little]
           val == AsLong(acc)
       IN Asked(c, acc, IF ToBytesFails(val, length, signed) THEN Error
                        ELSE Says(ToBytes(val, length, little)))

Clear == call # Idle /\ call' = Idle /\ reply' = Done /\ UNCHANGED acc

Next == \/ Literal \/ BinaryOp \/ ShiftOp \/ PowOp \/ Compare
        \/ Neg \/ AbsOf \/ Invert \/ ToLong \/ Hash \/ Str \/ BitLength \/ BitCount \/ Bytes
        \/ Clear

Spec == Init /\ [][Next]_vars

-----------------------------------------------------------------------------
(* Properties.                                                             *)

\* A long is normalised (trim): its highest digit is not zero, zero has no
\* digits, and the width counts the digits; every digit fits.  Ints fit.
TypeOK ==
  \/ acc.kind = "int" /\ InInt(acc.n)
  \/ /\ acc.kind = "long"
     /\ Size(acc.num.width) = Len(acc.num.digits)
     /\ \A i \in DOMAIN acc.num.digits : acc.num.digits[i] \in 0 .. DIGIT_MAX
     /\ acc.num.width # 0 => acc.num.digits[Len(acc.num.digits)] # 0

\* The numeral of a long fits the buffer krk_long_to_str allocates from an
\* estimate of its length, in every base.
NumeralFits ==
  call.op = "str" /\ acc.kind = "long" => Len(reply.out) - 1 <= DigitsInBase(acc.num, call.base)
=============================================================================
