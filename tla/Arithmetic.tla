----------------------------- MODULE Arithmetic -----------------------------
(***************************************************************************)
(* What the integers of Kuroko promise: those of mathematics, however      *)
(* large.  Division rounds towards minus infinity and the remainder has    *)
(* the sign of the divisor; the bitwise operators and the shifts are those *)
(* of two's complement with infinitely many sign bits.  A calculator holds *)
(* one number, is asked for an operation, and replies.  How numbers are    *)
(* kept is the business of KrkLong.                                        *)
(***************************************************************************)
EXTENDS Integers, Sequences, SequencesExt

CONSTANTS
  HashBits,   \* a hash is this many bits of the number
  ByteBits    \* bits in a byte

VARIABLES
  number,     \* what the calculator holds
  call,       \* the operation it was asked for; Idle after it was cleared
  reply       \* what it answered

vars == <<number, call, reply>>

Idle == [op |-> "idle"]
Error == [error |-> TRUE, out |-> <<>>]
Says(out) == [error |-> FALSE, out |-> out]
Done == Says(<<>>)

Size(n) == IF n >= 0 THEN n ELSE -n
Truth(b) == IF b THEN 1 ELSE 0

FloorDiv(a, b) == IF b > 0 THEN a \div b ELSE (-a) \div (-b)
FloorMod(a, b) == a - b * FloorDiv(a, b)

\* How many digits the natural number n has in a base, at least one.
MaxDigits == 30
Length(n, base) ==
  CHOOSE k \in 1 .. MaxDigits : base ^ k > n /\ (k = 1 \/ base ^ (k - 1) <= n)
Numeral(n, base) ==
  [i \in 1 .. Length(n, base) |-> (n \div base ^ (Length(n, base) - i)) % base]
BitLength(n) == IF n = 0 THEN 0 ELSE Length(Size(n), 2)

\* Bit i of n in two's complement, and the number that has given bits, the
\* last of which is repeated for ever.
Bit(n, i) == (n \div 2 ^ i) % 2
FromBits(bits) ==
  LET top == Len(bits) - 1
      sum[i \in 0 .. top] ==
        IF i = 0 THEN -(bits[top + 1] * 2 ^ top) ELSE sum[i - 1] + bits[i] * 2 ^ (i - 1)
  IN sum[top]

Bitwise(Op(_, _), a, b) ==
  FromBits([i \in 1 .. BitLength(a) + BitLength(b) + 1 |-> Op(Bit(a, i - 1), Bit(b, i - 1))])

-----------------------------------------------------------------------------
\* What a call makes of the number n.  Calls that only ask leave it alone, and
\* so do those that fail.
FromDigits(digits, base) == FoldLeft(LAMBDA n, d : n * base + d, 0, digits)

Fails(n, c) ==
  CASE c.op \in {"floordiv", "mod"} -> c.other = 0
    [] c.op \in {"lshift", "rshift"} -> c.other < 0
    [] c.op = "literal" -> c.digits = <<>> \/ \E i \in DOMAIN c.digits : c.digits[i] >= c.base
    [] c.op = "to_bytes" -> LET bits == ByteBits * c.length
                            IN IF ~c.signed THEN n < 0 \/ n >= 2 ^ bits
                               ELSE /\ n # 0
                                    /\ \/ bits = 0
                                       \/ n < -(2 ^ (bits - 1))
                                       \/ n >= 2 ^ (bits - 1)
    [] OTHER -> FALSE

Result(n, c) ==
  IF Fails(n, c) THEN n
  ELSE CASE c.op = "add" -> n + c.other
         [] c.op = "sub" -> n - c.other
         [] c.op = "mul" -> n * c.other
         [] c.op = "floordiv" -> FloorDiv(n, c.other)
         [] c.op = "mod" -> FloorMod(n, c.other)
         [] c.op = "or" -> Bitwise(LAMBDA x, y : Truth(x + y > 0), n, c.other)
         [] c.op = "xor" -> Bitwise(LAMBDA x, y : (x + y) % 2, n, c.other)
         [] c.op = "and" -> Bitwise(LAMBDA x, y : x * y, n, c.other)
         [] c.op = "lshift" -> n * 2 ^ c.other
         [] c.op = "rshift" -> n \div 2 ^ c.other
         [] c.op = "pow" -> IF c.other = 0 THEN 1 ELSE n ^ c.other
         [] c.op = "neg" -> -n
         [] c.op = "abs" -> Size(n)
         [] c.op = "invert" -> -n - 1
         [] c.op = "literal" -> (IF c.minus THEN -1 ELSE 1) * FromDigits(c.digits, c.base)
         [] OTHER -> n

Reply(n, c) ==
  IF Fails(n, c) THEN Error
  ELSE CASE c.op = "compare" ->
              Says(<<Truth(n < c.other), Truth(n > c.other), Truth(n <= c.other),
                     Truth(n >= c.other), Truth(n = c.other)>>)
         [] c.op = "hash" -> Says(<<n % 2 ^ HashBits>>)
         [] c.op = "str" -> Says(<<Truth(n < 0)>> \o Numeral(Size(n), c.base))
         [] c.op = "bit_length" -> Says(<<BitLength(n)>>)
         [] c.op = "bit_count" ->
              Says(<<FoldLeft(LAMBDA sum, b : sum + b, 0, Numeral(Size(n), 2))>>)
         [] c.op = "to_bytes" ->
              LET little == [i \in 1 .. c.length |-> (n \div 2 ^ (ByteBits * (i - 1))) % 2 ^ ByteBits]
              IN Says(IF c.little THEN little ELSE Reverse(little))
         [] OTHER -> Done

Init == number = 0 /\ call = Idle /\ reply = Done

Answer ==
  /\ call = Idle
  /\ call' # Idle
  /\ number' = Result(number, call')
  /\ reply' = Reply(number, call')

Clear ==
  /\ call # Idle
  /\ call' = Idle
  /\ reply' = Done
  /\ UNCHANGED number

Spec == Init /\ [][Answer \/ Clear]_vars
=============================================================================
