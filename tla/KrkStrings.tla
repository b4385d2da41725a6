------------------------------ MODULE KrkStrings ------------------------------
(***************************************************************************)
(* Strings (obj_str.c, the coding of object.c).  A string is its UTF-8     *)
(* bytes and three things kept with them, which every operation either     *)
(* finds out anew or puts together from those of its operands: the number  *)
(* of code points, the width of the widest, and the hash (its low bits:    *)
(* the hash is a sum of products, modulo a power of two).                  *)
(*                                                                         *)
(* Most methods work on bytes, some on code points, which they read from   *)
(* an array that is decoded when first asked for.                          *)
(***************************************************************************)
EXTENDS Integers, Sequences, SequencesExt

CONSTANTS
  None,        \* no argument, or no answer but an exception
  HashSpan,    \* 2^w, of which w bits of a hash are kept here
  Literals,    \* code points of the strings the program starts with,
  Arguments,   \* of those it uses as arguments,
  Integral,    \* and what it multiplies by and indexes with
  MaxCodes     \* bound: code points in a string that goes on being used

VARIABLE str   \* the string the program has in hand

Slicing == INSTANCE KrkSlices WITH Worth <- <<>>

At(s, i) == s[i + 1]

-----------------------------------------------------------------------------
(* UTF-8.                                                                  *)

\* krk_codepointToBytes
Continuation(x) == 128 + (x % 64)
Enc(c) ==
  CASE c > 65535 -> <<240 + c \div 262144, Continuation(c \div 4096), Continuation(c \div 64), Continuation(c)>>
    [] c > 2047 /\ c <= 65535 -> <<224 + c \div 4096, Continuation(c \div 64), Continuation(c)>>
    [] c > 127 /\ c <= 2047 -> <<192 + c \div 64, Continuation(c)>>
    [] OTHER -> <<c>>

CodepointBytes(c) == IF c < 128 THEN 1 ELSE IF c < 2048 THEN 2 ELSE IF c < 65536 THEN 3 ELSE 4

Accept == 0
Reject == 1

\* The states of decode: how many bytes of a code point are still to come.
More(n) == IF n = 0 THEN Accept ELSE n + 1
Fewer(state) == IF state = 2 THEN Accept ELSE state - 1

Decode(state, code, byte) ==
  IF state = Accept
  THEN CASE byte < 128 -> [state |-> Accept, code |-> byte]
         [] byte \in 194 .. 223 -> [state |-> More(1), code |-> byte % 32]
         [] byte \in 224 .. 239 -> [state |-> More(2), code |-> byte % 16]
         [] byte \in 240 .. 247 -> [state |-> More(3), code |-> byte % 8]
         [] OTHER -> [state |-> Reject, code |-> code]
  ELSE IF byte \notin 128 .. 191 THEN [state |-> Reject, code |-> code]
  ELSE [state |-> Fewer(state), code |-> code * 64 + (byte % 64)]

\* checkString.  What ends in the middle of a code point passes.
CheckString(bytes) ==
  LET so[i \in 0 .. Len(bytes)] ==
        IF i = 0 THEN [state |-> Accept, code |-> 0, codes |-> <<>>]
        ELSE LET before == so[i - 1]
                 d == Decode(before.state, before.code, bytes[i])
             IN IF before.state = Reject THEN before
                ELSE [state |-> d.state, code |-> d.code,
                      codes |-> IF d.state = Accept THEN Append(before.codes, d.code) ELSE before.codes]
  IN so[Len(bytes)]

\* The classes of widths, in their order: ASCII, UCS1, UCS2, UCS4.
Width(c) == IF c > 65535 THEN 3 ELSE IF c > 255 THEN 2 ELSE IF c > 127 THEN 1 ELSE 0
Widest(codes) == FoldLeft(LAMBDA w, c : IF Width(c) > w THEN Width(c) ELSE w, 0, codes)

-----------------------------------------------------------------------------
(* Making strings.                                                         *)

\* krk_hash_advance, with a byte that is a signed char.
Advance(hash, byte) ==
  ((IF byte > 127 THEN byte - 256 ELSE byte) + hash * (65599 % HashSpan)) % HashSpan

HashString(from, bytes) == FoldLeft(Advance, from, bytes)

\* krk_copyString, allocateString: malformed bytes are a ValueError.
CopyString(bytes) ==
  LET checked == CheckString(bytes)
  IN IF checked.state = Reject THEN None
     ELSE [bytes |-> bytes, codesLength |-> Len(checked.codes), type |-> Widest(checked.codes),
           hash |-> HashString(0, bytes)]

\* krk_unicodeString, KRK_STRING_FAST: an element of the array is as wide as
\* the type of the string says.
Code(s, i) ==
  CheckString(s.bytes).codes[i + 1] % (IF s.type <= 1 THEN 256 ELSE IF s.type = 2 THEN 65536 ELSE 2097152)
Codes(s) == [k \in 1 .. s.codesLength |-> Code(s, k - 1)]

Ord(s) == IF s.codesLength = 1 THEN Code(s, 0) ELSE None

\* Mutant: the type is that of the string on the left.
MutAdd(s, t) ==
  [bytes |-> s.bytes \o t.bytes, codesLength |-> s.codesLength + t.codesLength, type |-> s.type,
   hash |-> HashString(s.hash, t.bytes)]

Add(s, t) ==
  [bytes |-> s.bytes \o t.bytes, codesLength |-> s.codesLength + t.codesLength,
   type |-> IF s.type > t.type THEN s.type ELSE t.type,
   hash |-> HashString(s.hash, t.bytes)]

Mul(s, n) ==
  LET howMany == IF n < 0 THEN 0 ELSE n
      out == [i \in 1 .. howMany * Len(s.bytes) |-> s.bytes[((i - 1) % Len(s.bytes)) + 1]]
  IN [bytes |-> out, codesLength |-> s.codesLength * howMany, type |-> s.type, hash |-> HashString(0, out)]

Item(s, index) ==
  LET i == IF index < 0 THEN index + s.codesLength ELSE index
  IN IF i \notin 0 .. s.codesLength - 1 THEN None
     ELSE IF s.type = 0 THEN CopyString(<<At(s.bytes, i)>>) ELSE CopyString(Enc(Code(s, i)))

\* Mutant: every code point takes one byte.
MutSpan(s, a, b) == b - a

\* How many bytes the code points from a up to b take.
Span(s, a, b) == FoldLeft(LAMBDA n, c : n + CodepointBytes(c), 0, SubSeq(Codes(s), a + 1, b))

Slice(s, slice) ==
  LET b == Slicing!Bounds(s.codesLength, slice)
      walk == Slicing!Walk(b)
  IN IF Slicing!Rejected(s.codesLength, slice) THEN None
     ELSE IF b.step # 1 THEN CopyString(FlattenSeq([k \in DOMAIN walk |-> Enc(Code(s, walk[k]))]))
     ELSE IF s.type = 0 THEN CopyString(SubSeq(s.bytes, b.start + 1, b.end))
     ELSE LET offset == Span(s, 0, b.start)
          IN CopyString(SubSeq(s.bytes, offset + 1, offset + Span(s, b.start, b.end)))

-----------------------------------------------------------------------------
(* Methods that look for bytes.                                            *)

\* substringMatch at position i, from 0.
SubstringMatch(bytes, i, needle) ==
  /\ i + Len(needle) <= Len(bytes)
  /\ \A k \in DOMAIN needle : bytes[i + k] = needle[k]

HasSubstring(s, t) == \E i \in 0 .. Len(s.bytes) - 1 : SubstringMatch(s.bytes, i, t.bytes)

\* strCompare
Less(s, t, orEqual) ==
  LET shorter == IF Len(s.bytes) < Len(t.bytes) THEN Len(s.bytes) ELSE Len(t.bytes)
      differ == {i \in 1 .. shorter : s.bytes[i] # t.bytes[i]}
      i == CHOOSE i \in differ : \A j \in differ : i <= j
  IN IF differ # {} THEN s.bytes[i] < t.bytes[i]
     ELSE Len(s.bytes) < Len(t.bytes) \/ (orEqual /\ Len(s.bytes) = Len(t.bytes))

\* split: from position i the piece is what there is up to the separator.
Until(bytes, i, stop(_)) ==
  LET from[k \in Nat] == IF k = Len(bytes) \/ stop(k) THEN k ELSE from[k + 1] IN from[i]
Piece(bytes, i, j) == CopyString(SubSeq(bytes, i + 1, j))

Split(s, sep, maxsplit) ==
  LET n == Len(s.bytes)
      from[i \in Nat, count \in Nat] ==
        LET j == Until(s.bytes, i, LAMBDA k : SubstringMatch(s.bytes, k, sep.bytes))
            next == j + Len(sep.bytes)
        IN IF i = n THEN <<>>
           ELSE IF j = n THEN <<Piece(s.bytes, i, n)>>
           ELSE IF count + 1 = maxsplit \/ next = n THEN <<Piece(s.bytes, i, j), Piece(s.bytes, next, n)>>
           ELSE <<Piece(s.bytes, i, j)>> \o from[next, count + 1]
  IN IF maxsplit = 0 THEN <<s>> ELSE from[0, 0]

IsWhitespace(byte) == byte \in {32, 9, 10, 13}

SplitWhite(s, maxsplit) ==
  LET n == Len(s.bytes)
      from[i \in Nat, count \in Nat] ==
        LET a == Until(s.bytes, i, LAMBDA k : ~IsWhitespace(At(s.bytes, k)))
            b == Until(s.bytes, a, LAMBDA k : IsWhitespace(At(s.bytes, k)))
        IN IF a = n THEN <<>>
           ELSE IF count = maxsplit THEN <<Piece(s.bytes, a, n)>>
           ELSE <<Piece(s.bytes, a, b)>> \o from[b, count + 1]
  IN from[0, 0]

\* An empty string to replace is found before every byte.
Replace(s, old, new, count) ==
  LET n == Len(s.bytes)
      from[i \in Nat, done \in Nat] ==
        IF i >= n THEN <<>>
        ELSE IF SubstringMatch(s.bytes, i, old.bytes) /\ (count = None \/ done < count)
        THEN IF old.bytes = <<>> THEN new.bytes \o <<At(s.bytes, i)>> \o from[i + 1, done + 1]
             ELSE new.bytes \o from[i + Len(old.bytes), done + 1]
        ELSE <<At(s.bytes, i)>> \o from[i + 1, done]
  IN CopyString(from[0, 0])

Join(s, list) ==
  CopyString(FlattenSeq([k \in DOMAIN list |-> (IF k = 1 THEN <<>> ELSE s.bytes) \o list[k].bytes]))

\* lower, upper, title change the bytes that are letters.
Upper(b) == b \in 65 .. 90
Lower(b) == b \in 97 .. 122
Cased(s, from(_), by) == CopyString([i \in DOMAIN s.bytes |-> IF from(s.bytes[i]) THEN s.bytes[i] + by ELSE s.bytes[i]])
ToLower(s) == Cased(s, Upper, 32)
ToUpper(s) == Cased(s, Lower, -32)

Title(s) ==
  LET letter(b) == Upper(b) \/ Lower(b)
      start[i \in 1 .. Len(s.bytes) + 1] ==   \* lastWasWhitespace
        i = 1 \/ (IF (start[i - 1] /\ Lower(s.bytes[i - 1])) \/ (~start[i - 1] /\ Upper(s.bytes[i - 1])) THEN FALSE
                  ELSE ~letter(s.bytes[i - 1]))
  IN CopyString([i \in DOMAIN s.bytes |->
       IF start[i] /\ Lower(s.bytes[i]) THEN s.bytes[i] - 32
       ELSE IF ~start[i] /\ Upper(s.bytes[i]) THEN s.bytes[i] + 32 ELSE s.bytes[i]])

-----------------------------------------------------------------------------
(* Methods that look for code points.                                      *)

WrapIndex(s, i) == Slicing!Clipped(0, s.codesLength, Slicing!FromEnd(s.codesLength, i))

Find(s, t, start, end) ==
  LET a == WrapIndex(s, start)
      b == WrapIndex(s, end)
      hits == {i \in a .. b - 1 : i + t.codesLength <= b /\ \A k \in 0 .. t.codesLength - 1 : Code(s, i + k) = Code(t, k)}
  IN IF hits = {} THEN -1 ELSE CHOOSE i \in hits : \A j \in hits : i <= j

Affix(s, t, start, end, place(_, _)) ==
  LET a == WrapIndex(s, start)
      b == WrapIndex(s, end)
  IN /\ a <= b /\ t.codesLength <= b - a
     /\ \A k \in 0 .. t.codesLength - 1 : Code(s, place(a, b) + k) = Code(t, k)

StartsWith(s, t, start, end) == Affix(s, t, start, end, LAMBDA a, b : a)
EndsWith(s, t, start, end) == Affix(s, t, start, end, LAMBDA a, b : b - t.codesLength)

CharIn(c, s) == \E i \in 0 .. s.codesLength - 1 : Code(s, i) = c

\* Both ends at a time, in bytes by the widths of the code points.
Strip(s, chars, left, right) ==
  LET ahead[j \in Nat, a \in Nat] ==
        IF a < Len(s.bytes) /\ CharIn(Code(s, j), chars) THEN ahead[j + 1, a + CodepointBytes(Code(s, j))] ELSE a
      a == IF left THEN ahead[0, 0] ELSE 0
      back[k \in Int, b \in Nat] ==
        IF b > a /\ CharIn(Code(s, k), chars) THEN back[k - 1, b - CodepointBytes(Code(s, k))] ELSE b
      b == IF right THEN back[s.codesLength - 1, Len(s.bytes)] ELSE Len(s.bytes)
  IN CopyString(SubSeq(s.bytes, a + 1, b))

\* isalpha, islower and the like, by the code points they accept.
CheckAll(s, accepted) == \A i \in 0 .. s.codesLength - 1 : Code(s, i) \in accepted

\* striterator: the items one by one.
Items(s) == [k \in 1 .. s.codesLength |-> Item(s, k - 1)]

-----------------------------------------------------------------------------
(* A program that goes on working with what it gets.                       *)

TextOf(codes) == CopyString(FlattenSeq([k \in DOMAIN codes |-> Enc(codes[k])]))

Literal == {TextOf(c) : c \in Literals}
Argument == {TextOf(c) : c \in Arguments}

Get(s) == s # None /\ s.codesLength <= MaxCodes /\ str' = s

Init == str \in Literal

Combine ==
  \/ \E t \in Argument : Get(Add(str, t)) \/ Get(Add(t, str)) \/ Get(Join(str, <<t, t>>)) \/ Get(Join(t, Items(str)))
  \/ \E n \in Integral : Get(Mul(str, n))

Part ==
  \/ \E i \in Integral : Get(Item(str, i))
  \/ \E i, j \in Integral \cup {None}, step \in {None, 2, -1} : Get(Slice(str, [start |-> i, end |-> j, step |-> step]))
  \/ \E t \in Argument, left, right \in BOOLEAN : Get(Strip(str, t, left, right))
  \/ \E t \in Argument, n \in {-1, 0, 1} :
       LET parts == IF t.bytes = <<>> THEN SplitWhite(str, n) ELSE Split(str, t, n)
       IN \E k \in DOMAIN parts : Get(parts[k])

Change ==
  \/ \E t, u \in Argument, n \in {None, 1} : Get(Replace(str, t, u, n))
  \/ Get(ToLower(str)) \/ Get(ToUpper(str)) \/ Get(Title(str))

Next == Combine \/ Part \/ Change

Spec == Init /\ [][Next]_str
=============================================================================
