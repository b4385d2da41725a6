------------------------------- MODULE MCValues --------------------------------
(***************************************************************************)
(* Model checking values: texts and bytes, KrkStrings and KrkFormats, and  *)
(* numbers, KrkLong.  Each behaviour is about texts or about numbers.      *)
(***************************************************************************)
EXTENDS KrkFormats

\* a, A, space, and letters of two, two (wider than 255), three and four
\* bytes, two of which end in the same byte.
Letters == {97, 65, 32, 233, 361, 8361, 128512}
SeqsTo(S, n) == UNION {[1 .. k -> S] : k \in 0 .. n}
MCLiterals == SeqsTo(Letters, 2) \cup SeqsTo({97, 32, 361}, 3)
MCArguments == SeqsTo({97, 32, 361, 8361}, 1) \cup {<<361, 97>>, <<97, 97>>, <<233, 32>>}
MCIntegral == -4 .. 4

Text == INSTANCE Texts

\* Every string has, cached, the length and the hash its bytes have, so that
\* it is the one that is found when the same text is made in another way,
\* and is wide enough for its code points (it may be wider: a wide letter
\* times zero is an empty wide string).
CachesTruthful ==
  /\ str.hash = CopyString(str.bytes).hash
  /\ str.codesLength = CopyString(str.bytes).codesLength
  /\ str.type >= CopyString(str.bytes).type

Result(s) == IF s = None THEN None ELSE Codes(s)
Results(parts) == [k \in DOMAIN parts |-> Codes(parts[k])]
Own == Codes(str)

\* What works on bytes is right about code points: none is found in the
\* middle of another, the order of bytes is that of code points, and what is
\* cut out or put in leaves whole ones.
BytewiseRight ==
  \A t \in Argument :
    LET u == Codes(t)
        least == Text!Seqs!Precedes(Own, u)
    IN /\ HasSubstring(str, t) = (Text!Places(Own, u) # {} /\ Own # <<>>)
       /\ Less(str, t, FALSE) = least
       /\ Less(str, t, TRUE) = (least \/ Own = u)
       /\ \A most \in -1 .. 2 :
            /\ u # <<>> /\ (Own # <<>> \/ most = 0) => Results(Split(str, t, most)) = Text!Divided(Own, u, most)
            /\ Text!Words(Results(SplitWhite(str, most)), Own, most)
       /\ u # <<>> =>
            \A new \in Argument, count \in {None, 1} :
              Result(Replace(str, t, new, count))
                = Text!Joined(Text!Divided(Own, u, IF count = None THEN -1 ELSE count), Codes(new))
       /\ Result(Join(t, Items(str))) = Text!Joined([k \in DOMAIN Own |-> <<Own[k]>>], u)
       /\ Text!Titled(Codes(Title(str)), Own)
       /\ CheckAll(str, 97 .. 122) = \A k \in DOMAIN Own : Text!Small(Own[k])
       /\ \A k \in DOMAIN Own : ~Text!Small(Codes(ToUpper(str))[k])
       /\ Codes(ToLower(ToUpper(str))) = Codes(ToLower(str))

\* What works on code points by the cached length, type and widths is right,
\* and so are the code points read from the array.
CodewiseRight ==
  /\ str.bytes = TextOf(Own).bytes
  /\ Own # <<>> => Ord(Item(str, 0)) = Own[1]
  /\ \A i, j \in Integral, step \in {None, 1, 2, -1, -2} :
       LET slice == [start |-> i, end |-> j, step |-> step]
       IN Text!Seqs!Meaningful(Own, slice) => Result(Slice(str, slice)) = Text!Seqs!Sliced(Own, slice)
  /\ \A t \in Argument :
       LET u == Codes(t)
       IN /\ \A i, j \in Integral :
               LET found == Text!PlacesWithin(Own, u, i, j)
                   w == Text!Within(Own, i, j)
               IN /\ (w.low < w.high \/ u # <<>>) =>
                       Find(str, t, i, j) = IF found = {} THEN -1 ELSE CHOOSE p \in found : \A q \in found : p <= q
                  /\ StartsWith(str, t, i, j) = (w.low \in found)
                  /\ EndsWith(str, t, i, j) = (w.low <= w.high /\ w.high - Len(u) \in found)
          /\ \A left, right \in BOOLEAN : Text!Stripped(Result(Strip(str, t, left, right)), Own, u, left, right)

\* What is accepted as UTF-8, of any bytes there are: leading bytes, each
\* with as many continuations as it asks for, but what comes last may lack
\* some; and what is accepted, complete and as short as can be, is the text
\* that would be coded that way.
Bytes == {0, 127, 128, 191, 192, 193, 194, 223, 224, 237, 239, 240, 244, 247, 248, 255}
Asks(b) == IF b \in 194 .. 223 THEN 1 ELSE IF b \in 224 .. 239 THEN 2 ELSE IF b \in 240 .. 247 THEN 3 ELSE 0
Covered(bytes, i) ==
  \E k \in 1 .. i - 1 : i - k <= Asks(bytes[k]) /\ \A j \in k + 1 .. i : bytes[j] \in 128 .. 191
Acceptable(bytes) ==
  \A i \in DOMAIN bytes :
    /\ bytes[i] \in 128 .. 191 => Covered(bytes, i)
    /\ bytes[i] \notin {192, 193} \cup (248 .. 255)
    /\ \A k \in 1 .. Asks(bytes[i]) : i + k <= Len(bytes) => bytes[i + k] \in 128 .. 191
CodingRight ==
  str.bytes = <<>> =>
    /\ \A bytes \in SeqsTo(Bytes, 4) : (CopyString(bytes) # None) = Acceptable(bytes)
    /\ \A c \in {0, 127, 128, 2047, 2048, 55295, 65535, 65536, 1114111} :
         LET s == CopyString(Enc(c)) IN s # None /\ Codes(s) = <<c>> /\ Len(s.bytes) = CodepointBytes(c)

Tricky == {39, 34, 92, 10, 27, 0, 127, 120, 48, 110}

\* What __repr__ writes the scanner takes for one literal, to its end and no
\* further, and the compiler makes the same string of; and escapes in octal
\* and over the end of a line mean what they mean.
LiteralsRight ==
  str.bytes = <<>> =>
    /\ \A bytes \in SeqsTo(Tricky, 3) \cup {<<b>> : b \in 0 .. 127} \cup {Enc(361), <<34, 39, 39, 92>>} :
         LET r == Repr(CopyString(bytes)).bytes
         IN /\ Literally(r) = bytes /\ ScanLiteral(r, 1).end = Len(r)
            /\ ScanLiteral(r \o <<32>> \o r, 1).end = Len(r)
    /\ \A a, b, c \in 0 .. 7 :
         /\ Unescaped(<<Backslash, 48 + a, 48 + b, 48 + c, 48>>) = Enc(64 * a + 8 * b + c) \o <<48>>
         /\ Unescaped(<<Backslash, 48 + a, 48 + b, 56>>) = <<8 * a + b, 56>>
    /\ \A c \in {65, 233, 8361} :
         Unescaped(<<Backslash, 117, 48 + c \div 4096, Hex((c \div 256) % 16), Hex((c \div 16) % 16), Hex(c % 16), 48>>)
           = Enc(c) \o <<48>>
    /\ \A b \in {97, 92} : Literally(<<Double, Double, Double, Backslash, Newline, b, Backslash, 34, Double, Double, Double>>)
                          = IF b = 97 THEN <<97, 34>> ELSE <<92>>

\* Pieces of templates, how they are written, and what they mean: a field
\* stands for the next argument, or for the first.
IsField(piece) == piece \in {"next", "left", "right"}
FieldsTo(pieces, k) == Len(SelectSeq(SubSeq(pieces, 1, k), IsField))
Fields(pieces) == FieldsTo(pieces, Len(pieces))

Braces == [letter |-> <<361>>, open |-> <<123, 123>>, close |-> <<125, 125>>, next |-> <<123, 125>>, first |-> <<123, 48, 125>>]
BracesMean == [letter |-> <<361>>, open |-> <<123>>, close |-> <<125>>]
Percents == [letter |-> <<361>>, open |-> <<37, 37>>, next |-> <<37, 115>>, left |-> <<37, 45, 51, 115>>, right |-> <<37, 51, 115>>]
PercentsMean == [letter |-> <<361>>, open |-> <<37>>]

Template(pieces, written) == TextOf(FlattenSeq([k \in DOMAIN pieces |-> written[pieces[k]]]))
Placed(piece, codes) ==
  IF piece = "left" THEN codes \o Blanks(3 - Len(codes)) ELSE IF piece = "right" THEN Blanks(3 - Len(codes)) \o codes ELSE codes
Meant(pieces, means, args) ==
  FlattenSeq([k \in DOMAIN pieces |->
    IF pieces[k] \in DOMAIN means THEN means[pieces[k]]
    ELSE Placed(pieces[k], args[IF pieces[k] = "first" THEN 1 ELSE FieldsTo(pieces, k)])])

\* In what is formatted, "kept" stands where the alignment says, and the fill
\* everywhere else.
Aligned(out, kept, align, fill, width) ==
  LET gap == Len(out) - Len(kept)
      before == IF align = Left THEN 0 ELSE IF align = Centre THEN gap \div 2 ELSE gap
  IN /\ Len(out) = (IF width > Len(kept) THEN width ELSE Len(kept))
     /\ \A k \in DOMAIN out : out[k] = IF k - before \in DOMAIN kept THEN kept[k - before] ELSE fill

Cut(codes, prec) == IF prec = None \/ prec > Len(codes) THEN codes ELSE SubSeq(codes, 1, prec)
Specifier(align, fill, width, prec) ==
  Enc(fill) \o <<align, 48 + width>> \o (IF prec = None THEN <<>> ELSE <<Dot, 48 + prec>>)

TemplatesRight(args, codes) ==
  /\ \A pieces \in SeqsTo(DOMAIN Braces, 3) :
       ~(\E j, k \in DOMAIN pieces : j < k /\ pieces[j] = "next" /\ pieces[k] = "first") =>
         Result(Format(Template(pieces, Braces), args))
           = IF Fields(pieces) > 2 THEN None ELSE Meant(pieces, BracesMean, codes)
  /\ \A pieces \in SeqsTo(DOMAIN Percents, 3) :
       Fields(pieces) <= 2 =>
         Result(Mod(Template(pieces, Percents), SubSeq(args, 1, Fields(pieces)))) = Meant(pieces, PercentsMean, codes)

\* Templates mean what their pieces mean, one after the other; what is
\* formatted has the width asked for, and the fill on the sides asked for.
FormatsRight ==
  /\ TemplatesRight(<<str, TextOf(<<361, 98>>)>>, <<Own, <<361, 98>>>>)
  /\ \A align \in Aligns, fill \in {42, 361}, width \in {0, 2, 5}, prec \in {None, 0, 1} :
       Aligned(Result(Formatted(str, Specifier(align, fill, width, prec))), Cut(Own, prec), align, fill, width)

\* bytes: what __repr__ writes is read as the same bytes, one after another
\* and inside longer source; items, slices and joins are those of sequences;
\* and text that is encoded and decoded is the same text.
BytesRight ==
  LET bytes == str.bytes
      r == BytesRepr(bytes)
  IN /\ BytesLiterally(r) = bytes /\ ScanLiteral(r \o <<32>> \o r, 1).end = Len(r)
     /\ BytesNew(bytes) = bytes /\ CopyString(bytes).bytes = bytes
     /\ \A i, j \in Integral, step \in {None, 1, 2, -1} :
          LET slice == [start |-> i, end |-> j, step |-> step]
          IN Text!Seqs!Meaningful(bytes, slice) => BytesSlice(bytes, slice) = Text!Seqs!Sliced(bytes, slice)
     /\ \A i \in Integral, v \in {0, 255} :
          LET set == ByteSet(bytes, i, v)
          IN set # None => /\ BytesItem(set, i) = v /\ BytesContains(set, v)
                           /\ BytesEqual(set, bytes) = (BytesItem(bytes, i) = v)
     /\ BytesJoin(bytes, <<<<1>>, <<>>, <<2>>>>) = Text!Joined(<<<<1>>, <<>>, <<2>>>>, bytes)
     /\ bytes = <<>> => \A b \in SeqsTo(Tricky \cup {128, 255}, 2) \cup {<<c>> : c \in 0 .. 255} : BytesLiterally(BytesRepr(b)) = b

-----------------------------------------------------------------------------
CONSTANTS DIGIT_SHIFT, IntBits, ByteBits, AccumLimit, Bases, Lengths, MaxValue, MaxPowerBits, Unsound

VARIABLES part, acc, call, reply

numberVars == <<acc, call, reply>>

Samples == INSTANCE MCLong WITH Literals <- {}, Operands <- {}, Shifts <- {}, Exponents <- {}
Numerals == Samples!MCLiterals
Operands == Samples!MCOperands
Shifts == Samples!MCShifts
Exponents == Samples!MCExponents
Numbers == INSTANCE MCLong WITH Literals <- Numerals

MCInit ==
  /\ part \in {"texts", "numbers"}
  /\ Init /\ Numbers!Init
  /\ part = "numbers" => str.bytes = <<>>

MCNext ==
  \/ part = "numbers" /\ Numbers!Next /\ UNCHANGED <<part, str>>
  \/ part = "texts" /\ Next /\ UNCHANGED <<part, numberVars>>

MCSpec == MCInit /\ [][MCNext]_<<part, str, numberVars>>

\* Every string has, cached, the length, the width and the hash of its bytes,
\* however it was made (krk_copyString, krk_takeStringVetted).
StringsTruthful == part = "texts" => CachesTruthful

\* The methods that work on bytes, those that work on code points, and those
\* that lay text out, are right about code points (obj_str.c).
MethodsRight == part = "texts" => BytewiseRight /\ CodewiseRight /\ FormatsRight

\* What is accepted as UTF-8 is text; what __repr__ writes of a string or of
\* bytes the scanner and the compiler read as the same (object.c, scanner.c).
NotationRight == part = "texts" => CodingRight /\ LiteralsRight /\ BytesRight

\* Operations on ints, longs or both are those of the integers, a long is
\* kept normalised, and a numeral fits its buffer (obj_long.c).
ImplementsArithmetic == Numbers!ImplementsArithmetic /\ [](Numbers!TypeOK /\ Numbers!NumeralFits)
================================================================================
