------------------------------ MODULE KrkFormats ------------------------------
(***************************************************************************)
(* Strings that are read as something else: literals in a source (what     *)
(* __repr__ writes, what the scanner takes for one, what the compiler      *)
(* makes of it), templates (format and %), and specifications of formats   *)
(* (__format__).  All of them go over bytes.                               *)
(***************************************************************************)
EXTENDS KrkStrings

Single == 39
Double == 34
Backslash == 92
Newline == 10

\* Which letter stands, after a backslash, for which byte.
Letter == [b \in {92, 39, 34, 7, 8, 12, 10, 13, 9, 11, 27} |->
             CASE b = 7 -> 97 [] b = 8 -> 98 [] b = 12 -> 102 [] b = 10 -> 110 [] b = 13 -> 114
               [] b = 9 -> 116 [] b = 11 -> 118 [] b = 27 -> 91 [] OTHER -> b]

Hex(n) == IF n < 10 THEN 48 + n ELSE 87 + n
FromHex(b) == IF b < 58 THEN b - 48 ELSE IF b < 71 THEN b - 55 ELSE b - 87
IsHex(b) == b \in (48 .. 57) \cup (65 .. 70) \cup (97 .. 102)

\* str.__repr__
QuoteFor(bytes) ==
  LET count(q) == Len(SelectSeq(bytes, LAMBDA b : b = q)) IN IF count(Single) > count(Double) THEN Double ELSE Single

\* Mutant: a backslash stands for itself.
MutEscaped(b, quote) ==
  CASE b \in {Single, Double} -> IF b = quote THEN <<Backslash, b>> ELSE <<b>>
    [] b \in DOMAIN Letter \ {Single, Double, Backslash} -> <<Backslash, Letter[b]>>
    [] b \notin DOMAIN Letter /\ (b < 32 \/ b = 127) -> <<Backslash, 120, Hex(b \div 16), Hex(b % 16)>>
    [] OTHER -> <<b>>

Escaped(b, quote) ==
  CASE b \in {Single, Double} -> IF b = quote THEN <<Backslash, b>> ELSE <<b>>
    [] b \in DOMAIN Letter \ {Single, Double} -> <<Backslash, Letter[b]>>
    [] b \notin DOMAIN Letter /\ (b < 32 \/ b = 127) -> <<Backslash, 120, Hex(b \div 16), Hex(b % 16)>>
    [] OTHER -> <<b>>

Repr(s) ==
  LET quote == QuoteFor(s.bytes)
  IN CopyString(<<quote>> \o FlattenSeq([i \in DOMAIN s.bytes |-> Escaped(s.bytes[i], quote)]) \o <<quote>>)

\* string of the scanner: where the literal that begins at i, from 1, ends,
\* and how many quotes it has at either end; None if it does not end.
ScanLiteral(source, i) ==
  LET quote == source[i]
      n == Len(source)
      quotes(k, count) == k + count - 1 <= n /\ \A j \in k .. k + count - 1 : source[j] = quote
      big == quotes(i, 3)
      from[k \in Nat] ==
        CASE k > n -> None
          [] k <= n /\ quotes(k, IF big THEN 3 ELSE 1) -> k + (IF big THEN 2 ELSE 0)
          [] k <= n /\ source[k] = Newline /\ ~big -> None
          [] k <= n /\ source[k] = Backslash -> from[k + 2]
          [] OTHER -> from[k + 1]
  IN [end |-> from[i + (IF big THEN 3 ELSE 1)], quotes |-> IF big THEN 3 ELSE 1]

\* string of the compiler, on what is between the quotes.  A truncated \x or \u
\* is an error; a backslash that means nothing stands for itself.
Octal(b) == b \in 48 .. 55
Unescape(body, coded(_), unicode) ==
  LET n == Len(body)
      hexes(b) == CASE b = 120 -> 2 [] b = 117 /\ unicode -> 4 [] b = 85 /\ unicode -> 8 [] OTHER -> 0
      hex(i, digits) == FoldLeft(LAMBDA v, b : 16 * v + FromHex(b), 0, SubSeq(body, i + 2, i + 1 + digits))
      is(i, k, test(_)) == i + k <= n /\ test(body[i + k])
      octal(i, digits) == FoldLeft(LAMBDA v, b : 8 * v + b - 48, 0, SubSeq(body, i + 1, i + digits))
      from[i \in Nat] ==
        LET b == body[i + 1]
            digits == IF ~is(i, 2, Octal) THEN 1 ELSE IF ~is(i, 3, Octal) THEN 2 ELSE 3
        IN CASE i > n -> <<>>
             [] i <= n /\ body[i] # Backslash -> <<body[i]>> \o from[i + 1]
             [] i = n /\ body[i] = Backslash -> <<Backslash>>
             [] i < n /\ body[i] = Backslash /\ \E c \in DOMAIN Letter : Letter[c] = b ->
                  <<CHOOSE c \in DOMAIN Letter : Letter[c] = b>> \o from[i + 2]
             [] i < n /\ body[i] = Backslash /\ hexes(b) > 0 ->
                  IF \A k \in 2 .. hexes(b) + 1 : is(i, k, IsHex)
                  THEN coded(hex(i, hexes(b))) \o from[i + 2 + hexes(b)] ELSE <<None>>
             [] i < n /\ body[i] = Backslash /\ b = Newline -> from[i + 2]
             [] i < n /\ body[i] = Backslash /\ Octal(b) -> coded(octal(i, digits)) \o from[i + 1 + digits]
             [] OTHER -> <<Backslash>> \o from[i + 1]
  IN from[1]

Unescaped(body) == Unescape(body, Enc, TRUE)

Literally(source) ==
  LET at == ScanLiteral(source, 1)
  IN IF at.end = None THEN None ELSE Unescaped(SubSeq(source, 1 + at.quotes, at.end - at.quotes))

-----------------------------------------------------------------------------
(* bytes and bytearray: their literals are ASCII, and an escape is a byte.  *)

UnescapedBytes(body) == Unescape(body, LAMBDA c : <<c % 256>>, FALSE)

BytesEscaped(b) ==
  CASE b = Double -> <<b>>
    [] b \in DOMAIN Letter \ {Double, 27} -> <<Backslash, Letter[b]>>
    [] (b \notin DOMAIN Letter \/ b = 27) /\ (b < 32 \/ b >= 127) -> <<Backslash, 120, Hex(b \div 16), Hex(b % 16)>>
    [] OTHER -> <<b>>

\* Without the b in front, which the scanner takes for a prefix.
BytesRepr(bytes) == <<Single>> \o FlattenSeq([i \in DOMAIN bytes |-> BytesEscaped(bytes[i])]) \o <<Single>>

BytesLiterally(source) ==
  LET at == ScanLiteral(source, 1)
      body == SubSeq(source, 1 + at.quotes, at.end - at.quotes)
  IN IF at.end = None \/ \E i \in DOMAIN body : body[i] > 127 THEN None ELSE UnescapedBytes(body)

BytesNew(values) == IF \E i \in DOMAIN values : values[i] \notin 0 .. 255 THEN None ELSE values

BytesEqual(a, b) == Len(a) = Len(b) /\ \A i \in DOMAIN a : a[i] = b[i]

BytesItem(bytes, index) ==
  LET i == IF index < 0 THEN index + Len(bytes) ELSE index
  IN IF i \notin 0 .. Len(bytes) - 1 THEN None ELSE At(bytes, i)

\* bytearray.__setitem__: any integer will do, and loses its upper bits.
ByteSet(bytes, index, value) ==
  LET i == IF index < 0 THEN index + Len(bytes) ELSE index
  IN IF i \notin 0 .. Len(bytes) - 1 THEN None ELSE [bytes EXCEPT ![i + 1] = value % 256]

BytesSlice(bytes, slice) ==
  LET b == Slicing!Bounds(Len(bytes), slice)
      walk == Slicing!Walk(b)
  IN IF Slicing!Rejected(Len(bytes), slice) THEN None
     ELSE IF b.step = 1 THEN SubSeq(bytes, b.start + 1, b.end)
     ELSE [k \in DOMAIN walk |-> At(bytes, walk[k])]

BytesContains(bytes, value) == IF value \notin 0 .. 255 THEN None ELSE \E i \in DOMAIN bytes : bytes[i] = value

BytesJoin(sep, parts) == FlattenSeq([k \in DOMAIN parts |-> (IF k = 1 THEN <<>> ELSE sep) \o parts[k]])

-----------------------------------------------------------------------------
(* str.format, with arguments in order only, and str.__mod__ with %s.      *)

OpenBrace == 123
CloseBrace == 125
Percent == 37
Minus == 45
Ess == 115

IsDigit(b) == b \in 48 .. 57
Number(bytes) == FoldLeft(LAMBDA n, b : n * 10 + b - 48, 0, bytes)

\* counter: how many fields without a number there have been.  Numbers may be
\* followed by no numbers, but not the other way round.
Format(s, args) ==
  LET bytes == s.bytes
      n == Len(bytes)
      next(i) == IF i < n THEN bytes[i + 1] ELSE None
      close(i) == Until(bytes, i, LAMBDA k : At(bytes, k) = CloseBrace) + 1
      from[i \in Nat, counter \in Nat] ==
        LET field == SubSeq(bytes, i + 1, close(i) - 1)
            which == IF field = <<>> THEN counter ELSE Number(field)
        IN CASE i > n -> <<>>
             [] i <= n /\ bytes[i] \notin {OpenBrace, CloseBrace} -> <<bytes[i]>> \o from[i + 1, counter]
             [] i <= n /\ bytes[i] \in {OpenBrace, CloseBrace} /\ next(i) = bytes[i] ->
                  <<bytes[i]>> \o from[i + 2, counter]
             [] i <= n /\ bytes[i] = CloseBrace /\ next(i) # CloseBrace -> <<None>>   \* Single } found
             [] OTHER ->
                  IF close(i) > n \/ (\E k \in DOMAIN field : ~IsDigit(field[k]))
                     \/ (field # <<>> /\ counter > 0) \/ which >= Len(args)
                  THEN <<None>>
                  ELSE args[which + 1].bytes \o from[close(i) + 1, IF field = <<>> THEN counter + 1 ELSE counter]
      out == from[1, 0]
  IN IF \E k \in DOMAIN out : out[k] = None THEN None ELSE CopyString(out)

Blanks(n) == [k \in 1 .. n |-> 32]

Missing(width, arg) == IF width > arg.codesLength THEN Blanks(width - arg.codesLength) ELSE <<>>

Mod(s, args) ==
  LET bytes == s.bytes
      n == Len(bytes)
      from[i \in Nat, ti \in Nat] ==
        LET backwards == i < n /\ bytes[i + 1] = Minus
            start == IF backwards THEN i + 2 ELSE i + 1
            stop == Until(bytes, start - 1, LAMBDA k : ~IsDigit(At(bytes, k))) + 1
            width == Number(SubSeq(bytes, start, stop - 1))
            arg == args[ti + 1]
            pad == Missing(width, arg)
        IN CASE i > n -> IF ti = Len(args) THEN <<>> ELSE <<None>>
             [] i <= n /\ bytes[i] # Percent -> <<bytes[i]>> \o from[i + 1, ti]
             [] i < n /\ bytes[i] = Percent /\ bytes[i + 1] = Percent -> <<Percent>> \o from[i + 2, ti]
             [] OTHER ->
                  IF stop > n \/ ti >= Len(args) THEN <<None>>
                  ELSE IF bytes[stop] # Ess THEN <<None>>
                  ELSE (IF backwards THEN arg.bytes \o pad ELSE pad \o arg.bytes) \o from[stop + 1, ti + 1]
      out == from[1, 0]
  IN IF \E k \in DOMAIN out : out[k] = None THEN None ELSE CopyString(out)

-----------------------------------------------------------------------------
(* __format__: fill, alignment, width, precision.                          *)

Left == 60
Right == 62
Signed == 61
Centre == 94
Aligns == {Left, Right, Signed, Centre}
Dot == 46

\* krk_parseCommonFormatSpec, without sign, # and separators, which strings
\* take no notice of, and without a type code.  The fill is a character of any width; after it, or
\* after nothing, there is an alignment, then a width, then a precision.
DigitsEnd(spec, i) == Until(spec, i - 1, LAMBDA k : ~IsDigit(At(spec, k))) + 1

ParsePrecision(spec, i, opts) ==
  CASE i > Len(spec) -> opts @@ [prec |-> None]
    [] i < Len(spec) /\ spec[i] = Dot /\ DigitsEnd(spec, i + 1) > Len(spec) ->
         opts @@ [prec |-> Number(SubSeq(spec, i + 1, Len(spec)))]
    [] OTHER -> None

ParseWidth(spec, i, end, opts) ==
  ParsePrecision(spec, end, opts @@ [width |-> Number(SubSeq(spec, i, end - 1))])

FillEnd(spec) ==
  IF Len(spec) > 1 /\ spec[1] >= 192 THEN Until(spec, 1, LAMBDA k : At(spec, k) \notin 128 .. 191) ELSE 1

ParseAfter(spec, i, fill, align) == ParseWidth(spec, i, DigitsEnd(spec, i), [fill |-> fill, align |-> align])

ParseFill(spec, i) ==
  CASE i < Len(spec) /\ spec[i + 1] \in Aligns -> ParseAfter(spec, i + 2, SubSeq(spec, 1, i), spec[i + 1])
    [] ~(i < Len(spec) /\ spec[i + 1] \in Aligns) /\ spec # <<>> /\ spec[1] \in Aligns -> ParseAfter(spec, 2, <<32>>, spec[1])
    [] ~(i < Len(spec) /\ spec[i + 1] \in Aligns) /\ spec # <<>> /\ spec[1] = 48 -> ParseAfter(spec, 2, <<48>>, Signed)
    [] OTHER -> ParseAfter(spec, 1, <<32>>, Left)

ParseSpec(spec) == ParseFill(spec, FillEnd(spec))

Padded(text, pad, padLeft, fill) ==
  FlattenSeq([j \in 1 .. padLeft |-> fill]) \o text \o FlattenSeq([j \in 1 .. pad - padLeft |-> fill])

Pad(width, actual) == IF width > actual THEN width - actual ELSE 0

FormattedBy(s, opts, actual) ==
  LET pad == Pad(opts.width, actual)
  IN CopyString(Padded(SubSeq(s.bytes, 1, Span(s, 0, actual)), pad,
       CASE opts.align = Left -> 0 [] opts.align = Centre -> pad \div 2 [] OTHER -> pad, opts.fill))

FormattedAs(s, opts) ==
  IF opts = None THEN None
  ELSE FormattedBy(s, opts, IF opts.prec # None /\ opts.prec < s.codesLength THEN opts.prec ELSE s.codesLength)

Formatted(s, spec) == FormattedAs(s, ParseSpec(spec))
=============================================================================
