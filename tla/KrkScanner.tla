------------------------------ MODULE KrkScanner ------------------------------
(***************************************************************************)
(* scanner.c, and how the parser of compiler.c takes tokens from it.       *)
(*                                                                         *)
(* A source is a sequence of characters, the end of it stands for the zero *)
(* byte.  A token has the places of its first character and of the one     *)
(* after its last.  The parser looks one token ahead, drops indentation    *)
(* and ends of lines inside brackets, and goes back: it puts a token back  *)
(* (ifStatement), or returns to a copy of the scanner and of itself that   *)
(* it took before (comprehensions, conditional expressions, assignments).  *)
(***************************************************************************)
EXTENDS Lexicon

\* The sources, and those of them for which the parser goes back.  Changes
\* bounds how often it does.
CONSTANTS Sources, Rewound, Changes

ChangesAssumption == Changes \in Nat

End == "end"

Peek(src, c) == IF c <= Len(src) THEN src[c] ELSE End

\* Where the characters of the set that start at c end.
Past(src, c, set) == CHOOSE d \in c .. Len(src) + 1 : Peek(src, d) \notin set /\ \A i \in c .. d - 1 : src[i] \in set

(***************************************************************************)
(* Tokens.                                                                 *)
(***************************************************************************)
\* string after the first quote: where the token ends, or the error.
Unterminated(c) == [type |-> "error", end |-> c, startOfLine |-> FALSE]
\* Mutant: a backslash is a character like the others.
MutAfter(src, c) == c + 1
\* Past one character, or past a backslash and the one it is before.
After(src, c) == IF src[c] = "\\" /\ c < Len(src) THEN c + 2 ELSE c + 1
String(src, cur, quote) ==
  LET big[c \in 1 .. Len(src) + 1] ==
        IF c > Len(src) THEN Unterminated(c)
        ELSE IF \A i \in c .. c + 2 : Peek(src, i) = quote THEN [type |-> "big string", end |-> c + 3, startOfLine |-> FALSE]
        ELSE big[After(src, c)]
      small[c \in 1 .. Len(src) + 1] ==
        CASE Peek(src, c) = quote -> [type |-> "string", end |-> c + 1, startOfLine |-> FALSE]
          [] Peek(src, c) \in {End, "\n"} -> Unterminated(c)
          [] OTHER -> small[After(src, c)]
  IN IF Peek(src, cur) = quote /\ Peek(src, cur + 1) = quote THEN big[cur + 2] ELSE small[cur]

\* number after the first digit c.
Number(src, cur, c) ==
  LET digits == Past(src, cur, Digits \cup {"_"})
      fraction == IF Peek(src, digits) = "." /\ Peek(src, digits + 1) \in Digits THEN Past(src, digits + 1, Digits) ELSE digits
      exponent == fraction + (IF Peek(src, fraction + 1) \in {"+", "-"} THEN 2 ELSE 1)
  IN CASE c = "0" /\ Peek(src, cur) \in {"x", "X"} -> Past(src, cur + 1, HexDigits)
       [] c = "0" /\ Peek(src, cur) \in {"b", "B"} -> Past(src, cur + 1, {"0", "1", "_"})
       [] c = "0" /\ Peek(src, cur) \in {"o", "O"} -> Past(src, cur + 1, (Digits \ {"9"}) \cup {"_"})
       [] Peek(src, fraction) \in {"e", "E"} -> Past(src, exponent, Digits)
       [] OTHER -> fraction

\* identifierType, of which the models have a few of the words.
Words == {<<"i", "f">>, <<"i", "n">>, <<"f", "o", "r">>, <<"o", "r">>}
IdentifierType(src, start, end) ==
  CASE SubSeq(src, start, end - 1) \in Words -> "keyword"
    [] end = start + 1 /\ src[start] \in {"b", "f", "r"} /\ Peek(src, end) \in Quotes -> "prefix"
    [] OTHER -> "identifier"

\* The operators of krk_scanToken: which characters it tries to match after
\* it has matched an operator, in its order.
Tried == [o \in {"<", ">", "<<", ">>", "*", "**", "/", "//", "-", "+", "=", "!", ":", "|", "^", "&", "%", "@"} |->
            CASE o = "<" -> << <<"=", "<=">>, <<"<", "<<">> >>
              [] o = ">" -> << <<"=", ">=">>, <<">", ">>">> >>
              [] o = "<<" -> << <<"=", "<<=">> >>
              [] o = ">>" -> << <<"=", ">>=">> >>
              [] o = "*" -> << <<"=", "*=">>, <<"*", "**">> >>
              [] o = "**" -> << <<"=", "**=">> >>
              [] o = "/" -> << <<"=", "/=">>, <<"/", "//">> >>
              [] o = "//" -> << <<"=", "//=">> >>
              [] o = "-" -> << <<"=", "-=">>, <<"-", "--">>, <<">", "->">> >>
              [] o = "+" -> << <<"=", "+=">>, <<"+", "++">> >>
              [] OTHER -> << <<"=", "assigns">> >>]
Signs == {"<", ">", "*", "/", "-", "+", "=", "!", ":", "|", "^", "&", "%", "@", ".", ",", ";", "~"}
Brackets == {"(", ")", "[", "]", "{", "}"}
Operator(src, start) ==
  LET try[o \in STRING, c \in 1 .. Len(src) + 1] ==
        LET matched == IF o \in DOMAIN Tried THEN {i \in DOMAIN Tried[o] : Tried[o][i][1] = Peek(src, c)} ELSE {}
        IN IF matched = {} THEN c ELSE try[Tried[o][CHOOSE i \in matched : \A j \in matched : i <= j][2], c + 1]
  IN IF src[start] = "." THEN (IF Peek(src, start + 1) = "." /\ Peek(src, start + 2) = "." THEN start + 3 ELSE start + 1)
     ELSE try[src[start], start + 1]

(***************************************************************************)
(* krk_scanToken: the token, and the scanner after it.                     *)
(***************************************************************************)
\* The scanners of a source that have no token back.
Scanners(src) == [cur : 1 .. Len(src) + 1, line : 1 .. Len(src) + 1, startOfLine : BOOLEAN, unget : {<<>>}]

\* krk_initScanner.
InitScanner == [cur |-> 1, line |-> 1, startOfLine |-> TRUE, unget |-> <<>>]

\* makeToken and errorToken, after any lines that the token itself ends.
Made(src, s, type, start, end) ==
  LET ended == {i \in s.cur .. end - 1 : src[i] = "\n"}
      line == s.line + (IF type = "end of line" THEN 0 ELSE Cardinality(ended))
  IN [type |-> type, start |-> start, end |-> end, line |-> line]
\* The scanner behind the token; nextLine for each line in it.
Moved(src, s, end, startOfLine) ==
  LET ended == {i \in s.cur .. end - 1 : src[i] = "\n"}
  IN [s EXCEPT !.cur = end, !.startOfLine = startOfLine, !.line = @ + Cardinality(ended)]

\* The end of the line that c is on.
LineEnd(src, c) == CHOOSE d \in c .. Len(src) + 1 : Peek(src, d) \in {"\n", End} /\ \A i \in c .. d - 1 : src[i] # "\n"

Found(type, end, startOfLine) == [type |-> type, end |-> end, startOfLine |-> startOfLine]
Produced(src, s, start, found) ==
  [token |-> Made(src, s, found.type, start, found.end), scanner |-> Moved(src, s, found.end, found.startOfLine)]

\* makeIndentation, of blanks that end at "end".  A line with nothing but
\* blanks or a comment is not there.
MakeIndentation(src, s, end) ==
  Produced(src, s, s.cur,
    CASE end > Len(src) -> Found("end", end, FALSE)
      [] end <= Len(src) /\ (\E i \in s.cur .. end - 1 : src[i] # src[s.cur]) -> Found("error", end, FALSE)
      [] OTHER -> IF src[end] \in {"#", "\n"} THEN Found("retry", LineEnd(src, end), TRUE) ELSE Found("indentation", end, FALSE))

\* Where the token starts after the blanks: a comment is skipped.
Start(src, blanks) == IF Peek(src, blanks) = "#" THEN LineEnd(src, blanks) ELSE blanks

LineFeed(s) == IF s.startOfLine THEN "retry" ELSE "end of line"

Word(src, start, end) == Found(IdentifierType(src, start, end), end, FALSE)

\* The token that starts with the character c.
TokenFrom(src, s, start, c) ==
  CASE c = End -> Found("end", start, s.startOfLine)
    [] c = "\n" -> Found(LineFeed(s), start + 1, TRUE)
    [] c = "\\" -> IF Peek(src, start + 1) = "\n" THEN Found("retry", start + 2, s.startOfLine) ELSE Found("error", start + 1, FALSE)
    [] c \in Letters -> Word(src, start, Past(src, start, Letters \cup Digits))
    [] c \in Digits -> Found("number", Number(src, start + 1, c), FALSE)
    [] c \in Quotes -> String(src, start + 1, c)
    [] c \in Brackets -> Found("bracket", start + 1, FALSE)
    [] c \in Signs -> Found("operator", Operator(src, start), FALSE)
    [] OTHER -> Found("error", start + 1, FALSE)

ScanAfterBlanks(src, s, start) == Produced(src, [s EXCEPT !.cur = start], start, TokenFrom(src, s, start, Peek(src, start)))

ScanToken(src, s) ==
  CASE s.unget # <<>> -> [token |-> s.unget[1], scanner |-> [s EXCEPT !.unget = <<>>]]
    [] s.unget = <<>> /\ s.startOfLine /\ Peek(src, s.cur) \in Blank -> MakeIndentation(src, s, Past(src, s.cur, Blank))
    [] OTHER -> ScanAfterBlanks(src, s, Start(src, Past(src, s.cur, Blank)))

(***************************************************************************)
(* The parser.                                                             *)
(***************************************************************************)
VARIABLES
  source,
  scanner,
  parser,   \* [previous, current, eating]: eating is eatingWhitespace
  saved,    \* the copies of both that were taken, the newest last
  tokens,   \* history: the tokens of the source, as they come
  place,    \* history: which of them "current" is
  changes   \* how often the parser has gone back or changed what it drops,
            \* or -1 while it reads the source for the first time, without

vars == <<source, scanner, parser, saved, tokens, place, changes>>

\* The loop of _advance: the next token that is not dropped, how many tokens
\* were taken, and the scanner.
Layout == {"indentation", "end of line"}
Taken(src, s, eating) ==
  LET next[t \in {s} \cup Scanners(src), n \in 1 .. Len(src) + 2] ==
        LET After_(scanned) ==
              CASE scanned.token.type = "retry" -> next[scanned.scanner, n]
                [] eating > 0 /\ scanned.token.type \in Layout -> next[scanned.scanner, n + 1]
                [] OTHER -> [token |-> scanned.token, scanner |-> scanned.scanner, taken |-> n]
        IN After_(ScanToken(src, t))
  IN next[s, 1]

Nothing == [type |-> "none", start |-> 0, end |-> 0, line |-> 0]

\* krk_compile: the first token is taken.
Started(first) == [previous |-> Nothing, current |-> first.token, eating |-> 0]
Init == /\ source \in Sources
        /\ \E first \in {Taken(source, InitScanner, 0)} : scanner = first.scanner /\ parser = Started(first)
        /\ saved = <<>> /\ tokens = <<parser.current>> /\ place = 1 /\ changes = -1

Stopped == parser.current.type \in {"end", "error"}
Reading == changes = -1
Change == ~Reading /\ changes < Changes /\ changes' = changes + 1 /\ UNCHANGED <<source, tokens>>

\* The source has been read: it is compiled again, and the parser goes back.
Again == /\ Reading /\ Stopped /\ source \in Rewound
         /\ \E first \in {Taken(source, InitScanner, 0)} : scanner' = first.scanner /\ parser' = Started(first)
         /\ place' = 1 /\ changes' = 0 /\ UNCHANGED <<source, saved, tokens>>

\* _advance.
Advance(eating) ==
  \E next \in {Taken(source, scanner, eating)} :
    /\ scanner' = next.scanner
    /\ parser' = [previous |-> parser.current, current |-> next.token, eating |-> eating]
    /\ place' = place + next.taken
    /\ tokens' = IF Reading THEN Append(tokens, next.token) ELSE tokens
Take == ~Stopped /\ Advance(parser.eating) /\ UNCHANGED <<source, saved, changes>>

\* startEatingWhitespace and stopEatingWhitespace.
StartEating ==
  /\ Change /\ ~Stopped /\ UNCHANGED saved
  /\ \/ parser.current.type \in Layout /\ Advance(parser.eating + 1)
     \/ /\ parser.current.type \notin Layout
        /\ parser' = [parser EXCEPT !.eating = @ + 1] /\ UNCHANGED <<scanner, place>>
StopEating ==
  /\ Change /\ parser.eating > 0 /\ parser' = [parser EXCEPT !.eating = @ - 1] /\ UNCHANGED <<scanner, saved, place>>

\* krk_tellScanner with a copy of the parser, and krk_rewindScanner with one:
\* the copies are the locals of functions of the compiler, so the newer ones
\* are gone when an older one is gone back to.
Tell == /\ Change /\ saved' = Append(saved, [scanner |-> scanner, parser |-> parser, place |-> place])
        /\ UNCHANGED <<scanner, parser, place>>
Rewind == \E i \in DOMAIN saved :
  /\ Change /\ scanner' = saved[i].scanner /\ parser' = saved[i].parser /\ place' = saved[i].place
  /\ saved' = SubSeq(saved, 1, i)

\* krk_ungetToken.
UngetToken(s, token) == [s EXCEPT !.unget = <<token>>]

\* ifStatement: the indentation was taken to see whether an else comes after
\* it; none does, so the token behind the indentation is put back.
NoElse ==
  /\ Change /\ parser.current.type = "indentation" /\ parser.eating = 0
  /\ \E next \in {Taken(source, scanner, 0)} :
       next.token.type \notin {"keyword", "end", "error"} /\ scanner' = UngetToken(next.scanner, next.token)
  /\ UNCHANGED <<parser, saved, place>>

Next == Take \/ Again \/ StartEating \/ StopEating \/ Tell \/ Rewind \/ NoElse

Spec == Init /\ [][Next]_vars

(***************************************************************************)
(* Properties.                                                             *)
(***************************************************************************)
\* Every token is as long as it can be, between two tokens there is nothing
\* but blanks, comments and lines that go on, and there is an indentation
\* and an end of line for each line that has something on it and for no
\* other, however comments, blank lines, strings and backslashes are mixed.
TokensRight == Reading /\ Stopped => Lexical(source, tokens)

\* The parser reads the tokens of the source one after the other, without
\* those it drops, whatever it puts back and wherever it goes back to.
WindowRight == ~Reading => parser.current = tokens[place]
===============================================================================
