------------------------------- MODULE Lexicon --------------------------------
(***************************************************************************)
(* What the tokens of a source are, said of a whole list of them and not   *)
(* of how they are found.  A token has a type, the place of its first      *)
(* character, the place after its last, and the line that it ends on.      *)
(***************************************************************************)
EXTENDS Integers, SequencesExt

Blank == {" ", "\t"}
Digits == {"0", "1", "7", "9"}
Letters == {"a", "b", "e", "f", "i", "n", "o", "r", "x", "E", "_"}
HexDigits == Digits \cup {"a", "b", "e", "f", "E", "_"}
Quotes == {"'", "\""}

Operators ==
  {<<"<">>, <<">">>, <<"<", "=">>, <<">", "=">>, <<"<", "<">>, <<">", ">">>, <<"<", "<", "=">>, <<">", ">", "=">>,
   <<"*">>, <<"*", "=">>, <<"*", "*">>, <<"*", "*", "=">>, <<"/">>, <<"/", "=">>, <<"/", "/">>, <<"/", "/", "=">>,
   <<"-">>, <<"-", "=">>, <<"-", "-">>, <<"-", ">">>, <<"+">>, <<"+", "=">>, <<"+", "+">>, <<"=">>, <<"=", "=">>,
   <<"!">>, <<"!", "=">>, <<":">>, <<":", "=">>, <<".">>, <<".", ".", ".">>, <<",">>, <<";">>, <<"~">>}
  \cup UNION {{<<c>>, <<c, "=">>} : c \in {"|", "^", "&", "%", "@"}}

All(t, set) == ToSet(t) \subseteq set

\* The texts that are a number: digits, a fraction that has digits, and an
\* exponent; or a prefix and digits.
IsNumber(t) ==
  \/ \E i, j \in 0 .. Len(t) :
       /\ 1 <= i /\ i <= j /\ t[1] \in Digits
       /\ All(SubSeq(t, 1, i), Digits \cup {"_"})
       /\ i < j => t[i + 1] = "." /\ j > i + 1 /\ All(SubSeq(t, i + 2, j), Digits)
       /\ j < Len(t) => /\ t[j + 1] \in {"e", "E"}
                        /\ LET sign == j + 2 <= Len(t) /\ t[j + 2] \in {"+", "-"}
                           IN All(SubSeq(t, IF sign THEN j + 3 ELSE j + 2, Len(t)), Digits)
  \/ /\ Len(t) >= 2 /\ t[1] = "0"
     /\ \/ t[2] = "x" /\ All(SubSeq(t, 3, Len(t)), HexDigits)
        \/ t[2] = "b" /\ All(SubSeq(t, 3, Len(t)), {"0", "1", "_"})
        \/ t[2] = "o" /\ All(SubSeq(t, 3, Len(t)), {"0", "1", "7", "_"})

IsWord(t) == t # <<>> /\ t[1] \in Letters /\ All(t, Letters \cup Digits)

\* The character is after an odd number of backslashes.
Escaped(t, i) == \E k \in 0 .. i - 1 : /\ (i - 1 - k) % 2 = 1
                                       /\ \A j \in k + 1 .. i - 1 : t[j] = "\\"
                                       /\ k > 0 => t[k] # "\\"
Closes(t, i, q) == t[i] = q /\ ~Escaped(t, i)
Inner(t, n) == SubSeq(t, n + 1, Len(t))
IsString(t) ==
  /\ Len(t) >= 2 /\ t[1] \in Quotes
  /\ LET u == Inner(t, 1)
     IN Closes(u, Len(u), t[1]) /\ \A i \in 1 .. Len(u) - 1 : ~Closes(u, i, t[1]) /\ (u[i] = "\n" => Escaped(u, i))
Ends(u, i, q) == i + 2 <= Len(u) /\ Closes(u, i, q) /\ u[i + 1] = q /\ u[i + 2] = q
IsBigString(t) ==
  /\ Len(t) >= 6 /\ t[1] \in Quotes /\ t[2] = t[1] /\ t[3] = t[1]
  /\ LET u == Inner(t, 3) IN Ends(u, Len(u) - 2, t[1]) /\ \A i \in 1 .. Len(u) - 3 : ~Ends(u, i, t[1])

Is(type, t) ==
  CASE type = "number" -> IsNumber(t)
    [] type \in {"identifier", "keyword", "prefix"} -> IsWord(t)
    [] type = "operator" -> t \in Operators
    [] type = "string" -> IsString(t)
    [] type = "big string" -> IsBigString(t)
    [] type = "bracket" -> Len(t) = 1
    [] OTHER -> TRUE

\* The character is in a comment of the text.
Commented(g, i) == \E h \in 1 .. i : g[h] = "#" /\ \A j \in h .. i : g[j] # "\n"

\* What may be between two tokens.
Skipped(g, lineStart) ==
  \A i \in DOMAIN g :
    \/ g[i] \in Blank \/ Commented(g, i)
    \/ g[i] = "\\" /\ i < Len(g) /\ g[i + 1] = "\n"
    \/ g[i] = "\n" /\ (lineStart \/ (i > 1 /\ g[i - 1] = "\\" /\ ~Commented(g, i - 1)))

\* The blanks right before the end of the text that follow a line feed, or
\* its start.
Indented(g) == g # <<>> /\ Last(g) \in Blank /\ \E k \in 1 .. Len(g) : (k = 1 \/ g[k - 1] = "\n") /\ All(SubSeq(g, k, Len(g)), Blank)

Lexical(src, ts) ==
  \A k \in DOMAIN ts :
    LET t == ts[k]
        before == IF k = 1 THEN [type |-> "end of line", start |-> 1, end |-> 1, line |-> 1] ELSE ts[k - 1]
        gap == SubSeq(src, before.end, t.start - 1)
        text == SubSeq(src, t.start, t.end - 1)
        lineStart == before.type = "end of line"
    IN \/ t.type = "error" /\ k = Len(ts)
       \/ /\ t.type # "error"
          /\ Skipped(gap, lineStart)
          /\ Is(t.type, text)
          /\ \A e \in t.end + 1 .. Len(src) + 1 : t.type \notin {"string", "big string"} => ~Is(t.type, SubSeq(src, t.start, e - 1)) \/ t.type \in {"indentation", "end of line", "end", "bracket"}
          /\ t.type = "string" => text # <<text[1], text[1]>> \/ t.end > Len(src) \/ src[t.end] # text[1]
          /\ t.type = "indentation" =>
               /\ lineStart /\ \E b \in Blank : All(text, {b})
               /\ t.start = 1 \/ src[t.start - 1] = "\n"
               /\ t.end <= Len(src) /\ src[t.end] \notin Blank \cup {"#", "\n"}
          /\ lineStart /\ t.type \notin {"indentation", "end"} => ~Indented(gap)
          /\ t.type = "end of line" => text = <<"\n">> /\ ~lineStart
          /\ (t.type = "end") = (k = Len(ts)) /\ (t.type = "end" => t.end = Len(src) + 1)
          /\ t.line = 1 + Cardinality({i \in 1 .. t.end - 1 : src[i] = "\n"}) - (IF t.type = "end of line" THEN 1 ELSE 0)
===============================================================================
