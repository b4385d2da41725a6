------------------------------ MODULE MCCompiler -------------------------------
(***************************************************************************)
(* Model checking the compiler.  Each behaviour is about one part of it:   *)
(* the names of a program (KrkScopes), the tokens of a source (KrkScanner) *)
(* or an expression, compiled and run (KrkExpressions).                    *)
(***************************************************************************)
EXTENDS KrkExpressions, TLC

VARIABLES
  part,
  size, functions, scopes, seen, ended, last, count, uses, failed,
  source, scanner, parser, saved, tokens, place, changes

CONSTANTS Names, Self, Sizes, Sources, Rewound, Changes, x, y
Scoped == INSTANCE KrkScopes
Scanned == INSTANCE KrkScanner
ASSUME Scoped!SelfAssumption /\ Scoped!SizeAssumption /\ Scanned!ChangesAssumption

(***************************************************************************)
(* Programs with two names.                                                *)
(***************************************************************************)
MCNames == {x, y}
MCSymmetry == Permutations(MCNames)
MCSizes == {[nesting |-> 2, declarations |-> 4, uses |-> 1], [nesting |-> 3, declarations |-> 3, uses |-> 2]}
OneSize == {[nesting |-> 2, declarations |-> 3, uses |-> 1]}

(***************************************************************************)
(* Sources: all texts of some characters that have to do with each other.  *)
(***************************************************************************)
Of(characters, length) == UNION {[1 .. n -> characters] : n \in 0 .. length}
MCRewound == Of({" ", "\n", "#", "(", "x"}, 4)
MCSources ==
  MCRewound \cup Of({" ", "\n", "#", "\\", "x"}, 6) \cup Of({" ", "\n", "\t", "\\", "x", "'"}, 5)
    \cup Of({"'", "\\", "x", "\n"}, 6) \cup [1 .. 7 -> {"'", "\\"}]
    \cup Of({"0", "1", ".", "e", "x", "_", "+"}, 4) \cup Of({"<", ">", "=", "-", "*", "."}, 4)
    \cup Of({"i", "f", "b", "0", "'", " "}, 4)
NoSources == {<<>>}

(***************************************************************************)
(* Trees: every kind of node with three variables, with each of them as    *)
(* the first, the second and the third operand of every kind, and the      *)
(* kinds with the most to them with two or three that are not variables.   *)
(***************************************************************************)
a == Variable("a")
b == Variable("b")
c == Variable("c")
d == Variable("d")
f == Variable("f")
g == Variable("g")

Nil == Node("none", <<>>, <<>>)
Operator(op, l, r) == Node("binary", <<op>>, <<l, r>>)
Tuple(of) == Node("tuple", <<>>, of)
Star(e) == Node("star", <<>>, <<e>>)
Pair(k, v) == Node("entry", <<>>, <<k, v>>)
Updated(e) == Node("update", <<>>, <<e>>)
Slice(of) == Node("slice", <<>>, of)
Attrs(e) == Node("attrs", <<"x", "y">>, <<e>>)
Assign(t, e) == Node("assign", <<>>, <<t, e>>)

\* The kinds of nodes, those with the most to them first.
Kinds(l, m, r) ==
  <<Node("or", <<>>, <<l, m>>), Node("if", <<>>, <<l, m, r>>), Node("compare", <<"<", "is not">>, <<l, m, r>>),
    Tuple(<<l, m>>), Tuple(<<l, Star(m), r>>), Node("attr", <<"x">>, <<l>>), Node("item", <<>>, <<l, m>>),
    Assign(l, m), Node("augment", <<"+=">>, <<l, m>>), Assign(Tuple(<<l, m>>), r),
    Node("and", <<>>, <<l, m>>), Node("not", <<>>, <<l>>), Node("negative", <<>>, <<l>>),
    Operator("+", l, m), Operator("**", l, m), Operator("*", l, m), Operator("|", l, m),
    Node("compare", <<"<">>, <<l, m>>), Node("compare", <<"not in", "!=">>, <<l, m, r>>),
    Tuple(<<l>>), Tuple(<<Star(l), m>>), Node("list", <<>>, <<l, m>>), Node("list", <<>>, <<l, Star(m), r>>),
    Node("set", <<>>, <<l, m>>), Node("set", <<>>, <<l, Star(m)>>), Node("dict", <<>>, <<Pair(l, m)>>),
    Node("dict", <<>>, <<Pair(l, m), Updated(r)>>), Node("dict", <<>>, <<Updated(r), Pair(l, m)>>),
    Attrs(l), Node("item", <<>>, <<l, m, r>>), Node("item", <<>>, <<l, Slice(<<m, Nil>>), r>>),
    Node("item", <<>>, <<l, Slice(<<Nil, m, r>>)>>),
    Node("call", <<>>, <<l, m>>), Node("call", <<>>, <<Node("attr", <<"m">>, <<l>>), m, r>>),
    Node("increment", <<"++">>, <<l>>), Assign(Tuple(<<l, Star(m)>>), r), Assign(Tuple(<<Star(l), m, Star(r)>>), m),
    Assign(Attrs(l), m), Assign(Attrs(l), Tuple(<<m, r>>)), Assign(Node("attrs", <<"x">>, <<l>>), Tuple(<<m, r>>)),
    Node("del", <<>>, <<l>>), Node("del", <<>>, <<l, m>>), Node("class", <<"C">>, <<l>>),
    Node("class", <<"C">>, <<l, m>>)>>
Main == 1 .. 10
Operands3 == 1 .. 40
Every == 1 .. 44

\* A variable alone, the empty collections, and the ends of slices and lists left out.
Empty == {a, Tuple(<<>>), Node("list", <<>>, <<>>), Node("dict", <<>>, <<>>), Node("call", <<>>, <<a>>), Assign(Tuple(<<>>), a),
          Node("list", <<>>, <<Star(a), b>>), Node("set", <<>>, <<Star(a), b>>), Node("item", <<>>, <<a, Slice(<<Nil, Nil>>)>>),
          Node("item", <<>>, <<a, Slice(<<b, Nil>>)>>)}

\* e in the place p of the kind k; two of them; and one that has another.
In(k, p, e, l, r) == (CASE p = 1 -> Kinds(e, l, r) [] p = 2 -> Kinds(l, e, r) [] p = 3 -> Kinds(l, r, e))[k]
One == {Kinds(a, b, c)[k] : k \in Operands3} \cup Empty
NoTrees == {a}
MCTrees ==
  One \cup {Node("class", <<"C">>, <<>>)} \cup {In(k, p, e, d, f) : k \in Every, p \in 1 .. 3, e \in One}
    \cup {Kinds(Kinds(a, b, c)[i], Kinds(d, f, g)[j], g)[k] : i, j, k \in Main}
    \cup {In(k, p, In(j, q, Kinds(a, b, c)[i], d, f), g, g) : i, j, k \in Main, p, q \in 1 .. 2}

(***************************************************************************)
(* The composition.                                                        *)
(***************************************************************************)
scopeVars == <<size, functions, scopes, seen, ended, last, count, uses, failed>>
scannerVars == <<source, scanner, parser, saved, tokens, place, changes>>
MCInit ==
  \/ /\ part = "names"
     /\ source = <<>> /\ Scanned!Init
     /\ tree = a /\ extra = FALSE /\ Init
     /\ Scoped!Init
  \/ /\ part = "tokens"
     /\ size = (CHOOSE s \in Sizes : TRUE) /\ Scoped!Init
     /\ tree = a /\ extra = FALSE /\ Init
     /\ Scanned!Init
  \/ /\ part = "expressions"
     /\ size = (CHOOSE s \in Sizes : TRUE) /\ Scoped!Init
     /\ source = <<>> /\ Scanned!Init
     /\ Init
MCNext ==
  \/ part = "names" /\ Scoped!Next /\ UNCHANGED <<part, scannerVars, vars>>
  \/ part = "tokens" /\ Scanned!Next /\ UNCHANGED <<part, scopeVars, vars>>
  \/ part = "expressions" /\ Next /\ UNCHANGED <<part, scopeVars, scannerVars>>
MCSpec == MCInit /\ [][MCNext]_<<part, scopeVars, scannerVars, vars>>

\* Every use of a name is resolved to the declaration the language means,
\* through functions, classes and comprehensions (resolveLocal, resolveUpvalue).
NamesResolved == Scoped!NamesResolved

\* The slot the compiler reckons with for a local is the one it is in when
\* the code runs (addLocal, endScope, emptyBlocks).
SlotsRight == Scoped!SlotsRight

\* A variable that some function has captured is closed when its scope ends,
\* and nothing else is (endScope).
CapturedClosed == Scoped!CapturedClosed

\* The scanner makes of a source the tokens it consists of, and the parser,
\* which goes back at times, sees each at its place (krk_scanToken,
\* krk_ungetToken, krk_rewindScanner).
TokensRight == Scanned!TokensRight /\ Scanned!WindowRight

\* An expression that is compiled does what it means, whatever its operands
\* do; and what is refused is what means nothing (parsePrecedence and the
\* functions it calls).
ExpressionsRight == CodeMeans /\ RefusedRight
================================================================================
