------------------------------- MODULE MCThreads -------------------------------
(***************************************************************************)
(* Model checking what threads share: the intern table, KrkIntern, and the *)
(* modules, KrkImport.  Each behaviour is about one of them, that of       *)
(* modules about a small program each of which is about one thing imports  *)
(* have to get right.                                                      *)
(***************************************************************************)
EXTENDS KrkIntern, KrkImport

Guarded(s) == [s EXCEPT !.guarded = TRUE]
I(path) == [kind |-> "import", path |-> path, as |-> None, guarded |-> FALSE]
IAs(path, as) == [kind |-> "import", path |-> path, as |-> as, guarded |-> FALSE]
From(dots, path, member) == [kind |-> "from", dots |-> dots, path |-> path, member |-> member, as |-> member, guarded |-> FALSE]
Star2(dots, path) == [kind |-> "star", dots |-> dots, path |-> path, guarded |-> FALSE]
Let(as, v) == [kind |-> "assign", as |-> as, value |-> v, guarded |-> FALSE]
Fail == [kind |-> "raise", guarded |-> FALSE]
CallOf(var) == [kind |-> "call", var |-> var, guarded |-> FALSE]

F(dir, kind, path, body) == [dir |-> dir, kind |-> kind, path |-> path, body |-> body, lazy |-> <<>>]
Source(path, body) == F(1, "source", path, body)
Package(path, body) == F(1, "package", path, body)

M == <<"m">>
Program(files, main, second) ==
  [files |-> files \cup {Source(M, main)}, start |-> [t \in Threads |-> IF t = 1 THEN M ELSE second]]

\* Packages in packages, and names relative to them.
Nested == Program(
  {Package(<<"a">>, <<From(1, <<>>, "b"), Let("x", Plain(1))>>),
   Source(<<"a", "b">>, <<Let("x", Plain(2)), From(1, <<>>, "c")>>),
   Package(<<"a", "c">>, <<From(2, <<"b">>, "x"), Guarded(From(3, <<>>, "x")), From(1, <<"d">>, "y"), From(2, <<>>, "d")>>),
   Source(<<"a", "c", "d">>, <<Let("y", Plain(3)), Guarded(From(2, <<"b">>, "x")), Guarded(From(2, <<>>, "b"))>>),
   Source(<<"a", "d">>, <<>>), Package(<<"q">>, <<>>), Package(<<"q", "r">>, <<>>), Source(<<"q", "r", "s">>, <<>>)},
  <<I(<<"q", "r", "s">>), I(<<"a", "c", "d">>), IAs(<<"a", "c", "d">>, "e"), From(0, <<"a", "c">>, "y"), Guarded(I(<<"a", "b", "z">>)), Guarded(From(1, <<>>, "a"))>>, None)

\* Modules that import each other; one looks for what is not there yet.
Circle == Program(
  {Source(<<"a">>, <<I(<<"b">>), Let("x", Plain(1)), Guarded(From(0, <<"b">>, "y"))>>),
   Source(<<"b">>, <<IAs(<<"a">>, "aa"), Guarded(From(0, <<"a">>, "x")), Let("y", Plain(2)), From(0, <<"b">>, "y")>>)},
  <<I(<<"a">>), Guarded(From(0, <<"a">>, "y")), I(<<"m">>)>>, <<"b">>)

\* A module that fails, in a package, after it has imported others, and is
\* imported again.
Failing == Program(
  {Package(<<"a">>, <<Guarded(I(<<"a", "b">>)), Guarded(From(0, <<"a", "b">>, "x")), Let("x", Plain(1))>>),
   Source(<<"a", "b">>, <<I(<<"a">>), I(<<"c">>), Let("x", Plain(2)), Fail>>),
   Source(<<"c">>, (IF "again" \in Unsound THEN <<Guarded(I(<<"a", "b">>))>> ELSE <<>>) \o <<I(<<"a">>), Let("z", Plain(1))>>)},
  <<Guarded(From(0, <<"a">>, "b")), Guarded(I(<<"a", "b">>)), I(<<"a">>), From(0, <<"c">>, "z"), Fail>>, None)

\* __all__, names that are hidden, and a name that is not there.
Stars == Program(
  {Source(<<"a">>, <<Let("x", Plain(1)), Let("_hidden", Plain(2))>>),
   Source(<<"b">>, <<Let("__all__", Names(<<"_hidden", "x">>)), Let("x", Plain(3)), Let("_hidden", Plain(4))>>),
   Source(<<"c">>, <<Let("__all__", Names(<<"y", "z">>)), Let("y", Plain(5))>>)},
  <<Star2(0, <<"a">>), Star2(0, <<"b">>), Guarded(Star2(0, <<"c">>)), Star2(0, <<"a">>)>>, None)

\* A package run as a program, shared objects, and a name both a submodule
\* and something its package binds.
Running2 ==
  [files |-> {Package(<<"a">>, <<From(0, <<"a", "b">>, "b")>>), Source(<<"a", "b">>, <<Let("b", Plain(1))>>),
              Source(<<"a", "__main__">>, <<From(1, <<"b">>, "b"), Guarded(I(<<"k">>)), Guarded(From(0, <<"n">>, "q")), I(<<"a", "b">>)>>),
              F(1, "native", <<"n">>, <<>>), F(2, "source", <<"n">>, <<Let("q", Plain(1))>>),
              F(1, "broken", <<"k">>, <<>>)},
   start |-> [t \in Threads |-> IF t = 1 THEN <<"a">> ELSE <<"n">>]]

\* A function that imports when it is called, from another package.
Lazily == Program(
  {[Package(<<"a">>, <<>>) EXCEPT !.lazy = <<From(1, <<"b">>, "x")>>], Source(<<"a", "b">>, <<Let("x", Plain(1))>>),
   Package(<<"p">>, <<I(<<"a">>), CallOf("a")>>), Source(<<"p", "b">>, <<Let("x", Plain(2))>>)},
  <<I(<<"p">>)>>, None)

\* The same from a module of its own package.
Calling == Program(
  {[Package(<<"a">>, <<I(<<"a", "b">>)>>) EXCEPT !.lazy = <<Guarded(From(1, <<"b">>, "x")), From(0, <<"a">>, "b")>>],
   Source(<<"a", "b">>, <<Let("x", Plain(1)), I(<<"a">>), CallOf("a")>>)},
  <<I(<<"a">>), CallOf("a")>>, None)

MCPrograms == {Nested, Circle, Failing, Stars, Running2} \cup (IF "lazy" \in Unsound THEN {Lazily} ELSE {Calling})

-----------------------------------------------------------------------------

VARIABLE part

MCInit ==
  /\ part \in {"strings", "modules"}
  /\ Init /\ ImportInit
  /\ part = "strings" => program = CHOOSE p \in Programs : TRUE

MCNext ==
  \/ part = "strings" /\ Next /\ UNCHANGED <<part, importVars>>
  \/ part = "modules" /\ ImportNext /\ UNCHANGED <<part, vars>>

MCSpec == MCInit /\ [][MCNext]_<<part, vars, importVars>>

\* Threads are scheduled again and again.
MCFairSpec ==
  /\ MCSpec
  /\ \A t \in Thread : WF_<<part, vars>>(part = "strings" /\ Run(t) /\ UNCHANGED part)
  /\ \A t \in Threads : WF_<<part, importVars>>(part = "modules" /\ ImportStep(t) /\ UNCHANGED part)

\* Every import comes to an end, whatever circles there are.
ImportsEnd == part = "modules" => EveryImportEnds
================================================================================
