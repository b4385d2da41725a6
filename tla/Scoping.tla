------------------------------- MODULE Scoping --------------------------------
(***************************************************************************)
(* The scopes of the language: what a name stands for at a place in a      *)
(* program, from the scopes that are open there alone.                     *)
(*                                                                         *)
(* A declaration is seen from where its scope holds it until the scope     *)
(* ends, by the functions inside it too; the names of a class are seen by  *)
(* the statements of the class and not by the functions inside it.  While  *)
(* the value of a declaration is computed its name may not be used; while  *)
(* the default of a parameter is, the parameter is not there yet.          *)
(***************************************************************************)
EXTENDS Integers, FiniteSets, Sequences

\* The names of the programs, and the one of the first parameter of methods.
CONSTANTS Names, Self

SelfAssumption == Self \notin Names

NoName == ""
\* What a name may stand for other than a declaration.
Global == -1
Field == -2
Error == -3

Absent == [id |-> 0, state |-> "absent"]

\* A scope that function k opens.
Scope(k, kind) == [function |-> k, kind |-> kind, names |-> [n \in Names \cup {Self} |-> Absent]]
\* A scope with a name that comes with it: the class in itself, or self.
Cell(k, name, id) == [Scope(k, "block") EXCEPT !.names[name] = [id |-> id, state |-> "ready"]]

\* The innermost scope has one name more, and what was open is complete.
Declare(scopes, name, id, state) ==
  IF state = "global" THEN scopes ELSE [scopes EXCEPT ![Len(scopes)].names[name] = [id |-> id, state |-> state]]
Ready(scopes) ==
  [scopes EXCEPT ![Len(scopes)].names =
     [n \in DOMAIN @ |-> IF @[n].state \in {"open", "hidden"} THEN [@[n] EXCEPT !.state = "ready"] ELSE @[n]]]

\* The name may not be declared again: it is already in the scope.
Clash(scopes, k, name) ==
  LET here == scopes[Len(scopes)] IN here.function = k /\ Len(scopes) > 1 /\ here.names[name].state # "absent"

\* What the name stands for in function k.
Meant(scopes, k, name) ==
  LET visible == {s \in DOMAIN scopes :
                    /\ scopes[s].function <= k
                    /\ scopes[s].names[name].state \in {"open", "ready"}
                    /\ scopes[s].kind = "class" => scopes[s].function = k}
      inner == scopes[CHOOSE s \in visible : \A t \in visible : s >= t].names[name]
  IN IF visible = {} THEN Global ELSE IF inner.state = "open" THEN Error ELSE inner.id

\* The function that the declaration is in.
Owner(scopes, id) ==
  scopes[CHOOSE s \in DOMAIN scopes : \E n \in Names \cup {Self} : scopes[s].names[n].state # "absent" /\ scopes[s].names[n].id = id].function
===============================================================================
