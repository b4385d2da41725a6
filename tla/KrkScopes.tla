------------------------------ MODULE KrkScopes -------------------------------
(***************************************************************************)
(* Names in the compiler: compiler.c declareVariable, markInitialized,     *)
(* hideLocal, resolveLocal, resolveUpvalue, namedVariable, beginScope and  *)
(* endScope, and the statements and expressions that use them.             *)
(*                                                                         *)
(* The compiler makes one pass: it knows the functions it is inside of,    *)
(* their locals up to here, and no more.  A local is an index into the     *)
(* slots that its function will have on the stack, so the code that is     *)
(* emitted must leave a value in each slot, and nothing else between them. *)
(*                                                                         *)
(* "id" and "stack" are history: which declaration of the program a local  *)
(* is for, and which values the code that was emitted so far has left on   *)
(* the stack of each function.  "scopes" is the program as the language    *)
(* sees it (Scoping).                                                      *)
(***************************************************************************)
EXTENDS Scoping, SequencesExt

\* The sizes of the programs: bounds of the model on the functions that a
\* function is nested in, the declarations, and the uses of names.
CONSTANT Sizes

\* Where the model leaves out a program for which the code is known to be
\* wrong: "class" allows decorated classes in functions, "del" allows the
\* deletion of local variables.
CONSTANT Unsound

SizeAssumption == Sizes \subseteq [nesting : Nat, declarations : 0 .. 99, uses : Nat]

VARIABLES
  size,       \* the size of the program
  functions,  \* the compilers, from the module to state->current
  scopes,     \* history: the scopes of the language
  seen,       \* history: the ids that functions further inside have used
  ended,      \* history: what the last endScope emitted for each local
  last,       \* history: what the last name stands for, and should
  count,      \* the declarations so far
  uses,       \* the uses so far
  failed      \* parser.hadError

vars == <<size, functions, scopes, seen, ended, last, count, uses, failed>>

Uninitialized == -1
Hidden == -2
Other == 0        \* a slot or a value that is no variable's

\* The cell that holds a class for its methods.
InClass(id) == 100 + id

Slot(name, depth, id) == [name |-> name, depth |-> depth, captured |-> FALSE, id |-> id]

\* initCompiler.  "opened" is the statement the function is for.
InitCompiler(type, opened, class) ==
  LET first == CASE type = "method" -> <<Slot(Self, 0, opened.self)>>
                 [] type = "class" -> <<Slot(NoName, 0, Other)>>
                 [] OTHER -> <<>>
  IN [type |-> type, opened |-> opened, class |-> class, depth |-> IF type = "module" THEN 0 ELSE 1, locals |-> first,
      stack |-> [i \in DOMAIN first |-> first[i].id],
      upvalues |-> IF type = "class" THEN <<[name |-> opened.name, index |-> 0, from |-> "cell"]>> ELSE <<>>,
      properties |-> {}, parameters |-> type \in {"function", "method"}]

NotOpened == [name |-> NoName, id |-> Other, self |-> Other, declared |-> FALSE, decorators |-> 0]

Init == /\ size \in Sizes
        /\ functions = <<InitCompiler("module", NotOpened, Other)>>
        /\ scopes = <<Scope(1, "block")>>
        /\ seen = {} /\ ended = <<>> /\ last = [got |-> Other, meant |-> Other]
        /\ count = 0 /\ uses = 0 /\ failed = FALSE

Current == functions[Len(functions)]

(***************************************************************************)
(* What a name stands for.                                                 *)
(***************************************************************************)
\* Mutant: the oldest of the locals is taken.
MutResolveLocal(f, name) ==
  LET found == {i \in DOMAIN f.locals : f.locals[i].name = name /\ f.locals[i].depth # Hidden}
  IN IF found = {} THEN 0 ELSE CHOOSE i \in found : \A j \in found : i <= j

\* resolveLocal: the index of the local, or 0.
ResolveLocal(f, name) ==
  LET found == {i \in DOMAIN f.locals : f.locals[i].name = name /\ f.locals[i].depth # Hidden}
  IN IF found = {} THEN 0 ELSE CHOOSE i \in found : \A j \in found : i >= j

\* The error of resolveLocal.
Recursive(f, i) == f.locals[i].depth = Uninitialized

\* addUpvalue: the function with the upvalue, and its index.
AddUpvalue(f, name, index, from) ==
  LET same == {u \in DOMAIN f.upvalues : f.upvalues[u].index = index /\ f.upvalues[u].from = from}
  IN IF same # {} THEN [function |-> f, index |-> CHOOSE u \in same : TRUE]
     ELSE [function |-> [f EXCEPT !.upvalues = Append(f.upvalues, [name |-> name, index |-> index, from |-> from])],
           index |-> Len(f.upvalues) + 1]

\* resolveUpvalue, for a name that is not a local of function k: the
\* functions as it leaves them, the index in function k, or 0, and whether
\* there was an error.
\* Mutant: the local is not marked.
MutCaptured(f, i) == f
Captured(f, i) == [f EXCEPT !.locals[i].captured = TRUE]

ResolveUpvalue(fs, last_, name) ==
  LET resolve[k \in 1 .. last_] ==
        LET known == {u \in DOMAIN fs[k].upvalues : fs[k].upvalues[u].name = name}
            local == ResolveLocal(fs[k - 1], name)
            outer == resolve[k - 1]
            With(others, index, from, error) ==
              LET added == AddUpvalue(fs[k], name, index, from)
              IN [functions |-> [others EXCEPT ![k] = added.function], index |-> added.index, error |-> error]
        IN CASE known # {} -> [functions |-> fs, index |-> CHOOSE u \in known : \A v \in known : u <= v, error |-> FALSE]
             [] known = {} /\ k = 1 -> [functions |-> fs, index |-> 0, error |-> FALSE]
             [] known = {} /\ k > 1 /\ local # 0 ->
                  With([fs EXCEPT ![k - 1] = Captured(@, local)], local, "local", Recursive(fs[k - 1], local))
             [] OTHER -> IF outer.index = 0 THEN outer ELSE With(outer.functions, outer.index, "upvalue", outer.error)
  IN resolve[last_]

\* The variable that an upvalue of function k is for when the closures are
\* made: OP_CLOSURE takes what doUpvalues wrote from the function around it.
Denoted(fs, last_, index) ==
  LET follow[k \in 1 .. last_, u \in 1 .. size.uses + size.declarations + 1] ==
        LET up == fs[k].upvalues[u]
        IN CASE up.from = "cell" -> fs[k].class
             [] up.from = "local" -> fs[k - 1].locals[up.index].id
             [] OTHER -> follow[k - 1, up.index]
  IN follow[last_, index]

\* namedVariable in function k: the functions after it, what the access that
\* it emits is to, and whether the compiler failed.
NamedVariable(fs, k, name) ==
  LET local == ResolveLocal(fs[k], name)
      upvalue == ResolveUpvalue(fs, k, name)
  IN CASE fs[k].type = "class" /\ name \in fs[k].properties -> [functions |-> fs, got |-> Field, failed |-> FALSE]
       [] local # 0 -> [functions |-> fs, got |-> IF Recursive(fs[k], local) THEN Error ELSE fs[k].locals[local].id,
                        failed |-> Recursive(fs[k], local)]
       [] upvalue.index # 0 ->
            [functions |-> upvalue.functions, failed |-> upvalue.error,
             got |-> IF upvalue.error THEN Error ELSE Denoted(upvalue.functions, k, upvalue.index)]
       [] OTHER -> [functions |-> fs, got |-> Global, failed |-> FALSE]

\* A name in an expression that is compiled for function k, where it leaves
\* "left" on the stack behind the statement.
Name(k, name, left) ==
  LET named == NamedVariable(functions, k, name)
      meant == Meant(scopes, k, name)
  IN /\ uses < size.uses /\ uses' = uses + 1
     /\ last' = [got |-> named.got, meant |-> meant]
     /\ failed' = named.failed
     /\ seen' = IF meant \in 1 .. count /\ Owner(scopes, meant) # k THEN seen \cup {meant} ELSE seen
     /\ functions' = [named.functions EXCEPT ![k].stack = @ \o left]

(***************************************************************************)
(* Declarations.                                                           *)
(***************************************************************************)
\* declareVariable: the error.
Duplicate(f, name) ==
  \E i \in DOMAIN f.locals :
    /\ f.locals[i].name = name
    /\ \A j \in i .. Len(f.locals) : f.locals[j].depth = Uninitialized \/ f.locals[j].depth >= f.depth

\* addLocal.
AddLocal(f, name, id) == [f EXCEPT !.locals = Append(@, Slot(name, Uninitialized, id))]

\* declareVariable.
DeclareVariable(f, name, id) == IF f.depth = 0 THEN f ELSE AddLocal(f, name, id)

\* markInitialized, and hideLocal.
MarkInitialized(f) == IF f.depth = 0 THEN f ELSE [f EXCEPT !.locals[Len(f.locals)].depth = f.depth]
HideLocal(f) == [f EXCEPT !.locals[Len(f.locals)].depth = Hidden]

Pushed(f, value) == [f EXCEPT !.stack = Append(@, value)]
Popped(f, n) == [f EXCEPT !.stack = SubSeq(@, 1, Len(@) - n)]
\* The value of a declaration: as a global it leaves the stack.
Defined(f, id) == IF f.depth = 0 THEN f ELSE Pushed(f, id)

\* What is left of the locals that have no value yet.
Pending(f) == {i \in DOMAIN f.locals : f.locals[i].depth \in {Uninitialized, Hidden}}
Statement(f) == Pending(f) = {} /\ f.type \in {"module", "function", "method"}

Set(f) == functions' = [functions EXCEPT ![Len(functions)] = f]
Checked(name) ==
  LET got == IF Current.depth > 0 /\ Duplicate(Current, name) THEN Error ELSE Other
  IN last' = [got |-> got, meant |-> IF Clash(scopes, Len(functions), name) THEN Error ELSE Other]
     /\ failed' = (got = Error)
New == count < size.declarations /\ count' = count + 1

\* letDeclaration up to the "=", which may declare two names.
Let(name) ==
  /\ Current.type \in {"module", "function", "method"} /\ New
  /\ \A i \in Pending(Current) : i > Len(Current.locals) - 1 /\ Current.locals[i].depth = Uninitialized
  /\ Cardinality(Pending(Current)) < 2
  /\ Checked(name)
  /\ Set([DeclareVariable(Current, name, count') EXCEPT !.parameters = FALSE])
  /\ scopes' = Declare(scopes, name, count', IF Current.depth = 0 THEN "global" ELSE "open")
  /\ UNCHANGED <<seen, ended, uses>>

\* The rest of letDeclaration: the values are on the stack, in the order of
\* the names.
EndLet ==
  LET open == {i \in Pending(Current) : Current.locals[i].depth = Uninitialized}
  IN /\ open # {}
     /\ Set([Current EXCEPT !.locals = [i \in DOMAIN @ |-> IF i \in open THEN [@[i] EXCEPT !.depth = Current.depth] ELSE @[i]],
                            !.stack = @ \o [i \in 1 .. Cardinality(open) |-> Current.locals[Len(Current.locals) - Cardinality(open) + i].id]])
     /\ scopes' = Ready(scopes)
     /\ UNCHANGED <<seen, ended, last, count, uses, failed>>

\* fromImportStatement with one name: the module is on top of the value
\* until they are swapped, and is dropped at the end.
FromImport(name) ==
  /\ Statement(Current) /\ New
  /\ Checked(name)
  /\ LET f == DeclareVariable([Current EXCEPT !.parameters = FALSE], name, count')
     IN Set(MarkInitialized(IF f.depth = 0 THEN f ELSE Popped(Pushed(Pushed(f, count'), Other), 1)))
  /\ scopes' = Ready(Declare(scopes, name, count', IF Current.depth = 0 THEN "global" ELSE "open"))
  /\ UNCHANGED <<seen, ended, uses>>

\* argumentList, a parameter, and the rest of it after its default.
Parameter(name) ==
  /\ Current.parameters /\ Pending(Current) = {} /\ New
  /\ Checked(name)
  /\ Set(Pushed(HideLocal(DeclareVariable(Current, name, count')), count'))
  /\ scopes' = Declare(scopes, name, count', "hidden")
  /\ UNCHANGED <<seen, ended, uses>>
EndParameter ==
  /\ \E i \in Pending(Current) : Current.locals[i].depth = Hidden
  /\ Set(MarkInitialized(Current)) /\ scopes' = Ready(scopes)
  /\ UNCHANGED <<seen, ended, last, count, uses, failed>>

(***************************************************************************)
(* Scopes and functions.                                                   *)
(***************************************************************************)
BeginScope ==
  /\ Statement(Current) /\ Current.depth < 2
  /\ Set([Current EXCEPT !.depth = @ + 1, !.parameters = FALSE])
  /\ scopes' = Append(scopes, Scope(Len(functions), "block"))
  /\ UNCHANGED <<seen, ended, last, count, uses, failed>>

\* endScope: the locals of the scope, and how each leaves the stack.
EndScope ==
  LET f == Current
      gone == {i \in DOMAIN f.locals : f.locals[i].depth > f.depth - 1}
      kept == Len(f.locals) - Cardinality(gone)
  IN /\ Statement(f) /\ f.depth > (IF f.type = "module" THEN 0 ELSE 1)
     /\ ended' = [i \in 1 .. Cardinality(gone) |-> [slot |-> kept + i, id |-> f.locals[kept + i].id, value |-> f.stack[kept + i],
                                                    closed |-> f.locals[kept + i].captured]]
     /\ Set([Popped(f, Cardinality(gone)) EXCEPT !.depth = @ - 1, !.locals = SubSeq(@, 1, kept)])
     /\ scopes' = SubSeq(scopes, 1, Len(scopes) - 1)
     /\ UNCHANGED <<seen, last, count, uses, failed>>

\* The function starts: the names in it are those of the scopes around it.
Enter(fs, type, opened, class) ==
  /\ Len(fs) <= size.nesting
  /\ functions' = Append(fs, InitCompiler(type, opened, class))

\* Mutant: nothing is put where the function will be.
MutDecorated(f) == Pushed(f, Other)

\* decorator, in a function: None where the function will be, and then the
\* decorator.
Decorated(f) == IF f.depth > 0 THEN Pushed(Pushed(f, Other), Other) ELSE Pushed(f, Other)

\* defDeclaration and decorator up to the body of the function.
Def(name, decorators) ==
  LET f == [IF decorators = 0 THEN Current ELSE Decorated(Current) EXCEPT !.parameters = FALSE]
      opened == [name |-> name, id |-> count', self |-> Other, declared |-> TRUE, decorators |-> decorators]
  IN /\ Statement(Current) /\ New /\ Checked(name) /\ ~failed'
     /\ Enter([functions EXCEPT ![Len(functions)] = MarkInitialized(DeclareVariable(f, name, count'))],
              "function", opened, Current.class)
     /\ scopes' = Append(Ready(Declare(scopes, name, count', IF Current.depth = 0 THEN "global" ELSE "open")),
                         Scope(Len(functions) + 1, "block"))
     /\ UNCHANGED <<seen, ended, uses>>

\* classDeclaration up to the body, in which the name is the class's own cell.
Class(name, decorators) ==
  LET opened == [name |-> name, id |-> count', self |-> Other, declared |-> FALSE, decorators |-> decorators]
  IN /\ Statement(Current) /\ New
     /\ decorators > 0 => Current.depth = 0 \/ "class" \in Unsound
     /\ Enter([functions EXCEPT ![Len(functions)] = [IF decorators = 0 THEN Current ELSE Decorated(Current) EXCEPT !.parameters = FALSE]],
              "class", opened, InClass(count'))
     /\ scopes' = scopes \o <<Cell(Len(functions) + 1, name, InClass(count')), Scope(Len(functions) + 1, "class")>>
     /\ UNCHANGED <<seen, ended, last, uses, failed>>

\* classBody: a field, and a method up to its body.
ClassField(name) ==
  /\ Current.type = "class" /\ name \notin Current.properties
  /\ Set([Current EXCEPT !.properties = @ \cup {name}])
  /\ scopes' = Declare(scopes, name, Field, "ready")
  /\ UNCHANGED <<seen, ended, last, count, uses, failed>>
Method(name) ==
  LET opened == [name |-> name, id |-> Field, self |-> count', declared |-> TRUE, decorators |-> 0]
  IN /\ Current.type = "class" /\ New
     /\ Enter(functions, "method", opened, Current.class)
     /\ scopes' = scopes \o <<Cell(Len(functions) + 1, Self, count'), Scope(Len(functions) + 1, "block")>>
     /\ UNCHANGED <<seen, ended, last, uses, failed>>

\* comprehensionExpression: the element has been compiled as an expression of
\* the function, with what that does to locals and upvalues, before the "for"
\* is seen and it is compiled again; then its function, whose variable is
\* there before what it runs over is compiled.
Comprehension(element, name) ==
  /\ Current.type # "comprehension" /\ New /\ uses < size.uses /\ uses' = uses + 1
  /\ LET named == NamedVariable(functions, Len(functions), element)
         inner == InitCompiler("comprehension", NotOpened, Current.class)
     IN /\ ~named.failed
        /\ Len(functions) <= size.nesting
        /\ functions' = Append(named.functions,
                               [inner EXCEPT !.locals = <<Slot(NoName, 1, Other), Slot(name, 2, count')>>, !.depth = 2,
                                             !.stack = <<Other, count'>>])
  /\ scopes' = Append(scopes, [Scope(Len(functions) + 1, "block") EXCEPT !.names[name] = [id |-> count', state |-> "ready"]])
  /\ UNCHANGED <<seen, ended, last, failed>>

\* functionPrologue, the rest of classDeclaration, of defDeclaration, of
\* decorator and of declaration: the value is on the stack, each decorator is
\* called with it, and it goes where its name is, or to the globals.
Outside(f) == SubSeq(functions, 1, Len(functions) - 2) \o <<f>>
Placed(f, opened) ==
  LET declared == IF opened.declared \/ opened.decorators > 0 THEN f ELSE MarkInitialized(DeclareVariable(f, opened.name, opened.id))
  IN CASE opened.decorators = 0 -> Defined(declared, opened.id)
       [] f.depth > 0 -> [Popped(declared, 1) EXCEPT !.stack[Len(f.stack) - 1] = opened.id]    \* OP_CALL, OP_SWAP_POP
       [] OTHER -> Popped(declared, 1)
EndFunction ==
  LET opened == Current.opened
      f == functions[Len(functions) - 1]
  IN /\ Len(functions) > 1 /\ Pending(Current) = {}
     /\ Current.type \in {"function", "method"} => Current.depth = 1
     /\ UNCHANGED <<seen, ended, count, uses>>
     /\ \/ /\ Current.type = "function"
           /\ functions' = Outside(Placed(f, opened))
           /\ scopes' = SubSeq(scopes, 1, Len(scopes) - 1) /\ UNCHANGED <<last, failed>>
        \/ /\ Current.type = "comprehension"
           /\ functions' = Outside(f)
           /\ scopes' = SubSeq(scopes, 1, Len(scopes) - 1) /\ UNCHANGED <<last, failed>>
        \/ /\ Current.type = "method"
           /\ functions' = Outside([f EXCEPT !.properties = @ \cup {opened.name}])
           /\ scopes' = Declare(SubSeq(scopes, 1, Len(scopes) - 2), opened.name, Field, "ready") /\ UNCHANGED <<last, failed>>
        \/ /\ Current.type = "class"
           /\ LET outside == SubSeq(scopes, 1, Len(scopes) - 2)
                  declares == f.depth > 0 /\ opened.decorators = 0
                  got == IF declares /\ Duplicate(f, opened.name) THEN Error ELSE Other
              IN /\ last' = [got |-> got, meant |-> IF Clash(outside, Len(functions) - 1, opened.name) THEN Error ELSE Other]
                 /\ failed' = (got = Error)
                 /\ functions' = Outside(Placed(f, opened))
                 /\ scopes' = Ready(Declare(outside, opened.name, opened.id, IF f.depth = 0 THEN "global" ELSE "open"))

\* A name in an expression, or in a type hint, which typeHint compiles for
\* the function around this one.
Use(name) ==
  /\ Name(Len(functions), name, <<>>) /\ UNCHANGED <<scopes, ended, count>>
TypeHint(name) ==
  /\ Current.type \in {"function", "method"} /\ Current.parameters
  /\ Name(Len(functions) - 1, name, <<>>) /\ UNCHANGED <<scopes, ended, count>>

\* delStatement with a name: a global is deleted, any other variable is set
\* to None, which stays on the stack.
Del(name) ==
  LET got == NamedVariable(functions, Len(functions), name).got
  IN /\ Statement(Current)
     /\ got = Global \/ "del" \in Unsound
     /\ Name(Len(functions), name, IF got = Global THEN <<>> ELSE <<Other>>) /\ UNCHANGED <<scopes, ended, count>>

Next ==
  /\ ~failed /\ UNCHANGED size
  /\ \/ \E name \in Names :
          \/ Let(name) \/ FromImport(name) \/ Parameter(name)
          \/ \E decorators \in 0 .. 1 : Def(name, decorators) \/ Class(name, decorators)
          \/ ClassField(name) \/ Method(name)
          \/ \E element \in Names : Comprehension(element, name)
     \/ \E name \in Names \cup {Self} : Use(name) \/ TypeHint(name) \/ Del(name)
     \/ EndLet \/ EndParameter \/ BeginScope \/ EndScope \/ EndFunction

Spec == Init /\ [][Next]_vars

(***************************************************************************)
(* Properties.                                                             *)
(***************************************************************************)
\* However functions, classes, comprehensions, defaults and type hints are
\* nested, the code that namedVariable emits for a name is an access to the
\* declaration that the rules of the language give it, and the compiler
\* refuses a name exactly when they do.
NamesResolved == last.got = last.meant

\* Between two statements of a function the code has left on the stack one
\* value for each local, that of its own declaration, and nothing else: the
\* indices that the compiler gives to locals are those of their slots.
SlotsRight == ~failed /\ Statement(Current) => Current.stack = [i \in DOMAIN Current.locals |-> Current.locals[i].id]

\* When a scope ends, a variable that some function inside it has used is
\* closed and not popped, so the closure keeps it, and what is popped or
\* closed is the value of the variable.
CapturedClosed == \A i \in DOMAIN ended : ended[i].value = ended[i].id /\ (ended[i].id \in seen => ended[i].closed)
===============================================================================
