------------------------------- MODULE KrkImport -------------------------------
(***************************************************************************)
(* Modules and their import (vm.c, the import statements of compiler.c).   *)
(* vm.modules has the modules by name.  A source file is run while its     *)
(* module is already there, so that modules may import each other in a     *)
(* circle; one that fails is taken out again.  A dotted name is loaded     *)
(* package by package, and each module becomes an attribute of the package *)
(* it is in.                                                               *)
(*                                                                         *)
(* A name is a sequence of components.  A thread is a stack of frames: the *)
(* bodies of modules and the functions it runs, and between them the       *)
(* activations of krk_importModule.                                        *)
(***************************************************************************)
EXTENDS Integers, Sequences, SequencesExt, FiniteSets

CONSTANTS
  None,
  Threads,
  Programs,    \* files, and what each thread begins with
  Unsound,     \* what programs do that the code gets wrong: "race": threads
               \* load modules at the same time; "lazy": a function imports a
               \* relative name; "again": a module that will fail is imported
               \* while it is loaded
  MaxObjects   \* bound: module objects

VARIABLES
  program,
  modules,     \* vm.modules: name -> object
  objs,        \* module objects; path is where the file was found
  frames,
  module,      \* krk_currentThread.module
  raised       \* KRK_THREAD_HAS_EXCEPTION

importVars == <<program, modules, objs, frames, module, raised>>

Main == <<"__main__">>

Module(id) == <<"module", id>>
Plain(v) == <<"plain", v>>
Names(s) == <<"names", s>>     \* what __all__ is bound to

-----------------------------------------------------------------------------
(* What the compiler makes of statements.                                  *)

Import(dots, path) == [op |-> "IMPORT", dots |-> dots, path |-> path]
Set(var, s) == [op |-> "SET", var |-> var, of |-> s]
Op(name) == [op |-> name]

Simple(s) ==
  CASE s.kind = "import" ->
         <<Import(0, s.path)>>
         \o (IF s.as = None /\ Len(s.path) > 1 THEN <<Op("POP"), Import(0, <<Head(s.path)>>)>> ELSE <<>>)
         \o <<Set(IF s.as = None THEN Head(s.path) ELSE s.as, s)>>
    [] s.kind = "from" ->
         <<Import(s.dots, s.path), Op("DUP"), [op |-> "IMPORT_FROM", member |-> s.member], Set(s.as, s), Op("POP")>>
    [] s.kind = "star" -> <<Import(s.dots, s.path), Op("IMPORT_STAR")>>
    [] s.kind = "assign" -> <<[op |-> "CONSTANT", value |-> s.value], Set(s.as, s)>>
    [] s.kind = "raise" -> <<Op("RAISE")>>
    [] s.kind = "call" -> <<[op |-> "CALL", var |-> s.var]>>

\* A statement is guarded where it is the body of try: except: pass.
Code(body) ==
  FlattenSeq([k \in DOMAIN body |->
    IF body[k].guarded THEN <<[op |-> "PUSH_TRY", over |-> Len(Simple(body[k])) + 1]>> \o Simple(body[k]) \o <<Op("END_TRY")>>
    ELSE Simple(body[k])])

-----------------------------------------------------------------------------
(* Files.  Those of a directory are tried as a package, as a shared object, *)
(* as a source, before those of the next.                                   *)

Rank(file) == 3 * file.dir + (CASE file.kind = "package" -> 0 [] file.kind \in {"native", "broken"} -> 1 [] file.kind = "source" -> 2)

Search(path) ==
  LET files == {f \in program.files : f.path = path}
  IN IF files = {} THEN None ELSE CHOOSE f \in files : \A g \in files : Rank(f) <= Rank(g)

-----------------------------------------------------------------------------
(* Frames.                                                                 *)

Walk(name, runAs, from) ==
  [kind |-> "walk", name |-> name, runAs |-> runAs, k |-> 1, last |-> None, found |-> None, result |-> None, from |-> from]

Running(kind, obj, code, enclosing) ==
  [kind |-> kind, obj |-> obj, ops |-> code, pc |-> 1, stack |-> <<>>, handler |-> 0, enclosing |-> enclosing]

Top(t) == Last(frames[t])
Below(t) == Front(frames[t])
At(t, kinds) == frames[t] # <<>> /\ Top(t).kind \in kinds
Become(t, frame) == frames' = [frames EXCEPT ![t] = Append(Front(@), frame)]

Next1(f) == [f EXCEPT !.pc = @ + 1]
Pushed(f, value) == [f EXCEPT !.pc = @ + 1, !.stack = Append(@, value)]

Raise(t) == raised' = [raised EXCEPT ![t] = TRUE]
Field(id, name) == IF name \in DOMAIN objs[id].fields THEN objs[id].fields[name] ELSE None
WithField(os, id, name, value) ==
  [os EXCEPT ![id].fields = [n \in DOMAIN @ \cup {name} |-> IF n = name THEN value ELSE @[n]]]

-----------------------------------------------------------------------------
(* krk_importModule and krk_loadModule.                                    *)

\* n dots go up n - 1 packages.
Up(package, dots) == SubSeq(package, 1, Len(package) - (dots - 1))

\* The name a relative one stands for, or None.  The package is that of the
\* module the thread is loading.  A thread that loads none has no module, and
\* the code then reads through a null pointer: no program here does that.
Canonical(t, dots, path) ==
  LET package == IF module[t] = None THEN None ELSE objs[module[t]].package
  IN IF dots = 0 THEN path
     ELSE IF package = None THEN None
     ELSE IF dots > 1 /\ Len(package) <= dots - 1 THEN None
     ELSE Up(package, dots) \o path

\* What is being loaded, and under which name.
Path(f) == SubSeq(f.name, 1, f.k)
As(f) == IF f.k = Len(f.name) THEN f.runAs ELSE Path(f)

\* Mutant: a module counts only when it is complete.
MutKnown(name) == name \in DOMAIN modules /\ objs[modules[name]].state = "done"

Known(name) == name \in DOMAIN modules

\* krk_startModule, and __ispackage__ and __package__: the parent is known for
\* the last component only.
StartModule(t, f, file) ==
  LET id == Len(objs) + 1
      parent == IF f.k = Len(f.name) /\ f.last # None THEN objs[f.last].name ELSE None
  IN /\ Len(objs) < MaxObjects
     /\ objs' = Append(objs, [name |-> As(f), path |-> Path(f), file |-> file, state |-> "loading", fields |-> <<>>,
                              package |-> IF file.kind = "package" THEN As(f) ELSE parent])
     /\ modules' = [n \in DOMAIN modules \cup {As(f)} |-> IF n = As(f) THEN id ELSE modules[n]]
     /\ module' = [module EXCEPT ![t] = id]
     /\ frames' = [frames EXCEPT ![t] = Append(@, Running("body", id, Code(file.body), module[t]))]
     /\ UNCHANGED raised

\* moduleOnLoad of a shared object makes a module that is complete.
LoadNative(t, f, file) ==
  LET id == Len(objs) + 1
  IN /\ Len(objs) < MaxObjects
     /\ objs' = Append(objs, [name |-> As(f), path |-> Path(f), file |-> file, state |-> "done", fields |-> <<>>, package |-> None])
     /\ modules' = [n \in DOMAIN modules \cup {As(f)} |-> IF n = As(f) THEN id ELSE modules[n]]
     /\ Become(t, [f EXCEPT !.result = id])
     /\ UNCHANGED <<module, raised>>

LoadModule(t) ==
  LET f == Top(t)
      file == Search(Path(f))
  IN /\ At(t, {"walk"}) /\ ~raised[t] /\ f.result = None
     /\ \/ f.found # None /\ StartModule(t, f, f.found)
        \/ f.found = None /\ Known(As(f)) /\ Become(t, [f EXCEPT !.result = modules[As(f)]]) /\ UNCHANGED <<modules, objs, module, raised>>
        \/ /\ f.found = None /\ ~Known(As(f))
           /\ \/ (file = None \/ file.kind = "broken") /\ Raise(t) /\ UNCHANGED <<modules, objs, frames, module>>
              \/ file # None /\ file.kind = "native" /\ LoadNative(t, f, file)
              \/ /\ file # None /\ file.kind = "package" /\ As(f) = Main
                 /\ frames' = [frames EXCEPT ![t] = Append(@, Walk(Append(f.name, "__main__"), Main, FALSE))]
                 /\ UNCHANGED <<modules, objs, module, raised>>
              \/ /\ file # None /\ file.kind \in {"package", "source"} /\ ~(file.kind = "package" /\ As(f) = Main)
                 /\ IF "race" \in Unsound
                    THEN Become(t, [f EXCEPT !.found = file]) /\ UNCHANGED <<modules, objs, module, raised>>
                    ELSE StartModule(t, f, file)
     /\ UNCHANGED program

IsPackage(id) == objs[id].file.kind = "package"

\* Mutant: only the last component becomes an attribute.
MutAttached(f) ==
  IF f.last = None \/ f.k < Len(f.name) THEN objs ELSE WithField(objs, f.last, f.name[f.k], Module(f.result))

\* A component that is there becomes an attribute of the one before.
Attached(f) == IF f.last = None THEN objs ELSE WithField(objs, f.last, f.name[f.k], Module(f.result))

Arrive(t) ==
  LET f == Top(t)
      rest == Below(t)
      below == Last(rest)
  IN /\ At(t, {"walk"}) /\ ~raised[t] /\ f.result # None
     /\ objs' = Attached(f)
     /\ \/ /\ f.k < Len(f.name) /\ IsPackage(f.result)
           /\ Become(t, [f EXCEPT !.k = @ + 1, !.last = f.result, !.result = None, !.found = None]) /\ UNCHANGED raised
        \/ f.k < Len(f.name) /\ ~IsPackage(f.result) /\ Raise(t) /\ UNCHANGED frames
        \/ /\ f.k = Len(f.name) /\ UNCHANGED raised
           /\ frames' = [frames EXCEPT ![t] =
                IF rest = <<>> THEN <<>>
                ELSE Append(Front(rest),
                       CASE below.kind = "walk" -> [below EXCEPT !.result = f.result]
                         [] below.kind # "walk" /\ f.from -> [below EXCEPT !.pc = @ + 1, !.stack = Append(Front(@), Module(f.result))]
                         [] OTHER -> Pushed(below, Module(f.result)))]
     /\ UNCHANGED <<program, modules, module>>

-----------------------------------------------------------------------------
(* Running bodies and functions.                                           *)

\* import_star: what is missing of __all__ is an error, but what comes before
\* it has been assigned.
Hidden == {"_hidden", "__all__"}
Star(globals, from) ==
  LET all == Field(from, "__all__")
      listed == all[2]
      missing == {k \in DOMAIN listed : Field(from, listed[k]) = None}
      upto == IF missing = {} THEN Len(listed) ELSE (CHOOSE k \in missing : \A j \in missing : k <= j) - 1
      names == IF all = None THEN DOMAIN objs[from].fields \ Hidden ELSE {listed[k] : k \in 1 .. upto}
  IN [objs |-> [objs EXCEPT ![globals].fields =
                 [n \in DOMAIN @ \cup names |-> IF n \in names THEN objs[from].fields[n] ELSE @[n]]],
      failed |-> all # None /\ missing # {}]

Execute(t) ==
  LET f == Top(t)
      o == f.ops[f.pc]
      top == Last(f.stack)
  IN /\ At(t, {"body", "function"}) /\ ~raised[t] /\ f.pc <= Len(f.ops)
     /\ \/ /\ o.op = "IMPORT"
           /\ LET name == Canonical(t, o.dots, o.path)
              IN IF name = None THEN Raise(t) /\ UNCHANGED frames
                 ELSE frames' = [frames EXCEPT ![t] = Append(@, Walk(name, name, FALSE))] /\ UNCHANGED raised
           /\ UNCHANGED objs
        \/ /\ o.op = "IMPORT_FROM"
           /\ LET value == Field(top[2], o.member)
                  name == Append(objs[top[2]].name, o.member)
              IN IF value # None THEN Become(t, [f EXCEPT !.pc = @ + 1, !.stack = Append(Front(@), value)])
                 ELSE frames' = [frames EXCEPT ![t] = Append(@, Walk(name, name, TRUE))]
           /\ UNCHANGED <<objs, raised>>
        \/ /\ o.op = "IMPORT_STAR"
           /\ LET s == Star(f.obj, top[2])
              IN /\ objs' = s.objs
                 /\ IF s.failed THEN Raise(t) /\ UNCHANGED frames
                    ELSE Become(t, [Next1(f) EXCEPT !.stack = Front(@)]) /\ UNCHANGED raised
        \/ /\ o.op = "SET" /\ objs' = WithField(objs, f.obj, o.var, top) /\ Become(t, [Next1(f) EXCEPT !.stack = Front(@)])
           /\ UNCHANGED raised
        \/ o.op = "POP" /\ Become(t, [Next1(f) EXCEPT !.stack = Front(@)]) /\ UNCHANGED <<objs, raised>>
        \/ o.op = "DUP" /\ Become(t, Pushed(f, top)) /\ UNCHANGED <<objs, raised>>
        \/ o.op = "CONSTANT" /\ Become(t, Pushed(f, o.value)) /\ UNCHANGED <<objs, raised>>
        \/ o.op = "PUSH_TRY" /\ Become(t, [Next1(f) EXCEPT !.handler = f.pc + o.over]) /\ UNCHANGED <<objs, raised>>
        \/ o.op = "END_TRY" /\ Become(t, [Next1(f) EXCEPT !.handler = 0]) /\ UNCHANGED <<objs, raised>>
        \/ o.op = "RAISE" /\ Raise(t) /\ UNCHANGED <<objs, frames>>
        \/ /\ o.op = "CALL"
           /\ LET callee == Field(f.obj, o.var)[2]
              IN frames' = [frames EXCEPT ![t] =
                   Append(Append(Front(@), Next1(f)), Running("function", callee, Code(objs[callee].file.lazy), None))]
           /\ UNCHANGED <<objs, raised>>
     /\ UNCHANGED <<program, modules, module>>

\* Back from krk_runfile in krk_loadModule.
Finish(t) ==
  LET f == Top(t)
      rest == Below(t)
  IN /\ At(t, {"body", "function"}) /\ ~raised[t] /\ f.pc > Len(f.ops)
     /\ IF f.kind = "function"
        THEN frames' = [frames EXCEPT ![t] = rest] /\ UNCHANGED <<objs, module>>
        ELSE /\ objs' = [objs EXCEPT ![f.obj].state = "done"]
             /\ module' = [module EXCEPT ![t] = f.enclosing]
             /\ frames' = [frames EXCEPT ![t] = Append(Front(rest), [Last(rest) EXCEPT !.result = f.obj])]
     /\ UNCHANGED <<program, modules, raised>>

\* Mutant: a module that failed stays.
MutForget(name) == modules

Forget(name) == [n \in DOMAIN modules \ {name} |-> modules[n]]

Left(t, f) == f.enclosing

\* An exception goes to a handler, or out of the frame.
Unwind(t) ==
  LET f == Top(t)
  IN /\ frames[t] # <<>> /\ raised[t]
     /\ \/ /\ f.kind # "walk" /\ f.handler # 0
           /\ Become(t, [f EXCEPT !.pc = f.handler, !.stack = <<>>]) /\ raised' = [raised EXCEPT ![t] = FALSE]
           /\ UNCHANGED <<modules, objs, module>>
        \/ /\ f.kind = "body" /\ f.handler = 0
           /\ objs' = [objs EXCEPT ![f.obj].state = "failed"]
           /\ modules' = Forget(objs[f.obj].name)
           /\ module' = [module EXCEPT ![t] = Left(t, f)]
           /\ frames' = [frames EXCEPT ![t] = Below(t)] /\ UNCHANGED raised
        \/ /\ (f.kind = "walk" \/ (f.kind = "function" /\ f.handler = 0))
           /\ frames' = [frames EXCEPT ![t] = Below(t)] /\ UNCHANGED <<modules, objs, module, raised>>
     /\ UNCHANGED program

\* The first thread is kuroko -m name, others import a name from their run
\* methods.
ImportInit ==
  /\ program \in Programs
  /\ modules = <<>> /\ objs = <<>>
  /\ frames = [t \in Threads |-> IF program.start[t] = None THEN <<>>
                                 ELSE <<Walk(program.start[t], IF t = 1 THEN Main ELSE program.start[t], FALSE)>>]
  /\ module = [t \in Threads |-> None]
  /\ raised = [t \in Threads |-> FALSE]

ImportStep(t) == LoadModule(t) \/ Arrive(t) \/ Execute(t) \/ Finish(t) \/ Unwind(t)
ImportNext == \E t \in Threads : ImportStep(t)

\* Every thread goes on.
ImportSpec == ImportInit /\ [][ImportNext]_importVars /\ \A t \in Threads : WF_importVars(ImportStep(t))

-----------------------------------------------------------------------------
(* What should hold.                                                       *)

\* However modules import each other, the body of one runs once, unless it
\* failed before (krk_loadModule).
RunsOnce ==
  \A i, j \in DOMAIN objs : i # j /\ objs[i].name = objs[j].name => "failed" \in {objs[i].state, objs[j].state}

\* What vm.modules has is complete, or is being loaded by a thread: a module
\* that failed cannot be imported (krk_loadModule).
KnownAreLoaded ==
  \A n \in DOMAIN modules :
    LET id == modules[n]
    IN \/ objs[id].state = "done"
       \/ objs[id].state = "loading" /\ \E t \in Threads : \E k \in DOMAIN frames[t] :
            frames[t][k].kind = "body" /\ frames[t][k].obj = id

LoadedOnce == RunsOnce /\ KnownAreLoaded

\* No package has a module that failed for an attribute (krk_importModule).
FailedAreGone ==
  \A i, j \in DOMAIN objs : objs[j].state = "failed" => \A n \in DOMAIN objs[i].fields : objs[i].fields[n] # Module(j)

\* krk_currentThread.module is the innermost module the thread is loading,
\* after failures too.
CurrentModule ==
  \A t \in Threads :
    LET bodies == {k \in DOMAIN frames[t] : frames[t][k].kind = "body"}
    IN module[t] = IF bodies = {} THEN None ELSE frames[t][CHOOSE k \in bodies : \A j \in bodies : j <= k].obj

\* The package of a module, by where its file is.
PackageOf(id) == IF IsPackage(id) THEN objs[id].path ELSE Front(objs[id].path)

\* What import statements bind is what they name, and import a.b.c leaves
\* a.b.c to be reached from a; a relative name is that of the package of the
\* module the statement is in.
Bound(id, s, value) ==
  LET reached(path) == \A k \in 1 .. Len(path) - 1 :
        /\ SubSeq(path, 1, k + 1) \in DOMAIN modules
        /\ Field(modules[SubSeq(path, 1, k)], path[k + 1]) = Module(modules[SubSeq(path, 1, k + 1)])
      base == IF s.dots = 0 THEN s.path ELSE SubSeq(PackageOf(id), 1, Len(PackageOf(id)) + 1 - s.dots) \o s.path
  IN CASE s.kind = "import" -> reached(s.path) /\ value = Module(modules[IF s.as = None THEN <<Head(s.path)>> ELSE s.path])
       [] s.kind = "from" -> base \in DOMAIN modules /\ value = Field(modules[base], s.member)
       [] OTHER -> TRUE

StatementsBind ==
  \A t \in Threads :
    At(t, {"body", "function"}) /\ ~raised[t] =>
      LET f == Top(t)
      IN f.pc <= Len(f.ops) /\ f.ops[f.pc].op = "SET" => Bound(f.obj, f.ops[f.pc].of, Last(f.stack))

\* An import statement binds what it names, a relative one in its own
\* package, and leaves what is between to be reached, but nothing that failed;
\* the thread is back in the module it was in, after failures too (OP_IMPORT,
\* krk_importModule, krk_callNativeOnStack).
BindsRight == StatementsBind /\ FailedAreGone /\ CurrentModule

\* Every import comes to an end.
EveryImportEnds == \A t \in Threads : <>(frames[t] = <<>>)
=============================================================================
