------------------------------- MODULE KrkStack -------------------------------
(***************************************************************************)
(* The memory of a thread's stack: vm.c krk_push, krk_growStack and        *)
(* krk_callNativeOnStack.                                                  *)
(*                                                                         *)
(* A native function gets a pointer to its arguments on the stack.  While  *)
(* it runs values are pushed, by itself, by functions it calls and by      *)
(* natives those call, and the stack may have to move.  The flag           *)
(* KRK_THREAD_DEFER_STACK_FREE says that the memory it is in now must not  *)
(* be freed by the one who moves it.                                       *)
(***************************************************************************)
EXTENDS Naturals, SequencesExt

CONSTANTS MaxMoves, MaxNatives   \* bounds of the model: how often the stack moves, how deep natives are nested

StackAssumption == {MaxMoves, MaxNatives} \subseteq Nat

VARIABLES
  memory,    \* the blocks that have been allocated and not freed
  block,     \* the one the stack is in; the next is a new one
  full,      \* is it full?
  defer,     \* KRK_THREAD_DEFER_STACK_FREE
  natives    \* those that run: the block their arguments are in, and the one
             \* they must free if the stack is no longer there (0 for none)

svars == <<memory, block, full, defer, natives>>

SInit == memory = {1} /\ block = 1 /\ full = FALSE /\ defer = FALSE /\ natives = <<>>

\* Mutant: the flag is not looked at.
MutMove == /\ memory' = (memory \ {block}) \cup {block + 1}
           /\ block' = block + 1 /\ defer' = FALSE

\* krk_growStack: with the flag the old block is left to the native that set
\* the flag, and the new one is nobody's to keep.
GrowStack == /\ memory' = IF defer THEN memory \cup {block + 1} ELSE (memory \ {block}) \cup {block + 1}
             /\ block' = block + 1 /\ defer' = FALSE

\* krk_push; how many values it takes to fill a block does not matter.
Push ==
  /\ full' \in BOOLEAN
  /\ IF full THEN block <= MaxMoves /\ GrowStack ELSE UNCHANGED <<memory, block, defer>>
  /\ UNCHANGED natives

Pop == full /\ full' = FALSE /\ UNCHANGED <<memory, block, defer, natives>>

\* krk_callNativeOnStack, up to the call and after it.
CallNativeOnStack ==
  /\ Len(natives) < MaxNatives
  /\ natives' = Append(natives, [args |-> block, before |-> IF defer THEN 0 ELSE block])
  /\ defer' = TRUE
  /\ UNCHANGED <<memory, block, full>>

Returned ==
  LET native == Last(natives) IN
  /\ natives # <<>> /\ natives' = Front(natives)
  /\ IF native.before = 0 THEN UNCHANGED <<memory, defer>>
     ELSE /\ memory' = IF block # native.before THEN memory \ {native.before} ELSE memory
          /\ defer' = FALSE
  /\ full' \in {full, FALSE} /\ UNCHANGED block

SNext == Push \/ Pop \/ CallNativeOnStack \/ Returned

SSpec == SInit /\ [][SNext]_svars

\* What a running native reads its arguments from has not been freed.
ArgumentsReadable == \A k \in DOMAIN natives : natives[k].args \in memory

\* Every block but the one in use has one native that will free it: none is
\* lost, and none is freed twice.
BlocksFreed ==
  /\ block \in memory
  /\ \A b \in memory \ {block} : Cardinality({k \in DOMAIN natives : natives[k].before = b}) = 1
  /\ \A k \in DOMAIN natives : natives[k].before # 0 => natives[k].before \in memory

\* A native function can read its arguments however often the stack has
\* moved while it runs, and the blocks the stack has left are freed when
\* nobody reads from them any more (krk_growStack, krk_callNativeOnStack).
StackMemoryRight == ArgumentsReadable /\ BlocksFreed
===============================================================================
