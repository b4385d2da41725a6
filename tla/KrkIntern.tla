------------------------------ MODULE KrkIntern ------------------------------
(***************************************************************************)
(* Getting strings from the intern table vm.strings under the spin lock    *)
(* _stringLock: krk_takeString, krk_copyString and krk_takeStringVetted in *)
(* src/src/object.c, called by several threads at once.                    *)
(*                                                                         *)
(* What a thread still has to do is a sequence of steps; a function puts   *)
(* its steps in front of those of its caller.  An insertion is one step:   *)
(* when two threads are in the table at once, which the model lets happen, *)
(* the real table may be damaged as well.                                  *)
(***************************************************************************)
EXTENDS Sequences, Integers

CONSTANTS
  Thread,
  Text,       \* character sequences, the next two among them
  Malformed,  \* those that are not UTF-8
  Empty,      \* ""
  Message     \* the message of the ValueError for malformed text

TextAssumption ==
  Malformed \subseteq Text /\ {Empty, Message} \subseteq Text \ Malformed

ASSUME TextAssumption

Function == {"krk_takeString", "krk_copyString", "krk_takeStringVetted"}

VARIABLES
  locked,   \* _stringLock
  objects,  \* for each text, how many objects the table has with it
  todo,     \* for each thread, the steps it has still to do
  asked,    \* the text of its call
  result,   \* the text of the object its last lookup or insertion gave
  holder,   \* history: the threads that have obtained the lock and not released it
  stray     \* history: has a thread released a lock it did not hold?

vars == <<locked, objects, todo, asked, result, holder, stray>>

Lock == [do |-> "obtain"]
Unlock == [do |-> "release"]
Find(f, x) == [do |-> "find", by |-> f, text |-> x]
Add(x) == [do |-> "insert", text |-> x]

Step == {Lock, Unlock} \cup {Find(f, x) : f \in Function, x \in Text} \cup {Add(x) : x \in Text}

\* Mutant: the lookup precedes the lock.
Call_Unlocked(f, x) == <<Find(f, x), Lock>>

\* Every function locks the table, then looks for the text.
Call(f, x) == <<Lock, Find(f, x)>>

Hit(f, x) == <<Unlock>>

\* krk_copyString releases the lock that allocateString has released.
Again(f) == IF f = "krk_copyString" THEN <<Unlock>> ELSE << >>

\* allocateString, and the end of krk_takeStringVetted.
Allocated(f, x) == <<Add(x), Unlock>> \o Again(f)

\* Mutant: the error is raised, and its message interned, with the lock held.
Rejected_Locked(f) ==
  Call("krk_copyString", Message) \o Call("krk_copyString", Empty) \o Again(f)

\* Mutant: the caller gets the last string that was made, the message.
Rejected_Message(f) == <<Unlock>> \o Call("krk_copyString", Message) \o Again(f)

\* checkString finds malformed text: it releases the lock and raises an
\* error; allocateString returns the empty string.
Rejected(f) ==
  <<Unlock>> \o Call("krk_copyString", Message) \o Call("krk_copyString", Empty) \o Again(f)

Missed(f, x) == IF x \in Malformed THEN Rejected(f) ELSE Allocated(f, x)

Init ==
  /\ locked = FALSE
  /\ objects = [x \in Text |-> 0]
  /\ todo = [t \in Thread |-> << >>]
  /\ asked = [t \in Thread |-> Empty]
  /\ result = [t \in Thread |-> Empty]
  /\ holder = {}
  /\ stray = FALSE

\* A thread calls one of the functions; krk_takeStringVetted gets texts that
\* are known to be well-formed.
Ask(t, f, x) ==
  /\ todo[t] = << >>
  /\ f = "krk_takeStringVetted" => x \notin Malformed
  /\ todo' = [todo EXCEPT ![t] = Call(f, x)]
  /\ asked' = [asked EXCEPT ![t] = x]
  /\ UNCHANGED <<locked, objects, result, holder, stray>>

Steps(t) == todo[t] # << >>
Now(t) == Head(todo[t])

\* t has done its next step, which leads to the steps new before the rest.
Go(t, new) == todo' = [todo EXCEPT ![t] = new \o Tail(todo[t])]

\* The spin lock is obtained.
Obtain(t) ==
  /\ Steps(t) /\ Now(t).do = "obtain"
  /\ ~locked
  /\ locked' = TRUE
  /\ holder' = holder \cup {t}
  /\ Go(t, << >>)
  /\ UNCHANGED <<objects, asked, result, stray>>

\* The spin lock is released, whoever holds it.
Release(t) ==
  /\ Steps(t) /\ Now(t).do = "release"
  /\ locked' = FALSE
  /\ holder' = holder \ {t}
  /\ stray' = (stray \/ t \notin holder)
  /\ Go(t, << >>)
  /\ UNCHANGED <<objects, asked, result>>

\* krk_tableFindString finds an object with the text.
Found(t) ==
  /\ Steps(t) /\ Now(t).do = "find"
  /\ objects[Now(t).text] > 0
  /\ result' = [result EXCEPT ![t] = Now(t).text]
  /\ Go(t, Hit(Now(t).by, Now(t).text))
  /\ UNCHANGED <<locked, objects, asked, holder, stray>>

NotFound(t) ==
  /\ Steps(t) /\ Now(t).do = "find"
  /\ objects[Now(t).text] = 0
  /\ Go(t, Missed(Now(t).by, Now(t).text))
  /\ UNCHANGED <<locked, objects, asked, result, holder, stray>>

\* A new string object goes into the table.
Insert(t) ==
  /\ Steps(t) /\ Now(t).do = "insert"
  /\ objects' = [objects EXCEPT ![Now(t).text] = @ + 1]
  /\ result' = [result EXCEPT ![t] = Now(t).text]
  /\ Go(t, << >>)
  /\ UNCHANGED <<locked, asked, holder, stray>>

Run(t) == Obtain(t) \/ Release(t) \/ Found(t) \/ NotFound(t) \/ Insert(t)

Next == \E t \in Thread : Run(t) \/ \E f \in Function, x \in Text : Ask(t, f, x)

Spec == Init /\ [][Next]_vars

\* Threads are scheduled again and again.
FairSpec == Spec /\ \A t \in Thread : WF_vars(Run(t))

-----------------------------------------------------------------------------
\* Types; and a call, the calls its error path makes included, never has more
\* than six steps to do: raising the error does not raise another.
TypeOK ==
  /\ locked \in BOOLEAN /\ stray \in BOOLEAN
  /\ objects \in [Text -> Nat]
  /\ todo \in [Thread -> Seq(Step)] /\ \A t \in Thread : Len(todo[t]) <= 6
  /\ asked \in [Thread -> Text]
  /\ result \in [Thread -> Text]
  /\ holder \subseteq Thread

\* The table has one object for a text: what lets strings be compared by
\* identity.
OneObjectPerText == \A x \in Text : objects[x] <= 1

\* It does as long as no thread releases the lock when it does not hold it.
UniqueUnlessStray == stray \/ OneObjectPerText

\* A call returns an object with its text, the empty string for a malformed
\* one, through the calls that the error makes on the way and whatever the
\* other threads do to the lock.
AnswersRight ==
  \A t \in Thread :
    todo[t] = << >> =>
      result[t] = asked[t] \/ (asked[t] \in Malformed /\ result[t] = Empty)

\* When no thread is in one of the functions, the lock is free: no path
\* forgets it, the error's included.
FreeAtRest == (\A t \in Thread : todo[t] = << >>) => ~locked

\* A call that interns a text returns an object with that text, or the empty
\* string for a malformed one, whatever the other threads do meanwhile, and no
\* path of the three functions forgets the lock (krk_takeString, krk_copyString,
\* krk_takeStringVetted).
AnswersSettled == AnswersRight /\ FreeAtRest

\* The lock comes free again and again, whatever path its holder takes.
LockComesFree == []<>(~locked)
=============================================================================
