------------------------------- MODULE KrkList --------------------------------
(***************************************************************************)
(* A list, its reader-writer lock and the threads that use it (obj_list.c).*)
(*                                                                         *)
(* A method that runs no code of the program between taking the lock and   *)
(* giving it back is one action.  The others have a frame: they compare    *)
(* elements, which may call __eq__, or ask an iterator for items, or sort. *)
(* __eq__ may use the list again, so a thread has a stack of frames.       *)
(*                                                                         *)
(* The lock is that of glibc: a thread that has it for writing and asks    *)
(* again gets EDEADLK, which the code does not look at, and so goes on;    *)
(* what it then unlocks is the lock it had.  A reader that wants to write  *)
(* waits for itself.  Sorting is Powersort.                                *)
(***************************************************************************)
EXTENDS KrkSlices, FiniteSets, SequencesExt

CONSTANTS
  Elements,   \* values that may be in the list
  Threads,
  Nobody,     \* in place of a thread
  MaxLen,     \* bound: longer lists only get sorted
  ToSort,     \* lists to start with
  Indices,    \* what the program uses as an index,
  Slices,     \* as a slice,
  Sequels,    \* as a list or tuple to put in,
  Ranges,     \* as the ends of a search: [low, high]
  Wanted,     \* and as the element to look for
  Simple,     \* the threads that only append, insert, pop and look for things
  Nested,     \* what __eq__ may do: {}, or {"contains"}
  Unsound     \* what the program may also do: "index" (catch an IndexError and
              \* go on), "nest" (use the list in the __eq__ that remove calls),
              \* "self" (l[i:j] = l), "key" (sort in reverse by a key function that raises),
              \* "race" (change the list while another thread's remove is
              \* between finding and popping, or l[i] = x while one searches)

ASSUME ListAssumption == Nobody \notin Threads
ASSUME ElementAssumption ==
  /\ Worth \in [DOMAIN Worth -> Int]
  /\ Elements \subseteq DOMAIN Worth /\ ToSort \cup Sequels \subseteq Seq(DOMAIN Worth)
ASSUME IndexAssumption ==
  /\ Indices \subseteq Int
  /\ \A slice \in Slices : {slice.start, slice.end, slice.step} \subseteq Int \cup {None}
ASSUME NoneAssumption == None \notin [start : Nat, end : Nat]

VARIABLES
  values,     \* the elements
  writer,     \* the rwlock: the thread that has it for writing,
  readers,    \* and how often it is held for reading
  frames      \* calls in progress, innermost last

listVars == <<values, writer, readers, frames>>

-----------------------------------------------------------------------------
(* Frames.                                                                 *)

Top(t) == Last(frames[t])
Push(t, f) == frames' = [frames EXCEPT ![t] = Append(@, f)]
Become(t, f) == frames' = [frames EXCEPT ![t] = Append(Front(@), f)]
Leave(t) == frames' = [frames EXCEPT ![t] = Front(@)]

Scanning == {"contains", "index", "count", "remove"}
In(t, ops) == frames[t] # <<>> /\ Top(t).op \in ops /\ Top(t).reply = <<>>
Idle(t) == frames[t] = <<>>
OthersIn(t, ops) == \E u \in Threads \ {t} : In(u, ops)

Small == Len(values) <= MaxLen
Fits(n) == Len(values) + n <= MaxLen

-----------------------------------------------------------------------------
(* The lock.                                                               *)

MayRead(t) == writer \in {Nobody, t}
MayWrite(t) == writer = t \/ (writer = Nobody /\ readers = 0)

TakeRead(t) == MayRead(t) /\ readers' = (IF writer = t THEN readers ELSE readers + 1) /\ UNCHANGED writer
TakeWrite(t) == MayWrite(t) /\ writer' = t /\ UNCHANGED readers

Release(t) ==
  IF writer = t THEN writer' = Nobody /\ UNCHANGED readers
  ELSE readers' = readers - 1 /\ UNCHANGED writer

\* Both in one action.
Reading(t) == MayRead(t) /\ writer' = (IF writer = t THEN Nobody ELSE writer) /\ UNCHANGED readers
Writing(t) ==
  /\ OthersIn(t, {"found"}) => "race" \in Unsound
  /\ MayWrite(t)
  /\ writer' = Nobody /\ UNCHANGED readers

-----------------------------------------------------------------------------
(* Methods that run no code of the program.                                *)

PopAt(s, i) == RemoveAt(s, i + 1)

ListAppend(t) ==
  /\ Idle(t) /\ Fits(1)
  /\ Writing(t)
  /\ \E x \in Elements : values' = Append(values, x)
  /\ UNCHANGED frames

Insert(t) ==
  /\ Idle(t) /\ Fits(1)
  /\ Writing(t)
  /\ \E i \in Indices, x \in Elements : values' = InsertAt(values, Wrap(Len(values), i) + 1, x)
  /\ UNCHANGED frames

\* A frame has no reply while the call is in progress, and then the answer,
\* until the thread goes on.
Answered(call, answer) == [call EXCEPT !.reply = <<answer>>]
Call(op, i) == [op |-> op, i |-> i, reply |-> <<>>]

\* LIST_WRAP_INDEX returns from the method with the lock in hand.
IndexError == "index" \in Unsound /\ UNCHANGED <<values, frames>>

Pop(t) ==
  /\ Idle(t) /\ Small
  /\ \E i \in Indices :
       IF InBounds(Len(values), i)
       THEN /\ Writing(t)
            /\ values' = PopAt(values, FromEnd(Len(values), i))
            /\ Push(t, Answered(Call("pop", i), At(values, FromEnd(Len(values), i))))
       ELSE TakeWrite(t) /\ IndexError

GetItem(t) ==
  /\ Idle(t) /\ Small
  /\ \E i \in Indices :
       IF InBounds(Len(values), i)
       THEN /\ Reading(t)
            /\ Push(t, Answered(Call("getitem", i), At(values, FromEnd(Len(values), i))))
            /\ UNCHANGED values
       ELSE TakeRead(t) /\ IndexError

\* For reading, although it writes.
SetItem(t) ==
  /\ Idle(t) /\ Small
  /\ OthersIn(t, Scanning \cup {"found"}) => "race" \in Unsound
  /\ Reading(t)
  /\ \E i \in Indices, x \in Elements :
       /\ InBounds(Len(values), i)
       /\ values' = [values EXCEPT ![FromEnd(Len(values), i) + 1] = x]
  /\ UNCHANGED frames

\* values[start:end] = new: what is in both is written over, then what is left
\* of new is inserted, or what is left of the slice is popped from its end,
\* one by one.  If the list itself is new, it is read as it is by then.
Assigned(s, b, new, itself) ==
  LET len == b.end - b.start
      count == Len(new)
      so[k \in 0 .. IF len < count THEN count ELSE len] ==
        IF k = 0 THEN s
        ELSE LET cur == so[k - 1]
                 x == IF itself THEN cur[k] ELSE new[k]
             IN IF k > count THEN PopAt(cur, b.start + len + count - k)
                ELSE IF k > len THEN InsertAt(cur, b.start + k, x)
                ELSE [cur EXCEPT ![b.start + k] = x]
  IN so[IF len < count THEN count ELSE len]

\* Every insert and pop takes and releases the lock, the writing over does
\* not: a thread does this only while it has the list for itself.
Alone(t) == Writing(t) /\ \A u \in Threads : Idle(u)

SetSlice(t) ==
  /\ Small /\ Alone(t)
  /\ \E slice \in Slices :
       LET b == Bounds(Len(values), slice)
       IN /\ ~Rejected(Len(values), slice) /\ b.step = 1
          /\ \/ \E new \in Sequels :
                  /\ Fits(Len(new) - (b.end - b.start))
                  /\ values' = Assigned(values, b, new, FALSE)
             \/ /\ "self" \in Unsound
                /\ Fits(Len(values) - (b.end - b.start))
                /\ values' = Assigned(values, b, values, TRUE)
  /\ UNCHANGED frames

\* The first of the slice is popped as often as the slice is long.
Deleted(s, b) ==
  LET so[k \in 0 .. b.end - b.start] == IF k = 0 THEN s ELSE PopAt(so[k - 1], b.start)
  IN so[b.end - b.start]

DelSlice(t) ==
  /\ Small /\ Alone(t)
  /\ \E slice \in Slices :
       LET b == Bounds(Len(values), slice)
       IN /\ ~Rejected(Len(values), slice) /\ b.step = 1
          /\ values' = Deleted(values, b)
  /\ UNCHANGED frames

\* del l[i] is a pop; an IndexError is one of pop's.
DelItem(t) ==
  /\ Idle(t) /\ Small
  /\ Writing(t)
  /\ \E i \in Indices :
       /\ InBounds(Len(values), i)
       /\ values' = PopAt(values, FromEnd(Len(values), i))
  /\ UNCHANGED frames

\* extend by a list or tuple; by itself is by a copy of itself.
ExtendAtOnce(t) ==
  /\ Idle(t)
  /\ Writing(t)
  /\ \E new \in Sequels \cup {values} : Fits(Len(new)) /\ values' = values \o new
  /\ UNCHANGED frames

Clear(t) == Idle(t) /\ Small /\ Writing(t) /\ values' = <<>> /\ UNCHANGED frames

\* reverse_values on the part from low to high: swapping inwards.
Reversed(s, low, high) ==
  [k \in DOMAIN s |-> IF k \in low .. high THEN s[low + high - k] ELSE s[k]]

ListReverse(t) ==
  Idle(t) /\ Small /\ Writing(t) /\ values' = Reversed(values, 1, Len(values)) /\ UNCHANGED frames

-----------------------------------------------------------------------------
(* Methods that compare elements: one step per element.                    *)

\* index: the ends are taken into bounds (the length that is the default for
\* the upper one is read just before the lock is taken).
Frame(op, x, r) ==
  LET n == Len(values)
  IN [op |-> op, x |-> x, low |-> r.low, high |-> r.high, reply |-> <<>>, n |-> 0,
      i |-> IF op = "index" THEN Wrap(n, Or(r.low, 0)) ELSE 0,
      end |-> IF op = "index" THEN Wrap(n, Or(r.high, n)) ELSE n]
Everywhere == [low |-> None, high |-> None]

ScanStart(t) ==
  /\ Idle(t) /\ Small
  /\ \E op \in Scanning, x \in Wanted, r \in Ranges :
       /\ op # "index" => r = Everywhere
       /\ t \in Simple => op = "index"
       /\ IF op = "remove" THEN TakeWrite(t) ELSE TakeRead(t)
       /\ Push(t, Frame(op, x, r))
  /\ UNCHANGED values

More(f) == f.i < (IF f.op = "index" THEN f.end ELSE Len(values))
Hit(f) == Same(At(values, f.i), f.x)

ScanOn(t) ==
  /\ In(t, Scanning) /\ More(Top(t))
  /\ ~Hit(Top(t)) \/ Top(t).op = "count"
  /\ Become(t, [Top(t) EXCEPT !.i = @ + 1, !.n = IF Hit(Top(t)) THEN @ + 1 ELSE @])
  /\ UNCHANGED <<values, writer, readers>>

ScanHit(t) ==
  /\ In(t, {"contains", "index"}) /\ More(Top(t)) /\ Hit(Top(t))
  /\ Release(t)
  /\ Become(t, Answered(Top(t), IF Top(t).op = "index" THEN Top(t).i ELSE TRUE))
  /\ UNCHANGED values

\* index and remove raise ValueError.
ScanEnd(t) ==
  /\ In(t, Scanning) /\ ~More(Top(t))
  /\ Release(t)
  /\ Become(t, Answered(Top(t), CASE Top(t).op = "contains" -> FALSE
                                  [] Top(t).op = "count" -> Top(t).n
                                  [] OTHER -> None))
  /\ UNCHANGED values

\* remove gives the lock back before it calls pop.
RemoveHit(t) ==
  /\ In(t, {"remove"}) /\ More(Top(t)) /\ Hit(Top(t))
  /\ Release(t)
  /\ Become(t, [Top(t) EXCEPT !.op = "found"])
  /\ UNCHANGED values

RemovePop(t) ==
  /\ In(t, {"found"})
  /\ IF InBounds(Len(values), Top(t).i)
     THEN Writing(t) /\ values' = PopAt(values, Top(t).i)
     ELSE TakeWrite(t) /\ UNCHANGED values
  /\ Leave(t)

\* Mutant: the method forgets to give the lock back.
MutScanRaises(t) ==
  /\ In(t, Scanning) /\ More(Top(t))
  /\ Leave(t)
  /\ UNCHANGED <<values, writer, readers>>

\* __eq__ raises: every method looks at that and gives the lock back.
ScanRaises(t) ==
  /\ In(t, Scanning) /\ More(Top(t))
  /\ Release(t)
  /\ Leave(t)
  /\ UNCHANGED values

\* __eq__ looks for something in the same list.
Nest(t) ==
  /\ In(t, Scanning) /\ More(Top(t)) /\ Len(frames[t]) = 1
  /\ Nested # {} /\ t \notin Simple
  /\ Top(t).op = "remove" => "nest" \in Unsound
  /\ TakeRead(t)
  /\ \E x \in Wanted : Push(t, Frame("contains", x, Everywhere))
  /\ UNCHANGED values

Return(t) ==
  /\ frames[t] # <<>> /\ Top(t).reply # <<>>
  /\ Leave(t)
  /\ UNCHANGED <<values, writer, readers>>

-----------------------------------------------------------------------------
(* extend by an iterator, which is asked for items while the lock is held. *)

ExtendStart(t) ==
  /\ Idle(t) /\ Small
  /\ OthersIn(t, {"found"}) => "race" \in Unsound
  /\ TakeWrite(t)
  /\ Push(t, [op |-> "extend", reply |-> <<>>])
  /\ UNCHANGED values

ExtendItem(t) ==
  /\ In(t, {"extend"}) /\ Fits(1)
  /\ \E x \in Elements : values' = Append(values, x)
  /\ UNCHANGED <<writer, readers, frames>>

\* The iterator is exhausted, or has raised.
ExtendEnd(t) ==
  /\ In(t, {"extend"})
  /\ Release(t)
  /\ Leave(t)
  /\ UNCHANGED values

-----------------------------------------------------------------------------
(* Powersort.  A run is [start, end) with positions from 1; the stack has  *)
(* the starts of the runs to the left, with their powers.                  *)

\* Mutant: equal elements count as out of order.
MutStrictly(a, b) == Worth[a] <= Worth[b]

Strictly(a, b) == Worth[a] < Worth[b]   \* _list_sorter

\* powersort_extend_and_reverse_right: where the run that starts at b ends,
\* and whether it goes down and has to be turned round.
GoesDown(s, b) == b < Len(s) /\ Strictly(s[b + 1], s[b])
RunEnd(s, b) ==
  LET chain[k \in DOMAIN s] ==
        IF k < Len(s) /\ Strictly(s[k + 1], s[k]) = GoesDown(s, b) THEN chain[k + 1] ELSE k + 1
  IN IF b > Len(s) THEN b ELSE chain[b]
Upward(s, b) == IF GoesDown(s, b) THEN Reversed(s, b, RunEnd(s, b) - 1) ELSE s
Run(s, b) == [start |-> b, end |-> RunEnd(s, b)]

\* powersort_power: the first binary digit in which the middles of the two
\* runs, as fractions of n, differ.  The first is the lower one; otherwise the
\* loop would not end.
Middles(n) == {p \in (0 .. 2 * n - 1) \X (0 .. 2 * n - 1) : p[1] < p[2]}
Shifted(n, p) == IF p[1] >= n THEN <<2 * (p[1] - n), 2 * (p[2] - n)>> ELSE <<2 * p[1], 2 * p[2]>>
Digits(n, middles) ==
  LET digits[p \in Middles(n)] ==
        IF (p[1] >= n) # (p[2] >= n) THEN 1 ELSE 1 + digits[Shifted(n, p)]
  IN digits[middles]
Power(n, a, b) == Digits(n, <<(a.start - 1) + (b.start - 1), (b.start - 1) + (b.end - 1)>>)

\* powersort_merge of [l, m) and [m, r): the smaller one is moved out of the
\* way and merged in from that side.  c is where it is in each of them.
Forth(s, l, m, r) ==
  LET merged[c \in (l .. m) \X (m .. r)] ==
        CASE c[1] = m -> SubSeq(s, c[2], r - 1)
          [] c[1] < m /\ c[2] = r -> SubSeq(s, c[1], m - 1)
          [] c[1] < m /\ c[2] < r /\ ~Strictly(s[c[2]], s[c[1]]) -> <<s[c[1]]>> \o merged[<<c[1] + 1, c[2]>>]
          [] OTHER -> <<s[c[2]]>> \o merged[<<c[1], c[2] + 1>>]
  IN merged[<<l, m>>]
Back(s, l, m, r) ==
  LET merged[c \in (l - 1 .. m - 1) \X (m - 1 .. r - 1)] ==
        CASE c[2] = m - 1 -> SubSeq(s, l, c[1])
          [] c[2] >= m /\ c[1] = l - 1 -> SubSeq(s, m, c[2])
          [] c[2] >= m /\ c[1] >= l /\ ~Strictly(s[c[2]], s[c[1]]) -> Append(merged[<<c[1], c[2] - 1>>], s[c[2]])
          [] OTHER -> Append(merged[<<c[1] - 1, c[2]>>], s[c[1]])
  IN merged[<<m - 1, r - 1>>]
Merged(s, l, m, r) ==
  LET merged == IF m - l <= r - m THEN Forth(s, l, m, r) ELSE Back(s, l, m, r)
  IN [k \in DOMAIN s |-> IF k \in l .. r - 1 THEN merged[k - l + 1] ELSE s[k]]

SortStart(t) ==
  /\ Idle(t) /\ t \notin Simple
  /\ Len(values) >= 2
  /\ OthersIn(t, {"found"}) => "race" \in Unsound
  /\ TakeWrite(t)
  /\ \E reverse \in BOOLEAN :
       LET start == IF reverse THEN Reversed(values, 1, Len(values)) ELSE values
       IN /\ values' = Upward(start, 1)
          /\ Push(t, [op |-> "sort", reply |-> <<>>, reverse |-> reverse, was |-> values,
                      a |-> Run(start, 1), b |-> None, power |-> 0, stack |-> <<>>])

\* A key function raises: the end reverses the list, as if it had been
\* reversed at the start.
SortKeyRaises(t) ==
  /\ Idle(t) /\ t \notin Simple
  /\ Len(values) >= 2
  /\ Writing(t)
  /\ \E reverse \in BOOLEAN :
       /\ reverse => "key" \in Unsound
       /\ values' = IF reverse THEN Reversed(values, 1, Len(values)) ELSE values
  /\ Push(t, Answered(Call("sort", 0), None))

SortNextRun(t) ==
  /\ In(t, {"sort"})
  /\ LET f == Top(t)
         b == Run(values, f.a.end)
     IN /\ f.b = None /\ f.a.end <= Len(values)
        /\ values' = Upward(values, f.a.end)
        /\ Become(t, [f EXCEPT !.b = b, !.power = Power(Len(values), f.a, b)])
  /\ UNCHANGED <<writer, readers>>

\* Mutant: equal powers only.
MutHigher(f) == f.stack # <<>> /\ Last(f.stack).power = f.power

Higher(f) == f.stack # <<>> /\ Last(f.stack).power > f.power

\* Into a goes the run on top of the stack.
MergeTop(t, f) ==
  /\ values' = Merged(values, Last(f.stack).begin, f.a.start, f.a.end)
  /\ Become(t, [f EXCEPT !.a.start = Last(f.stack).begin, !.stack = Front(@)])
  /\ UNCHANGED <<writer, readers>>

SortCollapse(t) ==
  In(t, {"sort"}) /\ Top(t).b # None /\ Higher(Top(t)) /\ MergeTop(t, Top(t))

SortPush(t) ==
  /\ In(t, {"sort"})
  /\ LET f == Top(t)
     IN /\ f.b # None /\ ~Higher(f)
        /\ Become(t, [f EXCEPT !.stack = Append(@, [begin |-> f.a.start, power |-> f.power]),
                               !.a = f.b, !.b = None])
  /\ UNCHANGED <<values, writer, readers>>

LastRun(f) == f.b = None /\ f.a.end > Len(values)

SortMergeRest(t) ==
  In(t, {"sort"}) /\ LastRun(Top(t)) /\ Top(t).stack # <<>> /\ MergeTop(t, Top(t))

SortEnd(t) ==
  /\ In(t, {"sort"}) /\ LastRun(Top(t)) /\ Top(t).stack = <<>>
  /\ values' = IF Top(t).reverse THEN Reversed(values, 1, Len(values)) ELSE values
  /\ Release(t)
  /\ Leave(t)

-----------------------------------------------------------------------------
LInit ==
  /\ values \in ToSort \cup {<<>>}
  /\ writer = Nobody /\ readers = 0
  /\ frames = [t \in Threads |-> <<>>]

Step(t) ==
  \/ ListAppend(t) \/ Insert(t) \/ Pop(t)
  \/ ScanStart(t) \/ ScanOn(t) \/ ScanHit(t) \/ ScanEnd(t) \/ RemoveHit(t) \/ RemovePop(t)
  \/ ScanRaises(t) \/ Nest(t) \/ Return(t)
  \/ ExtendItem(t) \/ ExtendEnd(t)
  \/ SortStart(t) \/ SortNextRun(t) \/ SortCollapse(t) \/ SortPush(t) \/ SortMergeRest(t) \/ SortEnd(t)
  \/ SortKeyRaises(t)
  \/ /\ t \notin Simple
     /\ GetItem(t) \/ SetItem(t) \/ SetSlice(t) \/ DelSlice(t) \/ DelItem(t) \/ ExtendAtOnce(t) \/ ExtendStart(t)
        \/ Clear(t) \/ ListReverse(t)

LNext == \E t \in Threads : Step(t)

LSpec == LInit /\ [][LNext]_listVars

-----------------------------------------------------------------------------
\* While sorting: the runs on the stack lie side by side, each is in order,
\* and their powers go up, which bounds the stack by the bits of a length:
\* the code has room for 63 runs on it.
Ascending(low, high) == \A i \in low .. high - 1 : Worth[values[i]] <= Worth[values[i + 1]]
Doubled[k \in Nat] == IF k = 0 THEN 1 ELSE 2 * Doubled[k - 1]
RunsInOrder ==
  \A u \in Threads : In(u, {"sort"}) =>
    LET f == Top(u)
        starts == [k \in 1 .. Len(f.stack) + 1 |->
                     IF k <= Len(f.stack) THEN f.stack[k].begin ELSE f.a.start]
    IN /\ starts[1] = 1
       /\ \A k \in DOMAIN f.stack :
            /\ starts[k] < starts[k + 1] /\ Ascending(starts[k], starts[k + 1] - 1)
            /\ k > 1 => f.stack[k - 1].power < f.stack[k].power
       /\ Ascending(f.a.start, f.a.end - 1)
       /\ f.b # None => Ascending(f.b.start, f.b.end - 1)
       /\ f.stack # <<>> => Doubled[Len(f.stack) - 1] < Len(values)

\* The calls in progress of some methods: whose they are, and how deep.
Callers(ops) ==
  {c \in UNION {{t} \X DOMAIN frames[t] : t \in Threads} :
     frames[c[1]][c[2]].op \in ops /\ frames[c[1]][c[2]].reply = <<>>}

\* The lock is held by those who are inside a method that holds it, and by
\* nobody else: a call that is over, however it ended, has given it back.
LockIsOfCallers ==
  /\ readers = Cardinality(Callers({"contains", "index", "count"}))
  /\ \A t \in Threads : writer = t <=> \E c \in Callers({"remove", "extend", "sort"}) : c[1] = t
==============================================================================
