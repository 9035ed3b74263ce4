------------------------ MODULE NonBlockingListProofs -----------------------
(***************************************************************************)
(* Proofs about NonBlockingList for any number of cells and operations, in *)
(* an environment without failures, until an event that wrote nothing is   *)
(* collected (silenced).  If there are no such events that is for ever.    *)
(*                                                                         *)
(* The argument is about the order of the live cells.  pos numbers the     *)
(* cells along the one line they form: the shared list from old over head  *)
(* to tail, then the event's window from src.old to src.tail.  Every cell  *)
(* points to the next one in that order, except the two tails.             *)
(***************************************************************************)
EXTENDS NonBlockingList, TLAPS

\* Memory suffices, and the workers have stopped when the list is destroyed.
NoFailure == Hazards \subseteq {"silent"}

\* And every collected event wrote something.
NoHazards == Hazards = {}

\* m comes right after n among the live cells.
Succ(n, m) ==
  /\ m \in Used /\ pos[n] < pos[m]
  /\ \A x \in Used : pos[x] <= pos[n] \/ pos[m] <= pos[x]

\* The list has not been destroyed.
Open == mpc \notin {"destroy", "done"}

\* No two live cells share a place, and operation k is at place 2k.
Places ==
  /\ \A m, n \in Used : pos[m] = pos[n] => m = n
  /\ \A n \in Used : content[n] > 0 => pos[n] = 2 * content[n]

\* Every live cell but the two tails points to the next one.
Links ==
  \A n \in Used :
    IF n = tail THEN next[n] = (IF cpc = "linked" THEN src.head ELSE NULL)
    ELSE IF n = src.tail THEN next[n] = NULL
    ELSE Succ(n, next[n])

\* The shared list ends in the last operation handed over.
ListShape ==
  /\ head \in Used /\ tail \in Used /\ old \in Used
  /\ pos[old] <= pos[head] /\ pos[head] <= pos[tail]
  /\ \A n \in Used : pos[old] <= pos[n]
  /\ content[tail] = handed /\ pos[tail] = 2 * handed

\* Every live cell belongs to the shared list.
NothingBeyond == \A n \in Used : pos[n] <= pos[tail]

\* What is live once the main process frees the list.
ClosedShape ==
  /\ cpc = "stopped"
  /\ mpc = "done" => old = NULL /\ head = NULL /\ tail = NULL
  /\ old = NULL => tail \notin Used
  /\ old # NULL => /\ old \in Used /\ tail \in Used /\ pos[old] <= pos[tail]
                   /\ \A n \in Used : pos[old] <= pos[n]
  /\ src = NoWindow => IF old = NULL THEN Used = {} ELSE NothingBeyond

\* first is the first live cell beyond the shared list, src.tail the last.
Beyond(first) ==
  /\ first \in Used /\ src.tail \in Used
  /\ pos[tail] < pos[first]
  /\ \A n \in Used : /\ pos[n] <= pos[tail] \/ pos[first] <= pos[n]
                     /\ pos[n] <= pos[src.tail]

\* The window holds what has been written since the last merge.
WindowKept ==
  /\ content[src.tail] > handed
  /\ \A k \in (handed + 1) .. content[src.tail] : \E n \in Used : content[n] = k

WindowShape ==
  /\ cpc = "fill" => /\ src.head = src.old /\ src.head = src.tail
                     /\ Beyond(src.old)
                     /\ content[src.tail] = 0 /\ pos[src.tail] = 2 * handed + 1
  /\ cpc \in {"run", "stopped"} =>
       \/ src = NoWindow
       \/ src.head # NULL /\ src.head = src.old /\ (Open => Beyond(src.old) /\ WindowKept)
  /\ cpc \in {"merge", "linked"} => src.head = src.old /\ Beyond(src.old) /\ WindowKept
  /\ cpc = "reset" => src.tail = tail
  /\ cpc = "destroy" /\ src.old # NULL => Beyond(src.old)
  /\ cpc = "reset" \/ (cpc = "destroy" /\ src.old = NULL)
       \/ (cpc \in {"run", "stopped"} /\ Open /\ src = NoWindow) => NothingBeyond
  /\ cpc # "reset" /\ src.tail \in Used /\ mpc # "done" => pos[tail] < pos[src.tail]

\* The operations popped and those still to be popped.
PopState ==
  /\ popped = 0 \/ popped < handed
  /\ \A k \in (popped + 1) .. handed : \E n \in Used : content[n] = k
  /\ pos[head] <= 2 * popped + 2
  /\ 2 * popped < pos[head] \/ popped = 0
  /\ mpc = "test" => popped < handed
  /\ mpc = "take" => head # tail
  /\ mpc = "peek" => /\ popped < handed /\ popped > 0
                     /\ elem \in Used /\ pos[head] <= pos[elem]
                     /\ pos[elem] <= 2 * popped + 2
  /\ mpc # "peek" /\ popped > 0 => key = popped + 1

IInv ==
  /\ TypeOK
  /\ Places
  /\ Links
  /\ Open => ListShape /\ PopState
  /\ ~Open => ClosedShape
  /\ WindowShape
-----------------------------------------------------------------------------
USE NodeAssumption, MaxOpsAssumption

\* The initial state has one live cell, the dummy that nblist_init allocates.
LEMMA InitIInv == Init => IInv
<1> SUFFICES ASSUME Init PROVE IInv
  OBVIOUS
<1> PICK d \in Node : Init!(d)
  BY DEF Init
<1>1. Used = {d}
  BY DEF Used
<1>2. TypeOK
  BY <1>1 DEF TypeOK, OrNull, NoWindow
<1>3. Places /\ Links
  BY <1>1 DEF Places, Links, NoWindow
<1>4. Open /\ ListShape /\ PopState
  BY <1>1 DEF Open, ListShape, PopState
<1>5. WindowShape
  BY <1>1 DEF WindowShape, NothingBeyond, NoWindow
<1> QED
  BY <1>2, <1>3, <1>4, <1>5 DEF IInv

\* Every step of the code stores values of the right types.
LEMMA TypeStep == ASSUME TypeOK, NoFailure, [Next]_vars PROVE TypeOK'
<1> USE DEF TypeOK, OrNull, Used, cells, list, NoFailure, Alloc
<1>1. CASE InitWindow
  BY <1>1 DEF InitWindow, FreshCell
<1>2. CASE AddOp
  BY <1>2 DEF AddOp, NextOp
<1>3. CASE Discard \/ Stop
  BY <1>3 DEF Discard, Stop
<1>4. CASE MergeStart
  <2>1. silenced' = (silenced \/ src.head = NULL)
    BY <1>4 DEF MergeStart
  <2>2. silenced' \in BOOLEAN
    BY <2>1, Zenon
  <2> QED
    BY <1>4, <2>2 DEF MergeStart
<1>11. CASE MergeLink
  BY <1>11 DEF MergeLink, HandedAfter
<1>5. CASE MergeTail
  BY <1>5 DEF MergeTail, HandedAfter
<1>6. CASE MergeReset
  BY <1>6 DEF MergeReset, FreshCell
<1>7. CASE DestroySource
  BY <1>7 DEF DestroySource, NoWindow
<1>8. CASE PollStart \/ PopTest \/ PopTake \/ PeekStep
  BY <1>8 DEF PollStart, PopTest, PopTake, PeekStep
<1>9. CASE CleanStart \/ CleanStep \/ Shutdown \/ DestroyList
  BY <1>9 DEF CleanStart, CleanStep, Shutdown, DestroyList
<1>10. CASE UNCHANGED vars
  BY <1>10 DEF vars
<1> QED
  BY <1>1, <1>2, <1>3, <1>4, <1>5, <1>6, <1>7, <1>8, <1>9, <1>10, <1>11
  DEF Next, Collector, Main, Ended

\* Steps of the main process that move neither a pointer nor a cell.
LEMMA QuietMain ==
  ASSUME IInv, NoFailure, PollStart \/ PopTest \/ CleanStart PROVE IInv'
<1> USE DEF IInv, list, cells
<1>1. TypeOK'
  BY TypeStep DEF Next, Main
<1>2. mpc \in {"idle", "test"} /\ mpc' \in {"test", "take", "idle", "clean"} /\ Open /\ Open'
  BY DEF PollStart, PopTest, CleanStart, Open
<1>3. Places' /\ Links' /\ ListShape' /\ WindowShape'
  BY <1>2 DEF PollStart, PopTest, CleanStart, Places, Links, Succ, Used, ListShape,
     WindowShape, Beyond, NothingBeyond, WindowKept, Open
<1>4. PopState'
  BY <1>2 DEF PollStart, PopTest, CleanStart, PopState, ListShape, Places, Used, TypeOK, OrNull
<1> QED
  BY <1>1, <1>2, <1>3, <1>4

\* The places of the unpopped operations order them after the head.
LEMMA Unpopped ==
  ASSUME IInv, Open, NEW k \in (popped + 1) .. handed
  PROVE  \E n \in Used : content[n] = k /\ pos[n] = 2 * k
  BY DEF IInv, Open, PopState, Places, Used, TypeOK

\* A live cell before the tail of the list points to its successor.
LEMMA NextInList ==
  ASSUME IInv, NEW n \in Used, tail \in Used, mpc # "done", pos[n] < pos[tail]
  PROVE  Succ(n, next[n]) /\ pos[next[n]] <= pos[tail]
<1>1. n # tail /\ n # src.tail
  BY DEF IInv, WindowShape, TypeOK, Used
<1>2. Succ(n, next[n])
  BY <1>1 DEF IInv, Links
<1> QED
  BY <1>2 DEF Succ, IInv, TypeOK, Used

LEMMA PopTakeInv == ASSUME IInv, NoFailure, PopTake PROVE IInv'
<1> USE DEF PopTake, list, cells
<1>1. TypeOK /\ TypeOK'
  BY TypeStep DEF IInv, Next, Main
<1>2. Open /\ Open' /\ ListShape /\ PopState /\ Places /\ WindowShape
  BY DEF IInv, Open
<1> head \in Node /\ pos[head] \in Nat /\ pos[tail] \in Nat /\ content[head] \in Nat
      /\ popped \in Nat /\ handed \in Nat
  BY <1>1, <1>2 DEF TypeOK, ListShape, Used
<1>3. pos[head] < pos[tail] /\ popped + 1 <= handed
  <2>1. pos[head] # pos[tail]
    BY <1>2 DEF PopState, ListShape, Places
  <2> QED
    BY <1>2, <2>1 DEF PopState, ListShape
<1>4. Succ(head, next[head]) /\ pos[next[head]] <= pos[tail]
  BY <1>1, <1>2, <1>3, NextInList DEF ListShape, Open
<1>5. Places' /\ Links' /\ WindowShape'
  BY <1>2 DEF IInv, Places, Links, Succ, Used, WindowShape, Beyond, NothingBeyond,
     WindowKept, Open
<1>6. ListShape'
  BY <1>1, <1>2, <1>4 DEF ListShape, Succ, Used, TypeOK
<1>7. PopState'
  <2>1. CASE content[head] = 0
    <3>1. PICK n \in Used : content[n] = popped + 1 /\ pos[n] = 2 * (popped + 1)
      BY <1>1, <1>2, <1>3, Unpopped DEF TypeOK
    <3>2. pos[head] < pos[n]
      BY <1>1, <1>2, <2>1, <3>1 DEF PopState, Places, ListShape, TypeOK, Used
    <3>3. pos[next[head]] <= 2 * popped + 2
      BY <1>1, <1>4, <3>1, <3>2 DEF Succ, TypeOK, Used
    <3> QED
      BY <1>1, <1>2, <1>3, <1>4, <2>1, <3>3 DEF PopState, Succ, TypeOK, Used
  <2>2. CASE content[head] # 0
    <3>1. content[head] = popped + 1 /\ pos[head] = 2 * popped + 2
      BY <1>1, <1>2, <2>2 DEF PopState, Places, ListShape, TypeOK, Used
    <3>2. popped + 2 <= handed
      BY <1>1, <1>2, <1>3, <3>1 DEF ListShape, TypeOK, Used
    <3>3. PICK n \in Used : content[n] = popped + 2 /\ pos[n] = 2 * (popped + 2)
      BY <1>1, <1>2, <3>2, Unpopped DEF TypeOK
    <3>4. pos[next[head]] <= 2 * popped + 4
      BY <1>1, <1>4, <3>1, <3>3 DEF Succ, TypeOK, Used
    <3> QED
      BY <1>1, <1>2, <1>4, <2>2, <3>1, <3>2, <3>4 DEF PopState, Succ, TypeOK, Used
  <2> QED
    BY <2>1, <2>2
<1> QED
  BY <1>1, <1>2, <1>5, <1>6, <1>7 DEF IInv

LEMMA PeekStepInv == ASSUME IInv, NoFailure, PeekStep PROVE IInv'
<1> USE DEF PeekStep, list, cells
<1>1. TypeOK /\ TypeOK'
  BY TypeStep DEF IInv, Next, Main
<1>2. Open /\ Open' /\ ListShape /\ PopState /\ Places
  BY DEF IInv, Open
<1> elem \in Used /\ pos[elem] \in Nat /\ pos[tail] \in Nat /\ pos[head] \in Nat
      /\ content[elem] \in Nat /\ popped \in Nat /\ handed \in Nat /\ elem \in Node
  BY <1>1, <1>2 DEF TypeOK, ListShape, PopState, Used
<1>3. popped < handed /\ popped > 0 /\ pos[head] <= pos[elem] /\ pos[elem] <= 2 * popped + 2
  BY <1>2 DEF PopState
<1>4. Places' /\ Links' /\ ListShape' /\ WindowShape'
  BY <1>2 DEF IInv, Places, Links, Succ, Used, ListShape, WindowShape, Beyond,
     NothingBeyond, WindowKept, Open
<1>5. PopState'
  <2>1. CASE content[elem] = 0
    <3>1. PICK n \in Used : content[n] = popped + 1 /\ pos[n] = 2 * (popped + 1)
      BY <1>2, <1>3, Unpopped
    <3>2. pos[elem] < pos[n] /\ pos[n] \in Nat
      BY <1>2, <1>3, <2>1, <3>1 DEF Places
    <3>3. pos[elem] < pos[tail]
      BY <1>2, <1>3, <3>1, <3>2 DEF ListShape
    <3>4. Succ(elem, next[elem])
      BY <1>2, <3>3, NextInList DEF ListShape, Open
    <3>5. next[elem] \in Used /\ pos[next[elem]] \in Nat
      BY <1>1, <3>4 DEF Succ, TypeOK, Used
    <3>6. pos[head] <= pos[next[elem]] /\ pos[next[elem]] <= 2 * popped + 2
      BY <1>3, <3>1, <3>2, <3>4, <3>5 DEF Succ
    <3> QED
      BY <1>2, <1>3, <2>1, <3>5, <3>6 DEF PopState, Used
  <2>2. CASE content[elem] # 0
    <3>1. content[elem] = popped + 1
      BY <1>2, <1>3, <2>2 DEF PopState, Places
    <3> QED
      BY <1>2, <1>3, <2>2, <3>1 DEF PopState, Used
  <2> QED
    BY <2>1, <2>2
<1> QED
  BY <1>1, <1>2, <1>4, <1>5 DEF IInv

\* Freeing the first cell of the line leaves every other link in place.
LEMMA FreeFirst ==
  ASSUME TypeOK, TypeOK', Places, Links, NEW o \in Used,
         \A n \in Used : pos[o] <= pos[n],
         UNCHANGED <<cells, tail, cpc, src>>, free' = free \cup {o}
  PROVE  Places' /\ Links' /\ Used' = Used \ {o}
<1> USE DEF cells
<1>1. Used' = Used \ {o}
  BY DEF Used
<1>2. Places'
  BY <1>1 DEF Places
<1>3. ASSUME NEW n \in Used', n # tail, n # src.tail PROVE Succ(n, next[n])'
  <2>1. Succ(n, next[n])
    BY <1>1, <1>3 DEF Links
  <2>2. next[n] # o
    <3>1. n \in Node /\ o \in Node /\ pos[n] \in Nat /\ pos[o] \in Nat
      BY <1>1 DEF TypeOK, Used
    <3> QED
      BY <1>1, <2>1, <3>1 DEF Succ
  <2> QED
    BY <1>1, <2>1, <2>2 DEF Succ
<1>4. Links'
  BY <1>1, <1>3 DEF Links
<1> QED
  BY <1>1, <1>2, <1>4

LEMMA CleanStepInv == ASSUME IInv, NoFailure, CleanStep PROVE IInv'
<1> USE DEF CleanStep, list, cells
<1>1. TypeOK /\ TypeOK'
  BY TypeStep DEF IInv, Next, Main
<1>2. Open /\ Open' /\ ListShape /\ PopState /\ Places /\ Links /\ WindowShape
  BY DEF IInv, Open
<1>3. CASE old = head
  <2>1. Places' /\ Links' /\ ListShape' /\ WindowShape' /\ PopState'
    BY <1>2, <1>3 DEF Places, Links, Succ, Used, ListShape, WindowShape, Beyond,
       NothingBeyond, WindowKept, Open, PopState
  <2> QED
    BY <1>1, <1>2, <2>1 DEF IInv
<1>4. CASE old # head
  <2> old \in Used /\ head \in Used /\ tail \in Used
        /\ pos[old] \in Nat /\ pos[head] \in Nat /\ pos[tail] \in Nat
        /\ popped \in Nat /\ handed \in Nat
    BY <1>1, <1>2 DEF ListShape, TypeOK, Used
  <2>1. pos[old] < pos[head] /\ pos[old] < pos[tail]
    BY <1>2, <1>4 DEF ListShape, Places
  <2>2. Succ(old, next[old])
    BY <1>2, <2>1, NextInList DEF Open
  <2>3. Places' /\ Links' /\ Used' = Used \ {old}
    BY <1>1, <1>2, <1>4, FreeFirst DEF ListShape
  <2>4. ASSUME NEW n \in Used, pos[head] <= pos[n] PROVE n \in Used'
    BY <2>1, <2>3, <2>4
  <2>5. ListShape'
    <3>1. next[old] \in Used /\ next[old] # old /\ pos[next[old]] <= pos[head]
      BY <2>1, <2>2 DEF Succ
    <3>2. \A n \in Used' : pos[next[old]] <= pos[n]
      BY <1>1, <1>2, <1>4, <2>2, <2>3 DEF Succ, ListShape, Places, TypeOK, Used
    <3>3. head \in Used' /\ tail \in Used'
      BY <1>2, <2>4 DEF ListShape
    <3> QED
      BY <1>2, <1>4, <2>3, <3>1, <3>2, <3>3 DEF ListShape
  <2>6. ASSUME NEW k \in Nat, k > popped, NEW n \in Used, content[n] = k PROVE n \in Used'
    <3>1. pos[n] = 2 * k
      BY <1>2, <2>6 DEF Places
    <3>2. pos[head] <= pos[n]
      BY <1>2, <2>6, <3>1 DEF PopState
    <3> QED
      BY <3>2, <2>4
  <2>7. PopState'
    BY <1>2, <1>4, <2>6 DEF PopState
  <2>8. ASSUME NEW n \in Used, pos[tail] < pos[n] PROVE n \in Used'
    <3>1. pos[n] \in Nat
      BY <1>1 DEF TypeOK, Used
    <3> QED
      BY <2>1, <2>3, <2>8, <3>1
  <2>9. ASSUME WindowKept PROVE WindowKept'
    <3>1. popped <= handed
      BY <1>2 DEF PopState
    <3> QED
      BY <1>4, <2>6, <2>9, <3>1 DEF WindowKept
  <2>10. ASSUME NEW f, Beyond(f) PROVE Beyond(f)'
    <3>1. f \in Used /\ src.tail \in Used /\ pos[tail] < pos[f] /\ pos[f] <= pos[src.tail]
      BY <2>10 DEF Beyond
    <3>2. pos[f] \in Nat /\ pos[src.tail] \in Nat
      BY <1>1, <3>1 DEF TypeOK, Used
    <3>3. f \in Used' /\ src.tail \in Used'
      BY <2>8, <3>1, <3>2
    <3> QED
      BY <1>4, <2>3, <2>10, <3>1, <3>3 DEF Beyond
  <2>11. WindowShape'
    BY <1>2, <1>4, <2>3, <2>9, <2>10 DEF WindowShape, Open, NothingBeyond
  <2> QED
    BY <1>1, <1>2, <2>3, <2>5, <2>7, <2>11 DEF IInv
<1> QED
  BY <1>3, <1>4

LEMMA ShutdownInv == ASSUME IInv, NoFailure, Shutdown PROVE IInv'
<1> USE DEF Shutdown, list, cells
<1>1. TypeOK /\ TypeOK'
  BY TypeStep DEF IInv, Next, Main
<1>2. Open /\ ~Open' /\ ListShape /\ Places /\ Links /\ WindowShape /\ cpc = "stopped"
  BY DEF IInv, Open, NoFailure
<1>3. Places' /\ Links' /\ WindowShape'
  BY <1>2 DEF Places, Links, Succ, Used, WindowShape, Beyond, NothingBeyond, WindowKept, Open
<1>4. ClosedShape'
  BY <1>1, <1>2 DEF ListShape, ClosedShape, Used, TypeOK, WindowShape, NothingBeyond, Open
<1> QED
  BY <1>1, <1>2, <1>3, <1>4 DEF IInv

LEMMA DestroyListInv == ASSUME IInv, NoFailure, DestroyList PROVE IInv'
<1> USE DEF DestroyList, list, cells
<1>1. TypeOK /\ TypeOK'
  BY TypeStep DEF IInv, Next, Main
<1>2. ~Open /\ ~Open' /\ ClosedShape /\ Places /\ Links /\ WindowShape
  BY DEF IInv, Open
<1>3. CASE old = NULL
  <2>1. NULL \notin Used /\ NULL \notin Used'
    BY <1>1 DEF Used
  <2>2. tail' = NULL /\ cpc' = cpc /\ cpc = "stopped" /\ Used' = Used
    BY <1>2, <1>3 DEF ClosedShape, Used
  <2>3. ASSUME NEW n \in Used', n # src.tail PROVE Succ(n, next[n])'
    BY <1>2, <1>3, <2>2, <2>3 DEF Links, Succ, ClosedShape
  <2>4. Places' /\ ClosedShape' /\ WindowShape'
    BY <1>2, <1>3, <2>1, <2>2 DEF Places, ClosedShape, WindowShape, Open
  <2>5. Links'
    <3>1. ASSUME NEW n \in Used', n = src.tail PROVE next[n] = NULL
      BY <1>2, <1>3, <2>2, <3>1 DEF Links, ClosedShape
    <3> QED
      BY <1>3, <2>1, <2>2, <2>3, <3>1 DEF Links
  <2> QED
    BY <1>1, <1>2, <2>4, <2>5 DEF IInv
<1>4. CASE old # NULL
  <2> old \in Used /\ tail \in Used /\ pos[old] \in Nat /\ pos[tail] \in Nat
        /\ pos[old] <= pos[tail]
    BY <1>1, <1>2, <1>4 DEF ClosedShape, TypeOK, Used
  <2>1. Places' /\ Links' /\ Used' = Used \ {old}
    BY <1>1, <1>2, <1>4, FreeFirst DEF ClosedShape
  <2>2. CASE old = tail
    <3>1. next[old] = NULL
      BY <1>2, <2>2 DEF Links, ClosedShape
    <3>2. ASSUME src = NoWindow PROVE Used' = {}
      BY <1>1, <1>2, <1>4, <2>1, <2>2, <3>2
      DEF ClosedShape, NothingBeyond, Places, TypeOK, Used
    <3>3. ClosedShape'
      BY <1>2, <1>4, <2>1, <2>2, <3>1, <3>2 DEF ClosedShape
    <3>4. WindowShape'
      BY <1>2, <1>4, <2>1 DEF WindowShape, ClosedShape, Open
    <3> QED
      BY <1>1, <1>2, <2>1, <3>3, <3>4 DEF IInv
  <2>3. CASE old # tail
    <3>1. pos[old] < pos[tail]
      BY <1>2, <2>3 DEF Places
    <3>2. Succ(old, next[old]) /\ pos[next[old]] <= pos[tail]
      BY <1>4, <3>1, NextInList
    <3>3. next[old] \in Used' /\ tail \in Used'
      BY <2>1, <2>3, <3>2 DEF Succ
    <3>4. \A n \in Used' : pos[next[old]] <= pos[n]
      BY <1>1, <1>2, <1>4, <2>1, <3>2 DEF Succ, ClosedShape, Places, TypeOK, Used
    <3>5. ClosedShape'
      <4> next[old] # NULL
        BY <1>1, <3>3 DEF Used
      <4> QED
        BY <1>2, <1>4, <2>1, <3>2, <3>3, <3>4 DEF ClosedShape, NothingBeyond
    <3>6. WindowShape'
      BY <1>2, <1>4, <2>1 DEF WindowShape, ClosedShape, Open
    <3> QED
      BY <1>1, <1>2, <2>1, <3>5, <3>6 DEF IInv
  <2> QED
    BY <2>2, <2>3
<1> QED
  BY <1>3, <1>4

\* The list is open as long as the collector runs.
LEMMA Running ==
  ASSUME IInv, cpc # "stopped"
  PROVE  /\ Open /\ ListShape /\ PopState
         /\ head \in Used /\ tail \in Used /\ old \in Used
         /\ pos[tail] = 2 * handed /\ handed \in Nat /\ popped \in Nat
  BY DEF IInv, Open, ClosedShape, ListShape, TypeOK

LEMMA QuietCollector ==
  ASSUME IInv, NoFailure, ~silenced', Discard \/ Stop \/ MergeStart \/ MergeLink PROVE IInv'
<1> USE DEF list, cells, NoFailure
<1>1. TypeOK /\ TypeOK'
  BY TypeStep DEF IInv, Next, Collector
<1>2. Open /\ Open' /\ ListShape /\ PopState /\ Places /\ Links /\ WindowShape
  BY Running DEF IInv, Open, Discard, Stop, MergeStart, MergeLink
<1>3. /\ cpc \in {"run", "merge"} /\ tail \in Used /\ tail # NULL
      /\ UNCHANGED <<content, pos, free, list, src, mpc, elem, key, handed, popped>>
  BY <1>1, <1>2 DEF ListShape, Discard, Stop, MergeStart, MergeLink, Used
<1>4. Places' /\ ListShape' /\ PopState'
  BY <1>2, <1>3 DEF Places, ListShape, PopState, Used
<1>5. Links'
  <2>1. CASE Discard \/ Stop \/ MergeStart
    BY <1>2, <1>3, <2>1 DEF Links, Succ, Used, Discard, Stop, MergeStart
  <2>2. CASE MergeLink
    BY <1>1, <1>2, <1>3, <2>2 DEF Links, Succ, Used, MergeLink, TypeOK
  <2> QED
    BY <2>1, <2>2
<1>6. WindowShape'
  <2>1. CASE Stop
    BY <1>2, <1>3, <2>1 DEF WindowShape, Beyond, NothingBeyond, WindowKept, Used, Stop, Open
  <2>2. CASE Discard \/ MergeStart \/ MergeLink
    <3>1. Beyond(src.old) /\ WindowKept /\ src.head = src.old
      <4>1. MergeStart => src.head # NULL
        BY DEF MergeStart
      <4> QED
        BY <1>2, <1>3, <2>2, <4>1 DEF WindowShape, Discard, MergeStart, MergeLink, NoWindow
    <3>2. cpc' \in {"destroy", "merge", "linked"} /\ Beyond(src.old)' /\ WindowKept'
            /\ src.old # NULL
      BY <1>1, <1>3, <2>2, <3>1
      DEF Beyond, WindowKept, Used, Discard, MergeStart, MergeLink
    <3>3. pos[tail]' < pos'[src'.tail]
      BY <1>1, <1>3, <3>2 DEF Beyond, TypeOK, Used
    <3> QED
      BY <1>3, <3>1, <3>2, <3>3 DEF WindowShape
  <2> QED
    BY <2>1, <2>2
<1> QED
  BY <1>1, <1>2, <1>4, <1>5, <1>6 DEF IInv

LEMMA MergeTailInv == ASSUME IInv, NoFailure, MergeTail PROVE IInv'
<1> USE DEF MergeTail, list, cells
<1>1. TypeOK /\ TypeOK'
  BY TypeStep DEF IInv, Next, Collector
<1>2. Open /\ Open' /\ ListShape /\ PopState /\ Places /\ Links /\ WindowShape
  BY Running DEF IInv, Open
<1>3. src.head = src.old /\ Beyond(src.old) /\ WindowKept
  BY <1>2 DEF WindowShape
<1> src.old \in Used /\ src.tail \in Used /\ src.tail \in Node /\ tail \in Used /\ head \in Used
      /\ pos[src.old] \in Nat /\ pos[src.tail] \in Nat /\ pos[tail] \in Nat /\ pos[head] \in Nat
      /\ content[src.tail] \in Nat /\ handed \in Nat /\ popped \in Nat
  BY <1>1, <1>2, <1>3 DEF Beyond, ListShape, TypeOK, Used
<1>4. handed' = content[src.tail] /\ tail' = src.tail /\ handed < handed'
  BY <1>1, <1>3 DEF HandedAfter, WindowKept, Used
<1>5. Places' /\ pos[tail] < pos[src.old] /\ pos[src.old] <= pos[src.tail]
  BY <1>2, <1>3 DEF Places, Used, Beyond
<1>6. ListShape'
  BY <1>2, <1>3, <1>4, <1>5 DEF ListShape, Beyond, Places, Used
<1>7. PopState'
  <2>1. ASSUME NEW k \in (popped + 1) .. handed' PROVE \E n \in Used' : content'[n] = k
    <3>1. CASE k <= handed
      BY <1>2, <3>1 DEF PopState, Used
    <3>2. CASE k > handed
      BY <1>3, <1>4, <3>2 DEF WindowKept, Used
    <3> QED
      BY <1>4, <3>1, <3>2
  <2>2. head # tail'
    BY <1>2, <1>4, <1>5 DEF ListShape
  <2>3. popped < handed => popped < handed'
    BY <1>4
  <2>4. popped = 0 \/ popped < handed'
    BY <1>2, <2>3 DEF PopState
  <2> QED
    BY <1>2, <2>1, <2>2, <2>3, <2>4 DEF PopState, Used
<1>8. Links'
  <2>1. Succ(tail, src.old)
    BY <1>3, <1>5 DEF Succ, Beyond
  <2>2. ASSUME NEW n \in Used, n # src.tail PROVE Succ(n, next[n])
    BY <1>2, <1>3, <2>1, <2>2 DEF Links
  <2>3. next[src.tail] = NULL
    BY <1>2, <1>5 DEF Links
  <2> QED
    BY <1>4, <2>2, <2>3 DEF Links, Succ, Used
<1>9. NothingBeyond'
  BY <1>3, <1>4 DEF NothingBeyond, Beyond, Used
<1>10. WindowShape'
  BY <1>4, <1>9 DEF WindowShape
<1> QED
  BY <1>1, <1>2, <1>5, <1>6, <1>7, <1>8, <1>10 DEF IInv

\* nblist_init gives the event a window of one cell, beyond all the others.
LEMMA FreshWindow ==
  ASSUME IInv, TypeOK', cpc # "stopped", cpc # "linked", cpc' \in {"fill", "destroy"},
         NothingBeyond, src.tail = tail \/ src.tail \notin Used,
         NEW n \in free, FreshCell(n, 0, 2 * handed + 1),
         src' = [head |-> n, tail |-> n, old |-> n],
         UNCHANGED <<list, mpc, elem, key, handed, popped>>
  PROVE  IInv'
<1> USE DEF list, FreshCell
<1>1. TypeOK /\ Open /\ Open' /\ ListShape /\ PopState /\ Places /\ Links
  BY Running DEF IInv, Open
<1> tail \in Used /\ head \in Used /\ old \in Used /\ n \in Node /\ n \notin Used
      /\ handed \in Nat /\ pos[tail] = 2 * handed /\ Used \subseteq Node
  BY <1>1, Running DEF TypeOK, Used
<1>2. Used' = Used \cup {n}
  BY <1>1 DEF Used, TypeOK
<1>3. /\ \A m \in Used : /\ pos'[m] = pos[m] /\ next'[m] = next[m] /\ content'[m] = content[m]
                         /\ pos[m] <= 2 * handed /\ pos[m] \in Nat
      /\ pos'[n] = 2 * handed + 1 /\ content'[n] = 0 /\ next'[n] = NULL
  BY <1>1 DEF TypeOK, NothingBeyond
<1>4. Places'
  BY <1>1, <1>2, <1>3 DEF Places
<1>5. ASSUME NEW m \in Used, m # tail PROVE Succ(m, next[m])'
  <2>1. Succ(m, next[m])
    BY <1>1, <1>5 DEF Links
  <2> QED
    BY <1>2, <1>3, <2>1 DEF Succ
<1>6. Links'
  <2>1. next[tail] = NULL
    BY <1>1 DEF Links
  <2> QED
    BY <1>2, <1>3, <1>5, <2>1 DEF Links
<1>7. ListShape'
  BY <1>1, <1>2, <1>3 DEF ListShape
<1>8. PopState'
  <2>1. ASSUME NEW k \in (popped + 1) .. handed PROVE \E m \in Used' : content'[m] = k
    BY <1>1, <1>2, <1>3 DEF PopState
  <2> QED
    BY <1>1, <1>2, <1>3, <2>1 DEF PopState
<1>9. Beyond(n)'
  BY <1>2, <1>3 DEF Beyond
<1>10. WindowShape'
  BY <1>1, <1>3, <1>9 DEF WindowShape
<1> QED
  BY <1>1, <1>4, <1>6, <1>7, <1>8, <1>10 DEF IInv

LEMMA InitWindowInv == ASSUME IInv, NoFailure, InitWindow PROVE IInv'
<1>1. TypeOK'
  BY TypeStep DEF IInv, Next, Collector
<1>2. src = NoWindow /\ NothingBeyond
  BY Running DEF IInv, WindowShape, InitWindow
<1>3. src.tail \notin Used
  BY <1>2 DEF NoWindow, Used
<1>4. PICK n \in free : FreshCell(n, 0, 2 * handed + 1)
                        /\ src' = [head |-> n, tail |-> n, old |-> n]
  BY DEF InitWindow, NoFailure, Alloc, IInv, TypeOK
<1> QED
  BY <1>1, <1>2, <1>3, <1>4, FreshWindow DEF InitWindow

LEMMA MergeResetInv == ASSUME IInv, NoFailure, MergeReset PROVE IInv'
<1>1. TypeOK'
  BY TypeStep DEF IInv, Next, Collector
<1>2. src.tail = tail /\ NothingBeyond
  BY DEF IInv, WindowShape, MergeReset
<1>3. PICK n \in free : FreshCell(n, 0, 2 * handed + 1)
                        /\ src' = [head |-> n, tail |-> n, old |-> n]
  BY DEF MergeReset, NoFailure, Alloc, IInv, TypeOK
<1> QED
  BY <1>1, <1>2, <1>3, FreshWindow DEF MergeReset

LEMMA AddOpInv == ASSUME IInv, NoFailure, AddOp PROVE IInv'
<1> USE DEF list
<1>1. TypeOK /\ TypeOK' /\ Places /\ Links /\ WindowShape
  BY TypeStep DEF IInv, Next, Collector
<1>2. Open /\ Open' /\ ListShape /\ PopState
  BY Running DEF AddOp, Open
<1>3. Beyond(src.old) /\ src.head = src.old
  BY <1>1, <1>2 DEF WindowShape, AddOp, NoWindow
<1>4. \/ /\ content[src.tail] = 0 /\ pos[src.tail] = 2 * handed + 1 /\ NextOp = handed + 1
      \/ /\ WindowKept /\ NextOp = content[src.tail] + 1 /\ content[src.tail] > 0
         /\ pos[src.tail] = 2 * content[src.tail]
  <2>1. src.tail \in Used /\ content[src.tail] \in Nat /\ handed \in Nat
    BY <1>1, <1>3 DEF Beyond, TypeOK, Used
  <2>2. CASE cpc = "fill"
    BY <1>1, <2>2 DEF WindowShape, NextOp
  <2>3. CASE cpc = "run" /\ src.head # NULL
    BY <1>1, <1>2, <2>1, <2>3 DEF WindowShape, NextOp, NoWindow, WindowKept, Places
  <2> QED
    BY <2>2, <2>3 DEF AddOp
<1> DEFINE t == src.tail
           c == NextOp
<1>5. PICK n \in free : /\ next' = [next EXCEPT ![n] = NULL, ![t] = n]
                        /\ content' = [content EXCEPT ![n] = c]
                        /\ pos' = [pos EXCEPT ![n] = 2 * c]
                        /\ free' = free \ {n}
                        /\ src' = [src EXCEPT !.tail = n]
  BY <1>1 DEF AddOp, NoFailure, Alloc, TypeOK
<1> t \in Used /\ n \in Node /\ n \notin Used /\ Used \subseteq Node /\ t \in Node
      /\ handed \in Nat /\ content[t] \in Nat /\ tail \in Used /\ pos[tail] = 2 * handed
  BY <1>1, <1>3, <1>5, Running DEF TypeOK, Used, Beyond, AddOp
<1> c \in Nat /\ c > handed /\ pos[t] < 2 * c /\ pos[t] \in Nat
  BY <1>4, <1>1 DEF WindowKept, TypeOK
<1> HIDE DEF c
<1>6. Used' = Used \cup {n}
  BY <1>1, <1>5 DEF Used, TypeOK
<1>7. /\ \A m \in Used : /\ pos'[m] = pos[m] /\ content'[m] = content[m]
                         /\ m # t => next'[m] = next[m]
                         /\ pos[m] <= pos[t] /\ pos[m] < 2 * c /\ pos[m] \in Nat
      /\ pos'[n] = 2 * c /\ content'[n] = c /\ next'[n] = NULL /\ next'[t] = n
  BY <1>1, <1>3, <1>5 DEF TypeOK, Beyond
<1>8. src'.tail = n /\ src'.old = src.old /\ src'.head = src.head /\ cpc' = "run"
      /\ UNCHANGED <<head, tail, old, mpc, elem, key, handed, popped>>
  BY <1>1, <1>5 DEF TypeOK, AddOp
<1>9. Places'
  BY <1>1, <1>6, <1>7 DEF Places
<1>10. pos[tail] < pos[t] /\ tail # t
  BY <1>1, <1>3, <1>7 DEF Beyond, TypeOK, Used
<1>11. Links'
  <2>1. next[tail] = NULL
    BY <1>1 DEF Links, AddOp
  <2>2. ASSUME NEW m \in Used, m # tail, m # t PROVE Succ(m, next[m])'
    <3>1. Succ(m, next[m])
      BY <1>1, <2>2 DEF Links
    <3> QED
      BY <1>6, <1>7, <2>2, <3>1 DEF Succ
  <2>3. ASSUME NEW m \in Used, m = t PROVE Succ(m, n)'
    BY <1>6, <1>7, <2>3 DEF Succ
  <2> QED
    BY <1>6, <1>7, <1>8, <1>10, <2>1, <2>2, <2>3 DEF Links, Succ
<1>12. ListShape'
  BY <1>2, <1>6, <1>7, <1>8 DEF ListShape
<1>13. PopState'
  <2>1. ASSUME NEW k \in (popped + 1) .. handed PROVE \E m \in Used' : content'[m] = k
    BY <1>2, <1>6, <1>7 DEF PopState
  <2>2. /\ head \in Used /\ elem = elem' /\ mpc = mpc' /\ key = key'
        /\ head = head' /\ tail = tail' /\ handed = handed' /\ popped = popped'
        /\ pos'[head] = pos[head] /\ Used \subseteq Used'
        /\ elem \in Used => pos'[elem] = pos[elem]
    <3>1. head \in Used
      BY Running DEF AddOp
    <3> QED
      BY <1>6, <1>7, <1>8, <3>1
  <2> QED
    BY <1>2, <2>1, <2>2 DEF PopState
<1>14. Beyond(src.old)'
  BY <1>3, <1>6, <1>7, <1>8, <1>10 DEF Beyond
<1>15. WindowKept'
  <2>1. ASSUME NEW k \in (handed + 1) .. c PROVE \E m \in Used' : content'[m] = k
    <3>1. CASE k = c
      BY <1>6, <1>7, <3>1
    <3>2. CASE k # c
      <4>1. WindowKept /\ c = content[t] + 1
        BY <1>4, <3>2 DEF c
      <4> QED
        BY <1>6, <1>7, <3>2, <4>1 DEF WindowKept
    <3> QED
      BY <3>1, <3>2
  <2> QED
    BY <1>7, <1>8, <2>1 DEF WindowKept
<1>16. WindowShape'
  <2>1. src'.head # NULL
    BY <1>3, <1>8 DEF Beyond, Used
  <2>2. pos'[tail'] < pos'[src'.tail]
    BY <1>7, <1>8, <1>10
  <2> QED
    BY <1>3, <1>8, <1>14, <1>15, <2>1, <2>2 DEF WindowShape, NoWindow
<1> QED
  BY <1>1, <1>2, <1>9, <1>11, <1>12, <1>13, <1>16 DEF IInv

LEMMA DestroySourceInv == ASSUME IInv, NoFailure, DestroySource PROVE IInv'
<1> USE DEF DestroySource, list, cells
<1>1. TypeOK /\ TypeOK' /\ Places /\ Links /\ WindowShape
  BY TypeStep DEF IInv, Next, Collector
<1>2. Open /\ Open' /\ ListShape /\ PopState
  BY Running DEF Open
<1> tail \in Used /\ head \in Used /\ old \in Used /\ pos[tail] \in Nat
      /\ Used \subseteq Node /\ NULL \notin Used /\ handed \in Nat /\ popped \in Nat
  BY <1>1, Running DEF Used, TypeOK
<1>3. CASE src.old = NULL
  <2>1. NothingBeyond /\ (src.tail \in Used => pos[tail] < pos[src.tail])
    BY <1>1, <1>2, <1>3 DEF WindowShape, Open
  <2>2. src.tail \notin Used
    BY <1>1, <2>1 DEF NothingBeyond, TypeOK, Used
  <2>3. Places' /\ Links' /\ ListShape' /\ PopState'
    BY <1>1, <1>2, <1>3, <2>2 DEF Places, Links, Succ, Used, ListShape, PopState, NoWindow
  <2>4. WindowShape'
    BY <1>3, <2>1 DEF WindowShape, NothingBeyond, Used, NoWindow
  <2> QED
    BY <1>1, <1>2, <2>3, <2>4 DEF IInv
<1>4. CASE src.old # NULL
  <2> DEFINE o == src.old
  <2>1. Beyond(o)
    BY <1>1, <1>4 DEF WindowShape
  <2>2. o \in Used /\ src.tail \in Used /\ pos[tail] < pos[o] /\ pos[o] <= pos[src.tail]
    BY <2>1 DEF Beyond
  <2>3. \A n \in Used : pos[n] \in Nat
    BY <1>1 DEF TypeOK
  <2>4. Used' = Used \ {o}
    BY <1>4 DEF Used
  <2>5. src'.old = next[o] /\ src'.head = src.head /\ src'.tail = src.tail
    BY <1>1, <1>4 DEF TypeOK
  <2>6. Places'
    BY <1>1, <2>4 DEF Places
  <2>7. Links'
    <3>1. ASSUME NEW n \in Used', n # tail, n # src.tail PROVE Succ(n, next[n])'
      <4>1. Succ(n, next[n]) /\ n # o
        BY <1>1, <2>4, <3>1 DEF Links
      <4>2. CASE next[n] = o
        \* only the tail of the list comes right before the window
        <5>1. pos[n] < pos[o] /\ pos[n] <= pos[tail]
          BY <2>1, <2>3, <2>4, <3>1, <4>1, <4>2 DEF Succ, Beyond
        <5>2. pos[tail] <= pos[n]
          BY <2>2, <2>3, <2>4, <3>1, <4>1, <4>2 DEF Succ
        <5> QED
          BY <1>1, <2>3, <2>4, <3>1, <5>1, <5>2 DEF Places
      <4>3. CASE next[n] # o
        BY <2>4, <4>1, <4>3 DEF Succ
      <4> QED
        BY <4>2, <4>3
    <3>2. next[tail] = NULL /\ (src.tail # tail => next[src.tail] = NULL)
      BY <1>1, <2>2 DEF Links
    <3> QED
      BY <1>4, <2>5, <3>1, <3>2 DEF Links
  <2>8. ASSUME NEW n \in Used, pos[n] <= pos[tail] PROVE n \in Used'
    BY <2>2, <2>3, <2>4, <2>8
  <2>9. ListShape'
    BY <1>2, <1>4, <2>3, <2>4, <2>8 DEF ListShape
  <2>10. PopState'
    <3>1. ASSUME NEW k \in (popped + 1) .. handed PROVE \E n \in Used' : content'[n] = k
      <4>1. PICK n \in Used : content[n] = k /\ pos[n] = 2 * k
        BY <1>2, Unpopped DEF IInv
      <4>2. pos[n] <= pos[tail]
        BY <4>1, Running
      <4> QED
        BY <2>8, <4>1, <4>2
    <3>2. mpc = "peek" => elem \in Used' 
      <4>1. mpc = "peek" => elem \in Used /\ pos[elem] <= pos[tail]
        BY <1>2, <2>3, Running DEF PopState
      <4> QED
        BY <2>8, <4>1
    <3> QED
      BY <1>2, <1>4, <3>1, <3>2 DEF PopState
  <2>11. CASE o = src.tail
    <3>1. next[o] = NULL
      BY <1>1, <2>2, <2>3, <2>11 DEF Links
    <3>2. NothingBeyond'
      BY <1>1, <1>4, <2>1, <2>3, <2>4, <2>11 DEF NothingBeyond, Beyond, Places
    <3> QED
      BY <1>1, <1>2, <1>4, <2>4, <2>5, <2>6, <2>7, <2>9, <2>10, <2>11, <3>1, <3>2
      DEF IInv, WindowShape
  <2>12. CASE o # src.tail
    <3>1. Succ(o, next[o])
      BY <1>1, <2>2, <2>3, <2>12 DEF Links
    <3>2. next[o] \in Used' /\ src.tail \in Used' /\ pos[tail] < pos[next[o]]
      BY <2>2, <2>3, <2>4, <2>12, <3>1 DEF Succ
    <3>3. \A n \in Used' : pos[n] <= pos[tail] \/ pos[next[o]] <= pos[n]
      BY <1>1, <2>1, <2>2, <2>3, <2>4, <3>1 DEF Succ, Beyond, Places
    <3>4. Beyond(src.old)'
      BY <1>4, <2>1, <2>4, <2>5, <3>2, <3>3 DEF Beyond
    <3>5. pos[tail] < pos[src.tail]
      BY <2>2, <2>3
    <3>6. src'.old # NULL /\ cpc' = "destroy" /\ tail' = tail /\ pos' = pos
      BY <1>4, <2>5, <3>2 DEF Used
    <3>7. WindowShape'
      BY <2>5, <3>4, <3>5, <3>6 DEF WindowShape
    <3> QED
      BY <1>1, <1>2, <2>6, <2>7, <2>9, <2>10, <3>7 DEF IInv
  <2> QED
    BY <2>11, <2>12
<1> QED
  BY <1>3, <1>4

LEMMA Stuttering == ASSUME IInv, UNCHANGED vars PROVE IInv'
  BY DEF vars, IInv, TypeOK, Places, Links, Succ, Used, ListShape, PopState, ClosedShape,
     WindowShape, Beyond, NothingBeyond, WindowKept, Open

LEMMA IInvStep == ASSUME IInv, NoFailure, ~silenced', [Next]_vars PROVE IInv'
<1>1. ASSUME Collector PROVE IInv'
  BY <1>1, InitWindowInv, AddOpInv, QuietCollector, MergeTailInv, MergeResetInv,
     DestroySourceInv DEF Collector
<1>2. ASSUME Main PROVE IInv'
  BY <1>2, QuietMain, PopTakeInv, PeekStepInv, CleanStepInv, ShutdownInv, DestroyListInv
  DEF Main
<1> QED
  BY <1>1, <1>2, Stuttering DEF Next, Ended

\* An event that wrote nothing stays collected, and is not collected if there is
\* none.
LEMMA SilencedStays ==
  ASSUME [Next]_vars
  PROVE  /\ silenced => silenced'
         /\ IInv /\ NoHazards /\ ~silenced => ~silenced'
<1>1. CASE MergeStart
  BY <1>1 DEF MergeStart, NoHazards
<1>2. CASE ~MergeStart
  <2>1. silenced' = silenced
    BY <1>2 DEF Next, Collector, Main, Ended, vars, InitWindow, AddOp, Discard, Stop,
       MergeLink, MergeTail, MergeReset, DestroySource, PollStart, PopTest, PopTake, PeekStep,
       CleanStart, CleanStep, Shutdown, DestroyList
  <2> QED
    BY <2>1
<1> QED
  BY <1>1, <1>2

\* The inductive invariant holds until an event that wrote nothing is collected.
LEMMA InvarianceUntil == ASSUME NoFailure PROVE Spec => [](~silenced => IInv)
<1>1. (~silenced => IInv) /\ [Next]_vars => (~silenced => IInv)'
  BY IInvStep, SilencedStays
<1> QED
  BY <1>1, InitIInv, PTL DEF Spec

\* It holds in every reachable state if there are no such events.
THEOREM Invariance == ASSUME NoHazards PROVE Spec => []IInv
<1>1. NoFailure
  BY DEF NoFailure, NoHazards
<1>2. (~silenced /\ IInv) /\ [Next]_vars => (~silenced /\ IInv)'
  BY <1>1, IInvStep, SilencedStays
<1>3. Init => ~silenced
  BY DEF Init
<1> QED
  BY <1>2, <1>3, InitIInv, PTL DEF Spec

\* The types of all variables, in every reachable state.
THEOREM TypeCorrect == ASSUME NoHazards PROVE Spec => []TypeOK
<1>1. IInv => TypeOK
  BY DEF IInv
<1> QED
  BY <1>1, Invariance, PTL

LEMMA InvHandedKept == ASSUME IInv PROVE HandedKept
BY DEF IInv, Open, PopState, ListShape, HandedKept, Used

LEMMA InvKeyIsNext == ASSUME IInv PROVE KeyIsNext
BY DEF IInv, Open, PopState, ListShape, KeyIsNext, Used

LEMMA InvNoFault == ASSUME IInv PROVE NoFault
<1>1. CASE Open
  <2> USE DEF Open
  <2>1. ListShape /\ PopState /\ WindowShape
    BY <1>1 DEF IInv
  <2>2. ASSUME mpc = "peek", content[elem] = 0 PROVE next[elem] # NULL
    <3> elem \in Used /\ pos[elem] \in Nat /\ pos[tail] = 2 * handed /\ handed \in Nat
          /\ popped \in Nat /\ popped < handed /\ pos[elem] <= 2 * popped + 2
          /\ popped > 0 /\ tail \in Used
      BY <2>1, <2>2 DEF IInv, PopState, ListShape, TypeOK, Used
    <3>1. pos[elem] < pos[tail]
      <4>1. elem # tail
        BY <2>1, <2>2 DEF ListShape
      <4>2. pos[elem] # pos[tail]
        BY <4>1 DEF IInv, Places
      <4> QED
        BY <4>2
    <3>2. Succ(elem, next[elem])
      BY <1>1, <3>1, NextInList
    <3> QED
      BY <3>2 DEF Succ, Used
  <2> QED
    BY <1>1, <2>1, <2>2 DEF NoFault, ListShape, PopState, WindowShape, Beyond
<1>2. CASE ~Open
  BY <1>2 DEF IInv, Open, ClosedShape, NoFault
<1> QED
  BY <1>1, <1>2

\* No thread follows NULL or a pointer to a freed cell, however the collector
\* and the main process interleave.
THEOREM MemorySafety == ASSUME NoHazards PROVE Spec => []NoFault
BY InvNoFault, Invariance, PTL

\* A program that ends with no event's window pending has freed every cell.
THEOREM LeakFree == ASSUME NoHazards PROVE Spec => []NoLeak
<1>1. IInv => NoLeak
  BY DEF IInv, Open, ClosedShape, NoLeak, Used, TypeOK
<1> QED
  BY <1>1, Invariance, PTL

\* Every operation handed over and not popped yet is in a live cell: no merge,
\* destroy or clean loses output.
THEOREM Conservation == ASSUME NoHazards PROVE Spec => []HandedKept
BY InvHandedKept, Invariance, PTL

\* Between two polls the key that the heap has for the LP is that of the
\* operation the next nblist_pop returns.
THEOREM KeyHonest == ASSUME NoHazards PROVE Spec => []KeyIsNext
BY InvKeyIsNext, Invariance, PTL

\* In a simulation that does collect events that wrote nothing, the list keeps all
\* its promises up to the first of them: it never runs empty, the window of the
\* event at hand shares no cell with it, and memory, output and key are right.
THEOREM UntilSilent == ASSUME NoFailure PROVE Spec => []SafeUntilSilent
<1>1. ASSUME IInv PROVE NeverEmpty /\ SourceReset
  <2>1. NeverEmpty
    BY <1>1 DEF IInv, Open, ListShape, NeverEmpty, Used
  <2>2. SourceReset
    BY <1>1 DEF IInv, WindowShape, Beyond, SourceReset
  <2> QED
    BY <2>1, <2>2
<1>2. (~silenced => IInv) => SafeUntilSilent
  BY <1>1, InvNoFault, InvHandedKept, InvKeyIsNext DEF SafeUntilSilent
<1> QED
  BY <1>2, InvarianceUntil, PTL

\* What a pop that returns an operation does to the counters.
LEMMA PopAdvances ==
  ASSUME IInv, PopTake
  PROVE  /\ handed' = handed
         /\ popped' = popped \/ (popped' = popped + 1 /\ popped + 1 < handed)
<1> USE DEF PopTake
<1> Open /\ ListShape /\ PopState /\ Places
  BY DEF IInv, Open
<1> head \in Used /\ content[head] \in Nat /\ pos[head] \in Nat /\ pos[tail] = 2 * handed
      /\ handed \in Nat /\ popped \in Nat /\ tail \in Used
  BY DEF IInv, TypeOK, Used, ListShape
<1>1. CASE content[head] # 0
  <2>1. popped' = popped + 1 /\ pos[head] = 2 * popped + 2
    BY <1>1 DEF PopState, Places
  <2>2. pos[head] # pos[tail] /\ pos[head] <= pos[tail]
    BY DEF PopState, Places, ListShape
  <2> QED
    BY <2>1, <2>2
<1> QED
  BY <1>1

LEMMA OtherSteps ==
  ASSUME [Next]_vars, ~PopTake PROVE popped' = popped
  BY DEF Next, Collector, Main, Ended, vars, InitWindow, AddOp, Discard, Stop,
     MergeStart, MergeLink, MergeTail, MergeReset, DestroySource, PollStart, PopTest, PeekStep, CleanStart,
     CleanStep, Shutdown, DestroyList

\* Pops return the operations one by one in the order of the merges.
THEOREM PopOrder == ASSUME NoHazards PROVE Spec => PopsInOrder
<1>1. IInv /\ [Next]_vars => [popped' # popped => popped' = popped + 1]_vars
  BY PopAdvances, OtherSteps
<1> QED
  BY <1>1, Invariance, PTL DEF Spec, PopsInOrder

\* The list of cells and pointers, with both threads at work on it, implements
\* the two counters of AbstractWindow.
THEOREM Refinement == ASSUME NoHazards PROVE Spec => ImplementsWindow
<1>1. Init => Window!Init
  BY DEF Init, Window!Init
<1>2. ASSUME IInv, [Next]_vars PROVE [Window!Next]_(Window!vars)
  <2> USE DEF Window!Next, Window!vars
  <2>1. CASE PopTake
    BY <1>2, <2>1, PopAdvances DEF Window!Take
  <2>2. CASE MergeTail
    <3>1. popped' = popped /\ handed' \in Nat /\ handed' > handed
      BY <1>2, <2>2 DEF MergeTail, HandedAfter, IInv, WindowShape, WindowKept, Beyond, Used,
         TypeOK
    <3> QED
      BY <3>1 DEF Window!Hand
  <2>3. CASE ~PopTake /\ ~MergeTail
    <3>1. handed' = handed
      BY <1>2, <2>3, Running DEF Next, Collector, Main, Ended, vars, InitWindow, AddOp,
         Discard, Stop, MergeStart, MergeLink, MergeReset, DestroySource, PollStart, PopTest, PeekStep,
         CleanStart, CleanStep, Shutdown, DestroyList, Used, IInv, TypeOK
    <3> QED
      BY <1>2, <2>3, <3>1, OtherSteps
  <2> QED
    BY <2>1, <2>2, <2>3
<1> QED
  BY <1>1, <1>2, Invariance, PTL DEF Spec, ImplementsWindow, Window!Spec
=============================================================================
