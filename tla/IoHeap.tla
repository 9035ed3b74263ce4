------------------------------- MODULE IoHeap -------------------------------
(***************************************************************************)
(* The binary heap of io_heap.c: an array of entries, each with a key, a   *)
(* payload and its own position in the array.  Only the main process uses  *)
(* it, so there is nothing to interleave; a call takes one step per turn   *)
(* of its loop (or per recursive call of io_heapify).                      *)
(*                                                                         *)
(* keyOf, keys and root are auxiliary: the keys the callers gave, and what *)
(* AbstractHeap shows between two calls.                                   *)
(***************************************************************************)
EXTENDS Integers

CONSTANTS
  Payload, MaxKey, MinHeap,
  Capacity,   \* what io_heap_new was given
  MaxSize     \* bound on the size of the array

Absent == -1
Key    == 0 .. MaxKey

ASSUME CapacityAssumption == Capacity \in Nat \ {0}
ASSUME MaxSizeAssumption == MaxSize \in Nat /\ Capacity <= MaxSize
ASSUME PayloadAssumption == Absent \notin Payload
ASSUME MaxKeyAssumption == MaxKey \in Nat
ASSUME MinHeapAssumption == MinHeap \in BOOLEAN

VARIABLES
  key, payload, position,   \* the fields of array[0 .. MaxSize-1]
  size, used,               \* slots allocated, slots in use
  pc,                       \* the loop being run, or "idle"
  cur,                      \* its index
  keyOf,                    \* the key last given to each payload
  keys, root                \* what the heap showed when it was last idle

array == <<key, payload, position>>
vars  == <<key, payload, position, size, used, pc, cur, keyOf, keys, root>>

Slot == 0 .. (MaxSize - 1)

TypeOK ==
  /\ key \in [Slot -> Key]
  /\ payload \in [Slot -> Payload \cup {Absent}]
  /\ position \in [Slot -> Slot]
  /\ size \in 1 .. MaxSize /\ used \in 0 .. size
  /\ pc \in {"idle", "add", "up", "down"}
  /\ cur \in Slot
  /\ keyOf \in [Payload -> Key \cup {Absent}]
  /\ keys \in [Payload -> Key \cup {Absent}]
  /\ root \in Payload \cup {Absent}

Init ==
  /\ key = [i \in Slot |-> 0]
  /\ payload = [i \in Slot |-> Absent]
  /\ position = [i \in Slot |-> 0]
  /\ size = Capacity /\ used = 0
  /\ pc = "idle" /\ cur = 0
  /\ keyOf = [p \in Payload |-> Absent]
  /\ keys = keyOf /\ root = Absent
-----------------------------------------------------------------------------
Parent(i) == (i - 1) \div 2
Left(i)   == 2 * i + 1
Right(i)  == Left(i) + 1

IsLeaf(i) == Left(i) >= used

Better(k, l) == IF MinHeap THEN k < l ELSE k > l
Compare(i, j) == Better(key[i], key[j])

\* Mutant: the first child is taken without looking at the second.
FirstChild(i) == Left(i)

\* get_max_child_index of an inner node.
BestChild(i) ==
  IF Right(i) < used /\ Compare(Right(i), Left(i)) THEN Right(i) ELSE Left(i)

\* Mutant: the entries take their positions along.
ExchangeKeepsPositions(i, j) ==
  /\ key' = [key EXCEPT ![i] = key[j], ![j] = key[i]]
  /\ payload' = [payload EXCEPT ![i] = payload[j], ![j] = payload[i]]
  /\ position' = [position EXCEPT ![i] = position[j], ![j] = position[i]]

Exchange(i, j) ==
  /\ key' = [key EXCEPT ![i] = key[j], ![j] = key[i]]
  /\ payload' = [payload EXCEPT ![i] = payload[j], ![j] = payload[i]]
  /\ position' = [position EXCEPT ![i] = i, ![j] = j]

\* The call returns: the heap shows its keys and its root.
Return ==
  /\ pc' = "idle"
  /\ keys' = keyOf /\ root' = payload[0]
  /\ UNCHANGED <<array, cur>>

Continue(i) == cur' = i /\ UNCHANGED <<pc, keys, root>>
-----------------------------------------------------------------------------
\* Mutant: the check for a full array is off by one.
AddGrowLate(p, k) ==
  /\ pc = "idle" /\ keyOf[p] = Absent /\ used < MaxSize
  /\ size' = IF used > size THEN 2 * size ELSE size
  /\ key' = [key EXCEPT ![used] = k]
  /\ payload' = [payload EXCEPT ![used] = p]
  /\ position' = [position EXCEPT ![used] = used]
  /\ keyOf' = [keyOf EXCEPT ![p] = k]
  /\ cur' = used /\ pc' = "add"
  /\ UNCHANGED <<used, keys, root>>

\* io_heap_add: the array doubles when it is full, the entry goes to the end.
Add(p, k) ==
  /\ pc = "idle" /\ keyOf[p] = Absent
  /\ LET s == IF used >= size THEN 2 * size ELSE size
     IN  s <= MaxSize /\ size' = s
  /\ key' = [key EXCEPT ![used] = k]
  /\ payload' = [payload EXCEPT ![used] = p]
  /\ position' = [position EXCEPT ![used] = used]
  /\ keyOf' = [keyOf EXCEPT ![p] = k]
  /\ cur' = used /\ pc' = "add"
  /\ UNCHANGED <<used, keys, root>>

\* Its loop; used grows only after it.
AddStep ==
  /\ pc = "add"
  /\ IF cur # 0 /\ Compare(cur, Parent(cur))
       THEN Exchange(cur, Parent(cur)) /\ Continue(Parent(cur)) /\ UNCHANGED used
       ELSE Return /\ used' = used + 1
  /\ UNCHANGED <<size, keyOf>>

\* io_heap_update_key of the entry in slot e: up if the key got better, down
\* otherwise (for MAX_HEAP an equal key goes up).  io_heap_poll calls it on
\* slot 0 with the key of the LP's next operation.
UpdateKey(e, k) ==
  /\ pc = "idle" /\ e < used
  /\ key' = [key EXCEPT ![e] = k]
  /\ keyOf' = [keyOf EXCEPT ![payload[e]] = k]
  /\ cur' = position[e]
  /\ pc' = IF (k < key[e]) = MinHeap THEN "up" ELSE "down"
  /\ UNCHANGED <<payload, position, size, used, keys, root>>

\* sift_up.
UpStep ==
  /\ pc = "up"
  /\ IF cur > 0 /\ Compare(cur, Parent(cur))
       THEN Exchange(cur, Parent(cur)) /\ Continue(Parent(cur))
       ELSE Return
  /\ UNCHANGED <<size, used, keyOf>>

\* Mutant: after an exchange the loop looks at the parent again.
DownStepStays ==
  /\ pc = "down"
  /\ IF ~IsLeaf(cur) /\ ~Compare(cur, BestChild(cur))
       THEN Exchange(cur, BestChild(cur)) /\ Continue(cur)
       ELSE Return
  /\ UNCHANGED <<size, used, keyOf>>

\* io_heapify: it exchanges equal keys too.
DownStep ==
  /\ pc = "down"
  /\ IF ~IsLeaf(cur) /\ ~Compare(cur, BestChild(cur))
       THEN Exchange(cur, BestChild(cur)) /\ Continue(BestChild(cur))
       ELSE Return
  /\ UNCHANGED <<size, used, keyOf>>
-----------------------------------------------------------------------------
Loop == AddStep \/ UpStep \/ DownStep

Next ==
  \/ \E p \in Payload, k \in Key : Add(p, k)
  \/ \E e \in Slot, k \in Key : UpdateKey(e, k)
  \/ Loop

Spec == Init /\ [][Next]_vars

\* A call that has begun goes on.
FairSpec == Spec /\ WF_vars(Loop)
-----------------------------------------------------------------------------
(* Properties.                                                             *)

\* Slots that hold an entry, the one being added included.
Filled == 0 .. (IF pc = "add" THEN used ELSE used - 1)

\* The array has room for every entry it holds (io_heap.c:80).
InBounds == \A i \in Filled : i < size

\* Each payload is in the heap once, with the key it was last given, and each
\* entry knows the slot it is in, which io_heap_update_key relies on.
EntriesKept ==
  /\ \A i \in Filled : /\ payload[i] \in Payload /\ keyOf[payload[i]] = key[i]
                       /\ position[i] = i
  /\ \A i, j \in Filled : payload[i] = payload[j] => i = j
  /\ \A p \in Payload : keyOf[p] # Absent => \E i \in Filled : payload[i] = p

\* Between two calls no entry is better than its parent.
HeapOrder ==
  pc = "idle" => \A i \in Filled \ {0} : ~Compare(i, Parent(i))

\* Between two calls no key is better than the one at the root: what the
\* reversible I/O layer needs to take the next operation from.
RootIsBest == pc = "idle" => \A i \in Filled : ~Compare(i, 0)

\* The array implements the map with a best root of AbstractHeap.
Abstract == INSTANCE AbstractHeap
ImplementsHeap == Abstract!Spec

\* Every call returns, io_heapify with its exchanges of equal keys included.
CallsReturn == []<>(pc = "idle")
=============================================================================
