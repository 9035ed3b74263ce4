---------------------------- MODULE IoHeapProofs ----------------------------
(***************************************************************************)
(* Proofs about IoHeap for heaps of any size and keys of any range.  The   *)
(* invariant says which links of the tree may be out of order while a loop *)
(* runs: only those at cur.  That the root is best then follows from the   *)
(* links by looking at the first slot with a better key.                   *)
(***************************************************************************)
EXTENDS IoHeap, TLAPS, WellFoundedInduction, FiniteSetTheorems

\* A set of naturals that is not empty has a least element.
LEMMA LeastNat ==
  ASSUME NEW T \in SUBSET Nat, T # {}
  PROVE  \E x \in T : \A y \in T : x <= y
<1> DEFINE U == {0 .. (x - 1) : x \in T}
<1>1. U \subseteq FiniteSubsetsOf(Nat) /\ U # {}
  <2>1. ASSUME NEW x \in T PROVE 0 .. (x - 1) \in FiniteSubsetsOf(Nat)
    BY FS_Interval DEF FiniteSubsetsOf
  <2> QED
    BY <2>1
<1>2. PICK S \in U : \A R \in U : <<R, S>> \notin StrictSubsetOrdering(Nat)
  BY <1>1, FS_StrictSubsetOrderingWellFounded, WFMin
<1>3. PICK x \in T : S = 0 .. (x - 1)
  OBVIOUS
<1>4. ASSUME NEW y \in T, y < x PROVE FALSE
  <2>1. <<0 .. (y - 1), S>> \in StrictSubsetOrdering(Nat)
    <3>1. y \in S /\ y \notin 0 .. (y - 1) /\ 0 .. (y - 1) \subseteq S /\ S \in SUBSET Nat
      BY <1>3, <1>4
    <3> QED
      BY <3>1 DEF StrictSubsetOrdering
  <2> QED
    BY <1>2, <2>1
<1> QED
  BY <1>4

\* No entry of the links at i is better than its parent.
Ordered(i) == ~Compare(i, Parent(i))

\* Which links are in order: all but those at cur while a loop runs; those
\* around cur stay in order when cur is skipped.
Order ==
  /\ pc = "idle" => \A i \in Filled \ {0} : Ordered(i)
  /\ pc \in {"add", "up"} =>
       /\ cur \in Filled
       /\ \A i \in Filled \ {0} : i # cur => Ordered(i)
       /\ cur > 0 => \A i \in Filled \ {0} : Parent(i) = cur => ~Compare(i, Parent(cur))
  /\ pc = "down" =>
       /\ cur \in Filled
       /\ \A i \in Filled \ {0} : Parent(i) # cur => Ordered(i)
       /\ cur > 0 => \A i \in Filled \ {0} : Parent(i) = cur => ~Compare(i, Parent(cur))

\* What the heap showed when it was last idle.
Shown ==
  /\ pc = "idle" => keys = keyOf /\ (used > 0 => root = payload[0]) /\ (used = 0 => root = Absent)
  /\ pc = "idle" \/ (\E p \in Payload : keyOf[p] # Absent /\ \A q \in Payload \ {p} : keyOf[q] = keys[q])

HeapInv ==
  /\ TypeOK
  /\ pc = "add" => used < size
  /\ EntriesKept
  /\ Order
  /\ Shown

-----------------------------------------------------------------------------
USE CapacityAssumption, MaxSizeAssumption, PayloadAssumption, MaxKeyAssumption,
    MinHeapAssumption

LEMMA ParentProperties ==
  \A i \in Nat \ {0} : /\ Parent(i) \in Nat /\ Parent(i) < i
                       /\ Left(Parent(i)) = i \/ Right(Parent(i)) = i
  BY DEF Parent, Left, Right

LEMMA ChildProperties ==
  \A i \in Nat : /\ Left(i) \in Nat \ {0} /\ Right(i) \in Nat \ {0}
                 /\ Parent(Left(i)) = i /\ Parent(Right(i)) = i
  BY DEF Parent, Left, Right

\* Better is a strict order in which any two keys compare.
LEMMA BetterOrder ==
  \A k, l, m \in Int :
    /\ ~Better(k, k)
    /\ ~Better(k, l) /\ ~Better(l, m) => ~Better(k, m)
    /\ Better(k, l) => ~Better(l, k)
  BY DEF Better

LEMMA FilledSlots ==
  ASSUME TypeOK, pc = "add" => used < size
  PROVE  /\ Filled \subseteq Slot /\ Filled \subseteq Nat
         /\ \A i \in Filled, j \in Nat : j <= i => j \in Filled
         /\ \A i \in Filled : key[i] \in Int
         /\ \A i \in Filled \ {0} : Parent(i) \in Filled
         /\ 0 \in Slot
<1>1. Filled \subseteq Slot /\ Filled \subseteq Nat
  BY DEF TypeOK, Filled, Slot
<1>2. \A i \in Filled, j \in Nat : j <= i => j \in Filled
  BY DEF TypeOK, Filled
<1>3. \A i \in Filled : key[i] \in Int
  BY <1>1 DEF TypeOK, Key
<1>4. \A i \in Filled \ {0} : Parent(i) \in Filled
  BY <1>1, <1>2, ParentProperties
<1> QED
  BY <1>1, <1>2, <1>3, <1>4 DEF Slot

\* In an array in which no key is better than its parent's, the first is best.
LEMMA OrderedRoot ==
  ASSUME NEW k, NEW n \in Nat \ {0}, \A i \in 0 .. (n - 1) : k[i] \in Int,
         \A i \in 1 .. (n - 1) : ~Better(k[i], k[Parent(i)])
  PROVE  \A i \in 0 .. (n - 1) : ~Better(k[i], k[0])
<1> DEFINE T == {i \in 0 .. (n - 1) : Better(k[i], k[0])}
<1>1. SUFFICES ASSUME T # {} PROVE FALSE
  OBVIOUS
<1>2. T \in SUBSET Nat
  OBVIOUS
<1>3. PICK x \in T : \A y \in T : x <= y
  BY <1>1, <1>2, LeastNat
<1>4. x \in 0 .. (n - 1) /\ x \in Nat /\ 0 \in 0 .. (n - 1) /\ Better(k[x], k[0])
  BY <1>2
<1>5. x # 0
  BY <1>4, BetterOrder
<1>6. Parent(x) \in 0 .. (n - 1) /\ Parent(x) < x
  BY <1>4, <1>5, ParentProperties
<1>7. ~Better(k[x], k[Parent(x)]) /\ ~Better(k[Parent(x)], k[0])
  BY <1>3, <1>4, <1>5, <1>6
<1> QED
  BY <1>4, <1>6, <1>7, BetterOrder

\* With all links in order no entry is better than the root.
LEMMA RootBest ==
  ASSUME TypeOK, pc = "idle", \A i \in Filled \ {0} : Ordered(i)
  PROVE  RootIsBest
<1>1. CASE used = 0
  BY <1>1 DEF RootIsBest, Filled
<1>2. CASE used # 0
  <2>1. used \in Nat \ {0} /\ Filled = 0 .. (used - 1)
    BY <1>2 DEF TypeOK, Filled
  <2>2. \A i \in 0 .. (used - 1) : key[i] \in Int
    BY <2>1, FilledSlots
  <2>3. \A i \in 1 .. (used - 1) : i \in Filled \ {0}
    BY <2>1
  <2>4. \A i \in 1 .. (used - 1) : ~Better(key[i], key[Parent(i)])
    BY <2>3 DEF Ordered, Compare
  <2>5. \A i \in 0 .. (used - 1) : ~Better(key[i], key[0])
    BY <2>1, <2>2, <2>4, OrderedRoot
  <2> QED
    BY <2>1, <2>5 DEF RootIsBest, Compare
<1> QED
  BY <1>1, <1>2

\* Exchanging two filled slots keeps the entries.
LEMMA ExchangeKeeps ==
  ASSUME TypeOK, pc = "add" => used < size, EntriesKept,
         NEW i \in Filled, NEW j \in Filled, i # j,
         Exchange(i, j), UNCHANGED <<pc, used, keyOf>>
  PROVE  /\ EntriesKept' /\ Filled' = Filled
         /\ key' \in [Slot -> Key] /\ payload' \in [Slot -> Payload \cup {Absent}]
         /\ position' \in [Slot -> Slot]
         /\ key'[i] = key[j] /\ key'[j] = key[i]
         /\ \A k \in Filled \ {i, j} : key'[k] = key[k]
<1>1. Filled' = Filled /\ Filled \subseteq Slot
  BY FilledSlots DEF Filled
<1>2. /\ key' \in [Slot -> Key] /\ payload' \in [Slot -> Payload \cup {Absent}]
      /\ position' \in [Slot -> Slot]
  BY <1>1 DEF Exchange, TypeOK
<1>3. /\ key'[i] = key[j] /\ key'[j] = key[i] /\ payload'[i] = payload[j]
      /\ payload'[j] = payload[i] /\ position'[i] = i /\ position'[j] = j
      /\ \A k \in Filled \ {i, j} : /\ key'[k] = key[k] /\ payload'[k] = payload[k]
                                    /\ position'[k] = position[k]
  BY <1>1 DEF Exchange, TypeOK
<1>4. EntriesKept'
  <2>1. \A k \in Filled : /\ payload'[k] \in Payload /\ keyOf'[payload'[k]] = key'[k]
                          /\ position'[k] = k
    BY <1>3 DEF EntriesKept
  <2>2. \A k, l \in Filled : payload'[k] = payload'[l] => k = l
    BY <1>3 DEF EntriesKept
  <2>3. ASSUME NEW p \in Payload, keyOf'[p] # Absent
        PROVE  \E k \in Filled : payload'[k] = p
    <3>1. PICK k \in Filled : payload[k] = p
      BY <2>3 DEF EntriesKept
    <3> QED
      BY <1>3, <3>1
  <2> QED
    BY <1>1, <2>1, <2>2, <2>3 DEF EntriesKept
<1> QED
  BY <1>1, <1>2, <1>3, <1>4

LEMMA InitHeapInv == Init => HeapInv
<1> SUFFICES ASSUME Init PROVE HeapInv
  OBVIOUS
<1>1. TypeOK
  BY DEF Init, TypeOK, Slot, Key
<1>2. Filled = {}
  BY DEF Init, Filled
<1>3. EntriesKept /\ Order /\ Shown
  BY <1>2 DEF Init, EntriesKept, Order, Shown, Absent
<1> QED
  BY <1>1, <1>3 DEF HeapInv, Init

\* A loop that ends with all links in order leaves the heap in order.
LEMMA ReturnInv ==
  ASSUME HeapInv, pc # "idle", \A i \in Filled \ {0} : Ordered(i),
         Return, UNCHANGED <<size, keyOf>>, used' \in 1 .. size,
         used' = IF pc = "add" THEN used + 1 ELSE used
  PROVE  HeapInv'
<1> USE DEF Return, array
<1>1. Filled' = Filled
  BY DEF Filled, HeapInv, TypeOK
<1>2. 0 \in Filled
  BY <1>1 DEF Filled, HeapInv, TypeOK
<1>3. payload[0] \in Payload
  BY <1>2 DEF HeapInv, EntriesKept
<1>4. TypeOK' /\ EntriesKept' /\ Shown'
  BY <1>1, <1>3 DEF HeapInv, TypeOK, EntriesKept, Shown
<1>5. Order'
  BY <1>1 DEF Order, Ordered, Compare
<1> QED
  BY <1>4, <1>5 DEF HeapInv

\* One turn of the loop of io_heap_add and of sift_up.
LEMMA RiseInv ==
  ASSUME HeapInv, pc \in {"add", "up"}, cur > 0, Compare(cur, Parent(cur)),
         Exchange(cur, Parent(cur)), Continue(Parent(cur)), UNCHANGED <<size, used, keyOf>>
  PROVE  HeapInv'
<1> DEFINE p == Parent(cur)
<1> USE DEF Continue
<1>1. /\ cur \in Filled /\ cur \in Nat /\ TypeOK /\ EntriesKept
      /\ \A i \in Filled \ {0} : i # cur => ~Better(key[i], key[Parent(i)])
      /\ \A i \in Filled \ {0} : Parent(i) = cur => ~Better(key[i], key[p])
  BY FilledSlots DEF HeapInv, Order, Ordered, Compare
<1>2. p \in Filled /\ p \in Nat /\ p < cur /\ p \in Slot
  BY <1>1, ParentProperties, FilledSlots DEF HeapInv
<1>3. \A i \in Filled : i \in Nat /\ key[i] \in Int /\ (i # 0 => Parent(i) \in Filled)
  BY FilledSlots DEF HeapInv
<1>4. /\ EntriesKept' /\ Filled' = Filled
      /\ key' \in [Slot -> Key] /\ payload' \in [Slot -> Payload \cup {Absent}]
      /\ position' \in [Slot -> Slot]
      /\ key'[cur] = key[p] /\ key'[p] = key[cur]
      /\ \A i \in Filled \ {cur, p} : key'[i] = key[i]
  BY <1>1, <1>2, ExchangeKeeps DEF HeapInv
<1>5. TypeOK' /\ Shown'
  BY <1>2, <1>4 DEF HeapInv, TypeOK, Shown
<1>6. cur' = p /\ pc' = pc
  OBVIOUS
<1>7. Better(key[cur], key[p])
  BY DEF Compare
<1> HIDE DEF p
<1>8. ASSUME NEW i \in Filled, i # 0, i # p PROVE ~Better(key'[i], key'[Parent(i)])
  <2>1. CASE i = cur
    BY <1>2, <1>3, <1>4, <1>7, <2>1, BetterOrder, <1>1 DEF p
  <2>2. CASE i # cur /\ Parent(i) = cur
    BY <1>1, <1>4, <1>8, <2>2
  <2>3. CASE i # cur /\ Parent(i) = p
    <3>1. ~Better(key[i], key[p]) /\ ~Better(key[p], key[cur])
      BY <1>1, <1>2, <1>3, <1>7, <1>8, <2>3, BetterOrder
    <3> QED
      BY <1>1, <1>2, <1>3, <1>4, <1>8, <2>3, <3>1, BetterOrder
  <2>4. CASE i # cur /\ Parent(i) # cur /\ Parent(i) # p
    BY <1>1, <1>3, <1>4, <1>8, <2>4
  <2> QED
    BY <2>1, <2>2, <2>3, <2>4
<1>9. ASSUME NEW i \in Filled, i # 0, p > 0, Parent(i) = p
      PROVE  ~Better(key'[i], key'[Parent(p)])
  <2>1. Parent(p) \in Filled /\ Parent(p) # p /\ Parent(p) # cur /\ i # p
    BY <1>2, <1>3, <1>9, ParentProperties
  <2>2. key'[Parent(p)] = key[Parent(p)] /\ ~Better(key[p], key[Parent(p)])
    <3>1. p \in Filled \ {0} /\ p # cur
      BY <1>2, <1>9
    <3> QED
      BY <1>1, <1>4, <2>1, <3>1
  <2>3. CASE i = cur
    BY <1>4, <2>2, <2>3
  <2>4. CASE i # cur
    <3>1. ~Better(key[i], key[p]) /\ key'[i] = key[i]
      BY <1>1, <1>4, <1>9, <2>1, <2>4
    <3> QED
      BY <1>2, <1>3, <2>1, <2>2, <3>1, BetterOrder
  <2> QED
    BY <2>3, <2>4
<1>10. Order'
  BY <1>2, <1>4, <1>6, <1>8, <1>9 DEF Order, Ordered, Compare
<1> QED
  BY <1>4, <1>5, <1>6, <1>10 DEF HeapInv

LEMMA AddStepInv == ASSUME HeapInv, AddStep PROVE HeapInv'
<1> USE DEF AddStep
<1>1. /\ TypeOK /\ cur \in Filled /\ cur \in Nat /\ used < size /\ pc = "add"
      /\ \A i \in Filled \ {0} : i # cur => Ordered(i)
  BY FilledSlots DEF HeapInv, Order
<1>2. CASE cur # 0 /\ Compare(cur, Parent(cur))
  BY <1>1, <1>2, RiseInv
<1>3. CASE cur = 0 \/ ~Compare(cur, Parent(cur))
  BY <1>1, <1>3, ReturnInv DEF Ordered, TypeOK
<1> QED
  BY <1>2, <1>3

LEMMA UpStepInv == ASSUME HeapInv, UpStep PROVE HeapInv'
<1> USE DEF UpStep
<1>1. /\ TypeOK /\ cur \in Filled /\ cur \in Nat /\ pc = "up" /\ used \in 1 .. size
      /\ \A i \in Filled \ {0} : i # cur => Ordered(i)
  BY FilledSlots DEF HeapInv, Order, TypeOK, Filled
<1>2. CASE cur > 0 /\ Compare(cur, Parent(cur))
  BY <1>1, <1>2, RiseInv
<1>3. CASE ~(cur > 0 /\ Compare(cur, Parent(cur)))
  BY <1>1, <1>3, ReturnInv DEF Ordered
<1> QED
  BY <1>2, <1>3

\* get_max_child_index of an inner node is a child no other child beats.
LEMMA BestChildProperties ==
  ASSUME HeapInv, pc = "down", ~IsLeaf(cur)
  PROVE  /\ BestChild(cur) \in Filled \ {0} /\ Parent(BestChild(cur)) = cur
         /\ \A i \in Filled \ {0} : Parent(i) = cur => ~Compare(i, BestChild(cur))
<1>1. TypeOK /\ cur \in Filled /\ cur \in Nat /\ used \in Nat /\ Filled = 0 .. (used - 1)
  BY FilledSlots DEF HeapInv, Order, TypeOK, Filled
<1>2. Left(cur) \in Filled \ {0} /\ Right(cur) \in Nat \ {0} /\ (Right(cur) < used => Right(cur) \in Filled)
  <2>1. Left(cur) \in Nat \ {0} /\ Right(cur) \in Nat \ {0} /\ Left(cur) < used
    BY <1>1, ChildProperties DEF IsLeaf
  <2> QED
    BY <1>1, <2>1
<1>3. ASSUME NEW i \in Filled \ {0}, Parent(i) = cur
      PROVE  i = Left(cur) \/ (i = Right(cur) /\ Right(cur) < used)
  BY <1>1, <1>3, ParentProperties
<1>4. \A i \in Filled : key[i] \in Int
  BY FilledSlots DEF HeapInv
<1>5. BestChild(cur) \in Filled \ {0} /\ Parent(BestChild(cur)) = cur
  BY <1>1, <1>2, ChildProperties DEF BestChild
<1>6. ASSUME NEW i \in Filled \ {0}, Parent(i) = cur PROVE ~Compare(i, BestChild(cur))
  BY <1>2, <1>3, <1>4, <1>6, BetterOrder DEF BestChild, Compare
<1> QED
  BY <1>5, <1>6

\* One call of io_heapify.
LEMMA DownStepInv == ASSUME HeapInv, DownStep PROVE HeapInv'
<1> USE DEF DownStep
<1> DEFINE j == BestChild(cur)
<1>1. /\ cur \in Filled /\ cur \in Nat /\ TypeOK /\ EntriesKept /\ pc = "down"
      /\ \A i \in Filled \ {0} : Parent(i) # cur => ~Better(key[i], key[Parent(i)])
      /\ cur > 0 => \A i \in Filled \ {0} : Parent(i) = cur => ~Better(key[i], key[Parent(cur)])
      /\ used \in 1 .. size
  BY FilledSlots DEF HeapInv, Order, Ordered, Compare, TypeOK, Filled
<1>2. \A i \in Filled : i \in Nat /\ key[i] \in Int /\ (i # 0 => Parent(i) \in Filled)
  BY FilledSlots DEF HeapInv
<1>3. CASE IsLeaf(cur) \/ Compare(cur, j)
  <2>1. ASSUME NEW i \in Filled \ {0} PROVE Ordered(i)
    <3>1. CASE Parent(i) # cur
      BY <1>1, <3>1 DEF Ordered, Compare
    <3>2. CASE Parent(i) = cur /\ IsLeaf(cur)
      <4>1. i = Left(cur) \/ i = Right(cur)
        BY <1>2, <3>2, ParentProperties
      <4>2. i < used
        BY <1>1 DEF Filled, TypeOK
      <4> QED
        BY <1>1, <1>2, <3>2, <4>1, <4>2, ChildProperties DEF IsLeaf, Right
    <3>3. CASE Parent(i) = cur /\ ~IsLeaf(cur)
      <4>1. j \in Filled /\ ~Better(key[i], key[j]) /\ Better(key[cur], key[j])
        BY <1>1, <1>3, <3>3, BestChildProperties DEF Compare
      <4>2. ~Better(key[j], key[cur])
        BY <1>1, <1>2, <4>1, BetterOrder
      <4> QED
        BY <1>1, <1>2, <3>3, <4>1, <4>2, BetterOrder DEF Ordered, Compare
    <3> QED
      BY <3>1, <3>2, <3>3
  <2> QED
    BY <1>1, <1>3, <2>1, ReturnInv
<1>4. CASE ~IsLeaf(cur) /\ ~Compare(cur, j)
  <2>1. /\ j \in Filled /\ j # 0 /\ Parent(j) = cur /\ j \in Slot /\ j # cur /\ j \in Nat
        /\ \A i \in Filled \ {0} : Parent(i) = cur => ~Better(key[i], key[j])
    <3>1. /\ j \in Filled \ {0} /\ Parent(j) = cur
          /\ \A i \in Filled \ {0} : Parent(i) = cur => ~Better(key[i], key[j])
      BY <1>1, <1>4, BestChildProperties DEF Compare
    <3>2. j \in Nat /\ j \in Slot
      BY <3>1, FilledSlots DEF HeapInv
    <3> HIDE DEF j
    <3>3. j # cur
      BY <3>1, <3>2, ParentProperties
    <3> QED
      BY <3>1, <3>2, <3>3
  <2>2. Exchange(cur, j) /\ cur' = j /\ pc' = "down" /\ UNCHANGED <<size, used, keyOf, keys, root>>
    BY <1>1, <1>4 DEF Continue
  <2>3. /\ EntriesKept' /\ Filled' = Filled
        /\ key' \in [Slot -> Key] /\ payload' \in [Slot -> Payload \cup {Absent}]
        /\ position' \in [Slot -> Slot]
        /\ key'[cur] = key[j] /\ key'[j] = key[cur]
        /\ \A i \in Filled \ {cur, j} : key'[i] = key[i]
    BY <1>1, <2>1, <2>2, ExchangeKeeps DEF HeapInv
  <2>4. TypeOK' /\ Shown'
    BY <2>1, <2>2, <2>3 DEF HeapInv, TypeOK, Shown
  <2>5. ~Better(key[cur], key[j])
    BY <1>4 DEF Compare
  <2> HIDE DEF j
  <2>6. ASSUME NEW i \in Filled, i # 0, Parent(i) # j PROVE ~Better(key'[i], key'[Parent(i)])
    <3>1. CASE i = j
      BY <2>1, <2>3, <2>5, <3>1
    <3>2. CASE i # j /\ Parent(i) = cur
      <4>1. i # cur
        BY <1>2, <2>6, <3>2, ParentProperties
      <4> QED
        BY <2>1, <2>3, <2>6, <3>2, <4>1
    <3>3. CASE i = cur
      BY <1>1, <1>2, <2>1, <2>3, <2>6, <3>3, ParentProperties
    <3>4. CASE i # j /\ i # cur /\ Parent(i) # cur
      BY <1>1, <1>2, <2>3, <2>6, <3>4
    <3> QED
      BY <3>1, <3>2, <3>3, <3>4
  <2>7. ASSUME NEW i \in Filled, i # 0, Parent(i) = j PROVE ~Better(key'[i], key'[Parent(j)])
    <3>1. i # j /\ i # cur
      BY <1>2, <2>1, <2>7, ParentProperties
    <3> QED
      BY <1>1, <2>1, <2>3, <2>7, <3>1
  <2>8. Order'
    BY <2>1, <2>2, <2>3, <2>6, <2>7 DEF Order, Ordered, Compare
  <2> QED
    BY <2>2, <2>3, <2>4, <2>8 DEF HeapInv
<1> QED
  BY <1>3, <1>4

LEMMA AddInv == ASSUME HeapInv, NEW p \in Payload, NEW k \in Key, Add(p, k) PROVE HeapInv'
<1> USE DEF Add
<1>1. /\ TypeOK /\ EntriesKept /\ pc = "idle" /\ keyOf[p] = Absent
      /\ \A i \in Filled \ {0} : Ordered(i)
  BY DEF HeapInv, Order
<1>2. Filled \subseteq Slot /\ Filled \subseteq Nat /\ \A i \in Filled \ {0} : Parent(i) \in Filled
  BY FilledSlots DEF HeapInv
<1>3. used < size' /\ used \in Slot /\ used \in Nat /\ size' \in 1 .. MaxSize
  BY <1>1 DEF TypeOK, Slot
<1>4. Filled' = Filled \cup {used} /\ used \notin Filled
  BY <1>1, <1>3 DEF Filled
<1>5. TypeOK'
  BY <1>1, <1>3 DEF TypeOK
<1>6. /\ key'[used] = k /\ payload'[used] = p /\ position'[used] = used
      /\ \A i \in Filled : /\ key'[i] = key[i] /\ payload'[i] = payload[i]
                           /\ position'[i] = position[i]
  BY <1>1, <1>2, <1>3, <1>4 DEF TypeOK
<1>7. keyOf'[p] = k /\ k # Absent /\ \A q \in Payload \ {p} : keyOf'[q] = keyOf[q]
  BY <1>1 DEF TypeOK, Key, Absent
<1>8. \A i \in Filled : payload[i] # p
  BY <1>1, <1>2 DEF EntriesKept, TypeOK, Key, Absent
<1>9. EntriesKept'
  <2>1. \A i \in Filled' : /\ payload'[i] \in Payload /\ keyOf'[payload'[i]] = key'[i]
                           /\ position'[i] = i
    BY <1>1, <1>4, <1>6, <1>7, <1>8 DEF EntriesKept
  <2>2. \A i, j \in Filled' : payload'[i] = payload'[j] => i = j
    BY <1>1, <1>4, <1>6, <1>8 DEF EntriesKept
  <2>3. ASSUME NEW q \in Payload, keyOf'[q] # Absent PROVE \E i \in Filled' : payload'[i] = q
    BY <1>1, <1>4, <1>6, <1>7, <2>3 DEF EntriesKept
  <2> QED
    BY <2>1, <2>2, <2>3 DEF EntriesKept
<1>10. Order'
  <2>1. cur' = used /\ pc' = "add"
    OBVIOUS
  <2>2. ASSUME NEW i \in Filled \ {0} PROVE Ordered(i)'
    BY <1>1, <1>2, <1>6, <2>2 DEF Ordered, Compare
  <2>3. \A i \in Filled' \ {0} : Parent(i) # used
    <3>1. \A i \in Filled' : i \in Nat /\ i <= used
      BY <1>1, <1>2, <1>3, <1>4 DEF Filled
    <3> QED
      BY <1>3, <3>1, ParentProperties
  <2> QED
    BY <1>4, <2>1, <2>2, <2>3 DEF Order
<1>11. Shown'
  BY <1>1, <1>7 DEF HeapInv, Shown
<1> QED
  BY <1>3, <1>5, <1>9, <1>10, <1>11 DEF HeapInv

LEMMA UpdateKeyInv ==
  ASSUME HeapInv, NEW e \in Slot, NEW k \in Key, UpdateKey(e, k) PROVE HeapInv'
<1> USE DEF UpdateKey
<1> DEFINE p == payload[e]
<1>1. /\ TypeOK /\ EntriesKept /\ pc = "idle" /\ e \in Filled
      /\ \A i \in Filled \ {0} : ~Better(key[i], key[Parent(i)])
  BY DEF HeapInv, Order, Ordered, Compare, TypeOK, Filled, Slot
<1>2. \A i \in Filled : i \in Nat /\ i \in Slot /\ key[i] \in Int /\ (i # 0 => Parent(i) \in Filled)
  BY FilledSlots DEF HeapInv
<1>3. Filled' = Filled
  BY <1>1 DEF Filled
<1>4. p \in Payload /\ position[e] = e
  BY <1>1 DEF EntriesKept
<1>5. key'[e] = k /\ k \in Int /\ \A i \in Filled \ {e} : key'[i] = key[i]
  BY <1>1, <1>2 DEF TypeOK, Key
<1>6. keyOf'[p] = k /\ k # Absent /\ \A q \in Payload \ {p} : keyOf'[q] = keyOf[q]
  BY <1>1, <1>4 DEF TypeOK, Key, Absent
<1>7. cur' = e
  BY <1>4
<1>8. TypeOK'
  BY <1>1, <1>4 DEF TypeOK
<1>9. Shown'
  BY <1>1, <1>4, <1>6 DEF HeapInv, Shown
<1> HIDE DEF p
<1>10. EntriesKept'
  <2>1. \A i \in Filled : i # e => payload[i] # p
    BY <1>1 DEF EntriesKept, p
  <2> QED
    BY <1>1, <1>3, <1>5, <1>6, <2>1 DEF EntriesKept, p
<1>11. ASSUME NEW i \in Filled, i # 0, Parent(i) = e, e > 0
       PROVE  ~Better(key'[i], key'[Parent(e)])
  <2>1. i # e /\ Parent(e) # e /\ Parent(e) \in Filled
    BY <1>1, <1>2, <1>11, ParentProperties
  <2>2. ~Better(key[i], key[e]) /\ ~Better(key[e], key[Parent(e)])
    BY <1>1, <1>11
  <2>3. key'[i] = key[i] /\ key'[Parent(e)] = key[Parent(e)]
    BY <1>5, <2>1
  <2> QED
    BY <1>1, <1>2, <2>1, <2>2, <2>3, BetterOrder
<1>12. ASSUME NEW i \in Filled, i # 0, i # e, Parent(i) # e
       PROVE  ~Better(key'[i], key'[Parent(i)])
  BY <1>1, <1>2, <1>5, <1>12
<1>13. CASE (k < key[e]) = MinHeap
  <2>1. pc' = "up" /\ ~Better(key[e], k)
    BY <1>1, <1>2, <1>5, <1>13 DEF Better
  <2>2. ASSUME NEW i \in Filled, i # 0, i # e, Parent(i) = e
        PROVE  ~Better(key'[i], key'[Parent(i)])
    <3>1. ~Better(key[i], key[e]) /\ key'[i] = key[i]
      BY <1>1, <1>5, <2>2
    <3> QED
      BY <1>1, <1>2, <1>5, <2>1, <2>2, <3>1, BetterOrder
  <2>3. Order'
    BY <1>1, <1>3, <1>7, <1>11, <1>12, <2>1, <2>2 DEF Order, Ordered, Compare
  <2> QED
    BY <1>8, <1>9, <1>10, <2>1, <2>3 DEF HeapInv
<1>14. CASE (k < key[e]) # MinHeap
  <2>1. pc' = "down" /\ ~Better(k, key[e])
    BY <1>1, <1>2, <1>5, <1>14 DEF Better
  <2>2. ASSUME e # 0 PROVE ~Better(key'[e], key'[Parent(e)])
    <3>1. Parent(e) \in Filled /\ Parent(e) # e /\ ~Better(key[e], key[Parent(e)])
      BY <1>1, <1>2, <2>2, ParentProperties
    <3> QED
      BY <1>1, <1>2, <1>5, <2>1, <3>1, BetterOrder
  <2>3. Order'
    BY <1>1, <1>3, <1>7, <1>11, <1>12, <2>1, <2>2 DEF Order, Ordered, Compare
  <2> QED
    BY <1>8, <1>9, <1>10, <2>1, <2>3 DEF HeapInv
<1> QED
  BY <1>13, <1>14

LEMMA Stuttering == ASSUME HeapInv, UNCHANGED vars PROVE HeapInv'
  BY DEF vars, HeapInv, TypeOK, EntriesKept, Filled, Order, Ordered, Compare, Shown

\* The inductive invariant holds in every reachable state.
THEOREM Invariance == Spec => []HeapInv
<1>1. HeapInv /\ [Next]_vars => HeapInv'
  BY AddInv, UpdateKeyInv, AddStepInv, UpStepInv, DownStepInv, Stuttering DEF Next, Loop
<1> QED
  BY <1>1, InitHeapInv, PTL DEF Spec

\* Every entry is in the heap once, with the key it was last given and with its
\* own position.
THEOREM Entries == Spec => []EntriesKept
<1>1. ASSUME HeapInv PROVE EntriesKept
  BY <1>1 DEF HeapInv
<1> QED
  BY <1>1, Invariance, PTL

\* io_heapify and io_heap_add stay inside the array, which is grown in time.
THEOREM Bounds == Spec => []InBounds
<1>1. ASSUME HeapInv PROVE InBounds
  BY <1>1 DEF HeapInv, InBounds, Filled, TypeOK
<1> QED
  BY <1>1, Invariance, PTL

\* Between two calls the tree is in order and its root has a best key.
THEOREM RootOrder == Spec => [](HeapOrder /\ RootIsBest)
<1>1. ASSUME HeapInv PROVE HeapOrder /\ RootIsBest
  <2>1. HeapOrder
    BY <1>1 DEF HeapInv, Order, Ordered, HeapOrder
  <2>2. RootIsBest
    BY <1>1, RootBest DEF HeapInv, Order, RootIsBest
  <2> QED
    BY <2>1, <2>2
<1> QED
  BY <1>1, Invariance, PTL

\* What a call shows when it returns is a map with a best root.
LEMMA ReturnShows ==
  ASSUME HeapInv, HeapInv', Return, pc # "idle", UNCHANGED keyOf, used' \in Nat \ {0}
  PROVE  \E p \in Payload, k \in Key : Abstract!Give(p, k)
<1>1. PICK p \in Payload : keyOf[p] # Absent /\ \A q \in Payload \ {p} : keyOf[q] = keys[q]
  BY DEF HeapInv, Shown
<1>2. keyOf[p] \in Key /\ keys' = [keys EXCEPT ![p] = keyOf[p]]
  BY <1>1 DEF HeapInv, TypeOK, Return, Absent, Key
<1>3. pc' = "idle" /\ keys' = keyOf' /\ root' = payload'[0]
  BY DEF Return, array
<1>4. RootIsBest'
  <2>1. key' \in [Slot -> Key] /\ \A i \in Filled' \ {0} : ~Better(key'[i], key'[Parent(i)])
    BY <1>3 DEF HeapInv, TypeOK, Order, Ordered, Compare
  <2>2. Filled' = 0 .. (used' - 1) /\ Filled' \subseteq Slot
    BY <1>3 DEF HeapInv, Filled, TypeOK, Slot
  <2>3. \A i \in 0 .. (used' - 1) : key'[i] \in Int
    <3>1. Key \subseteq Int
      BY DEF Key
    <3> QED
      BY <2>1, <2>2, <3>1
  <2>4. \A i \in 1 .. (used' - 1) : ~Better(key'[i], key'[Parent(i)])
    <3>1. \A n \in Nat : \A i \in 1 .. (n - 1) : i \in (0 .. (n - 1)) \ {0}
      OBVIOUS
    <3> QED
      BY <2>1, <2>2, <3>1
  <2>5. \A i \in 0 .. (used' - 1) : ~Better(key'[i], key'[0])
    BY <2>3, <2>4, OrderedRoot
  <2> QED
    BY <2>2, <2>5 DEF RootIsBest, Compare
<1>5. root' \in Abstract!BestOf(keys')
  <2>1. EntriesKept' /\ TypeOK' /\ 0 \in Filled'
    BY <1>3 DEF HeapInv, Filled, TypeOK
  <2>2. payload'[0] \in Payload /\ keyOf'[payload'[0]] = key'[0] /\ key'[0] # Absent
    BY <2>1, <1>3 DEF EntriesKept, TypeOK, Key, Absent, Slot, Filled
  <2>3. ASSUME NEW q \in Payload, keyOf'[q] # Absent PROVE ~Better(keyOf'[q], key'[0])
    <3>1. PICK i \in Filled' : payload'[i] = q
      BY <2>1, <2>3 DEF EntriesKept
    <3>2. keyOf'[q] = key'[i]
      BY <2>1, <3>1 DEF EntriesKept
    <3> QED
      BY <1>3, <1>4, <3>1, <3>2 DEF RootIsBest, Compare
  <2> QED
    BY <1>3, <2>2, <2>3 DEF Abstract!BestOf, Abstract!Absent, Absent, Abstract!Better, Better
<1> QED
  BY <1>2, <1>5 DEF Abstract!Give

\* The array implements the map with a best root of AbstractHeap.
THEOREM Refinement == Spec => ImplementsHeap
<1>1. Init => Abstract!Init
  BY DEF Init, Abstract!Init, Abstract!Absent, Absent
<1>2. ASSUME HeapInv, HeapInv', [Next]_vars PROVE [Abstract!Next]_(Abstract!vars)
  <2> USE DEF Abstract!vars, Abstract!Next, Abstract!Key, Key
  <2>1. CASE Return /\ Loop
    <3>1. pc # "idle" /\ UNCHANGED keyOf /\ used' \in Nat \ {0}
      BY <1>2, <2>1 DEF Loop, AddStep, UpStep, DownStep, Return, HeapInv, Order, Filled, TypeOK
    <3> QED
      BY <1>2, <2>1, <3>1, ReturnShows
  <2>2. CASE ~(Return /\ Loop)
    <3>1. UNCHANGED <<keys, root>>
      BY <1>2, <2>2 DEF Next, Loop, vars, Add, UpdateKey, AddStep, UpStep, DownStep, Continue
    <3> QED
      BY <3>1
  <2> QED
    BY <2>1, <2>2
<1> QED
  BY <1>1, <1>2, Invariance, PTL DEF Spec, ImplementsHeap, Abstract!Spec
=============================================================================
