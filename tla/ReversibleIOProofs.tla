------------------------- MODULE ReversibleIOProofs -------------------------
(***************************************************************************)
(* Proofs about ReversibleIO, for any number of LPs, any timestamps and    *)
(* any number of operations.                                               *)
(***************************************************************************)
EXTENDS ReversibleIO, TLAPS

\* The root of the heap has the smallest key.
RootIsSmallest == \A l \in LP : key[root] <= key[l]

\* The output is not behind any key.
KeysNotBehind == out.later => \A l \in LP : out.ts <= key[l]

\* The loop of reversibleio_execute is not ahead of the output.
LoopBehindOutput == timestamp <= out.ts

\* The inductive invariant.
IInv == TypeOK /\ WindowsSorted /\ RootIsSmallest /\ KeysNotBehind /\ LoopBehindOutput

LEMMA InitIInv == Init => IInv
<1> USE NAssumption, BoundsAssumption DEF LP, Ts
<1> SUFFICES ASSUME Init PROVE IInv
  OBVIOUS
<1>1. TypeOK
  BY DEF Init, TypeOK
<1>2. WindowsSorted
  BY DEF Init, WindowsSorted
<1>3. RootIsSmallest /\ KeysNotBehind /\ LoopBehindOutput
  BY DEF Init, RootIsSmallest, KeysNotBehind, LoopBehindOutput
<1> QED
  BY <1>1, <1>2, <1>3 DEF IInv

\* What no step but Merge and Poll touches.
LEMMA SameWindows ==
  ASSUME IInv, TypeOK', UNCHANGED <<window, taken, heapVars, out>>,
         timestamp' \in {timestamp, 0}
  PROVE  IInv'
<1>1. WindowsSorted' /\ RootIsSmallest' /\ KeysNotBehind'
  BY DEF IInv, WindowsSorted, RootIsSmallest, KeysNotBehind, heapVars
<1>2. timestamp' <= out'.ts
  BY DEF IInv, LoopBehindOutput, TypeOK, Ts
<1> QED
  BY <1>1, <1>2 DEF IInv, LoopBehindOutput

LEMMA MergeInv ==
  ASSUME IInv, NEW l \in LP, NEW t \in Ts, Merge(l, t)
  PROVE  IInv'
<1> DEFINE w == window[l]
<1>1. w \in Seq(Ts) /\ window' = [window EXCEPT ![l] = Append(w, t)]
  BY DEF IInv, TypeOK, Merge
<1>2. UNCHANGED <<per_lp_horizon, taken, pc, key, root, mpc, mlp, i, event_horizon,
                  timestamp, out, stopped>>
  BY DEF Merge, heapVars, loopVars
<1>3. window' \in [LP -> Seq(Ts)]
  BY <1>1 DEF IInv, TypeOK
<1>4. TypeOK'
  BY <1>2, <1>3 DEF IInv, TypeOK
<1>5. RootIsSmallest' /\ KeysNotBehind' /\ LoopBehindOutput'
  BY <1>2 DEF IInv, RootIsSmallest, KeysNotBehind, LoopBehindOutput
<1>6. key[l] \in Int /\ taken[l] \in Nat /\ t \in Int /\ \A n \in 1 .. Len(w) : w[n] \in Int
  <2>1. key[l] \in Ts /\ taken[l] \in Nat /\ \A n \in 1 .. Len(w) : w[n] \in Ts
    BY <1>1 DEF IInv, TypeOK
  <2> QED
    BY <2>1 DEF Ts
<1>7. key[l] <= t /\ \A n \in 1 .. Len(w) : w[n] <= t
  <2>1. CASE w = <<>>
    BY <1>6, <2>1, BoundsAssumption DEF IInv, WindowsSorted, Ts
  <2>2. CASE w # <<>>
    <3>1. Len(w) \in 1 .. Len(w)
      BY <1>1, <2>2
    <3>2. w[Len(w)] <= t
      BY <2>2 DEF Merge, NotBefore
    <3>3. key[l] <= w[Len(w)] /\ \A n \in 1 .. Len(w) : w[n] <= w[Len(w)]
      BY <3>1 DEF IInv, WindowsSorted
    <3> QED
      BY <1>6, <3>1, <3>2, <3>3
  <2> QED
    BY <2>1, <2>2
<1>8. WindowsSorted'
  <2> SUFFICES ASSUME NEW k \in LP
               PROVE  /\ \A n \in 1 .. Len(window'[k]) :
                           /\ key[k] <= window'[k][n]
                           /\ \A m \in 1 .. n : window'[k][m] <= window'[k][n]
                      /\ taken[k] = 0 => key[k] = 0
                      /\ taken[k] > 0 => window'[k] # <<>> /\ key[k] = window'[k][1]
    BY <1>2 DEF WindowsSorted
  <2>1. CASE k # l
    BY <1>1, <2>1 DEF IInv, TypeOK, WindowsSorted
  <2>2. CASE k = l
    <3>1. /\ window'[k] = Append(w, t) /\ Len(window'[k]) = Len(w) + 1
          /\ window'[k][Len(w) + 1] = t
          /\ \A n \in 1 .. Len(w) : window'[k][n] = w[n]
      BY <1>1, <2>2 DEF IInv, TypeOK
    <3>2. \A n \in 1 .. Len(w) : key[l] <= w[n] /\ \A m \in 1 .. n : w[m] <= w[n]
      BY DEF IInv, WindowsSorted
    <3>3. taken[l] = 0 => key[l] = 0
      BY DEF IInv, WindowsSorted
    <3>4. taken[l] > 0 => 1 \in 1 .. Len(w) /\ key[l] = w[1]
      BY <1>1 DEF IInv, WindowsSorted
    <3>5. Len(w) \in Nat
      BY <1>1
    <3> HIDE DEF w
    <3> QED
      BY <1>6, <1>7, <2>2, <3>1, <3>2, <3>3, <3>4, <3>5
  <2> QED
    BY <2>1, <2>2
<1> QED
  BY <1>4, <1>5, <1>8 DEF IInv

\* What Poll takes from the window of the root, and what is left.
LEMMA PollFacts ==
  ASSUME IInv, Poll
  PROVE  /\ root \in LP /\ window[root] \in Seq(Ts) /\ Len(window[root]) > 1
         /\ key' = [key EXCEPT ![root] = window[root][2]]
         /\ out' = [ts |-> window[root][1], later |-> \A l \in LP : taken[l] > 0]
         /\ window' = [window EXCEPT ![root] = Tail(window[root])]
         /\ taken' = [taken EXCEPT ![root] = taken[root] + 1]
         /\ window[root][1] \in Ts /\ window[root][2] \in Ts
         /\ key[root] <= window[root][1] /\ window[root][1] <= window[root][2]
<1>1. root \in LP /\ window[root] \in Seq(Ts) /\ Len(window[root]) > 1
  BY DEF IInv, TypeOK, Poll, CanPop
<1>2. 1 \in 1 .. Len(window[root]) /\ 2 \in 1 .. Len(window[root]) /\ 1 \in 1 .. 2
  BY <1>1
<1>3. window[root][1] \in Ts /\ window[root][2] \in Ts
  BY <1>1, <1>2
<1>4. key[root] <= window[root][1] /\ window[root][1] <= window[root][2]
  BY <1>1, <1>2 DEF IInv, WindowsSorted
<1> QED
  BY <1>1, <1>3, <1>4 DEF Poll

LEMMA PollInv ==
  ASSUME IInv, Poll
  PROVE  IInv'
<1> DEFINE w == window[root]
<1>1. /\ root \in LP /\ w \in Seq(Ts) /\ Len(w) > 1
      /\ key' = [key EXCEPT ![root] = w[2]]
      /\ out' = [ts |-> w[1], later |-> \A l \in LP : taken[l] > 0]
      /\ window' = [window EXCEPT ![root] = Tail(w)]
      /\ taken' = [taken EXCEPT ![root] = taken[root] + 1]
      /\ w[1] \in Ts /\ w[2] \in Ts /\ key[root] <= w[1] /\ w[1] <= w[2]
  BY PollFacts
<1>2. Tail(w) \in Seq(Ts) /\ Len(Tail(w)) = Len(w) - 1 /\ Len(w) \in Nat
      /\ \A n \in 1 .. (Len(w) - 1) : Tail(w)[n] = w[n + 1]
  BY <1>1
<1>3. key \in [LP -> Ts] /\ taken \in [LP -> Nat] /\ window \in [LP -> Seq(Ts)]
  BY DEF IInv, TypeOK
<1>4. root' \in LP /\ \A l \in LP : ~(key'[l] < key'[root'])
  <2>1. \A l \in LP : key'[l] \in Ts /\ key'[l] # Heap!Absent
    BY <1>1, <1>3 DEF Heap!Absent, Ts
  <2>2. root' \in Heap!BestOf(key')
    BY DEF Poll
  <2> QED
    BY <2>1, <2>2 DEF Heap!BestOf, Heap!Better
<1>5. TypeOK'
  <2>1. timestamp' = w[1] /\ UNCHANGED <<per_lp_horizon, pc, mpc, mlp, i, event_horizon, stopped>>
    BY DEF Poll
  <2>2. key' \in [LP -> Ts] /\ taken' \in [LP -> Nat] /\ window' \in [LP -> Seq(Ts)]
    BY <1>1, <1>2, <1>3
  <2>3. out' \in [ts : Ts, later : BOOLEAN]
    BY <1>1, <1>3 DEF IInv, TypeOK
  <2> QED
    BY <1>1, <1>4, <2>1, <2>2, <2>3 DEF IInv, TypeOK
<1>6. RootIsSmallest'
  <2>1. \A l \in LP : key'[l] \in Int
    BY <1>1, <1>3 DEF Ts
  <2> QED
    BY <1>4, <2>1 DEF RootIsSmallest
<1>7. KeysNotBehind'
  <2> SUFFICES ASSUME out'.later, NEW l \in LP PROVE out'.ts <= key'[l]
    BY DEF KeysNotBehind
  <2>1. key[l] \in Int /\ key[root] \in Int /\ w[1] \in Int /\ out.ts \in Int
        /\ key[root] <= key[l]
    BY <1>1, <1>3 DEF Ts, IInv, TypeOK, RootIsSmallest
  <2>2. key[root] = w[1] /\ w[1] <= w[2]
    BY <1>1 DEF IInv, WindowsSorted
  <2> QED
    BY <1>1, <1>3, <2>1, <2>2
<1>8. WindowsSorted'
  <2> SUFFICES ASSUME NEW k \in LP
               PROVE  /\ \A n \in 1 .. Len(window'[k]) :
                           /\ key'[k] <= window'[k][n]
                           /\ \A m \in 1 .. n : window'[k][m] <= window'[k][n]
                      /\ taken'[k] = 0 => key'[k] = 0
                      /\ taken'[k] > 0 => window'[k] # <<>> /\ key'[k] = window'[k][1]
    BY DEF WindowsSorted
  <2>1. CASE k # root
    BY <1>1, <1>3, <2>1 DEF IInv, WindowsSorted
  <2>2. CASE k = root
    <3>1. window'[k] = Tail(w) /\ key'[k] = w[2] /\ taken'[k] > 0
      BY <1>1, <1>3, <2>2
    <3>2. \A n \in 1 .. Len(w) : \A m \in 1 .. n : w[m] <= w[n]
      BY <1>1 DEF IInv, WindowsSorted
    <3>3. \A n \in 1 .. (Len(w) - 1) : n + 1 \in 1 .. Len(w) /\ 2 \in 1 .. (n + 1)
                                       /\ \A m \in 1 .. n : m + 1 \in 1 .. (n + 1)
                                                            /\ m \in 1 .. (Len(w) - 1)
      BY <1>2
    <3>4. \A n \in 1 .. (Len(w) - 1) :
            /\ w[2] <= Tail(w)[n]
            /\ \A m \in 1 .. n : Tail(w)[m] <= Tail(w)[n]
      BY <1>2, <3>2, <3>3
    <3>5. 1 \in 1 .. (Len(w) - 1) /\ Tail(w)[1] = w[2] /\ Tail(w) # <<>>
      <4>1. 1 \in 1 .. (Len(w) - 1) /\ 1 + 1 = 2
        BY <1>1, <1>2
      <4>2. Tail(w)[1] = w[2] /\ Len(Tail(w)) # 0
        BY <1>1, <1>2, <4>1
      <4>3. Len(<< >>) = 0
        OBVIOUS
      <4>4. Tail(w) # << >>
        BY <4>2, <4>3
      <4> QED
        BY <4>1, <4>2, <4>4
    <3> HIDE DEF w
    <3> QED
      BY <1>2, <3>1, <3>4, <3>5
  <2> QED
    BY <2>1, <2>2
<1>9. LoopBehindOutput'
  <2>1. timestamp' = w[1] /\ out'.ts = w[1] /\ w[1] \in Int
    BY <1>1 DEF Poll, Ts
  <2> QED
    BY <2>1 DEF LoopBehindOutput
<1> QED
  BY <1>5, <1>6, <1>7, <1>8, <1>9 DEF IInv

LEMMA CollectInv ==
  ASSUME IInv, NEW l \in LP, NEW h \in Ts, Collect(l, h) \/ EndCollect(l) \/ Execute(l)
  PROVE  IInv'
<1>1. CASE Collect(l, h)
  <2>1. TypeOK' /\ UNCHANGED <<window, taken, heapVars, out>> /\ timestamp' \in {timestamp, 0}
    BY <1>1 DEF IInv, TypeOK, Collect, heapVars, loopVars
  <2> QED
    BY <2>1, SameWindows
<1>2. CASE EndCollect(l)
  <2>1. mlp' \in LP \cup {NoLP}
    BY <1>2 DEF IInv, TypeOK, EndCollect
  <2>2. TypeOK' /\ UNCHANGED <<window, taken, heapVars, out>> /\ timestamp' \in {timestamp, 0}
    BY <1>2, <2>1 DEF IInv, TypeOK, EndCollect, heapVars, loopVars
  <2> QED
    BY <2>2, SameWindows
<1>3. CASE Execute(l)
  <2>1. TypeOK' /\ UNCHANGED <<window, taken, heapVars, out>> /\ timestamp' \in {timestamp, 0}
    BY <1>3 DEF IInv, TypeOK, Execute, heapVars, loopVars
  <2> QED
    BY <2>1, SameWindows
<1> QED
  BY <1>1, <1>2, <1>3

LEMMA ExecuteInv ==
  ASSUME IInv, Scan \/ EndScan \/ EndExecute
  PROVE  IInv'
<1>1. CASE Scan
  <2>1. i' \in 0 .. N /\ event_horizon' \in Ts \cup {NaN, -1}
    BY <1>1, NAssumption DEF IInv, TypeOK, Scan, LP
  <2>2. TypeOK' /\ UNCHANGED <<window, taken, heapVars, out>> /\ timestamp' \in {timestamp, 0}
    BY <1>1, <2>1 DEF IInv, TypeOK, Scan, heapVars
  <2> QED
    BY <2>2, SameWindows
<1>2. CASE EndScan
  <2>1. TypeOK' /\ UNCHANGED <<window, taken, heapVars, out>> /\ timestamp' \in {timestamp, 0}
    BY <1>2 DEF IInv, TypeOK, EndScan, heapVars, loopVars
  <2> QED
    BY <2>1, SameWindows
<1>3. CASE EndExecute
  <2>1. i' \in 0 .. N /\ timestamp' \in Ts /\ event_horizon' \in Ts \cup {NaN, -1}
    BY <1>3, NAssumption, BoundsAssumption DEF IInv, TypeOK, EndExecute, Ts
  <2>2. pc' \in [LP -> {"idle", "execute", "clean", "merge"}] /\ mpc' \in {"idle", "scan", "poll", "done"}
    BY <1>3 DEF IInv, TypeOK, EndExecute
  <2>3. TypeOK' /\ UNCHANGED <<window, taken, heapVars, out>> /\ timestamp' \in {timestamp, 0}
    BY <1>3, <2>1, <2>2 DEF IInv, TypeOK, EndExecute, heapVars
  <2> QED
    BY <2>3, SameWindows
<1> QED
  BY <1>1, <1>2, <1>3

LEMMA EndInv ==
  ASSUME IInv, Stop \/ Flush \/ UNCHANGED vars
  PROVE  IInv'
<1>1. TypeOK' /\ UNCHANGED <<window, taken, heapVars, out>> /\ timestamp' \in {timestamp, 0}
  BY DEF IInv, TypeOK, Stop, Flush, vars, heapVars, loopVars
<1> QED
  BY <1>1, SameWindows

\* The inductive invariant holds in every reachable state.
THEOREM Invariance == Spec => []IInv
<1>1. IInv /\ [Next]_vars => IInv'
  <2> SUFFICES ASSUME IInv, [Next]_vars PROVE IInv'
    OBVIOUS
  <2>1. ASSUME NEW l \in LP, Collector(l) \/ Execute(l) PROVE IInv'
    <3>1. 0 \in Ts
      BY BoundsAssumption DEF Ts
    <3> QED
      BY <2>1, <3>1, CollectInv, MergeInv DEF Collector
  <2>2. CASE Main
    BY <2>2, PollInv, ExecuteInv DEF Main
  <2>3. CASE Stop \/ Flush \/ Ended \/ UNCHANGED vars
    BY <2>3, EndInv DEF Ended
  <2> QED
    BY <2>1, <2>2, <2>3 DEF Next
<1> QED
  BY <1>1, InitIInv, PTL DEF Spec

\* The windows stay sorted, in the order of time of their LP's events, and the
\* heap's keys are those of their first operations.
THEOREM Sortedness == Spec => [](TypeOK /\ WindowsSorted)
<1>1. IInv => TypeOK /\ WindowsSorted
  BY DEF IInv
<1> QED
  BY <1>1, Invariance, PTL

\* Nothing still to be written is behind the output, whatever is collected
\* while the main process polls.
THEOREM OutputBehind == Spec => []NothingBehind
<1>1. ASSUME IInv PROVE NothingBehind
  <2> SUFFICES ASSUME out.later, NEW l \in LP, NEW n \in 1 .. Len(window[l])
               PROVE  out.ts <= window[l][n]
    BY DEF NothingBehind
  <2>1. out.ts <= key[l] /\ key[l] <= window[l][n]
    BY <1>1 DEF IInv, KeysNotBehind, WindowsSorted
  <2>2. out.ts \in Int /\ key[l] \in Int /\ window[l][n] \in Int
    <3>1. out.ts \in Ts /\ key[l] \in Ts /\ window[l] \in Seq(Ts)
      BY <1>1 DEF IInv, TypeOK
    <3>2. window[l][n] \in Ts
      BY <3>1
    <3> QED
      BY <3>1, <3>2 DEF Ts
  <2> QED
    BY <2>1, <2>2
<1> QED
  BY <1>1, Invariance, PTL

\* Once every LP has written its first operation, the output is in order.
THEOREM Order == Spec => OrderedOutput
<1>1. ASSUME IInv, [Next]_vars PROVE [out.later => out.ts <= out'.ts]_vars
  <2> SUFFICES ASSUME out.later PROVE out.ts <= out'.ts
    OBVIOUS
  <2>1. CASE Poll
    <3>1. out'.ts = window[root][1] /\ root \in LP /\ key[root] <= window[root][1]
          /\ window[root][1] \in Ts
      BY <1>1, <2>1, PollFacts
    <3>2. out.ts <= key[root] /\ out.ts \in Ts /\ key[root] \in Ts
      BY <1>1, <3>1 DEF IInv, KeysNotBehind, TypeOK
    <3> QED
      BY <3>1, <3>2 DEF Ts
  <2>2. CASE ~Poll
    <3>1. out' = out
      BY <1>1, <2>2 DEF Next, Collector, Main, Collect, Merge, EndCollect, Execute, Scan,
         EndScan, EndExecute, Stop, Flush, Ended, vars
    <3>2. out.ts \in Int
      BY <1>1 DEF IInv, TypeOK, Ts
    <3> QED
      BY <3>1, <3>2
  <2> QED
    BY <2>1, <2>2
<1> QED
  BY <1>1, Invariance, PTL DEF Spec, OrderedOutput

\* A call of reversibleio_execute leaves an operation before its horizon only
\* behind an LP that has none to give: the LP at the root of the heap.
THEOREM Stalled == Spec => OnlyStalled
<1>1. ASSUME IInv, EndExecute, out.later \/ Less(timestamp, event_horizon),
             NEW l \in LP, NEW n \in 1 .. Len(window[l]), Less(window[l][n], event_horizon)
      PROVE  \E s \in LP : Stalls(s, window[l][n])
  <2>1. root \in LP /\ key[root] <= key[l] /\ key[l] <= window[l][n]
    BY <1>1 DEF IInv, TypeOK, RootIsSmallest, WindowsSorted
  <2>2. window[l][n] \in Int /\ key[l] \in Int /\ key[root] \in Int
    <3>1. window[l] \in Seq(Ts) /\ key[l] \in Ts /\ key[root] \in Ts
      BY <1>1, <2>1 DEF IInv, TypeOK
    <3>2. window[l][n] \in Ts
      BY <1>1, <3>1
    <3> QED
      BY <3>1, <3>2 DEF Ts
  <2>3. CASE Less(timestamp, event_horizon)
    <3>1. ~CanPop(root) /\ taken[root] \in Nat
      BY <1>1, <2>1, <2>3 DEF EndExecute, IInv, TypeOK
    <3>2. taken[root] > 0 => window[root][1] <= window[l][n]
      BY <1>1, <2>1, <2>2 DEF IInv, WindowsSorted
    <3> QED
      BY <2>1, <3>1, <3>2 DEF Stalls
  <2>4. CASE out.later /\ ~Less(timestamp, event_horizon)
    <3>1. out.ts <= key[l] /\ timestamp <= out.ts
      BY <1>1, <2>4 DEF IInv, KeysNotBehind, LoopBehindOutput
    <3>2. event_horizon \in Int /\ timestamp \in Ts /\ timestamp # NaN /\ out.ts \in Int
          /\ event_horizon # NaN /\ window[l][n] < event_horizon
      BY <1>1 DEF IInv, TypeOK, Ts, NaN, Less
    <3>3. event_horizon <= timestamp
      BY <2>4, <3>2 DEF Less, Ts
    <3> QED
      BY <2>1, <2>2, <3>1, <3>2, <3>3 DEF Ts
  <2> QED
    BY <1>1, <2>3, <2>4
<1>2. IInv /\ [Next]_vars =>
        [EndExecute /\ (out.later \/ Less(timestamp, event_horizon)) =>
           \A l \in LP : \A n \in 1 .. Len(window[l]) :
             Less(window[l][n], event_horizon) => \E s \in LP : Stalls(s, window[l][n])]_vars
  BY <1>1
<1> QED
  BY <1>2, Invariance, PTL DEF Spec, OnlyStalled

\* Every window goes through the steps of AbstractWindow only.
THEOREM Composition == Spec => UsesWindows
<1>1. Init => \A l \in LP : Window(l)!Init
  BY DEF Init, Window!Init
<1>2. ASSUME IInv, [Next]_vars, NEW l \in LP PROVE [Window(l)!Next]_(Window(l)!vars)
  <2>1. window \in [LP -> Seq(Ts)] /\ taken \in [LP -> Nat]
    BY <1>2 DEF IInv, TypeOK
  <2>2. CASE \E k \in LP, t \in Ts : Merge(k, t)
    <3>1. PICK k \in LP, t \in Ts : Merge(k, t)
      BY <2>2
    <3>2. CASE k = l
      <4>1. taken' = taken /\ window'[l] = Append(window[l], t)
        BY <2>1, <3>1, <3>2 DEF Merge
      <4>2. Len(window'[l]) = Len(window[l]) + 1 /\ Len(window[l]) \in Nat
        BY <2>1, <4>1
      <4> QED
        BY <2>1, <4>1, <4>2 DEF Window!Next, Window!Hand
    <3>3. CASE k # l
      BY <2>1, <3>1, <3>3 DEF Merge, Window!vars
    <3> QED
      BY <3>2, <3>3
  <2>3. CASE Poll
    <3>1. /\ root \in LP /\ Len(window[root]) > 1
          /\ window' = [window EXCEPT ![root] = Tail(window[root])]
          /\ taken' = [taken EXCEPT ![root] = taken[root] + 1]
      BY <1>2, <2>3, PollFacts
    <3>2. CASE root = l
      <4>1. taken'[l] = taken[l] + 1 /\ window'[l] = Tail(window[l])
        BY <2>1, <3>1, <3>2
      <4>2. Len(window'[l]) = Len(window[l]) - 1 /\ Len(window[l]) \in Nat
        BY <2>1, <3>1, <3>2, <4>1
      <4> QED
        <5>1. taken[l] \in Nat
          BY <2>1
        <5>2. taken'[l] + Len(window'[l]) = taken[l] + Len(window[l])
              /\ taken[l] + 1 < taken[l] + Len(window[l])
          BY <3>1, <3>2, <4>1, <4>2, <5>1
        <5> QED
          BY <4>1, <5>2 DEF Window!Next, Window!Take
    <3>3. CASE root # l
      BY <2>1, <3>1, <3>3 DEF Window!vars
    <3> QED
      BY <3>2, <3>3
  <2>4. CASE ~Poll /\ ~\E k \in LP, t \in Ts : Merge(k, t)
    BY <1>2, <2>4 DEF Window!vars, Next, Collector, Main, Collect, EndCollect, Execute, Scan,
       EndScan, EndExecute, Stop, Flush, Ended, vars
  <2> QED
    BY <2>2, <2>3, <2>4
<1>3. IInv /\ [Next]_vars => [\A l \in LP : [Window(l)!Next]_(Window(l)!vars)]_vars
  BY <1>2
<1> QED
  BY <1>1, <1>3, Invariance, PTL DEF Spec, UsesWindows
=============================================================================
