---------------------------- MODULE HandedProofs ----------------------------
(***************************************************************************)
(* Proofs about what EventQueue hands over for output: that it is, event   *)
(* by event and in the order of time, what committed events wrote last.    *)
(***************************************************************************)
EXTENDS EventQueueProofs

Operation == Event \X Nat
-----------------------------------------------------------------------------
(* The walk of reversibleio_collect over the windows of S.                 *)

Own(S, e) == IF e \in S THEN window[e].ops ELSE <<>>

\* g[e] is what was collected when the walk has passed e.
IsWalk(g, n, S) ==
  /\ g \in [0 .. n -> Seq(Operation)]
  /\ \A e \in 0 .. n : g[e] = (IF e = INIT THEN <<>> ELSE g[e - 1]) \o Own(S, e)

LEMMA OwnType ==
  ASSUME StateOK, NEW S \in SUBSET Event, NEW e \in Event
  PROVE  Own(S, e) \in Seq(Operation)
<1>1. window[e] \in AWindow
  BY DEF StateOK, IoOK
<1>2. window[e].ops \in Seq(Operation) /\ <<>> \in Seq(Operation)
  BY <1>1 DEF AWindow, Operation
<1> QED
  BY <1>2 DEF Own

LEMMA WalkExists ==
  ASSUME StateOK, NEW S \in SUBSET Event, NEW n \in Event
  PROVE  \E g : IsWalk(g, n, S)
<1> DEFINE T == {m \in Event : ~\E g : IsWalk(g, m, S)}
<1>1. SUFFICES ASSUME T # {} PROVE FALSE
  OBVIOUS
<1>2. PICK m \in T : \A k \in T : m <= k
  <2>1. T \in SUBSET Event
    OBVIOUS
  <2> QED
    BY <1>1, <2>1, EarliestOf
<1>3. m \in Event /\ m \in Nat /\ ~\E g : IsWalk(g, m, S)
  BY <1>2, Events
<1>4. Own(S, m) \in Seq(Operation)
  BY <1>3, OwnType
<1>5. CASE m = INIT
  <2> DEFINE h == [e \in 0 .. m |-> Own(S, m)]
  <2>1. Own(S, m) = <<>> \o Own(S, m)
    BY <1>4
  <2>2. \A e \in 0 .. m : e = m /\ e = INIT
    BY <1>5 DEF INIT
  <2>3. h \in [0 .. m -> Seq(Operation)] /\ \A e \in 0 .. m : h[e] = <<>> \o Own(S, e)
    BY <1>4, <2>1, <2>2
  <2>4. IsWalk(h, m, S)
    BY <2>2, <2>3 DEF IsWalk
  <2> QED
    BY <1>3, <2>4
<1>6. CASE m # INIT
  <2>1. m - 1 \in Event /\ m - 1 \in Nat /\ m - 1 < m /\ m - 1 \in 0 .. m - 1
    BY <1>3, <1>6, BoundsAssumption DEF Event, INIT
  <2>2. m - 1 \notin T
    BY <1>2, <1>3, <2>1
  <2>3. PICK g : IsWalk(g, m - 1, S)
    BY <2>1, <2>2
  <2> DEFINE h == [e \in 0 .. m |-> IF e = m THEN g[m - 1] \o Own(S, m) ELSE g[e]]
  <2>4. \A e \in 0 .. m : e # m => e \in 0 .. m - 1
    BY <1>3
  <2>5. g \in [0 .. m - 1 -> Seq(Operation)]
    BY <2>3 DEF IsWalk
  <2>6. g[m - 1] \o Own(S, m) \in Seq(Operation)
    BY <1>4, <2>1, <2>5
  <2>7. h \in [0 .. m -> Seq(Operation)]
    BY <2>4, <2>5, <2>6
  <2>8. h[m] = g[m - 1] \o Own(S, m) /\ \A e \in 0 .. m - 1 : h[e] = g[e]
    BY <1>3
  <2> HIDE DEF h
  <2>9. ASSUME NEW e \in 0 .. m PROVE h[e] = (IF e = INIT THEN <<>> ELSE h[e - 1]) \o Own(S, e)
    <3>1. CASE e = m
      BY <1>6, <2>1, <2>8, <3>1
    <3>2. CASE e # m
      <4>1. e \in 0 .. m - 1 /\ (e # INIT => e - 1 \in 0 .. m - 1)
        BY <1>3, <3>2 DEF INIT
      <4>2. h[e] = g[e] /\ (e # INIT => h[e - 1] = g[e - 1])
        BY <2>8, <4>1
      <4>3. g[e] = (IF e = INIT THEN <<>> ELSE g[e - 1]) \o Own(S, e)
        BY <2>3, <4>1, Zenon DEF IsWalk
      <4> QED
        BY <4>2, <4>3
    <3> QED
      BY <3>1, <3>2
  <2>10. IsWalk(h, m, S)
    BY <2>7, <2>9 DEF IsWalk
  <2> QED
    BY <1>3, <2>10
<1> QED
  BY <1>5, <1>6

\* The recursion of WindowsOf has one solution, and it is a walk.
LEMMA WindowsWalk ==
  ASSUME StateOK, NEW S \in SUBSET Event
  PROVE  \E g : IsWalk(g, MaxTs, S) /\ WindowsOf(S) = g[MaxTs]
<1> DEFINE Solves(u) == u = [e \in Event |-> (IF e = INIT THEN <<>> ELSE u[e - 1])
                                           \o (IF e \in S THEN window[e].ops ELSE <<>>)]
           u0 == CHOOSE u : Solves(u)
<1>1. MaxTs \in Event /\ Event = 0 .. MaxTs
  BY BoundsAssumption DEF Event
<1>2. PICK g : IsWalk(g, MaxTs, S)
  BY <1>1, WalkExists
<1>3. /\ g \in [Event -> Seq(Operation)]
      /\ \A e \in Event : g[e] = (IF e = INIT THEN <<>> ELSE g[e - 1])
                                 \o (IF e \in S THEN window[e].ops ELSE <<>>)
  BY <1>1, <1>2, Zenon DEF IsWalk, Own
<1>4. Solves(g)
  BY <1>3
<1>5. Solves(u0)
  BY <1>4, Zenon
<1>6. WindowsOf(S) = u0[MaxTs]
  BY Zenon DEF WindowsOf
<1>7. \A e \in Event : u0[e] = (IF e = INIT THEN <<>> ELSE u0[e - 1])
                               \o (IF e \in S THEN window[e].ops ELSE <<>>)
  BY <1>5, Zenon
<1> HIDE DEF u0, Solves
<1> DEFINE T == {e \in Event : u0[e] # g[e]}
<1>8. ASSUME T # {} PROVE FALSE
  <2>1. PICK m \in T : \A k \in T : m <= k
    <3>1. T \in SUBSET Event
      OBVIOUS
    <3> QED
      BY <1>8, <3>1, EarliestOf
  <2>2. m \in Event /\ m \in Nat /\ u0[m] # g[m]
    BY <2>1, Events
  <2>3. m # INIT => u0[m - 1] = g[m - 1]
    <3>1. ASSUME m # INIT PROVE m - 1 \in Event /\ ~(m <= m - 1)
      BY <2>2, <3>1, BoundsAssumption DEF Event, INIT
    <3> QED
      BY <2>1, <3>1
  <2>4. u0[m] = g[m]
    BY <1>3, <1>7, <2>2, <2>3, Zenon
  <2> QED
    BY <2>2, <2>4
<1>9. u0[MaxTs] = g[MaxTs]
  BY <1>1, <1>8
<1> QED
  BY <1>2, <1>6, <1>9

LEMMA WindowsType ==
  ASSUME StateOK, NEW S \in SUBSET Event
  PROVE  WindowsOf(S) \in Seq(Operation)
<1>1. PICK g : IsWalk(g, MaxTs, S) /\ WindowsOf(S) = g[MaxTs]
  BY WindowsWalk
<1>2. MaxTs \in 0 .. MaxTs
  BY BoundsAssumption
<1> QED
  BY <1>1, <1>2 DEF IsWalk

\* The operations of s are what events of S up to e wrote last, in order.
Ordered(s, S, e) ==
  /\ s \in Seq(Operation)
  /\ \A i \in 1 .. Len(s) : /\ s[i][1] \in S /\ s[i][1] <= e
                            /\ s[i] = output[s[i][1]][1]
  /\ \A i \in 1 .. Len(s) - 1 : s[i][1] < s[i + 1][1]

\* The window of e holds one operation, which it wrote last.
Single(e) ==
  /\ window[e].ops = <<output[e][1]>>
  /\ output[e][1] \in Operation /\ output[e][1][1] = e

LEMMA OrderedPast ==
  ASSUME NEW S \in SUBSET Event, NEW e \in Event, e # INIT, NEW s, Ordered(s, S, e - 1)
  PROVE  Ordered(s, S, e)
<1>1. \A d \in S : d <= e - 1 => d <= e
  BY Events
<1>2. \A i \in 1 .. Len(s) : s[i][1] \in S /\ s[i][1] <= e - 1
  BY DEF Ordered
<1>3. \A i \in 1 .. Len(s) : s[i][1] <= e
  BY <1>1, <1>2
<1> QED
  BY <1>3 DEF Ordered

LEMMA OrderedAppend ==
  ASSUME NEW S \in SUBSET Event, NEW e \in S, e # INIT, Single(e), NEW s, Ordered(s, S, e - 1)
  PROVE  Ordered(s \o <<output[e][1]>>, S, e)
<1> DEFINE x == output[e][1]
           t == s \o <<x>>
<1>1. s \in Seq(Operation) /\ x \in Operation /\ x[1] = e /\ e \in Nat /\ S \subseteq Nat
  BY Events DEF Ordered, Single
<1> HIDE DEF x
<1>2. /\ t \in Seq(Operation) /\ Len(t) = Len(s) + 1 /\ Len(s) \in Nat /\ t[Len(t)] = x
      /\ \A i \in 1 .. Len(s) : t[i] = s[i]
  BY <1>1
<1> HIDE DEF t
<1>3. \A i \in 1 .. Len(t) : i \in 1 .. Len(s) \/ i = Len(t)
  BY <1>2
<1>4. \A i \in 1 .. Len(s) : s[i][1] \in S /\ s[i][1] \in Nat /\ s[i][1] < e /\ s[i] = output[s[i][1]][1]
  <2>1. \A i \in 1 .. Len(s) : s[i][1] \in S /\ s[i][1] <= e - 1 /\ s[i] = output[s[i][1]][1]
    BY DEF Ordered
  <2>2. \A d \in S : d \in Nat /\ (d <= e - 1 => d < e)
    BY <1>1
  <2> QED
    BY <2>1, <2>2
<1>5. ASSUME NEW i \in 1 .. Len(t)
      PROVE  t[i][1] \in S /\ t[i][1] <= e /\ t[i] = output[t[i][1]][1]
  <2>1. CASE i = Len(t)
    BY <1>1, <1>2, <2>1 DEF x
  <2>2. CASE i \in 1 .. Len(s)
    BY <1>1, <1>2, <1>4, <2>2
  <2> QED
    BY <1>3, <2>1, <2>2
<1>6. ASSUME NEW i \in 1 .. Len(t) - 1 PROVE t[i][1] < t[i + 1][1]
  <2>1. i \in 1 .. Len(s) /\ i + 1 \in 1 .. Len(t)
    BY <1>2
  <2>2. CASE i = Len(s)
    BY <1>1, <1>2, <1>4, <2>1, <2>2
  <2>3. CASE i # Len(s)
    <3>1. i \in 1 .. Len(s) - 1 /\ i + 1 \in 1 .. Len(s)
      BY <1>2, <2>1, <2>3
    <3>2. s[i][1] < s[i + 1][1]
      BY <3>1 DEF Ordered
    <3> QED
      BY <1>2, <2>1, <3>1, <3>2
  <2> QED
    BY <2>2, <2>3
<1>7. Ordered(t, S, e)
  BY <1>2, <1>5, <1>6 DEF Ordered
<1> QED
  BY <1>7 DEF t, x

LEMMA WalkOrdered ==
  ASSUME StateOK, NEW S \in SUBSET Event, \A e \in S : Single(e),
         NEW g, IsWalk(g, MaxTs, S)
  PROVE  \A e \in Event : Ordered(g[e], S, e)
<1> DEFINE T == {e \in Event : ~Ordered(g[e], S, e)}
<1>1. SUFFICES ASSUME T # {} PROVE FALSE
  OBVIOUS
<1>2. PICK m \in T : \A k \in T : m <= k
  <2>1. T \in SUBSET Event
    OBVIOUS
  <2> QED
    BY <1>1, <2>1, EarliestOf
<1>3. m \in Event /\ m \in Nat /\ ~Ordered(g[m], S, m)
  BY <1>2, Events
<1>4. /\ g[m] = (IF m = INIT THEN <<>> ELSE g[m - 1]) \o Own(S, m)
      /\ g[m] \in Seq(Operation)
      /\ m # INIT => g[m - 1] \in Seq(Operation)
  <2>1. m \in 0 .. MaxTs /\ (m # INIT => m - 1 \in 0 .. MaxTs)
    BY <1>3, BoundsAssumption DEF Event, INIT
  <2> QED
    BY <2>1, Zenon DEF IsWalk
<1>5. CASE m = INIT
  <2>1. Own(S, m) \in Seq(Operation)
    BY <1>3, OwnType
  <2>2. g[m] = Own(S, m)
    BY <1>4, <1>5, <2>1
  <2>3. CASE m \in S
    <3>1. g[m] = <<output[m][1]>> /\ output[m][1] \in Operation /\ output[m][1][1] = m
      BY <2>2, <2>3 DEF Own, Single
    <3>2. Len(g[m]) = 1 /\ g[m][1] = output[m][1]
      BY <3>1
    <3>3. 1 .. Len(g[m]) = {1} /\ 1 .. Len(g[m]) - 1 = {} /\ m <= m
      BY <1>3, <3>2
    <3> QED
      BY <1>3, <1>4, <2>3, <3>1, <3>2, <3>3 DEF Ordered
  <2>4. CASE m \notin S
    <3>1. g[m] = <<>>
      BY <2>2, <2>4 DEF Own
    <3>2. 1 .. Len(g[m]) = {} /\ 1 .. Len(g[m]) - 1 = {}
      BY <3>1
    <3> QED
      BY <1>3, <1>4, <3>2 DEF Ordered
  <2> QED
    BY <2>3, <2>4
<1>6. CASE m # INIT
  <2>1. m - 1 \in Event /\ ~(m <= m - 1)
    BY <1>3, <1>6, BoundsAssumption DEF Event, INIT
  <2>2. Ordered(g[m - 1], S, m - 1)
    BY <1>2, <2>1
  <2>3. CASE m \in S
    <3>1. g[m] = g[m - 1] \o <<output[m][1]>>
      BY <1>4, <1>6, <2>3 DEF Own, Single
    <3> QED
      BY <1>3, <1>6, <2>2, <2>3, <3>1, OrderedAppend
  <2>4. CASE m \notin S
    <3>1. g[m] = g[m - 1]
      BY <1>4, <1>6, <2>4 DEF Own
    <3> QED
      BY <1>3, <1>6, <2>2, <3>1, OrderedPast
  <2> QED
    BY <2>3, <2>4
<1> QED
  BY <1>5, <1>6

LEMMA WindowsOrdered ==
  ASSUME StateOK, NEW S \in SUBSET Event, \A e \in S : Single(e)
  PROVE  Ordered(WindowsOf(S), S, MaxTs)
<1>1. PICK g : IsWalk(g, MaxTs, S) /\ WindowsOf(S) = g[MaxTs]
  BY WindowsWalk
<1>2. MaxTs \in Event
  BY BoundsAssumption DEF Event
<1> QED
  BY <1>1, <1>2, WalkOrdered
-----------------------------------------------------------------------------
(* The invariants.                                                         *)

\* What was executed and not undone wrote one operation.
Wrote ==
  \A e \in queue \cup batch : e <= bound =>
    \E op \in Operation : op[1] = e /\ output[e] = <<op>>

\* What was handed over is of events before all that are still kept and before
\* the one at hand; what was thrown away is before what was not.
Separated ==
  /\ \A i \in 1 .. Len(handed) :
       /\ \A e \in queue \cup batch : handed[i][1] < e
       /\ Handling => handed[i][1] < cur
  /\ \A b \in batch, e \in queue : b < e

\* The inductive invariant, if every execution writes.
HandedInv == IInv /\ handed \in Seq(Operation) /\ HandedInOrder /\ Wrote /\ Separated

\* What most steps do to the queue, the output and the event at hand.
Quiet ==
  /\ UNCHANGED <<bound, output, handed>> /\ committed \subseteq committed'
  /\ queue' \cup batch' \subseteq queue \cup batch
  /\ \A b \in batch', e \in queue' : (b \in batch /\ e \in queue) \/ b < e
  /\ Handling' => (Handling /\ cur' = cur) \/ cur' \in node \/ cur' \in queue

LEMMA CleanQuiet ==
  ASSUME IInv, CleanCheckpoint
  PROVE  Quiet
<1>1. /\ UNCHANGED <<bound, output, handed, committed>> /\ pc' = "collect" /\ pc = "clean"
  BY DEF CleanCheckpoint, hVars
<1>2. queue' = queue \ batch' /\ batch' \subseteq queue
  BY CleanFacts DEF IInv
<1>3. \A b \in batch', e \in queue' : b < e
  <2>1. CASE Older(horizon) = {}
    BY <2>1 DEF CleanCheckpoint
  <2>2. CASE Older(horizon) # {}
    <3> DEFINE first == Latest(Older(horizon))
    <3>1. batch' = {e \in queue : e < first} /\ queue' = queue \ batch'
      BY <2>2 DEF CleanCheckpoint
    <3>2. first \in Nat /\ queue \subseteq Nat
      <4>1. Older(horizon) \in SUBSET Event /\ queue \subseteq Event
        BY DEF Older, Before, IInv, StateOK, LpOK
      <4> QED
        BY <2>2, <4>1, LatestOf, Events
    <3> HIDE DEF first
    <3> QED
      BY <3>1, <3>2
  <2> QED
    BY <2>1, <2>2
<1> QED
  BY <1>1, <1>2, <1>3 DEF Quiet, Handling

LEMMA StepCases ==
  ASSUME IInv, [Next]_vars
  PROVE  Quiet \/ SilentEnd \/ Execute \/ Collect
<1>1. CASE UNCHANGED vars
  BY <1>1 DEF Quiet, Handling, vars, simVars, lpVars, runVars, hVars, ioVars
<1>2. ASSUME NEW e \in Event, Send(e) \/ Invalidate(e) \/ RemoveNode(e) PROVE Quiet
  BY <1>2 DEF Send, Invalidate, RemoveNode, Quiet, Handling, simVars, lpVars, runVars, hVars, ioVars
<1>3. ASSUME NEW e \in Event, Fetch(e) PROVE Quiet
  BY <1>3 DEF Fetch, Quiet, Handling, simVars, lpVars, runVars, hVars, ioVars
<1>4. ASSUME NEW e \in Event, FetchAnti(e) PROVE Quiet
  BY <1>4 DEF FetchAnti, Quiet, Handling, simVars, lpVars, runVars, hVars, ioVars
<1>5. ASSUME NEW c \in Committer, CommitCompare(c) \/ CommitWrite(c) PROVE Quiet
  BY <1>5 DEF CommitCompare, CommitWrite, Quiet, Handling, simVars, lpVars, runVars, hVars, ioVars
<1>6. ASSUME NEW c \in Committer, NEW e \in Event, CommitDelete(c, e) PROVE Quiet
  BY <1>6 DEF CommitDelete, Quiet, Handling, simVars, lpVars, runVars, hVars, ioVars
<1>7. CASE AdvanceGvt
  BY <1>7 DEF AdvanceGvt, Quiet, Handling, simVars, lpVars, runVars, hVars, ioVars
<1>8. CASE FetchDrop
  BY <1>8 DEF FetchDrop, Quiet, Handling, runVars, hVars
<1>9. CASE FetchChoose
  <2>1. UNCHANGED <<bound, output, handed, committed, queue, batch>>
    BY <1>9 DEF FetchChoose, lpVars, hVars, ioVars
  <2>2. pc' = "idle" \/ (cur' = LocalNext /\ LocalNext # None) \/ (cur' = cur /\ state[cur] # "handled")
    BY <1>9 DEF FetchChoose
  <2>3. LocalNext # None => LocalNext \in queue
    BY LocalNextFacts DEF IInv
  <2>4. state[cur] # "handled" => cur \in node
    BY <1>9 DEF FetchChoose, IInv, Current
  <2> QED
    BY <2>1, <2>2, <2>3, <2>4 DEF Quiet, Handling
<1>10. CASE Rollback
  BY <1>10 DEF Rollback, Quiet, Handling, hVars, ioVars
<1>11. CASE SilentStep
  BY <1>11 DEF SilentStep, Quiet, Handling, hVars
<1>12. CASE AntiDone
  BY <1>12 DEF AntiDone, Quiet, Handling, lpVars, hVars, ioVars
<1>13. CASE CleanCheckpoint
  BY <1>13, CleanQuiet
<1> QED
  BY <1>1, <1>2, <1>3, <1>4, <1>5, <1>6, <1>7, <1>8, <1>9, <1>10, <1>11, <1>12, <1>13
     DEF Next, Ended

\* Committed events are before those in the calendar queue.
LEMMA CommittedBefore ==
  ASSUME IInv, NEW e \in committed, NEW d \in node
  PROVE  e < d
<1>1. e \in Event /\ d \in Event /\ gvt \in Event
  BY DEF IInv, StateOK, SimOK, HorizonOK
<1>2. e <= gvt /\ gvt <= d /\ e # d
  BY DEF IInv, Calendar
<1> QED
  BY <1>1, <1>2, Events

LEMMA HandedEvents ==
  ASSUME HandedInv
  PROVE  \A i \in 1 .. Len(handed) : handed[i][1] \in committed /\ handed[i][1] \in Event
BY DEF HandedInv, HandedInOrder, IInv, StateOK, HorizonOK

LEMMA QuietHanded ==
  ASSUME HandedInv, IInv', Quiet
  PROVE  HandedInv'
<1>1. UNCHANGED <<bound, output, handed>> /\ committed \subseteq committed'
  BY DEF Quiet
<1>2. handed' \in Seq(Operation) /\ HandedInOrder'
  BY <1>1 DEF HandedInv, HandedInOrder
<1>3. Wrote'
  BY <1>1 DEF HandedInv, Wrote, Quiet
<1>4. \A b \in batch', e \in queue' : b < e
  BY DEF Quiet, HandedInv, Separated
<1>5. ASSUME NEW i \in 1 .. Len(handed)
      PROVE  /\ \A e \in queue' \cup batch' : handed[i][1] < e
             /\ Handling' => handed[i][1] < cur'
  <2>1. /\ \A e \in queue \cup batch : handed[i][1] < e
        /\ Handling => handed[i][1] < cur
    BY DEF HandedInv, Separated
  <2>2. \A d \in node : handed[i][1] < d
    BY HandedEvents, CommittedBefore DEF HandedInv
  <2> QED
    BY <2>1, <2>2 DEF Quiet
<1>6. Separated'
  BY <1>1, <1>4, <1>5 DEF Separated
<1> QED
  BY <1>2, <1>3, <1>6 DEF HandedInv

LEMMA SilentEndHanded ==
  ASSUME HandedInv, IInv', SilentEnd
  PROVE  HandedInv'
<1>1. /\ pc = "silent" /\ queue' = queue \cup {cur} /\ bound' = pos
      /\ UNCHANGED <<output, handed, committed, batch>>
      /\ pc' = "idle" \/ (pc' = "execute" /\ cur' = cur)
  BY DEF SilentEnd, hVars, ioVars
<1>2. /\ batch = {} /\ pos < cur /\ cur <= bound
      /\ pos \in Nat /\ cur \in Nat /\ bound \in Nat /\ queue \subseteq Nat
  BY <1>1, Events DEF HandedInv, IInv, Thrown, Current, StateOK, RunOK, LpOK
<1>3. handed' \in Seq(Operation) /\ HandedInOrder'
  BY <1>1 DEF HandedInv, HandedInOrder
<1>4. Wrote'
  <2> SUFFICES ASSUME NEW e \in queue' \cup batch', e <= pos
               PROVE  \E op \in Operation : op[1] = e /\ output[e] = <<op>>
    BY <1>1 DEF Wrote
  <2>1. e \in queue /\ e <= bound
    BY <1>1, <1>2
  <2> QED
    BY <2>1 DEF HandedInv, Wrote
<1>5. ASSUME NEW i \in 1 .. Len(handed)
      PROVE  (\A e \in queue \cup batch : handed[i][1] < e) /\ handed[i][1] < cur
  BY <1>1 DEF HandedInv, Separated, Handling
<1>6. Separated'
  BY <1>1, <1>2, <1>5 DEF Separated, Handling
<1> QED
  BY <1>3, <1>4, <1>6 DEF HandedInv

LEMMA ExecuteHanded ==
  ASSUME ~MayBeMute, HandedInv, IInv', Execute
  PROVE  HandedInv'
<1> DEFINE op == <<cur, epoch>>
<1>1. /\ pc = "execute" /\ queue' = queue \cup {cur} /\ bound' = cur
      /\ output' = [output EXCEPT ![cur] = <<op>>]
      /\ UNCHANGED <<handed, committed, batch>>
      /\ ~Handling'
  BY DEF Execute, Cleans, hVars, Handling
<1>2. /\ batch = {} /\ bound < cur /\ cur \notin committed
      /\ \A e \in queue : ~(bound < e /\ e < cur)
  BY <1>1 DEF HandedInv, IInv, Thrown, Current, Executed, Handling
<1>3. /\ cur \in Event /\ bound \in Event /\ queue \subseteq Event /\ epoch \in Nat
      /\ output \in [Event -> Seq(Event \X Nat)]
  BY DEF HandedInv, IInv, StateOK, RunOK, LpOK, IoOK
<1>4. op \in Operation /\ op[1] = cur
  BY <1>3 DEF Operation
<1> HIDE DEF op
<1>5. output'[cur] = <<op>> /\ \A e \in Event : e # cur => output'[e] = output[e]
  BY <1>1, <1>3
<1>6. HandedInOrder'
  <2>1. \A i \in 1 .. Len(handed) : output'[handed[i][1]] = output[handed[i][1]]
    BY <1>2, <1>5, HandedEvents
  <2> QED
    BY <1>1, <2>1 DEF HandedInv, HandedInOrder
<1>7. Wrote'
  <2> SUFFICES ASSUME NEW e \in queue', e <= cur
               PROVE  \E w \in Operation : w[1] = e /\ output'[e] = <<w>>
    BY <1>1, <1>2 DEF Wrote
  <2>1. CASE e = cur
    BY <1>4, <1>5, <2>1
  <2>2. CASE e # cur
    <3>1. e \in queue /\ e \in Event
      BY <1>1, <1>3, <2>2
    <3>2. e <= bound
      BY <1>2, <1>3, <2>2, <3>1, Events
    <3> QED
      BY <1>5, <2>2, <3>1, <3>2 DEF HandedInv, Wrote
  <2> QED
    BY <2>1, <2>2
<1>8. ASSUME NEW i \in 1 .. Len(handed)
      PROVE  (\A e \in queue \cup batch : handed[i][1] < e) /\ handed[i][1] < cur
  BY <1>1 DEF HandedInv, Separated, Handling
<1>9. Separated'
  BY <1>1, <1>2, <1>8 DEF Separated
<1> QED
  BY <1>1, <1>6, <1>7, <1>9 DEF HandedInv

LEMMA CollectHanded ==
  ASSUME ~MayBeMute, HandedInv, IInv', Collect
  PROVE  HandedInv'
<1> DEFINE taken == {e \in batch : e < horizon /\ e # Latest(batch)}
           new   == WindowsOf(taken)
<1>1. /\ pc = "collect" /\ handed' = handed \o new /\ batch' = {}
      /\ UNCHANGED <<queue, bound, output, committed>> /\ ~Handling'
  BY DEF Collect, lpVars, hVars, Handling
<1>2. /\ StateOK /\ batch \in SUBSET Event /\ taken \in SUBSET Event /\ taken \subseteq batch
  BY DEF HandedInv, IInv, StateOK, IoOK
<1>3. ASSUME NEW e \in taken PROVE Single(e)
  <2>1. e <= bound /\ e \in batch
    BY DEF HandedInv, IInv, Thrown
  <2>2. PICK op \in Operation : op[1] = e /\ output[e] = <<op>>
    BY <2>1 DEF HandedInv, Wrote
  <2>3. window[e].ops = output[e]
    BY <1>1, <2>1 DEF HandedInv, IInv, Windows
  <2> QED
    BY <2>2, <2>3 DEF Single
<1>4. Ordered(new, taken, MaxTs)
  BY <1>2, <1>3, WindowsOrdered
<1> HIDE DEF new, taken
<1>5. new \in Seq(Operation) /\ handed \in Seq(Operation) /\ batch \subseteq committed
  BY <1>4 DEF Ordered, HandedInv, IInv, Thrown
<1>6. /\ handed' \in Seq(Operation) /\ Len(handed') = Len(handed) + Len(new)
      /\ Len(handed) \in Nat /\ Len(new) \in Nat
      /\ \A i \in 1 .. Len(handed) : handed'[i] = handed[i]
  BY <1>1, <1>5
<1>7. \A i \in 1 .. Len(handed') : i \notin 1 .. Len(handed) =>
        i - Len(handed) \in 1 .. Len(new) /\ handed'[i] = new[i - Len(handed)]
  BY <1>1, <1>5, <1>6
<1>8. \A i \in 1 .. Len(new) : new[i][1] \in taken /\ new[i][1] \in batch /\ new[i] = output[new[i][1]][1]
  BY <1>2, <1>4 DEF Ordered
<1>9. \A i \in 1 .. Len(handed) :
        /\ handed[i][1] \in committed /\ handed[i] = output[handed[i][1]][1]
        /\ \A e \in queue \cup batch : handed[i][1] < e
  BY DEF HandedInv, HandedInOrder, Separated
<1>10. ASSUME NEW i \in 1 .. Len(handed')
       PROVE  /\ handed'[i][1] \in committed /\ handed'[i] = output[handed'[i][1]][1]
              /\ \A e \in queue : handed'[i][1] < e
  <2>1. CASE i \in 1 .. Len(handed)
    BY <1>6, <1>9, <2>1
  <2>2. CASE i \notin 1 .. Len(handed)
    <3>1. \A b \in batch, e \in queue : b < e
      BY DEF HandedInv, Separated
    <3> QED
      BY <1>5, <1>7, <1>8, <2>2, <3>1
  <2> QED
    BY <2>1, <2>2
<1>11. ASSUME NEW i \in 1 .. Len(handed') - 1 PROVE handed'[i][1] < handed'[i + 1][1]
  <2>0. i \in 1 .. Len(handed') /\ i + 1 \in 1 .. Len(handed')
    BY <1>6
  <2>1. CASE i + 1 \in 1 .. Len(handed)
    <3>1. i \in 1 .. Len(handed) - 1 /\ i \in 1 .. Len(handed)
      BY <1>6, <2>1
    <3>2. handed[i][1] < handed[i + 1][1]
      BY <3>1 DEF HandedInv, HandedInOrder
    <3> QED
      BY <1>6, <2>1, <3>1, <3>2
  <2>2. CASE i \in 1 .. Len(handed) /\ i + 1 \notin 1 .. Len(handed)
    BY <1>6, <1>7, <1>8, <1>9, <2>0, <2>2
  <2>3. CASE i \notin 1 .. Len(handed)
    <3> DEFINE j == i - Len(handed)
    <3>1. j \in 1 .. Len(new) - 1 /\ (i + 1) - Len(handed) = j + 1 /\ i + 1 \notin 1 .. Len(handed)
      BY <1>6, <2>0, <2>3
    <3>2. handed'[i] = new[j] /\ handed'[i + 1] = new[j + 1]
      <4>1. handed'[i] = new[j]
        BY <1>7, <2>0, <2>3
      <4>2. handed'[i + 1] = new[(i + 1) - Len(handed)]
        BY <1>7, <2>0, <3>1
      <4> QED
        BY <3>1, <4>1, <4>2, Zenon
    <3> HIDE DEF j
    <3>3. new[j][1] < new[j + 1][1]
      BY <1>4, <3>1 DEF Ordered
    <3> QED
      BY <3>2, <3>3
  <2> QED
    BY <2>1, <2>2, <2>3
<1>12. HandedInOrder'
  BY <1>1, <1>10, <1>11 DEF HandedInOrder
<1>13. Wrote'
  BY <1>1 DEF HandedInv, Wrote
<1>14. Separated'
  BY <1>1, <1>10 DEF Separated
<1> QED
  BY <1>6, <1>12, <1>13, <1>14 DEF HandedInv
-----------------------------------------------------------------------------
(* The theorems.                                                           *)

LEMMA InitHanded == Init => HandedInv
<1> SUFFICES ASSUME Init PROVE HandedInv
  OBVIOUS
<1>1. handed = <<>> /\ batch = {} /\ queue = {INIT} /\ output[INIT] = << <<INIT, 1>> >>
  BY Events DEF Init
<1>2. 1 .. Len(handed) = {} /\ 1 .. Len(handed) - 1 = {} /\ handed \in Seq(Operation)
  BY <1>1
<1>3. HandedInOrder /\ Separated
  BY <1>1, <1>2 DEF HandedInOrder, Separated
<1>4. <<INIT, 1>> \in Operation
  BY Events DEF Operation
<1>5. Wrote
  BY <1>1, <1>4 DEF Wrote
<1> QED
  BY <1>2, <1>3, <1>5, InitIInv DEF HandedInv

\* Every variable keeps its type, the operations handed over included.
THEOREM TypeCorrect == Spec => []TypeOK
<1> DEFINE HOK == handed \in Seq(Operation)
<1>1. Init => HOK
  BY DEF Init
<1>2. IInv /\ HOK /\ [Next]_vars => HOK'
  <2> SUFFICES ASSUME IInv, HOK, [Next]_vars PROVE HOK'
    OBVIOUS
  <2>1. CASE Collect
    <3> DEFINE taken == {e \in batch : e < horizon /\ e # Latest(batch)}
    <3>1. taken \in SUBSET Event /\ handed' = handed \o WindowsOf(taken) /\ StateOK
      BY <2>1 DEF Collect, IInv, StateOK, IoOK
    <3>2. WindowsOf(taken) \in Seq(Operation)
      BY <3>1, WindowsType
    <3> QED
      BY <3>1, <3>2
  <2>2. CASE Quiet
    BY <2>2 DEF Quiet
  <2>3. CASE SilentEnd \/ Execute
    BY <2>3 DEF SilentEnd, Execute, ioVars
  <2> QED
    BY <2>1, <2>2, <2>3, StepCases
<1>3. IInv /\ HOK => TypeOK
  BY DEF IInv, StateOK, SimOK, LpOK, RunOK, HorizonOK, IoOK, AWindow, Operation, TypeOK
<1> QED
  BY <1>1, <1>2, <1>3, Invariance, PTL DEF Spec

\* What is handed over is what committed events wrote when they were last
\* executed, in the order of time and none twice: what a rollback undid never
\* comes out, and what clean_checkpoint throws away next comes later.
THEOREM HandedOrder == ASSUME ~MayBeMute PROVE Spec => []HandedInOrder
<1>1. HandedInv /\ [Next]_vars => HandedInv'
  <2> SUFFICES ASSUME HandedInv, [Next]_vars PROVE HandedInv'
    OBVIOUS
  <2>1. IInv /\ IInv'
    BY StepIInv DEF HandedInv
  <2> QED
    BY <2>1, StepCases, QuietHanded, SilentEndHanded, ExecuteHanded, CollectHanded
<1>2. HandedInv => HandedInOrder
  BY DEF HandedInv
<1> QED
  BY <1>1, <1>2, InitHanded, PTL DEF Spec
=============================================================================
