---------------------------- MODULE ReversibleIO ----------------------------
(***************************************************************************)
(* reversibleio.c: workers hand the output of the events they throw away   *)
(* over to the forward windows of the logical processes, each under its    *)
(* LP's lock; the main process writes it, taking operations from the heap  *)
(* of forward windows until the smallest event horizon.                    *)
(*                                                                         *)
(* A window is used as AbstractWindow allows, which NonBlockingList        *)
(* implements, so a merge and a poll are one step each; the heap is that   *)
(* of AbstractHeap, which IoHeap implements.  An operation is the          *)
(* timestamp of its event.  Which events are thrown away, and with which   *)
(* horizon, is up to EventQueue: here any event may follow that is not     *)
(* earlier than the ones before it, and any horizon.                       *)
(***************************************************************************)
EXTENDS Integers, Sequences

CONSTANTS
  N,        \* n_prc_tot
  MaxTs,    \* bound on the timestamps
  MaxOps    \* bound on the operations handed over for each LP

ASSUME NAssumption == N \in Nat \ {0}
ASSUME BoundsAssumption == MaxTs \in Nat /\ MaxOps \in Nat

LP   == 0 .. (N - 1)
Ts   == 0 .. MaxTs
NaN  == -2     \* eight bytes 0xff, a double that compares FALSE with any other
NoLP == -1

VARIABLES
  per_lp_horizon,
  window,           \* io_forward_window: the operations still in it
  taken,            \* history: how many operations left it
  pc,               \* what the holder of the LP's lock is doing
  key, root,        \* the heap io_h: the key of each LP's window, its root
  mpc,              \* where the main process is
  mlp,              \* the LP whose lock it holds
  i, event_horizon, timestamp,   \* the locals of reversibleio_execute
  out,              \* history: the last operation written, and whether every
                    \*   LP had written one before it
  stopped           \* the workers have left thread_loop

heapVars == <<key, root>>
loopVars == <<i, event_horizon, timestamp>>
vars == <<per_lp_horizon, window, taken, pc, heapVars, mpc, mlp, loopVars, out, stopped>>

Heap == INSTANCE AbstractHeap
          WITH Payload <- LP, MaxKey <- MaxTs, MinHeap <- TRUE, keys <- key

Window(l) == INSTANCE AbstractWindow
               WITH handed <- taken[l] + Len(window[l]), taken <- taken[l]

TypeOK ==
  /\ per_lp_horizon \in [LP -> Ts \cup {NaN}]
  /\ window \in [LP -> Seq(Ts)] /\ taken \in [LP -> Nat]
  /\ pc \in [LP -> {"idle", "execute", "clean", "merge"}]
  /\ key \in [LP -> Ts] /\ root \in LP
  /\ mpc \in {"idle", "scan", "poll", "done"} /\ mlp \in LP \cup {NoLP}
  /\ i \in 0 .. N /\ event_horizon \in Ts \cup {NaN, -1} /\ timestamp \in Ts
  /\ out \in [ts : Ts, later : BOOLEAN]
  /\ stopped \in BOOLEAN

\* reversibleio_init: empty windows, all with the key 0 in the heap.
Init ==
  /\ per_lp_horizon = [l \in LP |-> NaN]
  /\ window = [l \in LP |-> <<>>] /\ taken = [l \in LP |-> 0]
  /\ pc = [l \in LP |-> "idle"]
  /\ key = [l \in LP |-> 0] /\ root = 0
  /\ mpc = "idle" /\ mlp = NoLP
  /\ i = 0 /\ event_horizon = -1 /\ timestamp = 0
  /\ out = [ts |-> 0, later |-> FALSE]
  /\ stopped = FALSE
-----------------------------------------------------------------------------
(* reversibleio_collect, by the thread that holds the LP's lock.           *)

\* The call publishes its horizon before it collects anything.
Collect(l, h) ==
  /\ pc[l] = "clean" \/ (pc[l] = "idle" /\ ~stopped)
  /\ per_lp_horizon' = [per_lp_horizon EXCEPT ![l] = h]
  /\ pc' = [pc EXCEPT ![l] = "merge"]
  /\ UNCHANGED <<window, taken, heapVars, mpc, mlp, loopVars, out, stopped>>

\* The events of an LP come in order.
NotBefore(l, t) == window[l] # <<>> => window[l][Len(window[l])] <= t

\* Mutant: an operation is put in front of the window.
MergeFront(l, t) ==
  /\ pc[l] = "merge" /\ taken[l] + Len(window[l]) < MaxOps
  /\ NotBefore(l, t) /\ t < per_lp_horizon[l]
  /\ window' = [window EXCEPT ![l] = <<t>> \o @]
  /\ UNCHANGED <<per_lp_horizon, taken, pc, heapVars, mpc, mlp, loopVars, out, stopped>>

\* The walk reaches an event before the horizon, other than to_msg.
Merge(l, t) ==
  /\ pc[l] = "merge" /\ taken[l] + Len(window[l]) < MaxOps
  /\ NotBefore(l, t) /\ t < per_lp_horizon[l]
  /\ window' = [window EXCEPT ![l] = Append(@, t)]
  /\ UNCHANGED <<per_lp_horizon, taken, pc, heapVars, mpc, mlp, loopVars, out, stopped>>

\* The walk ends, and the lock is released in the end.
EndCollect(l) ==
  /\ pc[l] = "merge"
  /\ pc' = [pc EXCEPT ![l] = "idle"]
  /\ mlp' = IF mlp = l THEN NoLP ELSE mlp
  /\ UNCHANGED <<per_lp_horizon, window, taken, heapVars, mpc, loopVars, out, stopped>>
-----------------------------------------------------------------------------
(* reversibleio_execute.                                                   *)

\* The main process holds the lock of the LP it is about to clean.
Execute(l) ==
  /\ ~stopped /\ mpc = "idle" /\ mlp = NoLP /\ pc[l] = "idle"
  /\ pc' = [pc EXCEPT ![l] = "execute"] /\ mlp' = l
  /\ mpc' = "scan"
  /\ UNCHANGED <<per_lp_horizon, window, taken, heapVars, loopVars, out, stopped>>

\* Comparison of doubles.
Less(x, y) == x # NaN /\ y # NaN /\ x < y

\* Mutant: no horizon is taken unless it is smaller.
ScanMinimum ==
  /\ mpc = "scan" /\ i < N
  /\ event_horizon' = IF Less(per_lp_horizon[i], event_horizon)
                        THEN per_lp_horizon[i] ELSE event_horizon
  /\ i' = i + 1
  /\ UNCHANGED <<per_lp_horizon, window, taken, pc, heapVars, mpc, mlp, timestamp,
                 out, stopped>>

\* Mutant: whatever is not known to be at least the smallest is taken.
ScanNotGreater ==
  /\ mpc = "scan" /\ i < N
  /\ event_horizon' =
       IF Less(event_horizon, 0) \/ ~(\/ Less(event_horizon, per_lp_horizon[i])
                                      \/ event_horizon = per_lp_horizon[i])
         THEN per_lp_horizon[i] ELSE event_horizon
  /\ i' = i + 1
  /\ UNCHANGED <<per_lp_horizon, window, taken, pc, heapVars, mpc, mlp, timestamp,
                 out, stopped>>

\* One turn of the search for the smallest horizon: a NaN that comes first
\* stays, one that comes later is passed over.
Scan ==
  /\ mpc = "scan" /\ i < N
  /\ event_horizon' =
       IF Less(per_lp_horizon[i], event_horizon) \/ Less(event_horizon, 0)
         THEN per_lp_horizon[i] ELSE event_horizon
  /\ i' = i + 1
  /\ UNCHANGED <<per_lp_horizon, window, taken, pc, heapVars, mpc, mlp, timestamp,
                 out, stopped>>

EndScan ==
  /\ mpc = "scan" /\ i = N
  /\ mpc' = "poll"
  /\ UNCHANGED <<per_lp_horizon, window, taken, pc, heapVars, mlp, loopVars, out, stopped>>

\* A window never gives up its last operation.
CanPop(l) == Len(window[l]) > 1

\* Mutant: the LP keeps the key of the operation that was popped.
PollOldKey ==
  /\ mpc = "poll" /\ Less(timestamp, event_horizon) /\ CanPop(root)
  /\ timestamp' = window[root][1]
  /\ out' = [ts |-> window[root][1], later |-> \A l \in LP : taken[l] > 0]
  /\ key' = [key EXCEPT ![root] = window[root][1]]
  /\ window' = [window EXCEPT ![root] = Tail(@)]
  /\ taken' = [taken EXCEPT ![root] = @ + 1]
  /\ root' \in Heap!BestOf(key')
  /\ UNCHANGED <<per_lp_horizon, pc, mpc, mlp, i, event_horizon, stopped>>

\* Mutant: the key of the next operation is had by taking that one out too.
PollPeekPops ==
  /\ mpc = "poll" /\ Less(timestamp, event_horizon) /\ CanPop(root)
  /\ timestamp' = window[root][1]
  /\ out' = [ts |-> window[root][1], later |-> \A l \in LP : taken[l] > 0]
  /\ key' = [key EXCEPT ![root] = window[root][2]]
  /\ window' = [window EXCEPT ![root] = Tail(Tail(@))]
  /\ taken' = [taken EXCEPT ![root] = @ + 2]
  /\ root' \in Heap!BestOf(key')
  /\ UNCHANGED <<per_lp_horizon, pc, mpc, mlp, i, event_horizon, stopped>>

\* io_heap_poll takes an operation of the LP at the root and gives the LP the
\* key of the next one; iobuffer_write writes it.
Poll ==
  /\ mpc = "poll" /\ Less(timestamp, event_horizon) /\ CanPop(root)
  /\ timestamp' = window[root][1]
  /\ out' = [ts |-> window[root][1], later |-> \A l \in LP : taken[l] > 0]
  /\ key' = [key EXCEPT ![root] = window[root][2]]
  /\ window' = [window EXCEPT ![root] = Tail(@)]
  /\ taken' = [taken EXCEPT ![root] = @ + 1]
  /\ root' \in Heap!BestOf(key')
  /\ UNCHANGED <<per_lp_horizon, pc, mpc, mlp, i, event_horizon, stopped>>

\* The loop ends; during the simulation clean_checkpoint of the LP follows.
EndExecute ==
  /\ mpc = "poll" /\ (~Less(timestamp, event_horizon) \/ ~CanPop(root))
  /\ IF stopped
       THEN mpc' = "done" /\ UNCHANGED <<pc, event_horizon>>
       ELSE /\ mpc' = "idle" /\ pc' = [pc EXCEPT ![mlp] = "clean"]
            /\ event_horizon' = -1
  /\ i' = 0 /\ timestamp' = 0
  /\ UNCHANGED <<per_lp_horizon, window, taken, heapVars, mlp, out, stopped>>
-----------------------------------------------------------------------------
(* The end of the simulation.                                              *)

\* Every thread has left thread_loop.
Stop ==
  /\ ~stopped /\ mpc = "idle" /\ \A l \in LP : pc[l] = "idle"
  /\ stopped' = TRUE
  /\ UNCHANGED <<per_lp_horizon, window, taken, pc, heapVars, mpc, mlp, loopVars, out>>

\* reversibleio_flush: nblist_add refuses the dummies, whose content is NULL,
\* and reversibleio_execute runs once more.
Flush ==
  /\ stopped /\ mpc = "idle"
  /\ mpc' = "scan"
  /\ UNCHANGED <<per_lp_horizon, window, taken, pc, heapVars, mlp, loopVars, out, stopped>>

\* reversibleio_destroy, and the end of the program.
Ended == mpc = "done" /\ UNCHANGED vars
-----------------------------------------------------------------------------
Collector(l) ==
  (\E h \in Ts : Collect(l, h)) \/ (\E t \in Ts : Merge(l, t)) \/ EndCollect(l)

Main == Scan \/ EndScan \/ Poll \/ EndExecute

Next ==
  \/ \E l \in LP : Collector(l) \/ Execute(l)
  \/ Main \/ Stop \/ Flush \/ Ended

Spec == Init /\ [][Next]_vars

\* The main process goes on inside reversibleio_execute.
FairSpec == Spec /\ WF_vars(Main)
-----------------------------------------------------------------------------
(* Properties.                                                             *)

\* The operations still in a window are in order and not before the key that
\* the heap has for it, which is that of the next one once one was taken.
WindowsSorted ==
  \A l \in LP :
    /\ \A n \in 1 .. Len(window[l]) :
         /\ key[l] <= window[l][n]
         /\ \A m \in 1 .. n : window[l][m] <= window[l][n]
    /\ taken[l] = 0 => key[l] = 0
    /\ taken[l] > 0 => window[l] # <<>> /\ key[l] = window[l][1]

\* Nothing that is still to be written is behind the output.
NothingBehind ==
  out.later => \A l \in LP : \A n \in 1 .. Len(window[l]) : out.ts <= window[l][n]

\* Once every LP has written its first operation, the output is in order of
\* timestamps across all LPs, whatever is collected meanwhile: the operation
\* that each window holds back keeps its key in the heap honest.
OrderedOutput == [][out.later => out.ts <= out'.ts]_vars

\* Every window is used as AbstractWindow allows.
UsesWindows ==
  /\ \A l \in LP : Window(l)!Init
  /\ [][\A l \in LP : [Window(l)!Next]_(Window(l)!vars)]_vars

\* The flush leaves nothing before the horizon in the windows: "To flush all
\* the queues" (reversibleio.c:85).
AllFlushed ==
  mpc = "done" => \A l \in LP : \A n \in 1 .. Len(window[l]) :
                    ~Less(window[l][n], event_horizon)

\* The LP has no operation to give, and keeps what is due at t waiting: it has
\* given none yet, and then its key is 0, or holds back one that is due first.
Stalls(l, t) == ~CanPop(l) /\ (taken[l] = 0 \/ window[l][1] <= t)

\* A call of reversibleio_execute leaves an operation before its horizon in a
\* window only behind an LP that has none to give: once every LP has written,
\* and also before that if the call ends short of its horizon.
OnlyStalled ==
  [][EndExecute /\ (out.later \/ Less(timestamp, event_horizon)) =>
       \A l \in LP : \A n \in 1 .. Len(window[l]) :
         Less(window[l][n], event_horizon) => \E s \in LP : Stalls(s, window[l][n])]_vars

\* A call of reversibleio_execute that begins while LP 0 has published a
\* horizon and the LP at the root has an operation to give writes something,
\* even if other LPs have published none: their NaN is passed over.
Ready ==
  /\ CanPop(root) /\ Less(0, per_lp_horizon[0])
  /\ \A l \in LP : per_lp_horizon[l] = NaN \/ Less(0, per_lp_horizon[l])

Progress ==
  \A n \in [LP -> 0 .. MaxOps] :
    (mpc = "scan" /\ i = 0 /\ Ready /\ taken = n) ~> (~Ready \/ taken # n)
=============================================================================
