----------------------------- MODULE EventQueue -----------------------------
(***************************************************************************)
(* The events of one logical process between the calendar queue and the    *)
(* output: how they are fetched, executed, rolled back, re-executed in     *)
(* silence, committed, thrown away, and what happens to the window in      *)
(* which an event keeps its output (fetch.c, core.c, state.c, wrappers.c,  *)
(* reversibleio.c, as built by default: HANDLE_INTERRUPT, no posting, no   *)
(* resumable rollbacks).                                                   *)
(*                                                                         *)
(* An event is its timestamp; 0 is INIT, and no two are simultaneous.  The *)
(* thread that holds the LP's lock is one sequential process (pc); the     *)
(* others send, invalidate and commit events without the lock.             *)
(***************************************************************************)
EXTENDS Integers, Sequences

CONSTANTS
  MaxTs,      \* bound: the events are 1 .. MaxTs
  MaxEpoch,   \* bound on the rollbacks
  CkpPeriods, \* values of CHECKPOINT_PERIOD considered
  Committer,  \* threads in commit_event
  MayBeMute,  \* whether an execution may write nothing
  Garbage     \* what commit_horizon_ts may hold before it is written

ASSUME BoundsAssumption == MaxTs \in Nat /\ MaxEpoch \in Nat
ASSUME PeriodAssumption == CkpPeriods \subseteq Nat \ {0}
ASSUME MayBeMuteAssumption == MayBeMute \in BOOLEAN
ASSUME GarbageAssumption == Garbage \subseteq 0 .. MaxTs + 1

Event == 0 .. MaxTs
INIT  == 0
None  == -1

VARIABLES
  state,     \* of an event: not sent, NEW_EVT, EXTRACTED, or handled (banana)
  valid,     \* what is_valid says of it
  node,      \* events with a node in the calendar queue
  gvt,       \* events up to here are safe
  queue,     \* queue_in, in order of timestamps
  bound,     \* the last event executed
  epoch,     \* LPS[lp]->epoch
  msgEpoch,  \* the epoch of each event
  states,    \* queue_states: the last events of the checkpoints
  fromCkp,   \* from_last_ckpt
  ckpPeriod, \* ckpt_period
  window,    \* io_forward_window of each event
  pc,        \* what the holder of the lock is doing
  cur,       \* current_msg
  anti,      \* current_evt_state is ANTI_MSG
  safe,      \* whether cur was safe when it was fetched
  pos,       \* the last event executed in silence
  horizon,   \* commit_horizon_ts
  found,     \* the event whose node each committer deleted
  later,     \* whether it found the horizon earlier than that event
  batch,     \* events thrown away by clean_checkpoint
  committed, \* history: events whose node commit_event deleted
  output,    \* history: what each event wrote when it was last executed
  handed     \* history: what was handed over for output, in order

simVars == <<state, valid, node, gvt>>
lpVars  == <<queue, bound, epoch, msgEpoch, states, fromCkp, ckpPeriod>>
runVars == <<pc, cur, anti, safe, pos>>
hVars   == <<horizon, found, later, committed>>
ioVars  == <<window, batch, output, handed>>
vars    == <<simVars, lpVars, runVars, hVars, ioVars>>

\* A window holds operations: the event that wrote each and the epoch it did so
\* in, 0 for a copy made by a silent re-execution.
NoWindow == [epoch |-> 0, ops |-> <<>>]

TypeOK ==
  /\ state \in [Event -> {"none", "new", "extracted", "handled"}]
  /\ valid \in [Event -> BOOLEAN]
  /\ node \subseteq Event /\ gvt \in Event
  /\ queue \subseteq Event /\ bound \in Event /\ states \subseteq Event
  /\ epoch \in Nat /\ msgEpoch \in [Event -> Nat] /\ ckpPeriod \in CkpPeriods
  /\ fromCkp \in 0 .. ckpPeriod - 1
  /\ window \in [Event -> [epoch : Nat, ops : Seq(Event \X Nat)]]
  /\ pc \in {"idle", "fetch", "rollback", "silent", "execute", "clean", "collect"}
  /\ cur \in Event /\ anti \in BOOLEAN /\ safe \in BOOLEAN /\ pos \in Event
  /\ horizon \in 0 .. MaxTs + 1 /\ found \in [Committer -> Event \cup {None}]
  /\ later \in [Committer -> BOOLEAN]
  /\ batch \subseteq Event /\ committed \subseteq Event
  /\ output \in [Event -> Seq(Event \X Nat)] /\ handed \in Seq(Event \X Nat)

Earliest(S) == CHOOSE e \in S : \A f \in S : e <= f
Latest(S)  == CHOOSE e \in S : \A f \in S : f <= e

\* The locals of thread_loop mean nothing after its turn.
LocalsEnd == cur' = INIT /\ anti' = FALSE /\ safe' = FALSE /\ pos' = INIT

After(e) == {f \in queue : f > e}

\* in_past: from fetch to the end of the execution a dummy just before cur
\* stands in for the bound.
Past(e) == IF pc \in {"rollback", "silent", "execute"} THEN e < cur ELSE e <= bound

\* LPs_metada_init and init_simulation: INIT is executed, logged, and committed
\* by nobody, since it has no node.
Init ==
  /\ state = [e \in Event |-> IF e = INIT THEN "extracted" ELSE "none"]
  /\ valid = [e \in Event |-> TRUE]
  /\ node = {} /\ gvt = INIT
  /\ queue = {INIT} /\ bound = INIT /\ states = {INIT} /\ fromCkp = 0 /\ ckpPeriod \in CkpPeriods
  /\ epoch = 1 /\ msgEpoch = [e \in Event |-> IF e = INIT THEN 1 ELSE 0]
  /\ output = [e \in Event |-> IF e = INIT THEN << <<INIT, 1>> >> ELSE <<>>]
  /\ window = [e \in Event |-> [epoch |-> msgEpoch[e], ops |-> output[e]]]
  /\ pc = "idle" /\ cur = INIT /\ anti = FALSE /\ safe = FALSE /\ pos = INIT
  /\ horizon \in Garbage /\ found = [c \in Committer |-> None]
  /\ later = [c \in Committer |-> FALSE]
  /\ batch = {} /\ committed = {INIT} /\ handed = <<>>
-----------------------------------------------------------------------------
(* The other LPs and the calendar queue.                                   *)

\* An event is sent to the LP, into its past or its future.
Send(e) ==
  /\ state[e] = "none" /\ gvt < e
  /\ Past(e) => epoch < MaxEpoch
  /\ state' = [state EXCEPT ![e] = "new"]
  /\ node' = node \cup {e}
  /\ UNCHANGED <<valid, gvt, lpVars, runVars, hVars, ioVars>>

\* The execution that sent the event is undone.
Invalidate(e) ==
  /\ state[e] \in {"new", "extracted"} /\ valid[e] /\ gvt < e
  /\ epoch < MaxEpoch
  /\ valid' = [valid EXCEPT ![e] = FALSE]
  /\ UNCHANGED <<state, node, gvt, lpVars, runVars, hVars, ioVars>>

\* The smallest timestamp in the calendar queue grows.
AdvanceGvt ==
  /\ gvt < MaxTs /\ \A e \in node : gvt < e
  /\ gvt' = gvt + 1
  /\ UNCHANGED <<state, valid, node, lpVars, runVars, hVars, ioVars>>
-----------------------------------------------------------------------------
(* commit_event, without the lock.                                         *)

\* fetch_internal finds an executed, safe event and deletes its node, ...
CommitDelete(c, e) ==
  /\ found[c] = None
  /\ e \in node /\ valid[e] /\ state[e] = "extracted" /\ Past(e) /\ e <= gvt
  /\ node' = node \ {e} /\ committed' = committed \cup {e}
  /\ found' = [found EXCEPT ![c] = e]
  /\ UNCHANGED <<state, valid, gvt, lpVars, runVars, horizon, later, ioVars>>

\* ... compares the horizon with its timestamp ...
CommitCompare(c) ==
  /\ found[c] # None /\ ~later[c]
  /\ IF horizon < found[c]
       THEN later' = [later EXCEPT ![c] = TRUE] /\ UNCHANGED found
       ELSE found' = [found EXCEPT ![c] = None] /\ UNCHANGED later
  /\ UNCHANGED <<simVars, lpVars, runVars, horizon, committed, ioVars>>

\* ... and overwrites it.
CommitWrite(c) ==
  /\ found[c] # None /\ later[c]
  /\ horizon' = found[c]
  /\ found' = [found EXCEPT ![c] = None]
  /\ later' = [later EXCEPT ![c] = FALSE]
  /\ UNCHANGED <<simVars, lpVars, runVars, committed, ioVars>>
-----------------------------------------------------------------------------
(* fetch_internal.                                                         *)

\* The node of an invalid event goes when the event was never extracted, was
\* handled already, or is in the LP's future.
RemoveNode(e) ==
  /\ e \in node /\ ~valid[e]
  /\ \/ state[e] \in {"new", "handled"}
     \/ pc = "idle" /\ ~Past(e)
  /\ state' = [state EXCEPT ![e] = "handled"]
  /\ node' = node \ {e}
  /\ UNCHANGED <<valid, gvt, lpVars, runVars, hVars, ioVars>>

\* A valid event is found, and its LP is locked.
Fetch(e) ==
  /\ pc = "idle" /\ e \in node /\ valid[e]
  /\ state[e] = "extracted" => ~Past(e)
  /\ pc' = "fetch" /\ cur' = e /\ anti' = FALSE /\ safe' = FALSE
  /\ UNCHANGED <<simVars, lpVars, pos, hVars, ioVars>>

\* The event after the bound, None if there is none.
LocalNext == IF After(bound) = {} THEN None ELSE Earliest(After(bound))

\* Mutant: the window of the extracted event is kept.
FetchDropKeeps ==
  /\ pc = "fetch" /\ LocalNext # None /\ ~valid[LocalNext]
  /\ queue' = queue \ {LocalNext}
  /\ state' = [state EXCEPT ![LocalNext] = "handled"]
  /\ UNCHANGED <<valid, node, gvt, bound, epoch, msgEpoch, states, fromCkp, ckpPeriod, runVars, hVars, ioVars>>

\* Invalid events after the bound are extracted, their windows destroyed.
FetchDrop ==
  /\ pc = "fetch" /\ LocalNext # None /\ ~valid[LocalNext]
  /\ queue' = queue \ {LocalNext}
  /\ state' = [state EXCEPT ![LocalNext] = "handled"]
  /\ window' = [window EXCEPT ![LocalNext] = NoWindow]
  /\ UNCHANGED <<valid, node, gvt, bound, epoch, msgEpoch, states, fromCkp, ckpPeriod, runVars,
                 hVars, batch, output, handed>>

\* Mutant: an event executed before is not looked for.
FetchChooseFound ==
  /\ pc = "fetch" /\ (LocalNext # None => valid[LocalNext])
  /\ IF state[cur] = "handled"
       THEN pc' = "idle" /\ LocalsEnd /\ UNCHANGED state
       ELSE /\ state' = [state EXCEPT ![cur] = "extracted"]
            /\ anti' \in {FALSE, ~valid[cur]} /\ safe' = (cur <= gvt)
            /\ pc' = IF cur <= bound THEN "rollback" ELSE "execute"
            /\ UNCHANGED <<cur, pos>>
  /\ UNCHANGED <<valid, node, gvt, lpVars, hVars, ioVars>>

\* The event after the bound goes first if it is earlier than the one found,
\* which another thread may have removed meanwhile. That the event is no longer
\* valid is seen only if some thread has marked it.
FetchChoose ==
  /\ pc = "fetch" /\ (LocalNext # None => valid[LocalNext])
  /\ IF LocalNext # None /\ LocalNext < cur
       THEN pc' = "execute" /\ cur' = LocalNext /\ safe' = (LocalNext <= gvt)
            /\ UNCHANGED <<state, anti, pos>>
       ELSE IF state[cur] = "handled"
         THEN pc' = "idle" /\ LocalsEnd /\ UNCHANGED state
         ELSE /\ state' = [state EXCEPT ![cur] = "extracted"]
              /\ anti' \in {FALSE, ~valid[cur]} /\ safe' = (cur <= gvt)
              /\ pc' = IF cur <= bound THEN "rollback" ELSE "execute"
              /\ UNCHANGED <<cur, pos>>
  /\ UNCHANGED <<valid, node, gvt, lpVars, hVars, ioVars>>

\* An executed event was invalidated: it is rolled back as an anti-message.
FetchAnti(e) ==
  /\ pc = "idle" /\ e \in node /\ ~valid[e] /\ state[e] = "extracted" /\ Past(e)
  /\ pc' = "rollback" /\ cur' = e /\ anti' = TRUE /\ safe' = FALSE
  /\ UNCHANGED <<simVars, lpVars, pos, hVars, ioVars>>
-----------------------------------------------------------------------------
(* rollback and silent_execution.                                          *)

\* Checkpoints rollback may restore.
Restorable == {s \in states : (s < cur \/ s = INIT) /\ valid[s]}

\* Checkpoints from the one restored on are deleted.
Rollback ==
  /\ pc = "rollback" /\ Restorable # {}
  /\ pos' = Latest(Restorable)
  /\ states' = {s \in states : s <= pos'}
  /\ fromCkp' = 0
  /\ pc' = "silent"
  /\ UNCHANGED <<simVars, queue, bound, epoch, msgEpoch, ckpPeriod, cur, anti, safe, hVars, ioVars>>

\* Mutant: the epoch of the window is not compared.
WriteAppends(w, ep, op) == [epoch |-> ep, ops |-> Append(w.ops, op)]

\* init_window and nblist_add: a write in epoch ep to the window of an event.
Write(w, ep, op) ==
  IF w.ops # <<>> /\ w.epoch = ep
    THEN [w EXCEPT !.ops = Append(@, op)]
    ELSE [epoch |-> ep, ops |-> <<op>>]

\* The next event to run again, None at the end or at an invalid event.
SilentNext ==
  LET rest == {e \in After(pos) : e < cur}
  IN  IF rest = {} THEN None
      ELSE IF valid[Earliest(rest)] THEN Earliest(rest) ELSE None

\* The event runs again; what it writes goes to the window of current_msg.
SilentStep ==
  /\ pc = "silent" /\ SilentNext # None
  /\ pos' = SilentNext
  /\ fromCkp' = (fromCkp + 1) % ckpPeriod
  /\ window' = IF output[pos'] = <<>> THEN window
               ELSE [window EXCEPT ![cur] = Write(@, msgEpoch[cur], <<pos', 0>>)]
  /\ UNCHANGED <<simVars, queue, bound, epoch, msgEpoch, states, ckpPeriod, pc, cur, anti, safe, hVars,
                 batch, output, handed>>

\* An invalid event stopped it (ROLLBACK_ONLY).
Stopped == \E e \in After(pos) : e < cur

\* The epoch grows. When an invalid event stopped it, the LP is left at the
\* event before that one.
SilentEnd ==
  /\ pc = "silent" /\ SilentNext = None
  /\ queue' = queue \cup {cur}
  /\ bound' = pos /\ epoch' = epoch + 1
  /\ IF Stopped THEN pc' = "idle" /\ LocalsEnd
                ELSE pc' = "execute" /\ pos' = INIT /\ UNCHANGED <<cur, anti, safe>>
  /\ UNCHANGED <<simVars, msgEpoch, states, fromCkp, ckpPeriod, hVars, ioVars>>
-----------------------------------------------------------------------------
(* The rest of thread_loop.                                                *)

\* An anti-message is done with.
AntiDone ==
  /\ pc = "execute" /\ anti
  /\ state' = [state EXCEPT ![cur] = "handled"]
  /\ node' = node \ {cur}
  /\ pc' = "idle" /\ LocalsEnd
  /\ UNCHANGED <<valid, gvt, lpVars, hVars, ioVars>>

\* Mutant: the counter is not reset.
LogStateNoReset ==
  /\ states' = IF fromCkp + 1 >= ckpPeriod THEN states \cup {cur} ELSE states
  /\ fromCkp' = fromCkp + 1

\* A checkpoint after every ckpPeriod events.
LogState ==
  /\ states' = IF fromCkp + 1 >= ckpPeriod THEN states \cup {cur} ELSE states
  /\ fromCkp' = IF fromCkp + 1 >= ckpPeriod THEN 0 ELSE fromCkp + 1

\* Mutant: whether the event is safe is not asked.
CleansUnsafe == {"clean"}

\* After a safe event, once every CLEAN_CKP_INTERVAL, the past is cleaned.
Cleans == IF safe THEN {"clean"} ELSE {}

\* The event is executed and writes or not.
Execute ==
  /\ pc = "execute" /\ ~anti
  /\ msgEpoch' = [msgEpoch EXCEPT ![cur] = epoch]
  /\ queue' = queue \cup {cur}
  /\ \/ /\ output' = [output EXCEPT ![cur] = << <<cur, epoch>> >>]
        /\ window' = [window EXCEPT ![cur] = Write(@, epoch, <<cur, epoch>>)]
     \/ /\ MayBeMute
        /\ output' = [output EXCEPT ![cur] = <<>>]
        /\ UNCHANGED window
  /\ bound' = cur
  /\ LogState
  /\ pc' \in {"idle"} \cup Cleans /\ LocalsEnd
  /\ UNCHANGED <<simVars, epoch, ckpPeriod, hVars, batch, handed>>

\* The checkpoints before the horizon, and before the last of these.
Before(h) == {s \in states : s < h}
Older(h)  == IF Before(h) = {} THEN {} ELSE Before(h) \ {Latest(Before(h))}

\* clean_checkpoint: events before the second last checkpoint that precedes the
\* horizon leave the queue, with the older checkpoints.
CleanCheckpoint ==
  /\ pc = "clean"
  /\ IF Older(horizon) = {}
       THEN batch' = {} /\ UNCHANGED <<queue, states>>
       ELSE LET first == Latest(Older(horizon))
            IN  /\ batch' = {e \in queue : e < first}
                /\ queue' = queue \ batch'
                /\ states' = {s \in states : s >= first}
  /\ pc' = "collect"
  /\ UNCHANGED <<simVars, bound, epoch, msgEpoch, fromCkp, ckpPeriod, cur, anti, safe, pos, hVars, window,
                 output, handed>>

\* Mutant: the walk goes backwards from to_msg.
WindowsBackwards(S) ==
  LET from[e \in Event] == (IF e = MaxTs THEN <<>> ELSE from[e + 1])
                           \o (IF e \in S THEN window[e].ops ELSE <<>>)
  IN  from[INIT]

\* The windows of the events of S, in order.
WindowsOf(S) ==
  LET upTo[e \in Event] == (IF e = INIT THEN <<>> ELSE upTo[e - 1])
                           \o (IF e \in S THEN window[e].ops ELSE <<>>)
  IN  upTo[MaxTs]

\* reversibleio_collect, which reads the horizon again: the windows of the
\* events before it are handed over, that of the last of them (to_msg) is not.
Collect ==
  /\ pc = "collect"
  /\ LET taken == {e \in batch : e < horizon /\ e # Latest(batch)}
     IN  /\ handed' = handed \o WindowsOf(taken)
         /\ window' = [e \in Event |-> IF e \in taken THEN NoWindow ELSE window[e]]
  /\ batch' = {}
  /\ pc' = "idle"
  /\ UNCHANGED <<simVars, lpVars, cur, anti, safe, pos, hVars, output>>
-----------------------------------------------------------------------------
Ended ==
  /\ pc = "idle" /\ gvt = MaxTs /\ node = {} /\ \A c \in Committer : found[c] = None
  /\ UNCHANGED vars

Next ==
  \/ \E e \in Event : Send(e) \/ Invalidate(e) \/ RemoveNode(e) \/ Fetch(e) \/ FetchAnti(e)
  \/ \E c \in Committer : CommitCompare(c) \/ CommitWrite(c) \/ \E e \in Event : CommitDelete(c, e)
  \/ AdvanceGvt
  \/ FetchDrop \/ FetchChoose
  \/ Rollback \/ SilentStep \/ SilentEnd
  \/ AntiDone \/ Execute \/ CleanCheckpoint \/ Collect
  \/ Ended

Spec == Init /\ [][Next]_vars

-----------------------------------------------------------------------------
(* Properties.                                                             *)

\* clean_checkpoint throws away, for reversibleio_collect to hand over, only
\* what can no longer be undone, although it trusts a horizon that other threads
\* write without the lock and that starts as garbage.
CommittedOnly == batch \subseteq committed

\* A committed event keeps in its window exactly what its last execution wrote:
\* nothing of an execution that was undone, nothing a silent execution repeated.
OutputFaithful ==
  \A e \in committed \cap (queue \cup batch) : window[e].ops = output[e]

\* What is handed over is what the last execution of committed events wrote,
\* event by event in the order of time, none twice.
HandedInOrder ==
  /\ \A i \in 1 .. Len(handed) : handed[i][1] \in committed
  /\ \A i \in 1 .. Len(handed) : handed[i] = output[handed[i][1]][1]
  /\ \A i \in 1 .. Len(handed) - 1 : handed[i][1] < handed[i + 1][1]

\* The output of an undone event is discarded with it: outside the queue it has
\* no window left.
UndoneDiscarded ==
  \A e \in Event \ queue : state[e] = "handled" => window[e].ops = <<>>

\* rollback finds a checkpoint to restore, however many clean_checkpoint
\* deleted: assert(restore_state!=NULL).
RestoreExists == pc = "rollback" => Restorable # {}

\* When an event is executed, no event of the queue lies between it and the one
\* executed before: the DEBUG checks of insert_current_msg_after_given_event.
ExecutesNext ==
  pc = "execute" /\ ~anti => \A e \in queue : ~(bound < e /\ e < cur)

\* What a committed event wrote stays until it is handed over: clean_checkpoint
\* throws no output away.
AllCollected ==
  \A e \in committed : e \in queue \cup batch \/ \E i \in 1 .. Len(handed) : handed[i][1] = e
=============================================================================
