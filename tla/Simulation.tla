----------------------------- MODULE Simulation -----------------------------
(***************************************************************************)
(* The threads of the simulation (core.c): initialisation and barrier, the *)
(* two versions of thread_loop, the locks of the LPs, the bound that is    *)
(* set aside while an event is handled, the inspection of committed states *)
(* (OnGVT), the agreement to stop, and the end of the main process.  Which *)
(* event is fetched and what it does is the matter of EventQueue; here any *)
(* outcome is possible at any time.                                        *)
(***************************************************************************)
EXTENDS Integers

CONSTANTS
  NCores,  \* n_cores
  NLps,    \* n_prc_tot
  Builds   \* the builds and options considered

ASSUME NCoresAssumption == NCores \in Nat \ {0}
ASSUME NLpsAssumption == NLps \in Nat \ {0}

\* interrupt: HANDLE_INTERRUPT, the default (without it when ORIGINAL is set).
\* period: ONGVT_PERIOD is not -1.  timed: sec_stop is not 0.
ASSUME BuildsAssumption == Builds \subseteq [interrupt : BOOLEAN, period : BOOLEAN, timed : BOOLEAN]

Thread == 0 .. NCores - 1
MAIN_PROCESS == 0
LP     == 0 .. NLps - 1
Nobody == -1

VARIABLES
  build,   \* which of Builds this is
  pc,      \* where each thread is
  ready,   \* ready_wt
  cur,     \* current_lp of each thread
  checked, \* last_checked_lp of each thread
  safe,    \* whether the event of each thread is safe
  at,      \* the LP each thread looks at in a loop over all of them
  inited,  \* LPs whose INIT event was executed
  lock,    \* who holds the lock of each LP
  bound,   \* what LPS[lp]->bound points to
  old,     \* whether old_valid_bound is set
  horizon, \* whether commit_horizon_ts > 0
  ended,   \* LPs with their bit in sim_ended set
  period,  \* start_periodic_check_ongvt
  stop,    \* the flag
  sleeper, \* the thread that waits for sec_stop
  windows  \* the forward windows: live, flushed, destroyed

tVars  == <<pc, cur, safe>>
lpVars == <<lock, bound, old>>
gVars  == <<ended, period>>
vars   == <<build, tVars, ready, checked, at, inited, lpVars, horizon, gVars, stop, sleeper,
            windows>>

\* Where a thread can be.
Place == {"init", "barrier", "loop", "fetch", "round", "held", "executed", "clean", "collect",
          "unlock", "commit", "end", "inspect", "test", "scan", "close", "flushed", "out",
          "join", "done"}

TypeOK ==
  /\ build \in Builds
  /\ pc \in [Thread -> Place]
  /\ ready \in 0 .. NCores
  /\ cur \in [Thread -> 0 .. NLps] /\ checked \in [Thread -> LP]
  /\ safe \in [Thread -> BOOLEAN] /\ at \in [Thread -> LP]
  /\ inited \subseteq LP
  /\ lock \in [LP -> Thread \cup {Nobody}]
  /\ bound \in [LP -> {"NULL", "event", "dummy"}]
  /\ old \in [LP -> BOOLEAN] /\ horizon \in [LP -> BOOLEAN]
  /\ ended \subseteq LP /\ period \in BOOLEAN /\ stop \in BOOLEAN
  /\ sleeper \in {"none", "sleeps", "ended"}
  /\ windows \in {"live", "flushed", "destroyed"}

\* LPs_metada_init leaves commit_horizon_ts as malloc gave it.
Init ==
  /\ build \in Builds
  /\ pc = [t \in Thread |-> "init"] /\ ready = 0
  /\ cur = [t \in Thread |-> 0] /\ checked = [t \in Thread |-> 0]
  /\ safe = [t \in Thread |-> FALSE] /\ at = [t \in Thread |-> 0]
  /\ inited = {} /\ lock = [l \in LP |-> Nobody]
  /\ bound = [l \in LP |-> "NULL"] /\ old = [l \in LP |-> FALSE]
  /\ horizon \in [LP -> BOOLEAN]
  /\ ended = {} /\ period = FALSE /\ stop = FALSE
  /\ sleeper = "none" /\ windows = "live"

Goto(t, to) == pc' = [pc EXCEPT ![t] = to]
-----------------------------------------------------------------------------
(* init_simulation.                                                        *)

\* Mutant: one LP too many.
InitLPTooFar ==
  /\ pc[MAIN_PROCESS] = "init" /\ cur[MAIN_PROCESS] <= NLps
  /\ inited' = inited \cup {cur[MAIN_PROCESS]}
  /\ cur' = [cur EXCEPT ![MAIN_PROCESS] = @ + 1]
  /\ UNCHANGED <<build, pc, safe, ready, checked, at, lpVars, horizon, gVars, stop, sleeper,
                 windows>>

\* The main process executes the INIT events, one LP after the other; its
\* current_lp ends behind the last LP.
InitLP ==
  /\ pc[MAIN_PROCESS] = "init" /\ cur[MAIN_PROCESS] < NLps
  /\ inited' = inited \cup {cur[MAIN_PROCESS]}
  /\ bound' = [bound EXCEPT ![cur[MAIN_PROCESS]] = "event"]
  /\ cur' = [cur EXCEPT ![MAIN_PROCESS] = @ + 1]
  /\ UNCHANGED <<build, pc, safe, ready, checked, at, lock, old, horizon, gVars, stop, sleeper,
                 windows>>

\* Mutant: the main process reports before it is done.
ReadyEarly(t) ==
  /\ pc[t] = "init"
  /\ ready' = ready + 1
  /\ sleeper' = IF t = MAIN_PROCESS THEN "sleeps" ELSE sleeper
  /\ Goto(t, "barrier")
  /\ UNCHANGED <<build, cur, safe, checked, at, inited, lpVars, horizon, gVars, stop, windows>>

\* A thread reports; the main process has started the sleeper before.
Ready(t) ==
  /\ pc[t] = "init" /\ (t = MAIN_PROCESS => cur[t] = NLps)
  /\ ready' = ready + 1
  /\ sleeper' = IF t = MAIN_PROCESS THEN "sleeps" ELSE sleeper
  /\ Goto(t, "barrier")
  /\ UNCHANGED <<build, cur, safe, checked, at, inited, lpVars, horizon, gVars, stop, windows>>

Enter(t) ==
  /\ pc[t] = "barrier" /\ ready = NCores
  /\ Goto(t, "loop")
  /\ UNCHANGED <<build, cur, safe, ready, checked, at, inited, lpVars, horizon, gVars, stop,
                 sleeper, windows>>

\* do_sleep: stop_timer is set when there is something to wait for.
Sleep ==
  /\ sleeper = "sleeps" /\ sleeper' = "ended"
  /\ UNCHANGED <<build, tVars, ready, checked, at, inited, lpVars, horizon, gVars, stop, windows>>

StopTimer == build.timed /\ sleeper = "ended"

\* The condition of the loop: with a time limit, stop does not count. Its
\* conjunct !sim_error is left out: only a failure to create the output
\* directory, before the threads start, and an unknown state saving mode set it.
Stopped == IF build.timed THEN StopTimer ELSE stop
-----------------------------------------------------------------------------
(* From fetch to unlock.                                                   *)

Loop(t) ==
  /\ pc[t] = "loop"
  /\ Goto(t, IF Stopped THEN "out" ELSE "fetch")
  /\ UNCHANGED <<build, cur, safe, ready, checked, at, inited, lpVars, horizon, gVars, stop,
                 sleeper, windows>>

\* Where a thread starts to look at the LPs.
RoundFrom(t) == (NLps \div NCores) * t

\* fetch_internal finds nothing; after 500 times the LPs are inspected in turn.
FetchNothing(t) ==
  /\ pc[t] = "fetch"
  /\ \/ Goto(t, "end") /\ UNCHANGED at
     \/ build.period /\ Goto(t, "round") /\ at' = [at EXCEPT ![t] = RoundFrom(t)]
  /\ UNCHANGED <<build, cur, safe, ready, checked, inited, lpVars, horizon, gVars, stop,
                 sleeper, windows>>

\* fetch_internal locks an LP with an event; change_bound_with_current_msg puts
\* the dummy in the place of its bound.
Fetch(t, l) ==
  /\ pc[t] = "fetch" /\ lock[l] = Nobody
  /\ lock' = [lock EXCEPT ![l] = t]
  /\ cur' = [cur EXCEPT ![t] = l]
  /\ \E s \in BOOLEAN : safe' = [safe EXCEPT ![t] = s]
  /\ IF build.interrupt
       THEN bound' = [bound EXCEPT ![l] = "dummy"] /\ old' = [old EXCEPT ![l] = TRUE]
       ELSE UNCHANGED <<bound, old>>
  /\ Goto(t, "held")
  /\ UNCHANGED <<build, ready, checked, at, inited, horizon, gVars, stop, sleeper, windows>>

\* Mutant: the bound stays the dummy.
LeaveDummy(t) ==
  /\ lock' = [lock EXCEPT ![cur[t]] = Nobody]
  /\ old' = [old EXCEPT ![cur[t]] = FALSE] /\ UNCHANGED bound

\* next_loop, and the end of an anti-message: the bound is put back, whether
\* silent_execution has moved it or not, and the lock given up.
Leave(t) ==
  /\ lock' = [lock EXCEPT ![cur[t]] = Nobody]
  /\ bound' = [bound EXCEPT ![cur[t]] = "event"]
  /\ old' = [old EXCEPT ![cur[t]] = FALSE]

\* do_rollback stopped at an invalid event (ROLLBACK_ONLY), or the event was an
\* anti-message: the thread goes round without looking at the end of the loop.
GoRound(t) ==
  /\ pc[t] = "held"
  /\ Leave(t) /\ Goto(t, "loop")
  /\ safe' = [safe EXCEPT ![t] = FALSE]
  /\ UNCHANGED <<build, cur, ready, checked, at, inited, horizon, gVars, stop, sleeper,
                 windows>>

\* The event is executed and becomes the bound.
Execute(t) ==
  /\ pc[t] = "held"
  /\ bound' = [bound EXCEPT ![cur[t]] = "event"]
  /\ old' = [old EXCEPT ![cur[t]] = FALSE]
  /\ Goto(t, "executed")
  /\ UNCHANGED <<build, cur, safe, ready, checked, at, inited, lock, horizon, gVars, stop, sleeper,
                 windows>>

\* OnGVT is asked about an LP, in some cases about one that said yes before.
Ask(l) ==
  \/ ended' = ended \cup {l} /\ period' = TRUE
  \/ UNCHANGED gVars

\* Mutant: a thread that ended its LP goes round.
OnGVTGoesRound(t) ==
  /\ pc[t] = "executed" /\ safe[t]
  /\ \/ UNCHANGED <<gVars, lock, safe>> /\ Goto(t, "clean")
     \/ /\ ended' = ended \cup {cur[t]} /\ period' = TRUE
        /\ lock' = [lock EXCEPT ![cur[t]] = Nobody] /\ safe' = [safe EXCEPT ![t] = FALSE]
        /\ Goto(t, "loop")
  /\ UNCHANGED <<build, cur, ready, checked, at, inited, bound, old, horizon, stop, sleeper, windows>>

\* After a safe event.
OnGVT(t) ==
  /\ pc[t] = "executed" /\ safe[t]
  /\ Ask(cur[t])
  /\ Goto(t, "clean")
  /\ UNCHANGED <<build, cur, safe, ready, checked, at, inited, lpVars, horizon, stop, sleeper,
                 windows>>

\* check_OnGVT: the state at the horizon is restored and afterwards the one at
\* the bound, which is set aside meanwhile.
CheckOnGVT(l) == IF l \in ended THEN UNCHANGED gVars ELSE Ask(l)

\* After an event that is not safe, every ONGVT_PERIOD times.
NotSafe(t) ==
  /\ pc[t] = "executed" /\ ~safe[t]
  /\ \/ build.period /\ CheckOnGVT(cur[t])
     \/ UNCHANGED gVars
  /\ Goto(t, "unlock")
  /\ UNCHANGED <<build, cur, safe, ready, checked, at, inited, lpVars, horizon, stop, sleeper,
                 windows>>

\* Every CLEAN_CKP_INTERVAL times the main process writes what it can, and any
\* thread goes on to clean_checkpoint, ...
Clean(t) ==
  /\ pc[t] = "clean"
  /\ Goto(t, "collect") \/ Goto(t, "unlock")
  /\ UNCHANGED <<build, cur, safe, ready, checked, at, inited, lpVars, horizon, gVars, stop,
                 sleeper, windows>>

\* ... which publishes the horizon and collects the windows before it.
Collect(t) ==
  /\ pc[t] = "collect"
  /\ Goto(t, "unlock")
  /\ UNCHANGED <<build, cur, safe, ready, checked, at, inited, lpVars, horizon, gVars, stop,
                 sleeper, windows>>

Unlock(t) ==
  /\ pc[t] = "unlock"
  /\ lock' = [lock EXCEPT ![cur[t]] = Nobody]
  /\ Goto(t, IF safe[t] THEN "commit" ELSE "end")
  /\ safe' = [safe EXCEPT ![t] = FALSE]
  /\ UNCHANGED <<build, cur, ready, checked, at, inited, bound, old, horizon, gVars, stop,
                 sleeper, windows>>

\* commit_event, without the lock.
Commit(t) ==
  /\ pc[t] = "commit"
  /\ horizon' = [horizon EXCEPT ![cur[t]] = TRUE]
  /\ Goto(t, "end")
  /\ UNCHANGED <<build, cur, safe, ready, checked, at, inited, lpVars, gVars, stop, sleeper,
                 windows>>
-----------------------------------------------------------------------------
(* The end of the loop.                                                    *)

\* round_check_OnGVT starts at one of its own LPs and takes the first it can
\* lock, leaving out those that have ended; it is inspected if something of it
\* was committed.
RoundStep(t) ==
  /\ pc[t] = "round"
  /\ IF at[t] \notin ended /\ lock[at[t]] = Nobody
       THEN /\ Goto(t, "end") /\ at' = [at EXCEPT ![t] = 0]
            /\ IF horizon[at[t]] THEN CheckOnGVT(at[t]) /\ cur' = [cur EXCEPT ![t] = at[t]]
                                 ELSE UNCHANGED <<gVars, cur>>
       ELSE /\ UNCHANGED <<gVars, cur>>
            /\ IF (at[t] + 1) % NLps = RoundFrom(t)
                 THEN Goto(t, "end") /\ at' = [at EXCEPT ![t] = 0]
                 ELSE at' = [at EXCEPT ![t] = (@ + 1) % NLps] /\ UNCHANGED pc
  /\ UNCHANGED <<build, safe, ready, checked, inited, lpVars, horizon, stop, sleeper, windows>>

\* Once an LP has ended, every ONGVT_PERIOD turns the next LP is locked, if it
\* can be, ...
PeriodicLock(t) ==
  /\ pc[t] = "end" /\ build.period /\ period /\ lock[checked[t]] = Nobody
  /\ lock' = [lock EXCEPT ![checked[t]] = t]
  /\ Goto(t, "inspect")
  /\ UNCHANGED <<build, cur, safe, ready, checked, at, inited, bound, old, horizon, gVars, stop,
                 sleeper, windows>>

\* Mutant: the counter goes on before the LP is unlocked.
PeriodicCheckUnlocksNext(t) ==
  /\ pc[t] = "inspect"
  /\ CheckOnGVT(checked[t])
  /\ cur' = [cur EXCEPT ![t] = checked[t]]
  /\ checked' = [checked EXCEPT ![t] = (@ + 1) % NLps]
  /\ lock' = [lock EXCEPT ![checked'[t]] = Nobody]
  /\ Goto(t, "test")
  /\ UNCHANGED <<build, safe, ready, at, inited, bound, old, horizon, stop, sleeper, windows>>

\* ... and inspected; current_lp is left at that LP.
PeriodicCheck(t) ==
  /\ pc[t] = "inspect"
  /\ CheckOnGVT(checked[t])
  /\ cur' = [cur EXCEPT ![t] = checked[t]]
  /\ lock' = [lock EXCEPT ![checked[t]] = Nobody]
  /\ checked' = [checked EXCEPT ![t] = (@ + 1) % NLps]
  /\ Goto(t, "test")
  /\ UNCHANGED <<build, safe, ready, at, inited, bound, old, horizon, stop, sleeper, windows>>

\* is_end_sim: the bits behind the last LP are set by LPs_metada_init.
IsEndSim(l) == l \in ended \cup {NLps}

\* check_termination starts if the LP of this turn has ended.
Test(t) ==
  /\ pc[t] \in {"end", "test"}
  /\ Goto(t, IF IsEndSim(cur[t]) THEN "scan" ELSE "loop")
  /\ UNCHANGED <<build, cur, safe, ready, checked, at, inited, lpVars, horizon, gVars, stop, sleeper,
                 windows>>

\* After the check: the loop goes on, except that without HANDLE_INTERRUPT the
\* main process first flushes and destroys the windows.
AfterScan(t) == IF t = MAIN_PROCESS /\ ~build.interrupt THEN "close" ELSE "loop"

\* Mutant: the last word is not looked at.
ScanShort(t) ==
  /\ pc[t] = "scan"
  /\ IF at[t] + 1 = NLps
       THEN stop' = TRUE /\ Goto(t, AfterScan(t)) /\ at' = [at EXCEPT ![t] = 0]
       ELSE /\ UNCHANGED stop
            /\ IF at[t] \notin ended
                 THEN Goto(t, AfterScan(t)) /\ at' = [at EXCEPT ![t] = 0]
                 ELSE at' = [at EXCEPT ![t] = @ + 1] /\ UNCHANGED pc
  /\ UNCHANGED <<build, cur, safe, ready, checked, inited, lpVars, horizon, gVars, sleeper,
                 windows>>

\* check_termination reads word after word, here one LP each, while other
\* threads set bits; then stop is set.
Scan(t) ==
  /\ pc[t] = "scan"
  /\ IF at[t] \notin ended
       THEN Goto(t, AfterScan(t)) /\ at' = [at EXCEPT ![t] = 0] /\ UNCHANGED stop
       ELSE IF at[t] + 1 = NLps
         THEN stop' = TRUE /\ Goto(t, AfterScan(t)) /\ at' = [at EXCEPT ![t] = 0]
         ELSE at' = [at EXCEPT ![t] = @ + 1] /\ UNCHANGED <<pc, stop>>
  /\ UNCHANGED <<build, cur, safe, ready, checked, inited, lpVars, horizon, gVars, sleeper,
                 windows>>
-----------------------------------------------------------------------------
(* The end.                                                                *)

\* reversibleio_flush, by the main process: behind its loop, or in it without
\* HANDLE_INTERRUPT. Flushing destroyed windows reads a NULL tail: it faults.
Flush(t) ==
  /\ t = MAIN_PROCESS
  /\ pc[t] = "close" \/ (pc[t] = "out" /\ build.interrupt)
  /\ windows = "live"
  /\ windows' = "flushed"
  /\ Goto(t, IF pc[t] = "close" THEN "flushed" ELSE "join")
  /\ UNCHANGED <<build, cur, safe, ready, checked, at, inited, lpVars, horizon, gVars, stop,
                 sleeper>>

\* reversibleio_destroy.
Destroy(t) ==
  /\ pc[t] \in {"flushed", "join"} /\ windows = "flushed"
  /\ windows' = "destroyed"
  /\ Goto(t, IF pc[t] = "flushed" THEN "loop" ELSE "join")
  /\ UNCHANGED <<build, cur, safe, ready, checked, at, inited, lpVars, horizon, gVars, stop,
                 sleeper>>

\* The main process waits for the sleeper, nobody for the other threads.
Finish(t) ==
  /\ \/ t # MAIN_PROCESS /\ pc[t] = "out"
     \/ t = MAIN_PROCESS /\ sleeper = "ended"
        /\ \/ pc[t] = "join" /\ windows = "destroyed"
           \/ pc[t] = "out" /\ ~build.interrupt
  /\ Goto(t, "done")
  /\ UNCHANGED <<build, cur, safe, ready, checked, at, inited, lpVars, horizon, gVars, stop,
                 sleeper, windows>>

\* The main process is stopped by a fault, or every thread has finished.
Faulted == pc[MAIN_PROCESS] = "close" /\ windows # "live"
AllDone == \A t \in Thread : pc[t] = "done"
Ended == Faulted \/ AllDone

Step(t) ==
  \/ t = MAIN_PROCESS /\ InitLP
  \/ Ready(t) \/ Enter(t) \/ Loop(t)
  \/ FetchNothing(t) \/ RoundStep(t) \/ \E l \in LP : Fetch(t, l)
  \/ GoRound(t) \/ Execute(t) \/ OnGVT(t) \/ NotSafe(t) \/ Clean(t) \/ Collect(t) \/ Unlock(t) \/ Commit(t)
  \/ PeriodicLock(t) \/ PeriodicCheck(t) \/ Test(t) \/ Scan(t)
  \/ Flush(t) \/ Destroy(t) \/ Finish(t)

Next ==
  \/ ~Ended /\ (Sleep \/ \E t \in Thread : Step(t))
  \/ Ended /\ UNCHANGED vars

Spec == Init /\ [][Next]_vars

\* The operating system runs every thread.
FairSpec == Spec /\ WF_vars(~Ended /\ Sleep) /\ \A t \in Thread : WF_vars(~Ended /\ Step(t))
-----------------------------------------------------------------------------
(* Properties.                                                             *)

\* The stop flag is set only when every LP has ended, although each thread
\* reads the bits one after the other while others set them.
StopSound == stop => ended = LP

\* No thread works before the main process has initialised every LP, and the
\* main process starts no loop before the others.
InitFirst == \A t \in Thread : pc[t] \notin {"init", "barrier"} => inited = LP /\ ready = NCores

\* Where thread t holds a lock, and whose.
Holds(t) ==
  CASE pc[t] \in {"held", "executed", "clean", "collect", "unlock"} -> cur[t]
    [] pc[t] = "inspect" -> checked[t]
    [] OTHER -> Nobody

\* A thread holds the lock it works under and no other: none is left behind
\* when it goes round, leaves the loop or finishes.
LockDiscipline == \A t \in Thread, l \in LP : lock[l] = t <=> Holds(t) = l

\* An LP nobody has locked has its bound back ("remember to restore it before
\* next fetch"): no other thread takes the dummy for the last event executed.
BoundRestored ==
  \A l \in LP : lock[l] = Nobody => bound[l] # "dummy" /\ ~old[l]

\* In the default loop every thread finishes when the time is over, or without a
\* time limit when every LP has ended: the thread that ended the last of them
\* comes to check_termination afterwards.
Terminates ==
  build.interrupt /\ (IF build.timed THEN StopTimer ELSE ended = LP) ~> AllDone

\* The flush uses the last event horizon: none is published, and no window
\* collected, after it.
LastHorizon == windows # "live" => \A t \in Thread : pc[t] # "collect"
=============================================================================
