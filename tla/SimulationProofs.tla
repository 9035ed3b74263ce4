-------------------------- MODULE SimulationProofs --------------------------
(***************************************************************************)
(* Proofs about Simulation, for any number of threads and LPs and every    *)
(* build.                                                                  *)
(***************************************************************************)
EXTENDS Simulation, FiniteSetTheorems, TLAPS

Working == {"held", "executed", "clean", "collect", "unlock", "commit"}

\* Outside the loops over all LPs the index is 0; an event belongs to an LP.
Indices ==
  /\ \A t \in Thread : pc[t] \notin {"round", "scan"} => at[t] = 0
  /\ \A t \in Thread : pc[t] \in Working => cur[t] \in LP

\* Who has reported; the LPs that the main process has initialised.
Reported == {t \in Thread : pc[t] # "init"}
Barrier ==
  /\ ready = Cardinality(Reported)
  /\ \A t \in Thread : pc[t] \notin {"init", "barrier"} => ready = NCores
  /\ IF pc[MAIN_PROCESS] = "init" THEN inited = 0 .. cur[MAIN_PROCESS] - 1 ELSE inited = LP

\* Only where an event is handled is its LP without its bound.
Aside == \A l \in LP : bound[l] = "dummy" \/ old[l] => \E t \in Thread : pc[t] = "held" /\ cur[t] = l

\* The bits a thread has found set.
Scanned == \A t \in Thread : pc[t] = "scan" => \A l \in 0 .. at[t] - 1 : l \in ended

IInv == TypeOK /\ Indices /\ Barrier /\ LockDiscipline /\ Aside /\ Scanned /\ StopSound
-----------------------------------------------------------------------------
LEMMA RoundFromType == ASSUME NEW t \in Thread PROVE RoundFrom(t) \in LP
<1> USE NCoresAssumption, NLpsAssumption DEF Thread, LP
<1> DEFINE q == NLps \div NCores
<1>1. q \in Nat /\ q * NCores <= NLps
  OBVIOUS
<1>2. t \in Nat /\ t <= NCores - 1
  OBVIOUS
<1> HIDE DEF q
<1>3. q * t <= q * (NCores - 1)
  BY <1>1, <1>2
<1>4. q * (NCores - 1) = q * NCores - q
  BY <1>1
<1>5. q * t \in Nat
  BY <1>1, <1>2
<1>6. CASE q = 0
  BY <1>6, <1>2 DEF RoundFrom, q
<1>7. CASE q > 0
  <2>1. q * t < NLps
    BY <1>1, <1>3, <1>4, <1>5, <1>7
  <2> QED
    BY <2>1, <1>5 DEF RoundFrom, q
<1> QED
  BY <1>1, <1>6, <1>7

LEMMA NextLP == ASSUME NEW l \in LP PROVE (l + 1) % NLps \in LP
BY NLpsAssumption DEF LP

LEMMA StepLP == ASSUME NEW l \in LP, l + 1 # NLps PROVE l + 1 \in LP
BY NLpsAssumption DEF LP

LEMMA AnyLP == LP \subseteq 0 .. NLps /\ \A i \in 0 .. NLps : i < NLps => i \in LP /\ i + 1 \in 0 .. NLps
BY NLpsAssumption DEF LP

LEMMA ZeroLP == 0 \in LP
BY NLpsAssumption DEF LP

LEMMA AskType == ASSUME NEW l \in LP, ended \subseteq LP, period \in BOOLEAN, CheckOnGVT(l)
                 PROVE  ended' \subseteq LP /\ period' \in BOOLEAN
BY DEF CheckOnGVT, Ask, gVars

LEMMA NobodyElse == Nobody \notin Thread /\ Nobody \notin LP
BY DEF Nobody, Thread, LP

LEMMA Update == ASSUME NEW S, NEW R, NEW f \in [S -> R], NEW s \in S, NEW v \in R
                PROVE  [f EXCEPT ![s] = v] \in [S -> R]
OBVIOUS

LEMMA Threads == IsFiniteSet(Thread) /\ Cardinality(Thread) = NCores /\ MAIN_PROCESS \in Thread
<1>1. IsFiniteSet(Thread) /\ Cardinality(Thread) = NCores
  BY FS_Interval, NCoresAssumption DEF Thread
<1> QED
  BY <1>1, NCoresAssumption DEF Thread, MAIN_PROCESS

\* A thread that has not reported leaves room for its report.
LEMMA Room == ASSUME Barrier, NEW t \in Thread, pc[t] = "init"
              PROVE  /\ ready + 1 \in 0 .. NCores
                     /\ Cardinality(Reported \cup {t}) = ready + 1
<1>1. Reported \subseteq Thread /\ t \notin Reported
  BY DEF Reported
<1>2. IsFiniteSet(Reported)
  BY <1>1, Threads, FS_Subset
<1>3. Cardinality(Reported \cup {t}) = Cardinality(Reported) + 1 /\ Cardinality(Reported) \in Nat
  BY <1>1, <1>2, FS_AddElement, FS_CardinalityType
<1>4. Reported \cup {t} \subseteq Thread
  BY <1>1
<1>5. Cardinality(Reported \cup {t}) <= NCores
  BY <1>4, Threads, FS_Subset
<1> QED
  BY <1>3, <1>5, NCoresAssumption DEF Barrier

LEMMA InitIInv == ASSUME Init PROVE IInv
<1> USE Threads, NCoresAssumption, NLpsAssumption DEF Init
<1>1. TypeOK
  <2>1. horizon \in [LP -> BOOLEAN] /\ build \in Builds
    OBVIOUS
  <2>2. pc \in [Thread -> {"init"}] /\ cur \in [Thread -> {0}] /\ checked \in [Thread -> {0}]
        /\ at \in [Thread -> {0}] /\ safe \in [Thread -> {FALSE}]
    OBVIOUS
  <2>3. lock \in [LP -> {Nobody}] /\ bound \in [LP -> {"NULL"}] /\ old \in [LP -> {FALSE}]
    OBVIOUS
  <2>4. 0 \in LP
    BY DEF LP
  <2>5. pc \in [Thread -> Place]
    BY <2>2 DEF Place
  <2>6. cur \in [Thread -> 0 .. NLps] /\ ready \in 0 .. NCores
    BY <2>2
  <2>7. checked \in [Thread -> LP] /\ at \in [Thread -> LP]
    BY <2>2, <2>4
  <2>8. safe \in [Thread -> BOOLEAN] /\ old \in [LP -> BOOLEAN]
    BY <2>2, <2>3
  <2>9. lock \in [LP -> Thread \cup {Nobody}] /\ bound \in [LP -> {"NULL", "event", "dummy"}]
    BY <2>3
  <2> QED
    BY <2>1, <2>5, <2>6, <2>7, <2>8, <2>9 DEF TypeOK
<1>2. Indices
  BY DEF Indices, Working
<1>3. Reported = {} /\ Cardinality(Reported) = 0
  BY FS_EmptySet DEF Reported
<1>4. Barrier
  BY <1>3 DEF Barrier
<1>5. LockDiscipline
  BY DEF LockDiscipline, Holds, Nobody, Thread, LP
<1>6. Aside /\ Scanned /\ StopSound
  BY DEF Aside, Scanned, StopSound
<1> QED
  BY <1>1, <1>2, <1>4, <1>5, <1>6 DEF IInv
-----------------------------------------------------------------------------
(* One lemma per part of the invariant, one step per action.               *)

\* The types.
LEMMA TypeStep ==
  ASSUME TypeOK, Indices, Barrier, [Next]_vars
  PROVE  TypeOK'
<1> USE NCoresAssumption, NLpsAssumption, Threads DEF TypeOK, MAIN_PROCESS, Place
<1>1. CASE UNCHANGED vars
  BY <1>1 DEF vars, tVars, lpVars, gVars
<1>2. CASE Sleep
  BY <1>2 DEF Sleep, tVars, lpVars, gVars
<1>3. CASE InitLP
  <2>1. cur[MAIN_PROCESS] \in LP /\ cur[MAIN_PROCESS] + 1 \in 0 .. NLps
    BY <1>3, AnyLP DEF InitLP
  <2>2. inited' \subseteq LP /\ bound' \in [LP -> {"NULL", "event", "dummy"}]
    BY <1>3, <2>1 DEF InitLP
  <2>3. cur' \in [Thread -> 0 .. NLps]
    BY <1>3, <2>1, Update DEF InitLP
  <2> QED
    BY <1>3, <2>2, <2>3 DEF InitLP, tVars, lpVars, gVars
<1>4. ASSUME NEW t \in Thread, Ready(t)
       PROVE  TypeOK'
  BY <1>4, Room DEF Ready, Goto, tVars, lpVars, gVars
<1>5. ASSUME NEW t \in Thread, Enter(t)
       PROVE  TypeOK'
  BY <1>5 DEF Enter, Goto, tVars, lpVars, gVars
<1>6. ASSUME NEW t \in Thread, Loop(t)
       PROVE  TypeOK'
  BY <1>6 DEF Loop, Stopped, StopTimer, Goto, tVars, lpVars, gVars
<1>7. ASSUME NEW t \in Thread, FetchNothing(t)
       PROVE  TypeOK'
  <2>1. at' \in [Thread -> LP]
    BY <1>7, RoundFromType DEF FetchNothing
  <2> QED
    BY <1>7, <2>1 DEF FetchNothing, Goto, tVars, lpVars, gVars
<1>8. ASSUME NEW t \in Thread, NEW l \in LP, Fetch(t, l)
       PROVE  TypeOK'
  <2>1. safe' \in [Thread -> BOOLEAN]
    BY <1>8, Update DEF Fetch
  <2>2. bound' \in [LP -> {"NULL", "event", "dummy"}]
    BY <1>8 DEF Fetch
  <2>3. old' \in [LP -> BOOLEAN]
    BY <1>8, Update DEF Fetch
  <2>4. lock' \in [LP -> Thread \cup {Nobody}] /\ cur' \in [Thread -> 0 .. NLps]
    BY <1>8, AnyLP, Update DEF Fetch
  <2>5. pc' \in [Thread -> Place]
    BY <1>8, Update DEF Fetch, Goto, Place
  <2> QED
    BY <1>8, <2>1, <2>2, <2>3, <2>4, <2>5 DEF Fetch, gVars
<1>9. ASSUME NEW t \in Thread, GoRound(t)
       PROVE  TypeOK'
  BY <1>9 DEF GoRound, Leave, Goto, tVars, lpVars, gVars
<1>10. ASSUME NEW t \in Thread, Execute(t)
       PROVE  TypeOK'
  BY <1>10 DEF Execute, Goto, tVars, lpVars, gVars
<1>11. ASSUME NEW t \in Thread, OnGVT(t)
       PROVE  TypeOK'
  <2>1. cur[t] \in LP
    BY <1>11 DEF OnGVT, Indices, Working
  <2>2. ended' \subseteq LP /\ period' \in BOOLEAN
    BY <1>11, <2>1 DEF OnGVT, Ask, gVars
  <2> QED
    BY <1>11, <2>2 DEF OnGVT, Goto, lpVars
<1>12. ASSUME NEW t \in Thread, NotSafe(t)
       PROVE  TypeOK'
  <2>1. cur[t] \in LP
    BY <1>12 DEF NotSafe, Indices, Working
  <2>2. ended' \subseteq LP /\ period' \in BOOLEAN
    BY <1>12, <2>1 DEF NotSafe, CheckOnGVT, Ask, gVars
  <2> QED
    BY <1>12, <2>2 DEF NotSafe, Goto, lpVars
<1>13. ASSUME NEW t \in Thread, Clean(t)
       PROVE  TypeOK'
  BY <1>13 DEF Clean, Goto, tVars, lpVars, gVars
<1>14. ASSUME NEW t \in Thread, Collect(t)
       PROVE  TypeOK'
  BY <1>14 DEF Collect, Goto, tVars, lpVars, gVars
<1>15. ASSUME NEW t \in Thread, Unlock(t)
       PROVE  TypeOK'
  BY <1>15 DEF Unlock, Goto, tVars, lpVars, gVars
<1>16. ASSUME NEW t \in Thread, Commit(t)
       PROVE  TypeOK'
  BY <1>16 DEF Commit, Goto, tVars, lpVars, gVars
<1>17. ASSUME NEW t \in Thread, RoundStep(t)
       PROVE  TypeOK'
  <2>1. at[t] \in LP /\ (at[t] + 1) % NLps \in LP
    BY NextLP
  <2>2. ended' \subseteq LP /\ period' \in BOOLEAN
    BY <1>17, <2>1, AskType DEF RoundStep, gVars
  <2>3. cur' \in [Thread -> 0 .. NLps]
    BY <1>17, <2>1, AnyLP DEF RoundStep
  <2>4. at' \in [Thread -> LP]
    BY <1>17, <2>1, ZeroLP DEF RoundStep
  <2> QED
    BY <1>17, <2>2, <2>3, <2>4 DEF RoundStep, Goto, lpVars
<1>18. ASSUME NEW t \in Thread, PeriodicLock(t)
       PROVE  TypeOK'
  BY <1>18 DEF PeriodicLock, Goto, tVars, lpVars, gVars
<1>19. ASSUME NEW t \in Thread, PeriodicCheck(t)
       PROVE  TypeOK'
  <2>1. checked[t] \in LP /\ (checked[t] + 1) % NLps \in LP
    BY NextLP
  <2>2. ended' \subseteq LP /\ period' \in BOOLEAN
    BY <1>19, <2>1 DEF PeriodicCheck, CheckOnGVT, Ask, gVars
  <2>3. checked' \in [Thread -> LP] /\ cur' \in [Thread -> 0 .. NLps]
    BY <1>19, <2>1, AnyLP DEF PeriodicCheck
  <2> QED
    BY <1>19, <2>2, <2>3 DEF PeriodicCheck, Goto
<1>20. ASSUME NEW t \in Thread, Test(t)
       PROVE  TypeOK'
  BY <1>20 DEF Test, Goto, tVars, lpVars, gVars
<1>21. ASSUME NEW t \in Thread, Scan(t)
       PROVE  TypeOK'
  <2>1. at[t] + 1 # NLps => at[t] + 1 \in LP
    BY StepLP
  <2>2. at' \in [Thread -> LP]
    BY <1>21, <2>1, ZeroLP DEF Scan
  <2>3. stop' \in BOOLEAN
    BY <1>21 DEF Scan
  <2>4. pc' \in [Thread -> Place]
    BY <1>21 DEF Scan, AfterScan, Goto
  <2> QED
    BY <1>21, <2>2, <2>3, <2>4 DEF Scan, lpVars, gVars
<1>22. ASSUME NEW t \in Thread, Flush(t)
       PROVE  TypeOK'
  BY <1>22 DEF Flush, Goto, tVars, lpVars, gVars
<1>23. ASSUME NEW t \in Thread, Destroy(t)
       PROVE  TypeOK'
  BY <1>23 DEF Destroy, Goto, tVars, lpVars, gVars
<1>24. ASSUME NEW t \in Thread, Finish(t)
       PROVE  TypeOK'
  BY <1>24 DEF Finish, Goto, tVars, lpVars, gVars
<1> QED
  BY <1>1, <1>2, <1>3, <1>4, <1>5, <1>6, <1>7, <1>8, <1>9, <1>10, <1>11, <1>12, <1>13, <1>14, <1>15, <1>16, <1>17, <1>18, <1>19, <1>20, <1>21, <1>22, <1>23, <1>24 DEF Next, Step

\* The indices.
LEMMA IndexStep ==
  ASSUME TypeOK, Indices, [Next]_vars
  PROVE  Indices'
<1> USE DEF Indices, Working
<1> pc \in [Thread -> Place] /\ at \in [Thread -> LP] /\ cur \in [Thread -> 0 .. NLps]
  BY DEF TypeOK
<1>1. CASE UNCHANGED vars
  BY <1>1 DEF vars, tVars, lpVars, gVars
<1>2. CASE Sleep
  BY <1>2 DEF Sleep, tVars, lpVars, gVars
<1>3. CASE InitLP
  BY <1>3 DEF InitLP, MAIN_PROCESS
<1>4. ASSUME NEW t \in Thread, Ready(t)
       PROVE  Indices'
  BY <1>4 DEF Ready, Goto, tVars, lpVars, gVars
<1>5. ASSUME NEW t \in Thread, Enter(t)
       PROVE  Indices'
  BY <1>5 DEF Enter, Goto, tVars, lpVars, gVars
<1>6. ASSUME NEW t \in Thread, Loop(t)
       PROVE  Indices'
  BY <1>6 DEF Loop, Stopped, StopTimer, Goto, tVars, lpVars, gVars
<1>7. ASSUME NEW t \in Thread, FetchNothing(t)
       PROVE  Indices'
  BY <1>7 DEF FetchNothing, Goto, tVars, lpVars, gVars
<1>8. ASSUME NEW t \in Thread, NEW l \in LP, Fetch(t, l)
       PROVE  Indices'
  BY <1>8 DEF Fetch, Goto, tVars, lpVars, gVars
<1>9. ASSUME NEW t \in Thread, GoRound(t)
       PROVE  Indices'
  BY <1>9 DEF GoRound, Leave, Goto, tVars, lpVars, gVars
<1>10. ASSUME NEW t \in Thread, Execute(t)
       PROVE  Indices'
  BY <1>10 DEF Execute, Goto, tVars, lpVars, gVars
<1>11. ASSUME NEW t \in Thread, OnGVT(t)
       PROVE  Indices'
  BY <1>11 DEF OnGVT, Ask, Goto, tVars, lpVars, gVars
<1>12. ASSUME NEW t \in Thread, NotSafe(t)
       PROVE  Indices'
  BY <1>12 DEF NotSafe, CheckOnGVT, Ask, Goto, tVars, lpVars, gVars
<1>13. ASSUME NEW t \in Thread, Clean(t)
       PROVE  Indices'
  BY <1>13 DEF Clean, Goto, tVars, lpVars, gVars
<1>14. ASSUME NEW t \in Thread, Collect(t)
       PROVE  Indices'
  BY <1>14 DEF Collect, Goto, tVars, lpVars, gVars
<1>15. ASSUME NEW t \in Thread, Unlock(t)
       PROVE  Indices'
  BY <1>15 DEF Unlock, Goto, tVars, lpVars, gVars
<1>16. ASSUME NEW t \in Thread, Commit(t)
       PROVE  Indices'
  BY <1>16 DEF Commit, Goto, tVars, lpVars, gVars
<1>17. ASSUME NEW t \in Thread, RoundStep(t)
       PROVE  Indices'
  <2>1. ASSUME NEW u \in Thread, u # t
        PROVE  pc'[u] = pc[u] /\ at'[u] = at[u] /\ cur'[u] = cur[u]
    BY <1>17, <2>1 DEF RoundStep, Goto
  <2>2. (pc'[t] = "round" \/ (pc'[t] = "end" /\ at'[t] = 0))
    BY <1>17 DEF RoundStep, Goto
  <2> QED
    BY <2>1, <2>2
<1>18. ASSUME NEW t \in Thread, PeriodicLock(t)
       PROVE  Indices'
  BY <1>18 DEF PeriodicLock, Goto, tVars, lpVars, gVars
<1>19. ASSUME NEW t \in Thread, PeriodicCheck(t)
       PROVE  Indices'
  BY <1>19 DEF PeriodicCheck, CheckOnGVT, Ask, Goto, tVars, lpVars, gVars
<1>20. ASSUME NEW t \in Thread, Test(t)
       PROVE  Indices'
  BY <1>20 DEF Test, Goto, tVars, lpVars, gVars
<1>21. ASSUME NEW t \in Thread, Scan(t)
       PROVE  Indices'
  <2>1. ASSUME NEW u \in Thread, u # t
        PROVE  pc'[u] = pc[u] /\ at'[u] = at[u] /\ cur'[u] = cur[u]
    BY <1>21, <2>1 DEF Scan, Goto
  <2>2. pc'[t] = "scan" \/ (pc'[t] \in {"close", "loop"} /\ at'[t] = 0)
    BY <1>21 DEF Scan, AfterScan, Goto
  <2> QED
    BY <2>1, <2>2
<1>22. ASSUME NEW t \in Thread, Flush(t)
       PROVE  Indices'
  BY <1>22 DEF Flush, Goto, tVars, lpVars, gVars
<1>23. ASSUME NEW t \in Thread, Destroy(t)
       PROVE  Indices'
  BY <1>23 DEF Destroy, Goto, tVars, lpVars, gVars
<1>24. ASSUME NEW t \in Thread, Finish(t)
       PROVE  Indices'
  BY <1>24 DEF Finish, Goto, tVars, lpVars, gVars
<1> QED
  BY <1>1, <1>2, <1>3, <1>4, <1>5, <1>6, <1>7, <1>8, <1>9, <1>10, <1>11, <1>12, <1>13, <1>14, <1>15, <1>16, <1>17, <1>18, <1>19, <1>20, <1>21, <1>22, <1>23, <1>24 DEF Next, Step

\* The barrier.
LEMMA BarrierStep ==
  ASSUME TypeOK, Barrier, [Next]_vars
  PROVE  Barrier'
<1> USE Threads DEF Barrier
<1> pc \in [Thread -> Place] /\ cur \in [Thread -> 0 .. NLps]
  BY DEF TypeOK
<1>1. CASE UNCHANGED vars
  BY <1>1 DEF vars, tVars, lpVars, gVars, Reported
<1>2. CASE Sleep
  BY <1>2 DEF Sleep, tVars, lpVars, gVars, Reported
<1>3. CASE InitLP
  <2>1. Reported' = Reported
    BY <1>3 DEF InitLP, Reported
  <2>2. inited' = 0 .. cur'[MAIN_PROCESS] - 1
    BY <1>3, Threads DEF InitLP
  <2> QED
    BY <1>3, <2>1, <2>2 DEF InitLP
<1>4. ASSUME NEW t \in Thread, Ready(t)
       PROVE  Barrier'
  <2>1. Reported' = Reported \cup {t}
    BY <1>4 DEF Ready, Goto, Reported
  <2>2. ready' = Cardinality(Reported') /\ ready + 1 <= NCores
    BY <1>4, <2>1, Room DEF Ready, Barrier
  <2>3. ASSUME NEW u \in Thread, pc'[u] \notin {"init", "barrier"}
        PROVE  ready' = NCores
    BY <1>4, <2>2, <2>3, NCoresAssumption DEF Ready, Goto
  <2>4. CASE t = MAIN_PROCESS
    BY <1>4, <2>2, <2>3, <2>4 DEF Ready, Goto, LP
  <2>5. CASE t # MAIN_PROCESS
    BY <1>4, <2>2, <2>3, <2>5 DEF Ready, Goto
  <2> QED
    BY <2>4, <2>5
<1>5. ASSUME NEW t \in Thread, Enter(t)
       PROVE  Barrier'
  <2>1. Reported' = Reported
    BY <1>5 DEF Enter, Goto, Reported
  <2> QED
    BY <1>5, <2>1 DEF Enter, Goto, tVars, lpVars, gVars
<1>6. ASSUME NEW t \in Thread, Loop(t)
       PROVE  Barrier'
  <2>1. Reported' = Reported
    BY <1>6 DEF Loop, Stopped, StopTimer, Goto, Reported
  <2> QED
    BY <1>6, <2>1 DEF Loop, Stopped, StopTimer, Goto, tVars, lpVars, gVars
<1>7. ASSUME NEW t \in Thread, FetchNothing(t)
       PROVE  Barrier'
  <2>1. Reported' = Reported
    BY <1>7 DEF FetchNothing, Goto, Reported
  <2> QED
    BY <1>7, <2>1 DEF FetchNothing, Goto, tVars, lpVars, gVars
<1>8. ASSUME NEW t \in Thread, NEW l \in LP, Fetch(t, l)
       PROVE  Barrier'
  <2>1. Reported' = Reported
    BY <1>8 DEF Fetch, Goto, Reported
  <2> QED
    BY <1>8, <2>1 DEF Fetch, Goto, tVars, lpVars, gVars
<1>9. ASSUME NEW t \in Thread, GoRound(t)
       PROVE  Barrier'
  <2>1. Reported' = Reported
    BY <1>9 DEF GoRound, Leave, Goto, Reported
  <2> QED
    BY <1>9, <2>1 DEF GoRound, Leave, Goto, tVars, lpVars, gVars
<1>10. ASSUME NEW t \in Thread, Execute(t)
       PROVE  Barrier'
  <2>1. Reported' = Reported
    BY <1>10 DEF Execute, Goto, Reported
  <2> QED
    BY <1>10, <2>1 DEF Execute, Goto, tVars, lpVars, gVars
<1>11. ASSUME NEW t \in Thread, OnGVT(t)
       PROVE  Barrier'
  <2>1. Reported' = Reported
    BY <1>11 DEF OnGVT, Ask, Goto, Reported
  <2> QED
    BY <1>11, <2>1 DEF OnGVT, Ask, Goto, tVars, lpVars, gVars
<1>12. ASSUME NEW t \in Thread, NotSafe(t)
       PROVE  Barrier'
  <2>1. Reported' = Reported
    BY <1>12 DEF NotSafe, CheckOnGVT, Ask, Goto, Reported
  <2> QED
    BY <1>12, <2>1 DEF NotSafe, CheckOnGVT, Ask, Goto, tVars, lpVars, gVars
<1>13. ASSUME NEW t \in Thread, Clean(t)
       PROVE  Barrier'
  <2>1. Reported' = Reported
    BY <1>13 DEF Clean, Goto, Reported
  <2> QED
    BY <1>13, <2>1 DEF Clean, Goto, tVars, lpVars, gVars
<1>14. ASSUME NEW t \in Thread, Collect(t)
       PROVE  Barrier'
  <2>1. Reported' = Reported
    BY <1>14 DEF Collect, Goto, Reported
  <2> QED
    BY <1>14, <2>1 DEF Collect, Goto, tVars, lpVars, gVars
<1>15. ASSUME NEW t \in Thread, Unlock(t)
       PROVE  Barrier'
  <2>1. Reported' = Reported
    BY <1>15 DEF Unlock, Goto, Reported
  <2> QED
    BY <1>15, <2>1 DEF Unlock, Goto, tVars, lpVars, gVars
<1>16. ASSUME NEW t \in Thread, Commit(t)
       PROVE  Barrier'
  <2>1. Reported' = Reported
    BY <1>16 DEF Commit, Goto, Reported
  <2> QED
    BY <1>16, <2>1 DEF Commit, Goto, tVars, lpVars, gVars
<1>17. ASSUME NEW t \in Thread, RoundStep(t)
       PROVE  Barrier'
  <2>1. Reported' = Reported
    BY <1>17 DEF RoundStep, CheckOnGVT, Ask, Goto, Reported
  <2> QED
    BY <1>17, <2>1 DEF RoundStep, CheckOnGVT, Ask, Goto, tVars, lpVars, gVars
<1>18. ASSUME NEW t \in Thread, PeriodicLock(t)
       PROVE  Barrier'
  <2>1. Reported' = Reported
    BY <1>18 DEF PeriodicLock, Goto, Reported
  <2> QED
    BY <1>18, <2>1 DEF PeriodicLock, Goto, tVars, lpVars, gVars
<1>19. ASSUME NEW t \in Thread, PeriodicCheck(t)
       PROVE  Barrier'
  <2>1. Reported' = Reported
    BY <1>19 DEF PeriodicCheck, CheckOnGVT, Ask, Goto, Reported
  <2> QED
    BY <1>19, <2>1 DEF PeriodicCheck, CheckOnGVT, Ask, Goto, tVars, lpVars, gVars
<1>20. ASSUME NEW t \in Thread, Test(t)
       PROVE  Barrier'
  <2>1. Reported' = Reported
    BY <1>20 DEF Test, Goto, Reported
  <2> QED
    BY <1>20, <2>1 DEF Test, Goto, tVars, lpVars, gVars
<1>21. ASSUME NEW t \in Thread, Scan(t)
       PROVE  Barrier'
  <2>1. Reported' = Reported
    BY <1>21 DEF Scan, AfterScan, Goto, Reported
  <2> QED
    BY <1>21, <2>1 DEF Scan, AfterScan, Goto, tVars, lpVars, gVars
<1>22. ASSUME NEW t \in Thread, Flush(t)
       PROVE  Barrier'
  <2>1. Reported' = Reported
    BY <1>22 DEF Flush, Goto, Reported
  <2> QED
    BY <1>22, <2>1 DEF Flush, Goto, tVars, lpVars, gVars
<1>23. ASSUME NEW t \in Thread, Destroy(t)
       PROVE  Barrier'
  <2>1. Reported' = Reported
    BY <1>23 DEF Destroy, Goto, Reported
  <2> QED
    BY <1>23, <2>1 DEF Destroy, Goto, tVars, lpVars, gVars
<1>24. ASSUME NEW t \in Thread, Finish(t)
       PROVE  Barrier'
  <2>1. Reported' = Reported
    BY <1>24 DEF Finish, Goto, Reported
  <2> QED
    BY <1>24, <2>1 DEF Finish, Goto, tVars, lpVars, gVars
<1> QED
  BY <1>1, <1>2, <1>3, <1>4, <1>5, <1>6, <1>7, <1>8, <1>9, <1>10, <1>11, <1>12, <1>13, <1>14, <1>15, <1>16, <1>17, <1>18, <1>19, <1>20, <1>21, <1>22, <1>23, <1>24 DEF Next, Step

\* The locks.
LEMMA LockStep ==
  ASSUME TypeOK, Indices, LockDiscipline, [Next]_vars
  PROVE  LockDiscipline'
<1> USE NobodyElse DEF LockDiscipline, Holds
<1> /\ pc \in [Thread -> Place] /\ cur \in [Thread -> 0 .. NLps] /\ checked \in [Thread -> LP]
    /\ lock \in [LP -> Thread \cup {Nobody}]
  BY DEF TypeOK
<1> \A t \in Thread : pc[t] \in Working => cur[t] \in LP
  BY DEF Indices
<1>1. CASE UNCHANGED vars
  BY <1>1 DEF vars, tVars, lpVars, gVars
<1>2. CASE Sleep
  BY <1>2 DEF Sleep, tVars, lpVars, gVars
<1>3. CASE InitLP
  BY <1>3 DEF InitLP, MAIN_PROCESS, tVars, lpVars, gVars
<1>4. ASSUME NEW t \in Thread, Ready(t)
       PROVE  LockDiscipline'
  BY <1>4 DEF Ready, Goto, tVars, lpVars, gVars
<1>5. ASSUME NEW t \in Thread, Enter(t)
       PROVE  LockDiscipline'
  BY <1>5 DEF Enter, Goto, tVars, lpVars, gVars
<1>6. ASSUME NEW t \in Thread, Loop(t)
       PROVE  LockDiscipline'
  BY <1>6 DEF Loop, Stopped, StopTimer, Goto, tVars, lpVars, gVars
<1>7. ASSUME NEW t \in Thread, FetchNothing(t)
       PROVE  LockDiscipline'
  BY <1>7 DEF FetchNothing, Goto, tVars, lpVars, gVars
<1>8. ASSUME NEW t \in Thread, NEW l \in LP, Fetch(t, l)
       PROVE  LockDiscipline'
  BY <1>8 DEF Fetch, Goto, tVars, lpVars, gVars
<1>9. ASSUME NEW t \in Thread, GoRound(t)
       PROVE  LockDiscipline'
  BY <1>9 DEF GoRound, Leave, Goto, tVars, lpVars, gVars
<1>10. ASSUME NEW t \in Thread, Execute(t)
       PROVE  LockDiscipline'
  BY <1>10 DEF Execute, Goto, tVars, lpVars, gVars
<1>11. ASSUME NEW t \in Thread, OnGVT(t)
       PROVE  LockDiscipline'
  BY <1>11 DEF OnGVT, Ask, Goto, tVars, lpVars, gVars
<1>12. ASSUME NEW t \in Thread, NotSafe(t)
       PROVE  LockDiscipline'
  BY <1>12 DEF NotSafe, CheckOnGVT, Ask, Goto, tVars, lpVars, gVars
<1>13. ASSUME NEW t \in Thread, Clean(t)
       PROVE  LockDiscipline'
  BY <1>13 DEF Clean, Goto, tVars, lpVars, gVars
<1>14. ASSUME NEW t \in Thread, Collect(t)
       PROVE  LockDiscipline'
  BY <1>14 DEF Collect, Goto, tVars, lpVars, gVars
<1>15. ASSUME NEW t \in Thread, Unlock(t)
       PROVE  LockDiscipline'
  BY <1>15 DEF Unlock, Goto, tVars, lpVars, gVars
<1>16. ASSUME NEW t \in Thread, Commit(t)
       PROVE  LockDiscipline'
  BY <1>16 DEF Commit, Goto, tVars, lpVars, gVars
<1>17. ASSUME NEW t \in Thread, RoundStep(t)
       PROVE  LockDiscipline'
  BY <1>17 DEF RoundStep, CheckOnGVT, Ask, Goto, tVars, lpVars, gVars
<1>18. ASSUME NEW t \in Thread, PeriodicLock(t)
       PROVE  LockDiscipline'
  BY <1>18 DEF PeriodicLock, Goto, tVars, lpVars, gVars
<1>19. ASSUME NEW t \in Thread, PeriodicCheck(t)
       PROVE  LockDiscipline'
  BY <1>19 DEF PeriodicCheck, CheckOnGVT, Ask, Goto, tVars, lpVars, gVars
<1>20. ASSUME NEW t \in Thread, Test(t)
       PROVE  LockDiscipline'
  BY <1>20 DEF Test, Goto, tVars, lpVars, gVars
<1>21. ASSUME NEW t \in Thread, Scan(t)
       PROVE  LockDiscipline'
  BY <1>21 DEF Scan, AfterScan, Goto, tVars, lpVars, gVars
<1>22. ASSUME NEW t \in Thread, Flush(t)
       PROVE  LockDiscipline'
  BY <1>22 DEF Flush, Goto, tVars, lpVars, gVars
<1>23. ASSUME NEW t \in Thread, Destroy(t)
       PROVE  LockDiscipline'
  BY <1>23 DEF Destroy, Goto, tVars, lpVars, gVars
<1>24. ASSUME NEW t \in Thread, Finish(t)
       PROVE  LockDiscipline'
  BY <1>24 DEF Finish, Goto, tVars, lpVars, gVars
<1> QED
  BY <1>1, <1>2, <1>3, <1>4, <1>5, <1>6, <1>7, <1>8, <1>9, <1>10, <1>11, <1>12, <1>13, <1>14, <1>15, <1>16, <1>17, <1>18, <1>19, <1>20, <1>21, <1>22, <1>23, <1>24 DEF Next, Step

\* The bounds that are set aside.
LEMMA AsideStep ==
  ASSUME TypeOK, Indices, LockDiscipline, Aside, [Next]_vars
  PROVE  Aside'
<1> USE DEF Aside
<1> /\ pc \in [Thread -> Place] /\ cur \in [Thread -> 0 .. NLps] /\ bound \in [LP -> {"NULL", "event", "dummy"}]
    /\ old \in [LP -> BOOLEAN]
  BY DEF TypeOK
<1> \A t \in Thread : pc[t] \in Working => cur[t] \in LP
  BY DEF Indices
<1>1. CASE UNCHANGED vars
  BY <1>1 DEF vars, tVars, lpVars, gVars
<1>2. CASE Sleep
  BY <1>2 DEF Sleep, tVars, lpVars, gVars
<1>3. CASE InitLP
  BY <1>3 DEF InitLP, tVars, lpVars, gVars
<1>4. ASSUME NEW t \in Thread, Ready(t)
       PROVE  Aside'
  BY <1>4 DEF Ready, Goto, tVars, lpVars, gVars
<1>5. ASSUME NEW t \in Thread, Enter(t)
       PROVE  Aside'
  BY <1>5 DEF Enter, Goto, tVars, lpVars, gVars
<1>6. ASSUME NEW t \in Thread, Loop(t)
       PROVE  Aside'
  BY <1>6 DEF Loop, Stopped, StopTimer, Goto, tVars, lpVars, gVars
<1>7. ASSUME NEW t \in Thread, FetchNothing(t)
       PROVE  Aside'
  BY <1>7 DEF FetchNothing, Goto, tVars, lpVars, gVars
<1>8. ASSUME NEW t \in Thread, NEW l \in LP, Fetch(t, l)
       PROVE  Aside'
  BY <1>8 DEF Fetch, Goto, tVars, lpVars, gVars
<1>9. ASSUME NEW t \in Thread, GoRound(t)
       PROVE  Aside'
  BY <1>9 DEF GoRound, Leave, Goto, tVars, lpVars, gVars
<1>10. ASSUME NEW t \in Thread, Execute(t)
       PROVE  Aside'
  BY <1>10 DEF Execute, Goto, tVars, lpVars, gVars
<1>11. ASSUME NEW t \in Thread, OnGVT(t)
       PROVE  Aside'
  BY <1>11 DEF OnGVT, Ask, Goto, tVars, lpVars, gVars
<1>12. ASSUME NEW t \in Thread, NotSafe(t)
       PROVE  Aside'
  BY <1>12 DEF NotSafe, CheckOnGVT, Ask, Goto, tVars, lpVars, gVars
<1>13. ASSUME NEW t \in Thread, Clean(t)
       PROVE  Aside'
  BY <1>13 DEF Clean, Goto, tVars, lpVars, gVars
<1>14. ASSUME NEW t \in Thread, Collect(t)
       PROVE  Aside'
  BY <1>14 DEF Collect, Goto, tVars, lpVars, gVars
<1>15. ASSUME NEW t \in Thread, Unlock(t)
       PROVE  Aside'
  BY <1>15 DEF Unlock, Goto, tVars, lpVars, gVars
<1>16. ASSUME NEW t \in Thread, Commit(t)
       PROVE  Aside'
  BY <1>16 DEF Commit, Goto, tVars, lpVars, gVars
<1>17. ASSUME NEW t \in Thread, RoundStep(t)
       PROVE  Aside'
  BY <1>17 DEF RoundStep, CheckOnGVT, Ask, Goto, tVars, lpVars, gVars
<1>18. ASSUME NEW t \in Thread, PeriodicLock(t)
       PROVE  Aside'
  BY <1>18 DEF PeriodicLock, Goto, tVars, lpVars, gVars
<1>19. ASSUME NEW t \in Thread, PeriodicCheck(t)
       PROVE  Aside'
  BY <1>19 DEF PeriodicCheck, CheckOnGVT, Ask, Goto, tVars, lpVars, gVars
<1>20. ASSUME NEW t \in Thread, Test(t)
       PROVE  Aside'
  BY <1>20 DEF Test, Goto, tVars, lpVars, gVars
<1>21. ASSUME NEW t \in Thread, Scan(t)
       PROVE  Aside'
  BY <1>21 DEF Scan, AfterScan, Goto, tVars, lpVars, gVars
<1>22. ASSUME NEW t \in Thread, Flush(t)
       PROVE  Aside'
  BY <1>22 DEF Flush, Goto, tVars, lpVars, gVars
<1>23. ASSUME NEW t \in Thread, Destroy(t)
       PROVE  Aside'
  BY <1>23 DEF Destroy, Goto, tVars, lpVars, gVars
<1>24. ASSUME NEW t \in Thread, Finish(t)
       PROVE  Aside'
  BY <1>24 DEF Finish, Goto, tVars, lpVars, gVars
<1> QED
  BY <1>1, <1>2, <1>3, <1>4, <1>5, <1>6, <1>7, <1>8, <1>9, <1>10, <1>11, <1>12, <1>13, <1>14, <1>15, <1>16, <1>17, <1>18, <1>19, <1>20, <1>21, <1>22, <1>23, <1>24 DEF Next, Step

\* The bits that were found set, and the flag.
LEMMA ScanStep ==
  ASSUME TypeOK, TypeOK', Indices, Scanned, StopSound, [Next]_vars
  PROVE  Scanned' /\ StopSound'
<1> USE DEF Scanned, StopSound, LP
<1> /\ pc \in [Thread -> Place] /\ at \in [Thread -> 0 .. NLps - 1] /\ ended \subseteq LP /\ ended' \subseteq LP
  BY DEF TypeOK, LP
<1> \A t \in Thread : pc[t] \notin {"round", "scan"} => at[t] = 0
  BY DEF Indices
<1>1. CASE UNCHANGED vars
  BY <1>1 DEF vars, tVars, lpVars, gVars
<1>2. CASE Sleep
  BY <1>2 DEF Sleep, tVars, lpVars, gVars
<1>3. CASE InitLP
  BY <1>3 DEF InitLP, tVars, lpVars, gVars
<1>4. ASSUME NEW t \in Thread, Ready(t)
       PROVE  Scanned' /\ StopSound'
  BY <1>4 DEF Ready, Goto, tVars, lpVars, gVars
<1>5. ASSUME NEW t \in Thread, Enter(t)
       PROVE  Scanned' /\ StopSound'
  BY <1>5 DEF Enter, Goto, tVars, lpVars, gVars
<1>6. ASSUME NEW t \in Thread, Loop(t)
       PROVE  Scanned' /\ StopSound'
  BY <1>6 DEF Loop, Stopped, StopTimer, Goto, tVars, lpVars, gVars
<1>7. ASSUME NEW t \in Thread, FetchNothing(t)
       PROVE  Scanned' /\ StopSound'
  BY <1>7 DEF FetchNothing, Goto, tVars, lpVars, gVars
<1>8. ASSUME NEW t \in Thread, NEW l \in LP, Fetch(t, l)
       PROVE  Scanned' /\ StopSound'
  BY <1>8 DEF Fetch, Goto, tVars, lpVars, gVars
<1>9. ASSUME NEW t \in Thread, GoRound(t)
       PROVE  Scanned' /\ StopSound'
  BY <1>9 DEF GoRound, Leave, Goto, tVars, lpVars, gVars
<1>10. ASSUME NEW t \in Thread, Execute(t)
       PROVE  Scanned' /\ StopSound'
  BY <1>10 DEF Execute, Goto, tVars, lpVars, gVars
<1>11. ASSUME NEW t \in Thread, OnGVT(t)
       PROVE  Scanned' /\ StopSound'
  BY <1>11 DEF OnGVT, Ask, Goto, tVars, lpVars, gVars
<1>12. ASSUME NEW t \in Thread, NotSafe(t)
       PROVE  Scanned' /\ StopSound'
  BY <1>12 DEF NotSafe, CheckOnGVT, Ask, Goto, tVars, lpVars, gVars
<1>13. ASSUME NEW t \in Thread, Clean(t)
       PROVE  Scanned' /\ StopSound'
  BY <1>13 DEF Clean, Goto, tVars, lpVars, gVars
<1>14. ASSUME NEW t \in Thread, Collect(t)
       PROVE  Scanned' /\ StopSound'
  BY <1>14 DEF Collect, Goto, tVars, lpVars, gVars
<1>15. ASSUME NEW t \in Thread, Unlock(t)
       PROVE  Scanned' /\ StopSound'
  BY <1>15 DEF Unlock, Goto, tVars, lpVars, gVars
<1>16. ASSUME NEW t \in Thread, Commit(t)
       PROVE  Scanned' /\ StopSound'
  BY <1>16 DEF Commit, Goto, tVars, lpVars, gVars
<1>17. ASSUME NEW t \in Thread, RoundStep(t)
       PROVE  Scanned' /\ StopSound'
  BY <1>17 DEF RoundStep, CheckOnGVT, Ask, Goto, tVars, lpVars, gVars
<1>18. ASSUME NEW t \in Thread, PeriodicLock(t)
       PROVE  Scanned' /\ StopSound'
  BY <1>18 DEF PeriodicLock, Goto, tVars, lpVars, gVars
<1>19. ASSUME NEW t \in Thread, PeriodicCheck(t)
       PROVE  Scanned' /\ StopSound'
  BY <1>19 DEF PeriodicCheck, CheckOnGVT, Ask, Goto, tVars, lpVars, gVars
<1>20. ASSUME NEW t \in Thread, Test(t)
       PROVE  Scanned' /\ StopSound'
  BY <1>20 DEF Test, Goto, tVars, lpVars, gVars
<1>21. ASSUME NEW t \in Thread, Scan(t)
       PROVE  Scanned' /\ StopSound'
  <2>1. ASSUME NEW u \in Thread, u # t
        PROVE  pc'[u] = pc[u] /\ at'[u] = at[u]
    BY <1>21, <2>1 DEF Scan, Goto
  <2>2. ended' = ended
    BY <1>21 DEF Scan, gVars
  <2>3. CASE at[t] \notin ended
    BY <1>21, <2>1, <2>2, <2>3 DEF Scan, AfterScan, Goto
  <2>4. CASE at[t] \in ended /\ at[t] + 1 = NLps
    <3>1. \A l \in 0 .. NLps - 1 : l \in ended
      BY <1>21, <2>4, NLpsAssumption DEF Scan
    <3>2. pc'[t] # "scan"
      BY <1>21, <2>4 DEF Scan, AfterScan, Goto
    <3> QED
      BY <2>1, <2>2, <3>1, <3>2
  <2>5. CASE at[t] \in ended /\ at[t] + 1 # NLps
    <3>1. at'[t] = at[t] + 1 /\ stop' = stop
      BY <1>21, <2>5 DEF Scan
    <3>2. \A l \in 0 .. at[t] : l \in ended
      BY <1>21, <2>5 DEF Scan
    <3> QED
      BY <2>1, <2>2, <3>1, <3>2
  <2> QED
    BY <2>3, <2>4, <2>5
<1>22. ASSUME NEW t \in Thread, Flush(t)
       PROVE  Scanned' /\ StopSound'
  BY <1>22 DEF Flush, Goto, tVars, lpVars, gVars
<1>23. ASSUME NEW t \in Thread, Destroy(t)
       PROVE  Scanned' /\ StopSound'
  BY <1>23 DEF Destroy, Goto, tVars, lpVars, gVars
<1>24. ASSUME NEW t \in Thread, Finish(t)
       PROVE  Scanned' /\ StopSound'
  BY <1>24 DEF Finish, Goto, tVars, lpVars, gVars
<1> QED
  BY <1>1, <1>2, <1>3, <1>4, <1>5, <1>6, <1>7, <1>8, <1>9, <1>10, <1>11, <1>12, <1>13, <1>14, <1>15, <1>16, <1>17, <1>18, <1>19, <1>20, <1>21, <1>22, <1>23, <1>24 DEF Next, Step

LEMMA StepIInv == ASSUME IInv, [Next]_vars PROVE IInv'
<1> USE DEF IInv
<1>1. TypeOK'
  BY TypeStep
<1>2. Indices' /\ Barrier'
  BY IndexStep, BarrierStep
<1>3. LockDiscipline' /\ Aside'
  BY LockStep, AsideStep
<1>4. Scanned' /\ StopSound'
  BY <1>1, ScanStep
<1> QED
  BY <1>1, <1>2, <1>3, <1>4
-----------------------------------------------------------------------------
THEOREM Invariance == Spec => []IInv
BY InitIInv, StepIInv, PTL DEF Spec

\* Types are kept: no index leaves its array, and ready_wt never passes n_cores.
THEOREM TypeCorrect == Spec => []TypeOK
<1>1. IInv => TypeOK
  BY DEF IInv
<1> QED
  BY <1>1, Invariance, PTL

\* A thread holds the lock of the LP it works on, and no other, anywhere in
\* either version of thread_loop.
THEOREM LocksKept == Spec => []LockDiscipline
<1>1. IInv => LockDiscipline
  BY DEF IInv
<1> QED
  BY <1>1, Invariance, PTL

\* An unlocked LP has its bound back: the dummy that change_bound_with_current_msg
\* puts in its place is seen by the thread that put it there only.
THEOREM BoundsBack == Spec => []BoundRestored
<1>1. IInv => BoundRestored
  <2> SUFFICES ASSUME IInv, NEW l \in LP, lock[l] = Nobody, bound[l] = "dummy" \/ old[l]
               PROVE  FALSE
    BY DEF BoundRestored
  <2>1. PICK t \in Thread : pc[t] = "held" /\ cur[t] = l
    BY DEF IInv, Aside
  <2>2. lock[l] = t
    BY <2>1 DEF IInv, LockDiscipline, Holds
  <2> QED
    BY <2>2, NobodyElse
<1> QED
  BY <1>1, Invariance, PTL

\* The threads start together, behind the initialisation of every LP.
THEOREM InitIsFirst == Spec => []InitFirst
<1>1. IInv => InitFirst
  <2> SUFFICES ASSUME IInv, NEW t \in Thread, pc[t] \notin {"init", "barrier"}
               PROVE  inited = LP /\ ready = NCores
    BY DEF InitFirst
  <2>1. ready = NCores
    BY DEF IInv, Barrier
  <2>2. Reported \subseteq Thread /\ Cardinality(Reported) = Cardinality(Thread)
    BY <2>1, Threads DEF IInv, Barrier, Reported
  <2>3. Reported = Thread
    BY <2>2, Threads, FS_Subset
  <2>4. pc[MAIN_PROCESS] # "init"
    BY <2>3, Threads DEF Reported
  <2> QED
    BY <2>1, <2>4 DEF IInv, Barrier
<1> QED
  BY <1>1, Invariance, PTL

\* The flag stop is only set when every LP has ended, although the bits are read
\* one after the other while other threads set them.
THEOREM StopIsSound == Spec => []StopSound
<1>1. IInv => StopSound
  BY DEF IInv
<1> QED
  BY <1>1, Invariance, PTL
=============================================================================
