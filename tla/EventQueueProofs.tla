------------------------- MODULE EventQueueProofs --------------------------
(***************************************************************************)
(* Proofs about EventQueue, for any number of events, rollbacks, committers*)
(* and checkpoint periods.  HandedProofs has what is handed over.          *)
(***************************************************************************)
EXTENDS EventQueue, WellFoundedInduction, TLAPS

\* The types, but for what is handed over (HandedProofs).
AWindow == [epoch : Nat, ops : Seq(Event \X Nat)]
SimOK ==
  /\ state \in [Event -> {"none", "new", "extracted", "handled"}]
  /\ valid \in [Event -> BOOLEAN]
  /\ node \subseteq Event /\ gvt \in Event
LpOK ==
  /\ queue \subseteq Event /\ bound \in Event /\ states \subseteq Event
  /\ epoch \in Nat /\ msgEpoch \in [Event -> Nat] /\ ckpPeriod \in CkpPeriods
  /\ fromCkp \in 0 .. ckpPeriod - 1
RunOK ==
  /\ pc \in {"idle", "fetch", "rollback", "silent", "execute", "clean", "collect"}
  /\ cur \in Event /\ anti \in BOOLEAN /\ safe \in BOOLEAN /\ pos \in Event
HorizonOK ==
  /\ horizon \in 0 .. MaxTs + 1 /\ found \in [Committer -> Event \cup {None}]
  /\ later \in [Committer -> BOOLEAN] /\ committed \subseteq Event
IoOK ==
  /\ window \in [Event -> AWindow] /\ batch \subseteq Event
  /\ output \in [Event -> Seq(Event \X Nat)]
StateOK == SimOK /\ LpOK /\ RunOK /\ HorizonOK /\ IoOK

\* The calendar queue: nothing in it is before the GVT; an event leaves it when
\* it is committed or not valid, and a committed one stays as it is.
Calendar ==
  /\ \A e \in node : gvt <= e /\ state[e] # "none" /\ e # INIT
  /\ \A e \in Event : state[e] = "new" => e \in node
  /\ \A e \in Event : state[e] = "handled" => ~valid[e]
  /\ \A e \in Event : state[e] = "extracted" => e \in node \cup committed
  /\ \A e \in committed : state[e] = "extracted" /\ valid[e] /\ e <= gvt /\ e \notin node

\* Between FetchChoose or FetchAnti and the end of the execution.
Handling == pc \in {"rollback", "silent", "execute"}

\* The event at hand.
Current ==
  /\ pc = "fetch" \/ Handling => cur # INIT /\ state[cur] # "none"
  /\ pc = "fetch" => /\ ~anti
                     /\ state[cur] = "extracted" => bound < cur
                     /\ state[cur] # "handled" => cur \in node
  /\ Handling => state[cur] = "extracted" /\ cur \notin committed
              /\ (anti => ~valid[cur]) /\ (safe => cur <= gvt)
  /\ pc \in {"rollback", "silent"} => cur \in node /\ cur <= bound
  /\ pc = "silent" => pos < cur
  /\ pc = "execute" => bound < cur
  /\ pc = "clean" => bound <= gvt

\* The queue up to the bound: what was executed and not undone.
Executed ==
  /\ \A e \in queue : e <= bound => state[e] = "extracted"
  /\ \A e \in queue : state[e] \in {"extracted", "handled"}
  /\ \A e \in committed \cap queue : e <= bound
  /\ pc = "execute" => \A e \in queue : ~(bound < e /\ e < cur)
  /\ \A e \in node \ queue : state[e] = "extracted" => Handling /\ e = cur

\* The checkpoints are those of executed events, and one of them cannot be
\* undone.
Anchored == \E s \in states : valid[s] /\ (s = INIT \/ s < gvt)
Checkpoints ==
  /\ states \subseteq queue
  /\ \A s \in states : s <= bound /\ (pc = "silent" => s <= pos)
  /\ Anchored

\* What clean_checkpoint has thrown away.
Thrown ==
  /\ pc # "collect" => batch = {}
  /\ batch \cap queue = {} /\ batch \subseteq committed
  /\ \A e \in batch : e <= bound

\* The windows: none is ahead of the epoch, those behind the bound are empty or
\* of an older epoch, and the others hold what was written.
Windows ==
  /\ \A e \in Event : window[e].epoch <= epoch /\ msgEpoch[e] <= epoch
  /\ \A e \in Event : bound < e => window[e].ops = <<>> \/ window[e].epoch < epoch
  /\ \A e \in Event \ queue : state[e] # "extracted" => window[e].ops = <<>>
  /\ pc = "execute" /\ cur \notin queue => window[cur].ops = <<>>
  /\ ~MayBeMute => \A e \in queue \cup batch :
       e <= bound /\ ~(pc = "silent" /\ e = cur) => window[e].ops = output[e]

IInv == StateOK /\ Calendar /\ Current /\ Executed /\ Checkpoints /\ Thrown /\ Windows
-----------------------------------------------------------------------------
LEMMA Events == Event \subseteq Nat /\ INIT \in Event /\ None \notin Event /\ \A e \in Event : INIT <= e
BY BoundsAssumption DEF Event, INIT, None

LEMMA EarliestOf ==
  ASSUME NEW S \in SUBSET Event, S # {}
  PROVE  Earliest(S) \in S /\ \A f \in S : Earliest(S) <= f
<1>1. PICK e \in S : \A f \in S : ~(<<f, e>> \in OpToRel(<, Nat))
  BY NatLessThanWellFounded, WFMin, Events
<1>2. \A f \in S : e <= f
  <2> SUFFICES ASSUME NEW f \in S PROVE e <= f
    OBVIOUS
  <2>1. e \in Nat /\ f \in Nat
    BY Events
  <2>2. ~(f < e)
    BY <1>1, <2>1 DEF OpToRel
  <2> QED
    BY <2>1, <2>2
<1> QED
  BY <1>2 DEF Earliest

LEMMA LatestOf ==
  ASSUME NEW S \in SUBSET Event, S # {}
  PROVE  Latest(S) \in S /\ \A f \in S : f <= Latest(S)
<1> DEFINE T == {MaxTs - e : e \in S}
<1>1. \A e \in Event : MaxTs - e \in Event /\ e \in Int /\ MaxTs \in Int
  BY BoundsAssumption DEF Event
<1>2. T \in SUBSET Event /\ T # {}
  BY <1>1
<1>3. Earliest(T) \in T /\ \A x \in T : Earliest(T) <= x
  BY <1>2, EarliestOf
<1>4. PICK e \in S : Earliest(T) = MaxTs - e
  BY <1>3
<1>5. ASSUME NEW f \in S PROVE f <= e
  <2>1. MaxTs - e <= MaxTs - f
    BY <1>3, <1>4
  <2> QED
    BY <1>1, <2>1
<1> QED
  BY <1>5 DEF Latest

\* The event after the bound.
LEMMA LocalNextFacts ==
  ASSUME StateOK
  PROVE  IF LocalNext = None
           THEN \A e \in queue : e <= bound
           ELSE /\ LocalNext \in queue /\ bound < LocalNext
                /\ \A e \in queue : bound < e => LocalNext <= e
<1>1. After(bound) \in SUBSET Event
  BY DEF After, StateOK, LpOK
<1>2. After(bound) # {} => /\ LocalNext = Earliest(After(bound)) /\ LocalNext \in After(bound)
                           /\ \A e \in After(bound) : LocalNext <= e
  BY <1>1, EarliestOf DEF LocalNext
<1>3. CASE After(bound) = {}
  BY <1>3, Events DEF LocalNext, After, StateOK, LpOK
<1>4. CASE After(bound) # {}
  BY <1>2, <1>4, Events, <1>1 DEF After
<1> QED
  BY <1>3, <1>4

\* The event to run again.
LEMMA SilentNextFacts ==
  ASSUME StateOK
  PROVE  IF SilentNext = None
           THEN Stopped => \E f \in queue : /\ pos < f /\ f < cur /\ ~valid[f]
                                            /\ \A e \in queue : pos < e => f <= e
           ELSE SilentNext \in queue /\ pos < SilentNext /\ SilentNext < cur /\ valid[SilentNext]
<1> DEFINE rest == {e \in After(pos) : e < cur}
<1>1. rest \in SUBSET Event /\ cur \in Event /\ pos \in Event
  BY DEF After, StateOK, LpOK, RunOK
<1>2. rest # {} => Earliest(rest) \in rest /\ \A e \in rest : Earliest(rest) <= e
  BY <1>1, EarliestOf
<1>3. CASE rest = {}
  BY <1>3 DEF SilentNext, Stopped
<1>4. CASE rest # {}
  <2>1. Earliest(rest) \in Event /\ Earliest(rest) # None
    BY <1>1, <1>2, <1>4, Events
  <2>2. SilentNext = IF valid[Earliest(rest)] THEN Earliest(rest) ELSE None
    BY <1>4 DEF SilentNext
  <2>3. Earliest(rest) \in queue /\ pos < Earliest(rest) /\ Earliest(rest) < cur
    BY <1>2, <1>4 DEF After
  <2>4. \A e \in queue : pos < e => Earliest(rest) <= e
    <3> SUFFICES ASSUME NEW e \in queue, pos < e PROVE Earliest(rest) <= e
      OBVIOUS
    <3>1. e \in Event /\ (e \in rest \/ cur <= e)
      BY Events, <1>1 DEF After, StateOK, LpOK
    <3>2. CASE e \in rest
      BY <3>2, <1>2, <1>4
    <3>3. CASE cur <= e
      <4>1. Earliest(rest) \in Nat /\ cur \in Nat /\ e \in Nat
        BY <1>1, <2>1, <3>1, Events
      <4> HIDE DEF rest
      <4> QED
        BY <2>3, <3>3, <4>1
    <3> QED
      BY <3>1, <3>2, <3>3
  <2> HIDE DEF rest
  <2> QED
    BY <2>1, <2>2, <2>3, <2>4
<1> QED
  BY <1>3, <1>4

\* A write puts the epoch into a window, and keeps what is there only if it is
\* of the same epoch.
LEMMA WriteFacts ==
  \A w \in AWindow, ep \in Nat, op \in Event \X Nat :
    /\ Write(w, ep, op) \in AWindow
    /\ Write(w, ep, op).epoch = ep
    /\ w.ops = <<>> \/ w.epoch # ep => Write(w, ep, op).ops = <<op>>
<1> TAKE w \in AWindow, ep \in Nat, op \in Event \X Nat
<1>1. w.epoch \in Nat /\ w.ops \in Seq(Event \X Nat) /\ w = [epoch |-> w.epoch, ops |-> w.ops]
  BY DEF AWindow
<1>2. CASE w.ops # <<>> /\ w.epoch = ep
  <2>1. Write(w, ep, op) = [epoch |-> ep, ops |-> Append(w.ops, op)]
    BY <1>1, <1>2 DEF Write
  <2> QED
    BY <1>1, <1>2, <2>1 DEF AWindow
<1>3. CASE ~(w.ops # <<>> /\ w.epoch = ep)
  <2>1. Write(w, ep, op) = [epoch |-> ep, ops |-> <<op>>]
    BY <1>3 DEF Write
  <2>2. <<op>> \in Seq(Event \X Nat)
    OBVIOUS
  <2> QED
    BY <2>1, <2>2 DEF AWindow
<1> QED
  BY <1>2, <1>3

LEMMA Update == ASSUME NEW S, NEW R, NEW f \in [S -> R], NEW s \in S, NEW v \in R
                PROVE  [f EXCEPT ![s] = v] \in [S -> R]
OBVIOUS
-----------------------------------------------------------------------------
(* The types.                                                               *)

\* The events and the calendar queue.
LEMMA SimStep ==
  ASSUME StateOK, [Next]_vars
  PROVE  SimOK'
<1> USE DEF StateOK, SimOK
<1>1. CASE UNCHANGED vars
  BY <1>1 DEF vars, simVars, lpVars, runVars, hVars, ioVars
<1>2. ASSUME NEW e \in Event, Send(e)
       PROVE  SimOK'
  BY <1>2 DEF Send, simVars, lpVars, runVars, hVars, ioVars
<1>3. ASSUME NEW e \in Event, Invalidate(e)
       PROVE  SimOK'
  BY <1>3, Update DEF Invalidate, simVars, lpVars, runVars, hVars, ioVars
<1>4. ASSUME NEW e \in Event, RemoveNode(e)
       PROVE  SimOK'
  BY <1>4 DEF RemoveNode, simVars, lpVars, runVars, hVars, ioVars
<1>5. ASSUME NEW e \in Event, Fetch(e)
       PROVE  SimOK'
  BY <1>5 DEF Fetch, simVars, lpVars, runVars, hVars, ioVars
<1>6. ASSUME NEW e \in Event, FetchAnti(e)
       PROVE  SimOK'
  BY <1>6 DEF FetchAnti, simVars, lpVars, runVars, hVars, ioVars
<1>7. ASSUME NEW c \in Committer, CommitCompare(c)
       PROVE  SimOK'
  BY <1>7 DEF CommitCompare, simVars, lpVars, runVars, hVars, ioVars
<1>8. ASSUME NEW c \in Committer, CommitWrite(c)
       PROVE  SimOK'
  BY <1>8 DEF CommitWrite, simVars, lpVars, runVars, hVars, ioVars
<1>9. ASSUME NEW c \in Committer, NEW e \in Event, CommitDelete(c, e)
       PROVE  SimOK'
  BY <1>9 DEF CommitDelete, simVars, lpVars, runVars, hVars, ioVars
<1>10. CASE AdvanceGvt
  <2>1. gvt + 1 \in Event
    BY <1>10, BoundsAssumption DEF AdvanceGvt, Event
  <2> QED
    BY <1>10, <2>1 DEF AdvanceGvt
<1>11. CASE FetchDrop
  <2>1. LocalNext \in Event
    BY <1>11, LocalNextFacts DEF FetchDrop, LpOK
  <2> QED
    BY <1>11, <2>1 DEF FetchDrop, simVars, lpVars, runVars, hVars, ioVars
<1>12. CASE FetchChoose
  BY <1>12 DEF FetchChoose, RunOK, simVars
<1>13. CASE Rollback
  BY <1>13 DEF Rollback, simVars, lpVars, runVars, hVars, ioVars
<1>14. CASE SilentStep
  BY <1>14 DEF SilentStep, simVars, lpVars, runVars, hVars, ioVars
<1>15. CASE SilentEnd
  BY <1>15 DEF SilentEnd, LocalsEnd, simVars, lpVars, runVars, hVars, ioVars
<1>16. CASE AntiDone
  BY <1>16 DEF AntiDone, RunOK
<1>17. CASE Execute
  BY <1>17 DEF Execute, LogState, LocalsEnd, Cleans, simVars, lpVars, runVars, hVars, ioVars
<1>18. CASE CleanCheckpoint
  BY <1>18 DEF CleanCheckpoint, simVars, lpVars, runVars, hVars, ioVars
<1>19. CASE Collect
  BY <1>19 DEF Collect, simVars, lpVars, runVars, hVars, ioVars
<1> QED
  BY <1>1, <1>2, <1>3, <1>4, <1>5, <1>6, <1>7, <1>8, <1>9, <1>10, <1>11, <1>12, <1>13, <1>14, <1>15, <1>16, <1>17, <1>18, <1>19 DEF Next, Ended

\* The queue, the checkpoints and the epochs.
LEMMA LpStep ==
  ASSUME StateOK, [Next]_vars
  PROVE  LpOK'
<1> USE DEF StateOK, LpOK
<1>1. CASE UNCHANGED vars
  BY <1>1 DEF vars, simVars, lpVars, runVars, hVars, ioVars
<1>2. ASSUME NEW e \in Event, Send(e)
       PROVE  LpOK'
  BY <1>2 DEF Send, simVars, lpVars, runVars, hVars, ioVars
<1>3. ASSUME NEW e \in Event, Invalidate(e)
       PROVE  LpOK'
  BY <1>3 DEF Invalidate, simVars, lpVars, runVars, hVars, ioVars
<1>4. ASSUME NEW e \in Event, RemoveNode(e)
       PROVE  LpOK'
  BY <1>4 DEF RemoveNode, simVars, lpVars, runVars, hVars, ioVars
<1>5. ASSUME NEW e \in Event, Fetch(e)
       PROVE  LpOK'
  BY <1>5 DEF Fetch, simVars, lpVars, runVars, hVars, ioVars
<1>6. ASSUME NEW e \in Event, FetchAnti(e)
       PROVE  LpOK'
  BY <1>6 DEF FetchAnti, simVars, lpVars, runVars, hVars, ioVars
<1>7. ASSUME NEW c \in Committer, CommitCompare(c)
       PROVE  LpOK'
  BY <1>7 DEF CommitCompare, simVars, lpVars, runVars, hVars, ioVars
<1>8. ASSUME NEW c \in Committer, CommitWrite(c)
       PROVE  LpOK'
  BY <1>8 DEF CommitWrite, simVars, lpVars, runVars, hVars, ioVars
<1>9. ASSUME NEW c \in Committer, NEW e \in Event, CommitDelete(c, e)
       PROVE  LpOK'
  BY <1>9 DEF CommitDelete, simVars, lpVars, runVars, hVars, ioVars
<1>10. CASE AdvanceGvt
  BY <1>10 DEF AdvanceGvt, simVars, lpVars, runVars, hVars, ioVars
<1>11. CASE FetchDrop
  BY <1>11 DEF FetchDrop, simVars, lpVars, runVars, hVars, ioVars
<1>12. CASE FetchChoose
  BY <1>12 DEF FetchChoose, LocalsEnd, simVars, lpVars, runVars, hVars, ioVars
<1>13. CASE Rollback
  <2>1. ckpPeriod \in Nat \ {0}
    BY PeriodAssumption
  <2>2. states' \subseteq Event /\ 0 \in 0 .. ckpPeriod - 1
    BY <1>13, <2>1 DEF Rollback
  <2> QED
    BY <1>13, <2>2 DEF Rollback
<1>14. CASE SilentStep
  <2>1. ckpPeriod \in Nat \ {0} /\ fromCkp \in Nat
    BY PeriodAssumption
  <2>2. (fromCkp + 1) % ckpPeriod \in 0 .. ckpPeriod - 1
    BY <2>1
  <2> QED
    BY <1>14, <2>2 DEF SilentStep
<1>15. CASE SilentEnd
  BY <1>15 DEF SilentEnd, RunOK
<1>16. CASE AntiDone
  BY <1>16 DEF AntiDone, LocalsEnd, simVars, lpVars, runVars, hVars, ioVars
<1>17. CASE Execute
  <2>1. ckpPeriod \in Nat \ {0} /\ fromCkp \in Nat
    BY PeriodAssumption
  <2>2. fromCkp' \in 0 .. ckpPeriod - 1 /\ ckpPeriod' = ckpPeriod
    BY <1>17, <2>1 DEF Execute, LogState
  <2>3. states' \subseteq Event /\ queue' \subseteq Event /\ bound' \in Event /\ epoch' = epoch
    BY <1>17 DEF Execute, LogState, RunOK
  <2>4. msgEpoch' \in [Event -> Nat]
    BY <1>17 DEF Execute
  <2> QED
    BY <2>2, <2>3, <2>4
<1>18. CASE CleanCheckpoint
  BY <1>18 DEF CleanCheckpoint
<1>19. CASE Collect
  BY <1>19 DEF Collect, simVars, lpVars, runVars, hVars, ioVars
<1> QED
  BY <1>1, <1>2, <1>3, <1>4, <1>5, <1>6, <1>7, <1>8, <1>9, <1>10, <1>11, <1>12, <1>13, <1>14, <1>15, <1>16, <1>17, <1>18, <1>19 DEF Next, Ended

\* What the holder of the lock is doing.
LEMMA RunStep ==
  ASSUME StateOK, [Next]_vars
  PROVE  RunOK'
<1> USE Events DEF StateOK, RunOK, Handling
<1>1. CASE UNCHANGED vars
  BY <1>1 DEF vars, simVars, lpVars, runVars, hVars, ioVars
<1>2. ASSUME NEW e \in Event, Send(e)
       PROVE  RunOK'
  BY <1>2 DEF Send, simVars, lpVars, runVars, hVars, ioVars
<1>3. ASSUME NEW e \in Event, Invalidate(e)
       PROVE  RunOK'
  BY <1>3 DEF Invalidate, simVars, lpVars, runVars, hVars, ioVars
<1>4. ASSUME NEW e \in Event, RemoveNode(e)
       PROVE  RunOK'
  BY <1>4 DEF RemoveNode, simVars, lpVars, runVars, hVars, ioVars
<1>5. ASSUME NEW e \in Event, Fetch(e)
       PROVE  RunOK'
  BY <1>5 DEF Fetch, simVars, lpVars, runVars, hVars, ioVars
<1>6. ASSUME NEW e \in Event, FetchAnti(e)
       PROVE  RunOK'
  BY <1>6 DEF FetchAnti, simVars, lpVars, runVars, hVars, ioVars
<1>7. ASSUME NEW c \in Committer, CommitCompare(c)
       PROVE  RunOK'
  BY <1>7 DEF CommitCompare, simVars, lpVars, runVars, hVars, ioVars
<1>8. ASSUME NEW c \in Committer, CommitWrite(c)
       PROVE  RunOK'
  BY <1>8 DEF CommitWrite, simVars, lpVars, runVars, hVars, ioVars
<1>9. ASSUME NEW c \in Committer, NEW e \in Event, CommitDelete(c, e)
       PROVE  RunOK'
  BY <1>9 DEF CommitDelete, simVars, lpVars, runVars, hVars, ioVars
<1>10. CASE AdvanceGvt
  BY <1>10 DEF AdvanceGvt, simVars, lpVars, runVars, hVars, ioVars
<1>11. CASE FetchDrop
  BY <1>11 DEF FetchDrop, simVars, lpVars, runVars, hVars, ioVars
<1>12. CASE FetchChoose
  <2>1. cur' \in Event /\ pos' \in Event
    BY <1>12, LocalNextFacts DEF FetchChoose, LocalsEnd, LpOK
  <2>2. pc' \in {"idle", "execute", "rollback"}
    BY <1>12 DEF FetchChoose
  <2>3. anti' \in BOOLEAN
    <3>1. anti' \in {FALSE, anti, ~valid[cur]}
      BY <1>12 DEF FetchChoose, LocalsEnd
    <3>2. (~valid[cur]) \in BOOLEAN /\ anti \in BOOLEAN
      BY Zenon
    <3> QED
      BY <3>1, <3>2, Zenon
  <2>4. safe' \in BOOLEAN
    <3>1. safe' \in {FALSE, cur <= gvt, LocalNext <= gvt}
      BY <1>12 DEF FetchChoose, LocalsEnd
    <3>2. (cur <= gvt) \in BOOLEAN /\ (LocalNext <= gvt) \in BOOLEAN
      OBVIOUS
    <3> QED
      BY <3>1, <3>2, Zenon
  <2> QED
    BY <2>1, <2>2, <2>3, <2>4
<1>13. CASE Rollback
  <2>1. pos' \in Event
    BY <1>13, LatestOf DEF Rollback, Restorable, LpOK
  <2> QED
    BY <1>13, <2>1 DEF Rollback
<1>14. CASE SilentStep
  <2>1. pos' \in Event
    BY <1>14, SilentNextFacts DEF SilentStep, LpOK
  <2> QED
    BY <1>14, <2>1 DEF SilentStep
<1>15. CASE SilentEnd
  BY <1>15 DEF SilentEnd, LocalsEnd, simVars, lpVars, runVars, hVars, ioVars
<1>16. CASE AntiDone
  BY <1>16 DEF AntiDone, LocalsEnd, simVars, lpVars, runVars, hVars, ioVars
<1>17. CASE Execute
  <2>1. pc' \in {"idle", "clean"}
    BY <1>17 DEF Execute, Cleans
  <2> QED
    BY <1>17, <2>1 DEF Execute, LocalsEnd
<1>18. CASE CleanCheckpoint
  BY <1>18 DEF CleanCheckpoint, simVars, lpVars, runVars, hVars, ioVars
<1>19. CASE Collect
  BY <1>19 DEF Collect, simVars, lpVars, runVars, hVars, ioVars
<1> QED
  BY <1>1, <1>2, <1>3, <1>4, <1>5, <1>6, <1>7, <1>8, <1>9, <1>10, <1>11, <1>12, <1>13, <1>14, <1>15, <1>16, <1>17, <1>18, <1>19 DEF Next, Ended

\* The horizon and the committers.
LEMMA HorizonStep ==
  ASSUME StateOK, [Next]_vars
  PROVE  HorizonOK'
<1> USE Events DEF StateOK, HorizonOK
<1>1. CASE UNCHANGED vars
  BY <1>1 DEF vars, simVars, lpVars, runVars, hVars, ioVars
<1>2. ASSUME NEW e \in Event, Send(e)
       PROVE  HorizonOK'
  BY <1>2 DEF Send, simVars, lpVars, runVars, hVars, ioVars
<1>3. ASSUME NEW e \in Event, Invalidate(e)
       PROVE  HorizonOK'
  BY <1>3 DEF Invalidate, simVars, lpVars, runVars, hVars, ioVars
<1>4. ASSUME NEW e \in Event, RemoveNode(e)
       PROVE  HorizonOK'
  BY <1>4 DEF RemoveNode, simVars, lpVars, runVars, hVars, ioVars
<1>5. ASSUME NEW e \in Event, Fetch(e)
       PROVE  HorizonOK'
  BY <1>5 DEF Fetch, simVars, lpVars, runVars, hVars, ioVars
<1>6. ASSUME NEW e \in Event, FetchAnti(e)
       PROVE  HorizonOK'
  BY <1>6 DEF FetchAnti, simVars, lpVars, runVars, hVars, ioVars
<1>7. ASSUME NEW c \in Committer, CommitCompare(c)
       PROVE  HorizonOK'
  <2>1. later' \in [Committer -> BOOLEAN]
    BY <1>7, Update DEF CommitCompare
  <2> QED
    BY <1>7, <2>1 DEF CommitCompare
<1>8. ASSUME NEW c \in Committer, CommitWrite(c)
       PROVE  HorizonOK'
  <2>1. later' \in [Committer -> BOOLEAN]
    BY <1>8, Update DEF CommitWrite
  <2>2. found[c] \in Event
    BY <1>8 DEF CommitWrite
  <2>3. horizon' \in 0 .. MaxTs + 1
    BY <1>8, <2>2, BoundsAssumption DEF CommitWrite, Event
  <2> QED
    BY <1>8, <2>1, <2>3 DEF CommitWrite
<1>9. ASSUME NEW c \in Committer, NEW e \in Event, CommitDelete(c, e)
       PROVE  HorizonOK'
  BY <1>9 DEF CommitDelete, simVars, lpVars, runVars, hVars, ioVars
<1>10. CASE AdvanceGvt
  BY <1>10 DEF AdvanceGvt, simVars, lpVars, runVars, hVars, ioVars
<1>11. CASE FetchDrop
  BY <1>11 DEF FetchDrop, simVars, lpVars, runVars, hVars, ioVars
<1>12. CASE FetchChoose
  BY <1>12 DEF FetchChoose, LocalsEnd, simVars, lpVars, runVars, hVars, ioVars
<1>13. CASE Rollback
  BY <1>13 DEF Rollback, simVars, lpVars, runVars, hVars, ioVars
<1>14. CASE SilentStep
  BY <1>14 DEF SilentStep, simVars, lpVars, runVars, hVars, ioVars
<1>15. CASE SilentEnd
  BY <1>15 DEF SilentEnd, LocalsEnd, simVars, lpVars, runVars, hVars, ioVars
<1>16. CASE AntiDone
  BY <1>16 DEF AntiDone, LocalsEnd, simVars, lpVars, runVars, hVars, ioVars
<1>17. CASE Execute
  BY <1>17 DEF Execute, LogState, LocalsEnd, Cleans, simVars, lpVars, runVars, hVars, ioVars
<1>18. CASE CleanCheckpoint
  BY <1>18 DEF CleanCheckpoint, simVars, lpVars, runVars, hVars, ioVars
<1>19. CASE Collect
  BY <1>19 DEF Collect, simVars, lpVars, runVars, hVars, ioVars
<1> QED
  BY <1>1, <1>2, <1>3, <1>4, <1>5, <1>6, <1>7, <1>8, <1>9, <1>10, <1>11, <1>12, <1>13, <1>14, <1>15, <1>16, <1>17, <1>18, <1>19 DEF Next, Ended

\* The windows.
LEMMA IoStep ==
  ASSUME StateOK, [Next]_vars
  PROVE  IoOK'
<1> USE DEF StateOK, IoOK
<1>1. CASE UNCHANGED vars
  BY <1>1 DEF vars, simVars, lpVars, runVars, hVars, ioVars
<1>2. ASSUME NEW e \in Event, Send(e)
       PROVE  IoOK'
  BY <1>2 DEF Send, simVars, lpVars, runVars, hVars, ioVars
<1>3. ASSUME NEW e \in Event, Invalidate(e)
       PROVE  IoOK'
  BY <1>3 DEF Invalidate, simVars, lpVars, runVars, hVars, ioVars
<1>4. ASSUME NEW e \in Event, RemoveNode(e)
       PROVE  IoOK'
  BY <1>4 DEF RemoveNode, simVars, lpVars, runVars, hVars, ioVars
<1>5. ASSUME NEW e \in Event, Fetch(e)
       PROVE  IoOK'
  BY <1>5 DEF Fetch, simVars, lpVars, runVars, hVars, ioVars
<1>6. ASSUME NEW e \in Event, FetchAnti(e)
       PROVE  IoOK'
  BY <1>6 DEF FetchAnti, simVars, lpVars, runVars, hVars, ioVars
<1>7. ASSUME NEW c \in Committer, CommitCompare(c)
       PROVE  IoOK'
  BY <1>7 DEF CommitCompare, simVars, lpVars, runVars, hVars, ioVars
<1>8. ASSUME NEW c \in Committer, CommitWrite(c)
       PROVE  IoOK'
  BY <1>8 DEF CommitWrite, simVars, lpVars, runVars, hVars, ioVars
<1>9. ASSUME NEW c \in Committer, NEW e \in Event, CommitDelete(c, e)
       PROVE  IoOK'
  BY <1>9 DEF CommitDelete, simVars, lpVars, runVars, hVars, ioVars
<1>10. CASE AdvanceGvt
  BY <1>10 DEF AdvanceGvt, simVars, lpVars, runVars, hVars, ioVars
<1>11. CASE FetchDrop
  <2>1. NoWindow \in AWindow
    BY DEF NoWindow, AWindow
  <2> QED
    BY <1>11, <2>1 DEF FetchDrop
<1>12. CASE FetchChoose
  BY <1>12 DEF FetchChoose, LocalsEnd, simVars, lpVars, runVars, hVars, ioVars
<1>13. CASE Rollback
  BY <1>13 DEF Rollback, simVars, lpVars, runVars, hVars, ioVars
<1>14. CASE SilentStep
  <2>1. SilentNext \in Event
    BY <1>14, SilentNextFacts DEF SilentStep, LpOK
  <2>2. Write(window[cur], msgEpoch[cur], <<SilentNext, 0>>) \in AWindow
    BY <2>1, WriteFacts DEF RunOK, LpOK
  <2> QED
    BY <1>14, <2>2 DEF SilentStep
<1>15. CASE SilentEnd
  BY <1>15 DEF SilentEnd, LocalsEnd, simVars, lpVars, runVars, hVars, ioVars
<1>16. CASE AntiDone
  BY <1>16 DEF AntiDone, LocalsEnd, simVars, lpVars, runVars, hVars, ioVars
<1>17. CASE Execute
  <2>1. <<cur, epoch>> \in Event \X Nat
    BY DEF RunOK, LpOK
  <2>2. Write(window[cur], epoch, <<cur, epoch>>) \in AWindow /\ << <<cur, epoch>> >> \in Seq(Event \X Nat)
    BY <2>1, WriteFacts DEF RunOK, LpOK
  <2>3. <<>> \in Seq(Event \X Nat)
    OBVIOUS
  <2> QED
    BY <1>17, <2>2, <2>3 DEF Execute
<1>18. CASE CleanCheckpoint
  BY <1>18 DEF CleanCheckpoint, LpOK
<1>19. CASE Collect
  <2>1. NoWindow \in AWindow
    BY DEF NoWindow, AWindow
  <2> QED
    BY <1>19, <2>1 DEF Collect
<1> QED
  BY <1>1, <1>2, <1>3, <1>4, <1>5, <1>6, <1>7, <1>8, <1>9, <1>10, <1>11, <1>12, <1>13, <1>14, <1>15, <1>16, <1>17, <1>18, <1>19 DEF Next, Ended

-----------------------------------------------------------------------------
(* The rest of the invariant.                                               *)

\* What clean_checkpoint throws away, and the checkpoint it keeps for the rest.
LEMMA CleanFacts ==
  ASSUME StateOK, Calendar, Current, Executed, Checkpoints, CleanCheckpoint
  PROVE  /\ queue' = queue \ batch' /\ batch' \subseteq queue /\ states' \subseteq queue'
         /\ states' \subseteq states
         /\ \A e \in batch' : e < gvt /\ e <= bound /\ e \in committed
         /\ \E s \in states' : valid[s] /\ (s = INIT \/ s < gvt)
<1> USE Events
<1> /\ queue \subseteq Event /\ states \subseteq Event /\ gvt \in Event /\ bound \in Event /\ node \subseteq Event
  BY DEF StateOK, SimOK, LpOK
<1>1. CASE Older(horizon) = {}
  <2>1. batch' = {} /\ queue' = queue /\ states' = states
    BY <1>1 DEF CleanCheckpoint
  <2> QED
    BY <2>1 DEF Checkpoints, Anchored
<1>2. CASE Older(horizon) # {}
  <2> DEFINE first == Latest(Older(horizon))
             last == Latest(Before(horizon))
  <2>1. Older(horizon) \subseteq Before(horizon) /\ Before(horizon) \subseteq states
    BY DEF Older, Before
  <2>2. first \in Older(horizon)
    BY <1>2, <2>1, LatestOf
  <2>3. first < last /\ last \in states /\ first \in Nat /\ last \in Nat
    <3>1. Before(horizon) # {} /\ first # last /\ first \in Before(horizon)
      BY <2>2 DEF Older
    <3>2. last \in Before(horizon) /\ first <= last
      BY <3>1, <2>1, LatestOf
    <3>3. first \in Nat /\ last \in Nat
      BY <3>1, <3>2, <2>1
    <3> HIDE DEF first, last
    <3> QED
      BY <3>1, <3>2, <3>3, <2>1
  <2>4. bound <= gvt
    BY DEF CleanCheckpoint, Current
  <2>5. first \in states /\ first < gvt /\ first <= bound /\ first \in queue
    <3>1. first \in states /\ last <= bound /\ first <= bound /\ first \in queue
      BY <2>1, <2>2, <2>3 DEF Checkpoints
    <3> HIDE DEF first, last
    <3> QED
      BY <3>1, <2>3, <2>4
  <2> HIDE DEF first, last
  <2>6. \A e \in queue : e <= bound /\ e < gvt => e \in committed /\ valid[e]
    BY DEF Executed, Calendar
  <2>7. batch' = {e \in queue : e < first} /\ queue' = queue \ batch' /\ states' = {s \in states : s >= first}
    BY <1>2 DEF CleanCheckpoint, first
  <2>8. \A e \in batch' : e < gvt /\ e <= bound /\ e \in committed
    BY <2>5, <2>6, <2>7
  <2>9. states' \subseteq queue' /\ first \in states' /\ valid[first]
    <3>1. \A s \in states' : s \in queue /\ ~(s < first)
      BY <2>3, <2>7 DEF Checkpoints
    <3>2. first \in states' /\ valid[first]
      BY <2>3, <2>5, <2>6, <2>7
    <3> QED
      BY <3>1, <3>2, <2>7
  <2> QED
    BY <2>5, <2>7, <2>8, <2>9
<1> QED
  BY <1>1, <1>2

\* The calendar queue.
LEMMA CalendarStep ==
  ASSUME StateOK, Calendar, Current, [Next]_vars
  PROVE  Calendar'
<1> USE Events DEF Calendar
<1> /\ state \in [Event -> {"none", "new", "extracted", "handled"}] /\ valid \in [Event -> BOOLEAN]
    /\ node \subseteq Event /\ queue \subseteq Event /\ committed \subseteq Event /\ gvt \in Event
    /\ bound \in Event /\ cur \in Event /\ pos \in Event
  BY DEF StateOK, SimOK, LpOK, RunOK, HorizonOK
<1>1. CASE UNCHANGED vars
  BY <1>1 DEF vars, simVars, lpVars, runVars, hVars, ioVars
<1>2. ASSUME NEW e \in Event, Send(e)
       PROVE  Calendar'
  BY <1>2 DEF Send, simVars, lpVars, runVars, hVars, ioVars
<1>3. ASSUME NEW e \in Event, Invalidate(e)
       PROVE  Calendar'
  BY <1>3 DEF Invalidate, simVars, lpVars, runVars, hVars, ioVars
<1>4. ASSUME NEW e \in Event, RemoveNode(e)
       PROVE  Calendar'
  BY <1>4 DEF RemoveNode, simVars, lpVars, runVars, hVars, ioVars
<1>5. ASSUME NEW e \in Event, Fetch(e)
       PROVE  Calendar'
  BY <1>5 DEF Fetch, simVars, lpVars, runVars, hVars, ioVars
<1>6. ASSUME NEW e \in Event, FetchAnti(e)
       PROVE  Calendar'
  BY <1>6 DEF FetchAnti, simVars, lpVars, runVars, hVars, ioVars
<1>7. ASSUME NEW c \in Committer, CommitCompare(c)
       PROVE  Calendar'
  BY <1>7 DEF CommitCompare, simVars, lpVars, runVars, hVars, ioVars
<1>8. ASSUME NEW c \in Committer, CommitWrite(c)
       PROVE  Calendar'
  BY <1>8 DEF CommitWrite, simVars, lpVars, runVars, hVars, ioVars
<1>9. ASSUME NEW c \in Committer, NEW e \in Event, CommitDelete(c, e)
       PROVE  Calendar'
  BY <1>9 DEF CommitDelete, simVars, lpVars, runVars, hVars, ioVars
<1>10. CASE AdvanceGvt
  BY <1>10 DEF AdvanceGvt, simVars, lpVars, runVars, hVars, ioVars
<1>11. CASE FetchDrop
  <2>1. LocalNext \in queue /\ bound < LocalNext /\ ~valid[LocalNext]
    BY <1>11, LocalNextFacts DEF FetchDrop
  <2>2. LocalNext \in Event /\ LocalNext \notin committed
    BY <2>1
  <2> QED
    BY <1>11, <2>1, <2>2 DEF FetchDrop, hVars
<1>12. CASE FetchChoose
  <2>1. state[cur] # "handled" => cur \in node
    BY <1>12 DEF FetchChoose, Current
  <2> QED
    BY <1>12, <2>1 DEF FetchChoose, hVars
<1>13. CASE Rollback
  BY <1>13 DEF Rollback, simVars, lpVars, runVars, hVars, ioVars
<1>14. CASE SilentStep
  BY <1>14 DEF SilentStep, simVars, lpVars, runVars, hVars, ioVars
<1>15. CASE SilentEnd
  BY <1>15 DEF SilentEnd, LocalsEnd, simVars, lpVars, runVars, hVars, ioVars
<1>16. CASE AntiDone
  <2>1. ~valid[cur] /\ cur \notin committed
    BY <1>16 DEF AntiDone, Current, Handling
  <2> QED
    BY <1>16, <2>1 DEF AntiDone, hVars
<1>17. CASE Execute
  BY <1>17 DEF Execute, LogState, LocalsEnd, Cleans, simVars, lpVars, runVars, hVars, ioVars
<1>18. CASE CleanCheckpoint
  BY <1>18 DEF CleanCheckpoint, simVars, lpVars, runVars, hVars, ioVars
<1>19. CASE Collect
  BY <1>19 DEF Collect, simVars, lpVars, runVars, hVars, ioVars
<1> QED
  BY <1>1, <1>2, <1>3, <1>4, <1>5, <1>6, <1>7, <1>8, <1>9, <1>10, <1>11, <1>12, <1>13, <1>14, <1>15, <1>16, <1>17, <1>18, <1>19 DEF Next, Ended

\* The event at hand.
LEMMA CurrentStep ==
  ASSUME StateOK, Calendar, Current, Executed, [Next]_vars
  PROVE  Current'
<1> USE Events DEF Current, Handling
<1> /\ state \in [Event -> {"none", "new", "extracted", "handled"}] /\ valid \in [Event -> BOOLEAN]
    /\ node \subseteq Event /\ queue \subseteq Event /\ committed \subseteq Event /\ gvt \in Event
    /\ bound \in Event /\ cur \in Event /\ pos \in Event
  BY DEF StateOK, SimOK, LpOK, RunOK, HorizonOK
<1>1. CASE UNCHANGED vars
  BY <1>1 DEF vars, simVars, lpVars, runVars, hVars, ioVars
<1>2. ASSUME NEW e \in Event, Send(e)
       PROVE  Current'
  BY <1>2 DEF Calendar, Send, simVars, lpVars, runVars, hVars, ioVars
<1>3. ASSUME NEW e \in Event, Invalidate(e)
       PROVE  Current'
  BY <1>3 DEF Calendar, Invalidate, simVars, lpVars, runVars, hVars, ioVars
<1>4. ASSUME NEW e \in Event, RemoveNode(e)
       PROVE  Current'
  BY <1>4 DEF Calendar, RemoveNode, simVars, lpVars, runVars, hVars, ioVars
<1>5. ASSUME NEW e \in Event, Fetch(e)
       PROVE  Current'
  BY <1>5 DEF Calendar, Past, Fetch, simVars, lpVars, runVars, hVars, ioVars
<1>6. ASSUME NEW e \in Event, FetchAnti(e)
       PROVE  Current'
  BY <1>6 DEF Calendar, Past, FetchAnti, simVars, lpVars, runVars, hVars, ioVars
<1>7. ASSUME NEW c \in Committer, CommitCompare(c)
       PROVE  Current'
  BY <1>7 DEF CommitCompare, simVars, lpVars, runVars, hVars, ioVars
<1>8. ASSUME NEW c \in Committer, CommitWrite(c)
       PROVE  Current'
  BY <1>8 DEF CommitWrite, simVars, lpVars, runVars, hVars, ioVars
<1>9. ASSUME NEW c \in Committer, NEW e \in Event, CommitDelete(c, e)
       PROVE  Current'
  BY <1>9 DEF Calendar, Past, CommitDelete, simVars, lpVars, runVars, hVars, ioVars
<1>10. CASE AdvanceGvt
  BY <1>10 DEF AdvanceGvt, simVars, lpVars, runVars, hVars, ioVars
<1>11. CASE FetchDrop
  <2>1. LocalNext \in queue /\ bound < LocalNext
    BY <1>11, LocalNextFacts DEF FetchDrop
  <2> QED
    BY <1>11, <2>1 DEF FetchDrop, simVars, lpVars, runVars, hVars, ioVars
<1>12. CASE FetchChoose
  <2>1. CASE LocalNext # None /\ LocalNext < cur
    <3>1. LocalNext \in queue /\ LocalNext \in Event /\ bound < LocalNext /\ valid[LocalNext]
      BY <1>12, <2>1, LocalNextFacts DEF FetchChoose
    <3>2. state[LocalNext] = "extracted" /\ LocalNext \notin committed
      BY <3>1 DEF Executed, Calendar
    <3>3. pc' = "execute" /\ cur' = LocalNext /\ (safe' => LocalNext <= gvt) /\ anti' = anti /\ ~anti
      BY <1>12, <2>1 DEF FetchChoose
    <3>4. UNCHANGED <<state, valid, node, gvt, committed, bound>>
      BY <1>12, <2>1 DEF FetchChoose, lpVars, hVars
    <3> QED
      BY <3>1, <3>2, <3>3, <3>4
  <2>2. CASE ~(LocalNext # None /\ LocalNext < cur) /\ state[cur] = "handled"
    BY <1>12, <2>2 DEF FetchChoose
  <2>3. CASE ~(LocalNext # None /\ LocalNext < cur) /\ state[cur] # "handled"
    <3>1. cur \in node /\ cur \notin committed /\ cur # INIT
      BY <1>12, <2>3 DEF FetchChoose, Calendar
    <3>2. state'[cur] = "extracted" /\ cur' = cur /\ (anti' => ~valid[cur]) /\ (safe' => cur <= gvt)
      BY <1>12, <2>3 DEF FetchChoose
    <3>3. pc' = IF cur <= bound THEN "rollback" ELSE "execute"
      BY <1>12, <2>3 DEF FetchChoose
    <3>4. UNCHANGED <<valid, node, gvt, committed, bound>>
      BY <1>12, <2>3 DEF FetchChoose, lpVars, hVars
    <3> QED
      BY <3>1, <3>2, <3>3, <3>4
  <2> QED
    BY <2>1, <2>2, <2>3
<1>13. CASE Rollback
  <2>1. pos' \in Restorable /\ pos' \in Event
    BY <1>13, LatestOf DEF Rollback, Restorable, StateOK, LpOK
  <2>2. pos' < cur
    BY <1>13, <2>1 DEF Rollback, Restorable
  <2> QED
    BY <1>13, <2>2 DEF Rollback, simVars, lpVars, runVars, hVars, ioVars
<1>14. CASE SilentStep
  <2>1. pos' < cur
    BY <1>14, SilentNextFacts DEF SilentStep
  <2> QED
    BY <1>14, <2>1 DEF SilentStep, simVars, lpVars, runVars, hVars, ioVars
<1>15. CASE SilentEnd
  <2>1. bound' = pos /\ pos < cur
    BY <1>15 DEF SilentEnd
  <2>2. safe' => safe
    BY <1>15 DEF SilentEnd, LocalsEnd
  <2> QED
    BY <1>15, <2>1, <2>2 DEF SilentEnd, LocalsEnd, simVars, hVars
<1>16. CASE AntiDone
  BY <1>16 DEF AntiDone, LocalsEnd, simVars, lpVars, runVars, hVars, ioVars
<1>17. CASE Execute
  BY <1>17 DEF Execute, LogState, LocalsEnd, Cleans, simVars, lpVars, runVars, hVars, ioVars
<1>18. CASE CleanCheckpoint
  BY <1>18 DEF CleanCheckpoint, simVars, lpVars, runVars, hVars, ioVars
<1>19. CASE Collect
  BY <1>19 DEF Collect, simVars, lpVars, runVars, hVars, ioVars
<1> QED
  BY <1>1, <1>2, <1>3, <1>4, <1>5, <1>6, <1>7, <1>8, <1>9, <1>10, <1>11, <1>12, <1>13, <1>14, <1>15, <1>16, <1>17, <1>18, <1>19 DEF Next, Ended

\* The executed events.
LEMMA ExecutedStep ==
  ASSUME StateOK, Calendar, Current, Executed, Checkpoints, [Next]_vars
  PROVE  Executed'
<1> USE Events DEF Executed
<1> /\ state \in [Event -> {"none", "new", "extracted", "handled"}] /\ valid \in [Event -> BOOLEAN]
    /\ node \subseteq Event /\ queue \subseteq Event /\ committed \subseteq Event /\ gvt \in Event
    /\ bound \in Event /\ cur \in Event /\ pos \in Event
  BY DEF StateOK, SimOK, LpOK, RunOK, HorizonOK
<1>1. CASE UNCHANGED vars
  BY <1>1 DEF Handling, vars, simVars, lpVars, runVars, hVars, ioVars
<1>2. ASSUME NEW e \in Event, Send(e)
       PROVE  Executed'
  BY <1>2 DEF Calendar, Current, Handling, Send, simVars, lpVars, runVars, hVars, ioVars
<1>3. ASSUME NEW e \in Event, Invalidate(e)
       PROVE  Executed'
  BY <1>3 DEF Handling, Invalidate, simVars, lpVars, runVars, hVars, ioVars
<1>4. ASSUME NEW e \in Event, RemoveNode(e)
       PROVE  Executed'
  BY <1>4 DEF Calendar, Handling, Past, RemoveNode, simVars, lpVars, runVars, hVars, ioVars
<1>5. ASSUME NEW e \in Event, Fetch(e)
       PROVE  Executed'
  BY <1>5 DEF Handling, Fetch, simVars, lpVars, runVars, hVars, ioVars
<1>6. ASSUME NEW e \in Event, FetchAnti(e)
       PROVE  Executed'
  BY <1>6 DEF Handling, FetchAnti, simVars, lpVars, runVars, hVars, ioVars
<1>7. ASSUME NEW c \in Committer, CommitCompare(c)
       PROVE  Executed'
  BY <1>7 DEF Handling, CommitCompare, simVars, lpVars, runVars, hVars, ioVars
<1>8. ASSUME NEW c \in Committer, CommitWrite(c)
       PROVE  Executed'
  BY <1>8 DEF Handling, CommitWrite, simVars, lpVars, runVars, hVars, ioVars
<1>9. ASSUME NEW c \in Committer, NEW e \in Event, CommitDelete(c, e)
       PROVE  Executed'
  <2>1. e \in queue => e <= bound
    BY <1>9 DEF CommitDelete, Past, Current, Handling
  <2> QED
    BY <1>9, <2>1 DEF Handling, CommitDelete, simVars, lpVars, runVars, hVars, ioVars
<1>10. CASE AdvanceGvt
  BY <1>10 DEF Handling, AdvanceGvt, simVars, lpVars, runVars, hVars, ioVars
<1>11. CASE FetchDrop
  <2>1. LocalNext \in queue /\ bound < LocalNext
    BY <1>11, LocalNextFacts DEF FetchDrop
  <2> QED
    BY <1>11, <2>1 DEF Handling, FetchDrop, simVars, lpVars, runVars, hVars, ioVars
<1>12. CASE FetchChoose
  <2>1. UNCHANGED <<node, queue, bound, committed>>
    BY <1>12 DEF FetchChoose, lpVars, hVars
  <2>2. CASE LocalNext # None /\ LocalNext < cur
    <3>1. \A e \in queue : ~(bound < e /\ e < LocalNext)
      <4>1. LocalNext \in Event /\ \A e \in queue : bound < e => LocalNext <= e
        BY <2>2, LocalNextFacts
      <4> QED
        BY <4>1
    <3>2. UNCHANGED state /\ cur' = LocalNext
      BY <1>12, <2>2 DEF FetchChoose
    <3>3. ~Handling
      BY <1>12 DEF FetchChoose, Handling
    <3> QED
      BY <2>1, <3>1, <3>2, <3>3
  <2>3. CASE ~(LocalNext # None /\ LocalNext < cur) /\ state[cur] = "handled"
    <3>1. UNCHANGED state /\ pc' = "idle" /\ ~Handling
      BY <1>12, <2>3 DEF FetchChoose, Handling
    <3> QED
      BY <2>1, <3>1
  <2>4. CASE ~(LocalNext # None /\ LocalNext < cur) /\ state[cur] # "handled"
    <3>1. \A e \in queue : ~(bound < e /\ e < cur)
      <4>1. CASE LocalNext = None
        BY <4>1, LocalNextFacts
      <4>2. CASE LocalNext # None
        <5>1. LocalNext \in Event /\ \A e \in queue : bound < e => LocalNext <= e
          BY <4>2, LocalNextFacts
        <5> QED
          BY <5>1, <4>2, <2>4
      <4> QED
        BY <4>1, <4>2
    <3>2. state' = [state EXCEPT ![cur] = "extracted"] /\ cur' = cur /\ pc' \in {"rollback", "execute"}
      BY <1>12, <2>4 DEF FetchChoose
    <3>3. ~Handling
      BY <1>12 DEF FetchChoose, Handling
    <3> QED
      BY <2>1, <3>1, <3>2, <3>3 DEF Handling
  <2> QED
    BY <2>2, <2>3, <2>4
<1>13. CASE Rollback
  BY <1>13 DEF Handling, Rollback, simVars, lpVars, runVars, hVars, ioVars
<1>14. CASE SilentStep
  BY <1>14 DEF Handling, SilentStep, simVars, lpVars, runVars, hVars, ioVars
<1>15. CASE SilentEnd
  <2>1. /\ queue' = queue \cup {cur} /\ bound' = pos /\ pos < cur /\ cur <= bound
        /\ cur \in node /\ state[cur] = "extracted" /\ cur \notin committed
    BY <1>15 DEF SilentEnd, Current, Handling
  <2>2. UNCHANGED <<state, node, committed>>
    BY <1>15 DEF SilentEnd, simVars, hVars
  <2>3. ASSUME NEW e \in committed \cap queue
        PROVE  e <= pos
    <3> SUFFICES ASSUME pos < e PROVE FALSE
      OBVIOUS
    <3>1. e <= gvt /\ gvt <= cur /\ e # cur /\ e < cur /\ e <= bound /\ valid[e]
      BY <2>1 DEF Calendar
    <3>2. Stopped
      BY <3>1 DEF Stopped, After
    <3>3. PICK f \in queue : pos < f /\ f < cur /\ ~valid[f] /\ f <= e
      BY <1>15, <3>2, SilentNextFacts DEF SilentEnd
    <3>4. f <= bound /\ f \notin committed
      BY <3>1, <3>3 DEF Calendar
    <3>5. gvt <= f
      BY <3>4 DEF Calendar
    <3> QED
      BY <3>1, <3>3, <3>5
  <2>4. ~Stopped => \A e \in queue : ~(pos < e /\ e < cur)
    BY DEF Stopped, After
  <2>5. pc' = "execute" => ~Stopped /\ cur' = cur
    BY <1>15 DEF SilentEnd
  <2>6. \A e \in node \ queue' : state[e] # "extracted"
    BY <2>1
  <2>7. \A e \in queue' : e <= bound' => state[e] = "extracted"
    BY <2>1
  <2> QED
    BY <2>1, <2>2, <2>3, <2>4, <2>5, <2>6, <2>7
<1>16. CASE AntiDone
  <2>1. bound < cur /\ cur \notin committed
    BY <1>16 DEF AntiDone, Current, Handling
  <2> QED
    BY <1>16, <2>1 DEF Handling, AntiDone, LocalsEnd, simVars, lpVars, runVars, hVars, ioVars
<1>17. CASE Execute
  <2>1. /\ queue' = queue \cup {cur} /\ bound' = cur /\ bound < cur
        /\ state[cur] = "extracted" /\ cur \notin committed /\ \A e \in queue : ~(bound < e /\ e < cur)
    BY <1>17 DEF Execute, Current, Handling
  <2>2. UNCHANGED <<state, node, committed>> /\ pc' # "execute"
    BY <1>17 DEF Execute, Cleans, simVars, hVars
  <2>3. \A e \in node \ queue' : state[e] # "extracted"
    BY <1>17, <2>1 DEF Execute, Handling
  <2>4. \A e \in queue' : e <= cur => state[e] = "extracted"
    BY <2>1
  <2> QED
    BY <2>1, <2>2, <2>3, <2>4
<1>18. CASE CleanCheckpoint
  <2>1. queue' \subseteq queue /\ UNCHANGED <<state, node, bound, committed>> /\ pc' = "collect"
    BY <1>18 DEF CleanCheckpoint, simVars, hVars
  <2>2. ASSUME NEW e \in queue, e \notin queue', e \in node PROVE FALSE
    BY <1>18, <2>2, CleanFacts DEF CleanCheckpoint, Calendar
  <2> QED
    BY <1>18, <2>1, <2>2 DEF CleanCheckpoint, Handling
<1>19. CASE Collect
  BY <1>19 DEF Handling, Collect, simVars, lpVars, runVars, hVars, ioVars
<1> QED
  BY <1>1, <1>2, <1>3, <1>4, <1>5, <1>6, <1>7, <1>8, <1>9, <1>10, <1>11, <1>12, <1>13, <1>14, <1>15, <1>16, <1>17, <1>18, <1>19 DEF Next, Ended

\* What a silent and what a normal execution write.
LEMMA SilentWrite ==
  ASSUME StateOK, SilentNext # None
  PROVE  Write(window[cur], msgEpoch[cur], <<SilentNext, 0>>).epoch = msgEpoch[cur]
<1>1. window[cur] \in AWindow /\ msgEpoch[cur] \in Nat /\ queue \subseteq Event
  BY DEF StateOK, RunOK, LpOK, IoOK
<1>2. PICK did \in Event \X Nat : did = <<SilentNext, 0>>
  BY <1>1, SilentNextFacts
<1>3. Write(window[cur], msgEpoch[cur], did).epoch = msgEpoch[cur]
  BY <1>1, WriteFacts
<1> QED
  BY <1>2, <1>3

LEMMA ExecuteWrite ==
  ASSUME StateOK
  PROVE  /\ Write(window[cur], epoch, <<cur, epoch>>).epoch = epoch
         /\ window[cur].ops = <<>> \/ window[cur].epoch # epoch
              => Write(window[cur], epoch, <<cur, epoch>>).ops = << <<cur, epoch>> >>
<1>1. window[cur] \in AWindow /\ epoch \in Nat
  BY DEF StateOK, RunOK, LpOK, IoOK
<1>2. PICK did \in Event \X Nat : did = <<cur, epoch>>
  BY <1>1 DEF StateOK, RunOK
<1>3. /\ Write(window[cur], epoch, did).epoch = epoch
      /\ window[cur].ops = <<>> \/ window[cur].epoch # epoch
           => Write(window[cur], epoch, did).ops = <<did>>
  BY <1>1, WriteFacts
<1> QED
  BY <1>2, <1>3

\* The checkpoints.
LEMMA CheckpointStep ==
  ASSUME StateOK, Calendar, Current, Executed, Checkpoints, [Next]_vars
  PROVE  Checkpoints'
<1> USE Events DEF Checkpoints, Anchored
<1> /\ state \in [Event -> {"none", "new", "extracted", "handled"}] /\ valid \in [Event -> BOOLEAN]
    /\ node \subseteq Event /\ queue \subseteq Event /\ committed \subseteq Event /\ gvt \in Event
    /\ bound \in Event /\ cur \in Event /\ pos \in Event /\ states \subseteq Event
  BY DEF StateOK, SimOK, LpOK, RunOK, HorizonOK
<1>1. CASE UNCHANGED vars
  BY <1>1 DEF vars, simVars, lpVars, runVars, hVars, ioVars
<1>2. ASSUME NEW e \in Event, Send(e)
       PROVE  Checkpoints'
  BY <1>2 DEF Send, simVars, lpVars, runVars, hVars, ioVars
<1>3. ASSUME NEW e \in Event, Invalidate(e)
       PROVE  Checkpoints'
  BY <1>3 DEF Invalidate, simVars, lpVars, runVars, hVars, ioVars
<1>4. ASSUME NEW e \in Event, RemoveNode(e)
       PROVE  Checkpoints'
  BY <1>4 DEF RemoveNode, simVars, lpVars, runVars, hVars, ioVars
<1>5. ASSUME NEW e \in Event, Fetch(e)
       PROVE  Checkpoints'
  BY <1>5 DEF Fetch, simVars, lpVars, runVars, hVars, ioVars
<1>6. ASSUME NEW e \in Event, FetchAnti(e)
       PROVE  Checkpoints'
  BY <1>6 DEF FetchAnti, simVars, lpVars, runVars, hVars, ioVars
<1>7. ASSUME NEW c \in Committer, CommitCompare(c)
       PROVE  Checkpoints'
  BY <1>7 DEF CommitCompare, simVars, lpVars, runVars, hVars, ioVars
<1>8. ASSUME NEW c \in Committer, CommitWrite(c)
       PROVE  Checkpoints'
  BY <1>8 DEF CommitWrite, simVars, lpVars, runVars, hVars, ioVars
<1>9. ASSUME NEW c \in Committer, NEW e \in Event, CommitDelete(c, e)
       PROVE  Checkpoints'
  BY <1>9 DEF CommitDelete, simVars, lpVars, runVars, hVars, ioVars
<1>10. CASE AdvanceGvt
  BY <1>10 DEF AdvanceGvt, simVars, lpVars, runVars, hVars, ioVars
<1>11. CASE FetchDrop
  <2>1. bound < LocalNext /\ LocalNext \in Event
    BY <1>11, LocalNextFacts DEF FetchDrop
  <2>2. LocalNext \notin states
    BY <2>1
  <2> QED
    BY <1>11, <2>2 DEF FetchDrop, simVars, lpVars, runVars, hVars, ioVars
<1>12. CASE FetchChoose
  BY <1>12 DEF FetchChoose, lpVars
<1>13. CASE Rollback
  <2>1. PICK s \in states : valid[s] /\ (s = INIT \/ s < gvt)
    OBVIOUS
  <2>2. gvt <= cur
    BY <1>13 DEF Rollback, Current, Calendar
  <2>3. s \in Restorable
    BY <1>13, <2>1, <2>2 DEF Restorable
  <2>4. pos' \in states /\ s <= pos'
    BY <1>13, <2>3, LatestOf DEF Rollback, Restorable
  <2>5. states' \subseteq states /\ s \in states' /\ \A q \in states' : q <= pos'
    BY <1>13, <2>1, <2>4 DEF Rollback
  <2>6. UNCHANGED <<valid, gvt, queue, bound>>
    BY <1>13 DEF Rollback, simVars
  <2> QED
    BY <2>1, <2>5, <2>6
<1>14. CASE SilentStep
  <2>1. pos < pos' /\ pos' \in Event
    BY <1>14, SilentNextFacts DEF SilentStep
  <2>2. UNCHANGED <<valid, gvt, queue, bound, states>> /\ pc = "silent"
    BY <1>14 DEF SilentStep, simVars
  <2>3. ASSUME NEW s \in states PROVE s <= pos'
    <3>1. s <= pos /\ s \in Event
      BY <2>2
    <3> QED
      BY <2>1, <3>1
  <2> QED
    BY <2>2, <2>3
<1>15. CASE SilentEnd
  <2>1. bound' = pos /\ queue \subseteq queue' /\ pc = "silent" /\ pc' # "silent"
    BY <1>15 DEF SilentEnd
  <2>2. UNCHANGED <<valid, gvt, states>>
    BY <1>15 DEF SilentEnd, simVars
  <2> QED
    BY <2>1, <2>2
<1>16. CASE AntiDone
  BY <1>16 DEF AntiDone, LocalsEnd, simVars, lpVars, runVars, hVars, ioVars
<1>17. CASE Execute
  <2>1. bound' = cur /\ queue' = queue \cup {cur} /\ pc' # "silent" /\ bound < cur
    BY <1>17 DEF Execute, Cleans, Current
  <2>2. states \subseteq states' /\ states' \subseteq states \cup {cur} /\ UNCHANGED <<valid, gvt>>
    BY <1>17 DEF Execute, LogState, simVars
  <2>3. states' \subseteq queue' /\ \A s \in states' : s <= cur
    BY <2>1, <2>2
  <2> QED
    BY <2>1, <2>2, <2>3
<1>18. CASE CleanCheckpoint
  <2>1. UNCHANGED <<valid, gvt, bound>> /\ pc' = "collect"
    BY <1>18 DEF CleanCheckpoint, simVars
  <2> QED
    BY <1>18, <2>1, CleanFacts
<1>19. CASE Collect
  BY <1>19 DEF Collect, simVars, lpVars, runVars, hVars, ioVars
<1> QED
  BY <1>1, <1>2, <1>3, <1>4, <1>5, <1>6, <1>7, <1>8, <1>9, <1>10, <1>11, <1>12, <1>13, <1>14, <1>15, <1>16, <1>17, <1>18, <1>19 DEF Next, Ended

\* What was thrown away.
LEMMA ThrownStep ==
  ASSUME StateOK, Calendar, Current, Executed, Checkpoints, Thrown, [Next]_vars
  PROVE  Thrown'
<1> USE Events DEF Thrown
<1> /\ state \in [Event -> {"none", "new", "extracted", "handled"}] /\ valid \in [Event -> BOOLEAN]
    /\ node \subseteq Event /\ queue \subseteq Event /\ committed \subseteq Event /\ gvt \in Event
    /\ bound \in Event /\ cur \in Event /\ pos \in Event
  BY DEF StateOK, SimOK, LpOK, RunOK, HorizonOK
<1>1. CASE UNCHANGED vars
  BY <1>1 DEF vars, simVars, lpVars, runVars, hVars, ioVars
<1>2. ASSUME NEW e \in Event, Send(e)
       PROVE  Thrown'
  BY <1>2 DEF Send, simVars, lpVars, runVars, hVars, ioVars
<1>3. ASSUME NEW e \in Event, Invalidate(e)
       PROVE  Thrown'
  BY <1>3 DEF Invalidate, simVars, lpVars, runVars, hVars, ioVars
<1>4. ASSUME NEW e \in Event, RemoveNode(e)
       PROVE  Thrown'
  BY <1>4 DEF RemoveNode, simVars, lpVars, runVars, hVars, ioVars
<1>5. ASSUME NEW e \in Event, Fetch(e)
       PROVE  Thrown'
  BY <1>5 DEF Fetch, simVars, lpVars, runVars, hVars, ioVars
<1>6. ASSUME NEW e \in Event, FetchAnti(e)
       PROVE  Thrown'
  BY <1>6 DEF FetchAnti, simVars, lpVars, runVars, hVars, ioVars
<1>7. ASSUME NEW c \in Committer, CommitCompare(c)
       PROVE  Thrown'
  BY <1>7 DEF CommitCompare, simVars, lpVars, runVars, hVars, ioVars
<1>8. ASSUME NEW c \in Committer, CommitWrite(c)
       PROVE  Thrown'
  BY <1>8 DEF CommitWrite, simVars, lpVars, runVars, hVars, ioVars
<1>9. ASSUME NEW c \in Committer, NEW e \in Event, CommitDelete(c, e)
       PROVE  Thrown'
  BY <1>9 DEF CommitDelete, simVars, lpVars, runVars, hVars, ioVars
<1>10. CASE AdvanceGvt
  BY <1>10 DEF AdvanceGvt, simVars, lpVars, runVars, hVars, ioVars
<1>11. CASE FetchDrop
  BY <1>11 DEF FetchDrop, simVars, lpVars, runVars, hVars, ioVars
<1>12. CASE FetchChoose
  BY <1>12 DEF FetchChoose, lpVars, hVars, ioVars
<1>13. CASE Rollback
  BY <1>13 DEF Rollback, simVars, lpVars, runVars, hVars, ioVars
<1>14. CASE SilentStep
  BY <1>14 DEF SilentStep, simVars, lpVars, runVars, hVars, ioVars
<1>15. CASE SilentEnd
  <2>1. pc = "silent" /\ UNCHANGED <<batch, committed>>
    BY <1>15 DEF SilentEnd, hVars, ioVars
  <2> QED
    BY <2>1
<1>16. CASE AntiDone
  BY <1>16 DEF AntiDone, LocalsEnd, simVars, lpVars, runVars, hVars, ioVars
<1>17. CASE Execute
  BY <1>17 DEF Execute, Cleans, hVars
<1>18. CASE CleanCheckpoint
  <2>1. UNCHANGED <<bound, committed>> /\ pc' = "collect"
    BY <1>18 DEF CleanCheckpoint, hVars
  <2> QED
    BY <1>18, <2>1, CleanFacts
<1>19. CASE Collect
  BY <1>19 DEF Collect, simVars, lpVars, runVars, hVars, ioVars
<1> QED
  BY <1>1, <1>2, <1>3, <1>4, <1>5, <1>6, <1>7, <1>8, <1>9, <1>10, <1>11, <1>12, <1>13, <1>14, <1>15, <1>16, <1>17, <1>18, <1>19 DEF Next, Ended

\* What Windows says of one event.
LEMMA EpochOf ==
  ASSUME StateOK, Windows
  PROVE  \A e \in Event : /\ window[e].epoch \in Nat /\ window[e].epoch <= epoch /\ 0 <= epoch
                         /\ msgEpoch[e] \in Nat /\ msgEpoch[e] <= epoch /\ epoch \in Nat
<1>1. epoch \in Nat /\ \A e \in Event : window[e].epoch \in Nat /\ msgEpoch[e] \in Nat
  BY DEF StateOK, LpOK, IoOK, AWindow
<1>2. \A e \in Event : window[e].epoch <= epoch /\ msgEpoch[e] <= epoch
  BY DEF Windows
<1> QED
  BY <1>1, <1>2

LEMMA Behind ==
  ASSUME Windows
  PROVE  \A e \in Event : bound < e => window[e].ops = <<>> \/ window[e].epoch < epoch
BY DEF Windows

LEMMA Faithful ==
  ASSUME Windows, ~MayBeMute
  PROVE  \A e \in queue \cup batch : e <= bound /\ ~(pc = "silent" /\ e = cur) => window[e].ops = output[e]
BY DEF Windows

\* While the LP goes forward in silence, up to pos all is as it was.
LEMMA FaithfulSilent ==
  ASSUME StateOK, Windows, pc = "silent", pos < cur, cur <= bound, batch = {}, ~MayBeMute,
         NEW e \in queue \cup {cur}, e <= pos
  PROVE  window[e].ops = output[e]
<1>1. e \in Nat /\ pos \in Nat /\ cur \in Nat /\ bound \in Nat
  BY Events DEF StateOK, LpOK, RunOK
<1>2. e # cur /\ e <= bound
  BY <1>1
<1> QED
  BY <1>2, Faithful

\* Before the event is executed its window is empty or of another epoch.
LEMMA Discarded ==
  ASSUME StateOK, Windows, bound < cur
  PROVE  window[cur].ops = <<>> \/ window[cur].epoch # epoch
<1>1. cur \in Event /\ window[cur].epoch \in Nat /\ epoch \in Nat
  BY EpochOf DEF StateOK, RunOK, LpOK
<1>2. window[cur].ops = <<>> \/ window[cur].epoch < epoch
  BY <1>1, Behind
<1> QED
  BY <1>1, <1>2

LEMMA Transitive == \A a, b, c \in Event : a < b /\ b < c => a < c
BY Events

LEMMA NotBetween == \A a, b, c \in Nat : ~(b < a /\ a < c) /\ a <= c /\ a # c => a <= b
OBVIOUS

LEMMA Smaller == \A a, b \in Nat : a <= b => a < b + 1 /\ a <= b + 1
OBVIOUS

\* The windows.
LEMMA WindowStep ==
  ASSUME StateOK, Calendar, Current, Executed, Checkpoints, Thrown, Windows, [Next]_vars
  PROVE  Windows'
<1> USE Events DEF Windows
<1> /\ state \in [Event -> {"none", "new", "extracted", "handled"}] /\ valid \in [Event -> BOOLEAN]
    /\ node \subseteq Event /\ queue \subseteq Event /\ committed \subseteq Event /\ gvt \in Event
    /\ bound \in Event /\ cur \in Event /\ pos \in Event
    /\ window \in [Event -> AWindow] /\ output \in [Event -> Seq(Event \X Nat)]
    /\ msgEpoch \in [Event -> Nat] /\ epoch \in Nat /\ batch \subseteq Event
  BY DEF StateOK, SimOK, LpOK, RunOK, HorizonOK, IoOK
<1>1. CASE UNCHANGED vars
  BY <1>1 DEF vars, simVars, lpVars, runVars, hVars, ioVars
<1>2. ASSUME NEW e \in Event, Send(e)
       PROVE  Windows'
  BY <1>2 DEF Send, simVars, lpVars, runVars, hVars, ioVars
<1>3. ASSUME NEW e \in Event, Invalidate(e)
       PROVE  Windows'
  BY <1>3 DEF Invalidate, simVars, lpVars, runVars, hVars, ioVars
<1>4. ASSUME NEW e \in Event, RemoveNode(e)
       PROVE  Windows'
  <2>1. state[e] = "extracted" => e \in queue
    BY <1>4 DEF RemoveNode, Executed, Handling
  <2> QED
    BY <1>4, <2>1 DEF RemoveNode, simVars, lpVars, runVars, hVars, ioVars
<1>5. ASSUME NEW e \in Event, Fetch(e)
       PROVE  Windows'
  BY <1>5 DEF Fetch, simVars, lpVars, runVars, hVars, ioVars
<1>6. ASSUME NEW e \in Event, FetchAnti(e)
       PROVE  Windows'
  BY <1>6 DEF FetchAnti, simVars, lpVars, runVars, hVars, ioVars
<1>7. ASSUME NEW c \in Committer, CommitCompare(c)
       PROVE  Windows'
  BY <1>7 DEF CommitCompare, simVars, lpVars, runVars, hVars, ioVars
<1>8. ASSUME NEW c \in Committer, CommitWrite(c)
       PROVE  Windows'
  BY <1>8 DEF CommitWrite, simVars, lpVars, runVars, hVars, ioVars
<1>9. ASSUME NEW c \in Committer, NEW e \in Event, CommitDelete(c, e)
       PROVE  Windows'
  BY <1>9 DEF CommitDelete, simVars, lpVars, runVars, hVars, ioVars
<1>10. CASE AdvanceGvt
  BY <1>10 DEF AdvanceGvt, simVars, lpVars, runVars, hVars, ioVars
<1>11. CASE FetchDrop
  <2>1. LocalNext \in queue /\ bound < LocalNext /\ LocalNext \in Event
    BY <1>11, LocalNextFacts DEF FetchDrop
  <2>2. NoWindow.epoch = 0 /\ NoWindow.ops = <<>>
    BY DEF NoWindow
  <2>3. window' = [window EXCEPT ![LocalNext] = NoWindow]
    BY <1>11 DEF FetchDrop
  <2>4. UNCHANGED <<pc, cur, bound, epoch, msgEpoch, batch, output>> /\ queue' = queue \ {LocalNext} /\ pc = "fetch"
        /\ \A e \in Event \ {LocalNext} : state'[e] = state[e]
    BY <1>11 DEF FetchDrop, runVars
  <2>5. \A e \in Event \ {LocalNext} : window'[e] = window[e]
    BY <2>3
  <2>6. window'[LocalNext] = NoWindow
    BY <2>1, <2>3
  <2>7. LocalNext \notin queue' \cup batch'
    BY <2>1, <2>4 DEF Thrown
  <2>8. ASSUME NEW e \in Event PROVE window'[e].epoch <= epoch
    <3>1. window[e].epoch <= epoch /\ 0 <= epoch
      BY EpochOf
    <3>2. window'[e] = window[e] \/ window'[e].epoch = 0
      BY <2>1, <2>2, <2>5, <2>6
    <3> QED
      BY <3>1, <3>2
  <2>9. \A e \in Event : bound < e => window'[e].ops = <<>> \/ window'[e].epoch < epoch
    BY <2>1, <2>2, <2>5, <2>6
  <2>10. \A e \in Event \ queue' : state'[e] # "extracted" => window'[e].ops = <<>>
    BY <2>1, <2>2, <2>4, <2>5, <2>6
  <2>11. ~MayBeMute => \A e \in queue' \cup batch' : e <= bound => window'[e].ops = output[e]
    BY <2>4, <2>5, <2>7
  <2> QED
    BY <2>4, <2>8, <2>9, <2>10, <2>11
<1>12. CASE FetchChoose
  <2>1. UNCHANGED <<queue, bound, epoch, msgEpoch, window, output, batch>> /\ pc = "fetch" /\ pc' # "silent"
    BY <1>12 DEF FetchChoose, lpVars, ioVars
  <2>2. \A e \in Event : state'[e] # "extracted" => state[e] # "extracted"
    BY <1>12 DEF FetchChoose
  <2>3. pc' = "execute" /\ cur' \notin queue => window[cur'].ops = <<>>
    <3>1. CASE cur' = LocalNext /\ LocalNext # None
      BY <3>1, LocalNextFacts
    <3>2. CASE cur' = cur
      BY <1>12, <3>2 DEF FetchChoose, Current, Executed, Handling
    <3>3. CASE pc' = "idle"
      BY <3>3
    <3> QED
      BY <1>12, <3>1, <3>2, <3>3 DEF FetchChoose
  <2> QED
    BY <2>1, <2>2, <2>3
<1>13. CASE Rollback
  <2>1. UNCHANGED <<state, queue, bound, epoch, msgEpoch, window, output, batch, cur>> /\ pc' = "silent" /\ pc = "rollback"
    BY <1>13 DEF Rollback, simVars, ioVars
  <2> QED
    BY <2>1
<1>14. CASE SilentStep
  <2>1. SilentNext \in Event /\ <<SilentNext, 0>> \in Event \X Nat
    BY <1>14, SilentNextFacts DEF SilentStep
  <2>2. Write(window[cur], msgEpoch[cur], <<SilentNext, 0>>).epoch = msgEpoch[cur]
    BY <1>14, SilentWrite DEF SilentStep
  <2>3. cur <= bound /\ state[cur] = "extracted" /\ pc = "silent" /\ cur \notin batch
    BY <1>14 DEF SilentStep, Current, Handling, Thrown
  <2>4. /\ \A e \in Event \ {cur} : window'[e] = window[e]
        /\ window'[cur].epoch <= epoch
    BY <1>14, <2>2 DEF SilentStep
  <2>5. UNCHANGED <<state, queue, bound, epoch, msgEpoch, pc, cur, output, batch>>
    BY <1>14 DEF SilentStep, simVars
  <2>6. \A e \in Event : window'[e].epoch <= epoch /\ msgEpoch[e] <= epoch
    BY <2>4
  <2>7. \A e \in Event : bound < e => e # cur
    BY <2>3
  <2>8. \A e \in Event \ queue : state[e] # "extracted" => e # cur
    BY <2>3
  <2> QED
    BY <2>3, <2>4, <2>5, <2>6, <2>7, <2>8
<1>15. CASE SilentEnd
  <2>1. /\ queue' = queue \cup {cur} /\ bound' = pos /\ pos < cur /\ cur <= bound /\ epoch' = epoch + 1
        /\ pc = "silent" /\ batch = {}
    BY <1>15 DEF SilentEnd, Current, Thrown
  <2>2. UNCHANGED <<state, window, msgEpoch, output, batch>> /\ pc' # "silent"
    BY <1>15 DEF SilentEnd, simVars, ioVars
  <2>3. pc' = "execute" => cur' = cur
    BY <1>15 DEF SilentEnd
  <2>4. \A e \in Event : window'[e].epoch < epoch'
    <3>1. window' = window /\ epoch' = epoch + 1
      BY <2>1, <2>2, Zenon
    <3>2. \A e \in Event : window[e].epoch < epoch + 1
      BY EpochOf, Smaller
    <3> QED
      BY <3>1, <3>2
  <2>5. \A e \in Event : msgEpoch'[e] <= epoch'
    <3>1. msgEpoch' = msgEpoch /\ epoch' = epoch + 1
      BY <2>1, <2>2, Zenon
    <3>2. \A e \in Event : msgEpoch[e] <= epoch + 1
      BY EpochOf, Smaller
    <3> QED
      BY <3>1, <3>2
  <2>6. \A e \in Event : window'[e].epoch <= epoch'
    <3>1. window' = window /\ epoch' = epoch + 1
      BY <2>1, <2>2, Zenon
    <3>2. \A e \in Event : window[e].epoch <= epoch + 1
      BY EpochOf, Smaller
    <3> QED
      BY <3>1, <3>2
  <2>7. ~MayBeMute => \A e \in queue' \cup batch' : e <= pos => window[e].ops = output[e]
    <3> SUFFICES ASSUME ~MayBeMute, NEW e \in queue \cup {cur}, e <= pos PROVE window[e].ops = output[e]
      BY <2>1, <2>2, Zenon
    <3> QED
      BY <2>1, FaithfulSilent
  <2> QED
    BY <2>1, <2>2, <2>3, <2>4, <2>5, <2>6, <2>7
<1>16. CASE AntiDone
  BY <1>16 DEF AntiDone, LocalsEnd, simVars, lpVars, runVars, hVars, ioVars
<1>17. CASE Execute
  <2> DEFINE w == Write(window[cur], epoch, <<cur, epoch>>)
  <2>1. /\ queue' = queue \cup {cur} /\ bound' = cur /\ bound < cur /\ pc = "execute"
        /\ state[cur] = "extracted" /\ \A e \in queue : ~(bound < e /\ e < cur)
        /\ batch = {}
    BY <1>17 DEF Execute, Current, Handling, Executed, Thrown
  <2>2. window[cur] \in AWindow /\ <<cur, epoch>> \in Event \X Nat
    OBVIOUS
  <2>3. w.epoch = epoch /\ (window[cur].ops = <<>> \/ window[cur].epoch # epoch => w.ops = << <<cur, epoch>> >>)
    BY ExecuteWrite DEF w
  <2>4. window[cur].ops = <<>> \/ window[cur].epoch # epoch
    BY <2>1, Discarded
  <2>5. w.epoch = epoch /\ w.ops = << <<cur, epoch>> >>
    BY <2>3, <2>4
  <2> HIDE DEF w
  <2>6. UNCHANGED <<state, epoch, batch>> /\ pc' \notin {"silent", "execute"}
    BY <1>17 DEF Execute, Cleans, simVars
  <2>7. msgEpoch' = [msgEpoch EXCEPT ![cur] = epoch]
    BY <1>17 DEF Execute
  <2>8. \/ output' = [output EXCEPT ![cur] = << <<cur, epoch>> >>] /\ window' = [window EXCEPT ![cur] = w]
        \/ MayBeMute /\ window' = window /\ output' = [output EXCEPT ![cur] = <<>>]
    BY <1>17 DEF Execute, w
  <2>9. ASSUME NEW e \in Event PROVE window'[e].epoch <= epoch /\ msgEpoch'[e] <= epoch
    <3>1. window'[e] = window[e] \/ window'[e] = w
      <4>1. CASE window' = window
        BY <4>1
      <4>2. CASE window' = [window EXCEPT ![cur] = w]
        <5>1. e \in DOMAIN window
          OBVIOUS
        <5> QED
          BY <4>2, <5>1, Zenon
      <4> QED
        BY <2>8, <4>1, <4>2, Zenon
    <3>2. msgEpoch'[e] = msgEpoch[e] \/ msgEpoch'[e] = epoch
      BY <2>7
    <3>3. window[e].epoch <= epoch /\ msgEpoch[e] <= epoch
      OBVIOUS
    <3> QED
      <4>1. epoch <= epoch
        OBVIOUS
      <4>2. window'[e].epoch <= epoch
        BY <2>5, <3>1, <3>3, <4>1, Zenon
      <4>3. msgEpoch'[e] <= epoch
        BY <3>2, <3>3, <4>1, Zenon
      <4> QED
        BY <4>2, <4>3
  <2>10. \A e \in Event : cur < e => window'[e] = window[e]
    <3> SUFFICES ASSUME NEW e \in Event, e # cur PROVE window'[e] = window[e]
      BY Events
    <3> QED
      BY <2>8
  <2>11. \A e \in Event \ queue' : window'[e] = window[e]
    BY <2>1, <2>8
  <2>12. ASSUME ~MayBeMute, NEW e \in queue', e <= cur PROVE window'[e].ops = output'[e]
    <3>1. output' = [output EXCEPT ![cur] = << <<cur, epoch>> >>] /\ window' = [window EXCEPT ![cur] = w]
      BY <2>8, <2>12
    <3>2. CASE e = cur
      BY <3>1, <3>2, <2>5
    <3>3. CASE e # cur
      <4>1. e \in queue /\ e \in Event /\ e <= bound
        <5>1. e \in queue /\ e \in Nat /\ cur \in Nat /\ bound \in Nat
          BY <2>1, <2>12, <3>3
        <5>2. ~(bound < e /\ e < cur)
          BY <2>1, <5>1
        <5> QED
          BY <2>12, <3>3, <5>1, <5>2, NotBetween
      <4>2. window'[e] = window[e] /\ output'[e] = output[e]
        BY <3>1, <3>3, <4>1
      <4> QED
        BY <2>1, <2>12, <4>1, <4>2
    <3> QED
      BY <3>2, <3>3
  <2>13. \A e \in Event : cur < e => window'[e].ops = <<>> \/ window'[e].epoch < epoch
    <3> SUFFICES ASSUME NEW e \in Event, cur < e PROVE window[e].ops = <<>> \/ window[e].epoch < epoch
      BY <2>10
    <3>1. bound < e
      BY <2>1, Transitive
    <3> QED
      BY <3>1, Behind
  <2>14. \A e \in Event \ queue' : state[e] # "extracted" => window'[e].ops = <<>>
    BY <2>1, <2>11
  <2> QED
    BY <2>1, <2>6, <2>9, <2>12, <2>13, <2>14
<1>18. CASE CleanCheckpoint
  <2>1. UNCHANGED <<state, bound, epoch, msgEpoch, window, output, cur>> /\ pc' = "collect" /\ pc = "clean"
    BY <1>18 DEF CleanCheckpoint, simVars
  <2>2. queue' = queue \ batch' /\ \A e \in batch' : e \in queue /\ state[e] = "extracted"
    BY <1>18, CleanFacts DEF Calendar
  <2> QED
    BY <2>1, <2>2
<1>19. CASE Collect
  <2> DEFINE taken == {e \in batch : e < horizon /\ e # Latest(batch)}
  <2>1. NoWindow.epoch = 0 /\ NoWindow.ops = <<>>
    BY DEF NoWindow
  <2>2. window' = [e \in Event |-> IF e \in taken THEN NoWindow ELSE window[e]] /\ taken \subseteq batch
    BY <1>19 DEF Collect
  <2> HIDE DEF taken
  <2>3. UNCHANGED <<state, queue, bound, epoch, msgEpoch, output>> /\ batch' = {} /\ pc' = "idle" /\ pc = "collect"
    BY <1>19 DEF Collect, simVars, lpVars
  <2>4. \A e \in Event : \/ window'[e] = window[e]
                         \/ e \in batch /\ window'[e].epoch = 0 /\ window'[e].ops = <<>>
    BY <2>1, <2>2
  <2>5. \A e \in queue : window'[e] = window[e]
    BY <2>4 DEF Thrown
  <2>6. ASSUME NEW e \in Event PROVE window'[e].epoch <= epoch
    <3>1. window[e].epoch <= epoch /\ 0 <= epoch
      BY EpochOf
    <3> QED
      BY <2>4, <3>1
  <2>7. \A e \in Event : bound < e => window'[e].ops = <<>> \/ window'[e].epoch < epoch
    BY <2>4
  <2>8. \A e \in Event \ queue : state[e] # "extracted" => window'[e].ops = <<>>
    BY <2>4
  <2> QED
    BY <2>3, <2>5, <2>6, <2>7, <2>8
<1> QED
  BY <1>1, <1>2, <1>3, <1>4, <1>5, <1>6, <1>7, <1>8, <1>9, <1>10, <1>11, <1>12, <1>13, <1>14, <1>15, <1>16, <1>17, <1>18, <1>19 DEF Next, Ended

LEMMA InitIInv == ASSUME Init PROVE IInv
<1> USE Events DEF Init
<1>1. INIT \in Event /\ <<INIT, 1>> \in Event \X Nat
  BY DEF INIT
<1>2. << <<INIT, 1>> >> \in Seq(Event \X Nat) /\ <<>> \in Seq(Event \X Nat)
  BY <1>1
<1>3. SimOK
  BY <1>1 DEF SimOK
<1>4. LpOK
  <2>1. ckpPeriod \in Nat \ {0}
    BY PeriodAssumption
  <2>2. 0 \in 0 .. ckpPeriod - 1
    BY <2>1
  <2> QED
    BY <2>2 DEF LpOK
<1>5. RunOK
  BY DEF RunOK
<1>6. HorizonOK
  <2>1. horizon \in 0 .. MaxTs + 1
    BY GarbageAssumption
  <2>2. later \in [Committer -> BOOLEAN]
    BY Zenon
  <2> QED
    BY <2>1, <2>2 DEF HorizonOK
<1>7. IoOK
  <2>1. output \in [Event -> Seq(Event \X Nat)]
    BY <1>2
  <2>2. msgEpoch \in [Event -> Nat]
    OBVIOUS
  <2>3. \A e \in Event : window[e] = [epoch |-> msgEpoch[e], ops |-> output[e]]
    OBVIOUS
  <2>4. \A e \in Event : window[e] \in AWindow
    BY <2>1, <2>2, <2>3 DEF AWindow
  <2> QED
    BY <2>1, <2>4 DEF IoOK
<1>8. Calendar
  BY DEF Calendar
<1>9. Current /\ Executed /\ Checkpoints /\ Thrown
  BY <1>1 DEF Current, Executed, Checkpoints, Anchored, Thrown, Handling
<1>10. Windows
  <2>1. \A e \in Event : window[e].epoch = msgEpoch[e] /\ window[e].ops = output[e]
    OBVIOUS
  <2>2. \A e \in Event : msgEpoch[e] <= 1
    OBVIOUS
  <2>3. \A e \in Event : e # INIT => output[e] = <<>>
    OBVIOUS
  <2>4. \A e \in Event : bound < e => e # INIT
    BY <1>1
  <2> QED
    BY <2>1, <2>2, <2>3, <2>4 DEF Windows
<1> QED
  BY <1>3, <1>4, <1>5, <1>6, <1>7, <1>8, <1>9, <1>10 DEF IInv, StateOK

LEMMA StepIInv == ASSUME IInv, [Next]_vars PROVE IInv'
<1> USE DEF IInv
<1>1. StateOK'
  BY SimStep, LpStep, RunStep, HorizonStep, IoStep DEF StateOK
<1>2. Calendar' /\ Current' /\ Executed'
  BY CalendarStep, CurrentStep, ExecutedStep
<1>3. Checkpoints' /\ Thrown' /\ Windows'
  BY CheckpointStep, ThrownStep, WindowStep
<1> QED
  BY <1>1, <1>2, <1>3
-----------------------------------------------------------------------------
THEOREM Invariance == Spec => []IInv
BY InitIInv, StepIInv, PTL DEF Spec

\* Only what can no longer be undone is thrown away by clean_checkpoint,
\* whatever the horizon holds: the checkpoints, and with them what precedes
\* them, are before the bound, and the bound of an LP that is cleaned is safe.
THEOREM ThrownIsCommitted == Spec => []CommittedOnly
<1>1. IInv => CommittedOnly
  BY DEF IInv, Thrown, CommittedOnly
<1> QED
  BY <1>1, Invariance, PTL

\* An LP always has a checkpoint to roll back to, whatever clean_checkpoint has
\* deleted and however low the straggler is.
THEOREM CheckpointLeft == Spec => []RestoreExists
<1>1. IInv => RestoreExists
  <2> SUFFICES ASSUME IInv, pc = "rollback" PROVE Restorable # {}
    BY DEF RestoreExists
  <2>1. PICK s \in states : valid[s] /\ (s = INIT \/ s < gvt)
    BY DEF IInv, Checkpoints, Anchored
  <2>2. gvt <= cur /\ gvt \in Nat /\ cur \in Nat /\ s \in Nat
    BY Events DEF IInv, Current, Calendar, StateOK, SimOK, RunOK, LpOK
  <2>3. s \in Restorable
    BY <2>1, <2>2 DEF Restorable
  <2> QED
    BY <2>3
<1> QED
  BY <1>1, Invariance, PTL

\* The event that is executed is the next of the LP's queue after the one
\* executed before, after a rollback too.
THEOREM NextExecuted == Spec => []ExecutesNext
<1>1. IInv => ExecutesNext
  BY DEF IInv, Executed, ExecutesNext
<1> QED
  BY <1>1, Invariance, PTL

\* What an undone event wrote is gone with it.
THEOREM UndoneIsDiscarded == Spec => []UndoneDiscarded
<1>1. IInv => UndoneDiscarded
  BY DEF IInv, Windows, UndoneDiscarded
<1> QED
  BY <1>1, Invariance, PTL

\* If every execution writes something, the window of a committed event holds
\* exactly what its last execution wrote: the epochs keep apart the executions
\* and the silent re-executions in between.
THEOREM FaithfulOutput == ASSUME ~MayBeMute PROVE Spec => []OutputFaithful
<1>1. IInv => OutputFaithful
  <2> SUFFICES ASSUME IInv, NEW e \in committed \cap (queue \cup batch)
               PROVE  window[e].ops = output[e]
    BY DEF OutputFaithful
  <2>1. e <= bound
    BY DEF IInv, Executed, Thrown
  <2>2. pc = "silent" => e # cur
    BY DEF IInv, Current, Handling
  <2> QED
    BY <2>1, <2>2 DEF IInv, Windows
<1> QED
  BY <1>1, Invariance, PTL
=============================================================================
