------------------------ MODULE RunLifecycle_proofs ------------------------
(***************************************************************************)
(* Proofs about RunLifecycle, for any runs, runners, slots and scenarios.   *)
(***************************************************************************)
EXTENDS RunLifecycle, FiniteSetTheorems, TLAPS

-----------------------------------------------------------------------------
(* Type correctness                                                         *)

LEMMA TypeInit ==
  ASSUME Init PROVE TypeOK
<1> USE LifecycleAssumption DEF Init, InitFleet
<1>1. RunsTyped
  BY DEF RunsTyped, RunStatus
<1>2. RowsTyped
  BY DEF RowsTyped, RunnerStatus
<1>3. PollsTyped
  BY DEF PollsTyped, PollPc, RunnerStatus
<1>4. FinsTyped /\ OpsTyped /\ ReapTyped
  BY DEF FinsTyped, OpsTyped, ReapTyped, FinPc
<1>5. AgentsTyped
  BY DEF AgentsTyped, AgentMode, ProcessState
<1>6. faults \subseteq FaultKinds
  OBVIOUS
<1> QED
  BY <1>1, <1>2, <1>3, <1>4, <1>5, <1>6 DEF TypeOK

\* A group of variables that a step leaves alone keeps its type.
LEMMA Frame ==
  ASSUME TypeOK
  PROVE  /\ UNCHANGED runVars => RunsTyped'
         /\ UNCHANGED rowVars => RowsTyped'
         /\ UNCHANGED pollVars => PollsTyped'
         /\ UNCHANGED finVars => FinsTyped'
         /\ UNCHANGED opVars => OpsTyped'
         /\ UNCHANGED reapVars => ReapTyped'
         /\ UNCHANGED agentVars => AgentsTyped'
         /\ UNCHANGED faults => (faults \subseteq FaultKinds)'
<1> USE DEF TypeOK
<1>1. UNCHANGED runVars => RunsTyped'
  BY DEF runVars, RunsTyped
<1>2. UNCHANGED rowVars => RowsTyped'
  BY DEF rowVars, RowsTyped
<1>3. UNCHANGED pollVars => PollsTyped'
  BY DEF pollVars, PollsTyped
<1>4. UNCHANGED finVars => FinsTyped'
  BY DEF finVars, FinsTyped
<1>5. UNCHANGED opVars => OpsTyped'
  BY DEF opVars, OpsTyped
<1>6. UNCHANGED reapVars => ReapTyped'
  BY DEF reapVars, ReapTyped
<1>7. UNCHANGED agentVars => AgentsTyped'
  BY DEF agentVars, AgentsTyped
<1>8. UNCHANGED faults => (faults \subseteq FaultKinds)'
  OBVIOUS
<1> QED
  BY <1>1, <1>2, <1>3, <1>4, <1>5, <1>6, <1>7, <1>8

\* A guarded close keeps the run table typed.
LEMMA CloseTyped ==
  ASSUME RunsTyped, NEW r \in Runs, CloseLost(r)
  PROVE  /\ status' \in [Runs -> RunStatus]
         /\ ends' \in [Runs -> Nat]
<1>1. CASE status[r] = "running"
  BY <1>1 DEF RunsTyped, CloseLost, RunStatus, Terminal
<1>2. CASE status[r] # "running"
  BY <1>2 DEF RunsTyped, CloseLost
<1> QED
  BY <1>1, <1>2

\* So does a close one of whose statements fails, and a request broken off.
LEMMA FailTyped ==
  ASSUME RunsTyped, NEW r \in Runs, CloseFails(r)
  PROVE  /\ status' \in [Runs -> RunStatus]
         /\ ends' \in [Runs -> Nat]
<1>1. ends' \in [Runs -> Nat]
  BY DEF RunsTyped, CloseFails
<1>2. status' \in [Runs -> RunStatus]
  BY DEF RunsTyped, CloseFails, RunStatus, Terminal
<1> QED
  BY <1>1, <1>2

LEMMA BreakTyped ==
  ASSUME RunsTyped, NEW todo \in SUBSET Runs, NEW owed \in SUBSET Runs,
         BreakOff(todo, owed), UNCHANGED <<owner, ends, killq>>
  PROVE  RunsTyped'
<1>1. CASE UNCHANGED status /\ unreported' = unreported \union owed
  BY <1>1 DEF RunsTyped
<1>2. ASSUME NEW r \in todo, status' = [status EXCEPT ![r] = "failure"],
             unreported' = unreported \union owed \union {r}
      PROVE  RunsTyped'
  BY <1>2 DEF RunsTyped, RunStatus, Terminal
<1> QED
  BY <1>1, <1>2 DEF BreakOff

\* A process that goes away keeps the agents and the rows typed.
LEMMA GoneTyped ==
  ASSUME TypeOK, NEW a \in Agents, ProcessGone(a)
  PROVE  /\ held' \in [Agents -> BOOLEAN]
         /\ plive' \in [Agents -> BOOLEAN]
         /\ UNCHANGED pstart => AgentsTyped'
<1> USE DEF TypeOK, ProcessGone
<1>1. held' \in [Agents -> BOOLEAN]
  BY DEF RowsTyped
<1>2. plive' \in [Agents -> BOOLEAN]
  BY DEF PollsTyped
<1>3. UNCHANGED pstart => AgentsTyped'
  BY DEF AgentsTyped, AgentMode
<1> QED
  BY <1>1, <1>2, <1>3

LEMMA PollOverTyped ==
  ASSUME TypeOK, NEW a \in Agents, PollOver(a) PROVE PollsTyped'
  BY DEF TypeOK, PollsTyped, PollOver, PollPc, RunnerStatus

LEMMA AfterPollTyped ==
  ASSUME NEW mode \in AgentMode, NEW slots PROVE AfterPoll(mode, slots) \in AgentMode
  BY DEF AfterPoll, AgentMode

LEMMA TypePoll ==
  ASSUME TypeOK, NEW a \in Agents, PollStep(a) PROVE TypeOK'
<1> USE Frame
<1>1. CASE PollArrive(a)
  <2> USE <1>1 DEF PollArrive
  <2>1. RowsTyped'
    BY DEF TypeOK, RowsTyped, RunningOf, Running
  <2>2. PollsTyped'
    <3>1. psnap' \in [Agents -> RunnerStatus]
      BY DEF TypeOK, RowsTyped, PollsTyped
    <3>2. ptodo' \in [Agents -> SUBSET Runs] /\ ppc' \in [Agents -> PollPc]
      BY DEF TypeOK, PollsTyped, PollPc, RunningOf, Running
    <3>3. pclaim' \in [Agents -> BOOLEAN]
      BY DEF TypeOK, PollsTyped, WantsRun
    <3>4. plive' \in [Agents -> BOOLEAN]
      BY DEF TypeOK, PollsTyped
    <3> QED
      BY <3>1, <3>2, <3>3, <3>4 DEF TypeOK, PollsTyped
  <2>3. AgentsTyped'
    BY DEF TypeOK, AgentsTyped, ProcessState
  <2> QED
    BY <2>1, <2>2, <2>3 DEF TypeOK
<1>2. CASE PollCloseRun(a)
  <2>1. PICK r \in ptodo[a] :
          /\ CloseLost(r)
          /\ ptodo' = [ptodo EXCEPT ![a] = @ \ {r}]
          /\ pn' = [pn EXCEPT ![a] = IF status[r] = "running" THEN @ + 1 ELSE @]
    BY <1>2 DEF PollCloseRun
  <2>2. r \in Runs
    BY DEF TypeOK, PollsTyped
  <2>3. RunsTyped'
    BY <1>2, <2>1, <2>2, CloseTyped DEF TypeOK, RunsTyped, PollCloseRun
  <2>4. PollsTyped'
    BY <1>2, <2>1 DEF TypeOK, PollsTyped, PollCloseRun
  <2> QED
    BY <1>2, <2>3, <2>4 DEF TypeOK, PollCloseRun
<1>3. CASE PollClosed(a)
  <2>1. RowsTyped'
    BY <1>3 DEF TypeOK, RowsTyped, PollsTyped, PollClosed, SetRow, Floor0
  <2>2. PollsTyped'
    BY <1>3 DEF TypeOK, PollsTyped, PollClosed, PollPc
  <2> QED
    BY <1>3, <2>1, <2>2 DEF TypeOK, PollClosed
<1>4. CASE PollControl(a)
  <2>1. RunsTyped'
    BY <1>4 DEF TypeOK, RunsTyped, PollControl
  <2>2. PollsTyped'
    BY <1>4 DEF TypeOK, RunsTyped, PollsTyped, PollControl, KillsFor, AnswerOrWait, PollPc
  <2> QED
    BY <1>4, <2>1, <2>2 DEF TypeOK, PollControl
<1>5. CASE PollReadmit(a)
  <2>1. RowsTyped'
    BY <1>5 DEF TypeOK, RowsTyped, PollReadmit, Readmit, RunnerStatus
  <2>2. PollsTyped'
    BY <1>5 DEF TypeOK, PollsTyped, PollReadmit, AnswerOrWait, PollPc
  <2> QED
    BY <1>5, <2>1, <2>2 DEF TypeOK, PollReadmit
<1>6. CASE PollLoop(a)
  <2>1. RunsTyped'
    BY <1>6 DEF TypeOK, RunsTyped, PollLoop
  <2>2. RowsTyped'
    BY <1>6 DEF TypeOK, RowsTyped, PollLoop, Readmit, RunnerStatus
  <2>3. PollsTyped'
    BY <1>6 DEF TypeOK, RunsTyped, PollsTyped, PollLoop, KillsFor, PollPc
  <2> QED
    BY <1>6, <2>1, <2>2, <2>3 DEF TypeOK, PollLoop
<1>7. CASE PollClaim(a)
  <2>1. PICK r \in Claimable(a) :
          /\ status' = [status EXCEPT ![r] = "running"]
          /\ owner' = [owner EXCEPT ![r] = a]
          /\ prun' = [prun EXCEPT ![a] = r]
    BY <1>7 DEF PollClaim
  <2>2. r \in Runs
    BY DEF Claimable
  <2>3. RunsTyped'
    BY <1>7, <2>1, <2>2 DEF TypeOK, RunsTyped, PollClaim, RunStatus
  <2>4. PollsTyped'
    BY <1>7, <2>1, <2>2 DEF TypeOK, PollsTyped, PollClaim, PollPc
  <2> QED
    BY <1>7, <2>3, <2>4 DEF TypeOK, PollClaim
<1>8. ASSUME NEW next \in {"loop", "reply"}, PollNothing(a, next) PROVE TypeOK'
  <2>1. PollsTyped'
    BY <1>8 DEF TypeOK, PollsTyped, PollNothing, PollPc
  <2> QED
    BY <1>8, <2>1 DEF TypeOK, PollNothing
<1>9. CASE PollLoad(a)
  <2>1. RowsTyped'
    BY <1>9 DEF TypeOK, RowsTyped, PollLoad, SetRow
  <2>2. PollsTyped'
    BY <1>9 DEF TypeOK, PollsTyped, PollLoad, PollPc
  <2> QED
    BY <1>9, <2>1, <2>2 DEF TypeOK, PollLoad
<1>10. CASE PollDeliver(a)
  <2>1. AgentsTyped'
    <3> DEFINE killed == pctl[a] \intersect active[a]
               mode == IF ppc[a] = "replyDrain" /\ amode[a] = "working"
                         THEN "draining" ELSE amode[a]
               run == IF prun[a] = None THEN {} ELSE {prun[a]}
    <3>1. mode \in AgentMode
      BY DEF TypeOK, AgentsTyped, AgentMode
    <3>2. run \subseteq Runs /\ killed \subseteq Runs
      BY DEF TypeOK, PollsTyped
    <3>3. amode' \in [Agents -> AgentMode]
      BY <1>10, <3>1, AfterPollTyped DEF TypeOK, AgentsTyped, PollDeliver
    <3> HIDE DEF mode, run, killed
    <3>4. /\ active' \in [Agents -> SUBSET Runs]
          /\ ending' \in [Agents -> SUBSET Runs]
          /\ refusing' \in [Agents -> SUBSET Runs]
      BY <1>10, <3>2 DEF TypeOK, AgentsTyped, PollDeliver, run, killed
    <3>5. pstart' \in [Agents -> ProcessState]
      BY <1>10 DEF TypeOK, AgentsTyped, PollDeliver, ProcessState
    <3> QED
      BY <3>3, <3>4, <3>5 DEF AgentsTyped
  <2> QED
    BY <1>10, <2>1, PollOverTyped DEF TypeOK, PollDeliver
<1>11. CASE PollLost(a)
  <2>1. AgentsTyped'
    BY <1>11, AfterPollTyped DEF TypeOK, AgentsTyped, PollLost
  <2> QED
    BY <1>11, <2>1, PollOverTyped DEF TypeOK, PollLost
<1>12. CASE PollAbort(a)
  <2>1. ptodo[a] \in SUBSET Runs
    BY DEF TypeOK, PollsTyped
  <2>2. RunsTyped'
    BY <1>12, <2>1, BreakTyped DEF TypeOK, PollAbort
  <2> QED
    BY <1>12, <2>2, PollOverTyped DEF TypeOK, PollAbort
<1> QED
  BY <1>1, <1>2, <1>3, <1>4, <1>5, <1>6, <1>7, <1>8, <1>9, <1>10, <1>11, <1>12
  DEF PollStep, PollAgain, PollTimeout

LEMMA TypeAgent ==
  ASSUME TypeOK, NEW a \in Agents, AgentStep(a) PROVE TypeOK'
<1> USE Frame
<1>1. CASE Finish(a)
  <2>1. AgentsTyped'
    BY <1>1 DEF TypeOK, AgentsTyped, Finish
  <2> QED
    BY <1>1, <2>1 DEF TypeOK, Finish
<1>2. ASSUME ProcessGone(a), UNCHANGED <<rstat, load, deadline, stale, lost>>,
             UNCHANGED <<ppc, psnap, pclaim, pctl, ptodo, pn, prun>>, UNCHANGED pstart
      PROVE  RowsTyped' /\ PollsTyped' /\ AgentsTyped'
  <2>1. RowsTyped'
    BY <1>2, GoneTyped DEF TypeOK, RowsTyped
  <2>2. PollsTyped'
    BY <1>2, GoneTyped DEF TypeOK, PollsTyped
  <2> QED
    BY <1>2, <2>1, <2>2, GoneTyped
<1>3. CASE Leave(a)
  BY <1>2, <1>3 DEF TypeOK, Leave
<1>4. CASE Crash(a)
  BY <1>2, <1>4 DEF TypeOK, Crash
<1>5. CASE PollRejected(a)
  BY <1>2, <1>5 DEF TypeOK, PollRejected
<1>6. CASE Restart(a)
  <2>1. AgentsTyped'
    BY <1>6 DEF TypeOK, AgentsTyped, Restart, AgentMode, ProcessState
  <2> QED
    BY <1>6, <2>1 DEF TypeOK, Restart
<1>7. CASE StopSignal(a)
  <2>1. AfterPoll("stopping", SlotsOf(a)) \in AgentMode
    BY AfterPollTyped DEF AgentMode
  <2>2. AgentsTyped'
    BY <1>7, <2>1 DEF TypeOK, AgentsTyped, StopSignal
  <2>3. PollsTyped'
    BY <1>7 DEF TypeOK, PollsTyped, StopSignal
  <2> QED
    BY <1>7, <2>2, <2>3 DEF TypeOK, StopSignal
<1> QED
  BY <1>1, <1>3, <1>4, <1>5, <1>6, <1>7 DEF AgentStep

LEMMA TypeIngest ==
  ASSUME TypeOK, NEW r \in Runs, IngestStep(r) PROVE TypeOK'
<1> USE Frame, LifecycleAssumption
<1>1. CASE IngestWrite(r)
  <2>1. RunsTyped'
    BY <1>1 DEF TypeOK, RunsTyped, IngestWrite, RunStatus, Terminal
  <2>2. FinsTyped'
    BY <1>1 DEF TypeOK, FinsTyped, IngestWrite, FinPc
  <2> QED
    BY <1>1, <2>1, <2>2 DEF TypeOK, IngestWrite
<1>2. CASE IngestLoad(r)
  <2>1. fby[r] \in Agents
    BY <1>2 DEF TypeOK, FinsTyped, IngestLoad
  <2>2. RowsTyped'
    BY <1>2, <2>1 DEF TypeOK, RowsTyped, IngestLoad, SetRow, Floor0
  <2>3. FinsTyped'
    BY <1>2 DEF TypeOK, FinsTyped, IngestLoad, FinPc
  <2> QED
    BY <1>2, <2>2, <2>3 DEF TypeOK, IngestLoad
<1>3. CASE IngestDrain(r)
  <2>1. FinsTyped'
    BY <1>3 DEF TypeOK, FinsTyped, IngestDrain, FinPc, RunningOf, Running
  <2> QED
    BY <1>3, <2>1 DEF TypeOK, IngestDrain
<1>4. CASE IngestOff(r)
  <2>1. RowsTyped'
    BY <1>4 DEF TypeOK, RowsTyped, IngestOff, SetRow, RunnerStatus
  <2>2. FinsTyped'
    BY <1>4 DEF TypeOK, FinsTyped, IngestOff, FinPc
  <2> QED
    BY <1>4, <2>1, <2>2 DEF TypeOK, IngestOff
<1>5. CASE IngestForce(r)
  <2>1. PICK x \in ftodo[r] : /\ CloseLost(x) \/ CloseFails(x)
                              /\ ftodo' = [ftodo EXCEPT ![r] = @ \ {x}]
    BY <1>5 DEF IngestForce
  <2>2. x \in Runs
    BY DEF TypeOK, FinsTyped
  <2>3. RunsTyped'
    BY <1>5, <2>1, <2>2, CloseTyped, FailTyped DEF TypeOK, RunsTyped, IngestForce
  <2>4. FinsTyped'
    BY <1>5, <2>1 DEF TypeOK, FinsTyped, IngestForce
  <2> QED
    BY <1>5, <2>3, <2>4 DEF TypeOK, IngestForce
<1>6. CASE IngestForced(r)
  <2>1. RowsTyped'
    BY <1>6 DEF TypeOK, RowsTyped, IngestForced, SetRow, RunnerStatus
  <2>2. FinsTyped'
    BY <1>6 DEF TypeOK, FinsTyped, IngestForced, FinPc
  <2> QED
    BY <1>6, <2>1, <2>2 DEF TypeOK, IngestForced
<1>7. CASE IngestEmit(r)
  <2>1. RunsTyped'
    BY <1>7 DEF TypeOK, RunsTyped, IngestEmit
  <2>2. FinsTyped'
    BY <1>7 DEF TypeOK, FinsTyped, IngestEmit, FinPc
  <2>3. AgentsTyped'
    BY <1>7 DEF TypeOK, AgentsTyped, IngestEmit
  <2> QED
    BY <1>7, <2>1, <2>2, <2>3 DEF TypeOK, IngestEmit
<1>8. CASE IngestCut(r)
  <2>1. ftodo[r] \in SUBSET Runs
    BY DEF TypeOK, FinsTyped
  <2>2. RunsTyped'
    BY <1>8, <2>1, BreakTyped DEF TypeOK, IngestCut
  <2>3. FinsTyped'
    BY <1>8 DEF TypeOK, FinsTyped, IngestCut, FinPc
  <2> QED
    BY <1>8, <2>2, <2>3 DEF TypeOK, IngestCut
<1> QED
  BY <1>1, <1>2, <1>3, <1>4, <1>5, <1>6, <1>7, <1>8 DEF IngestStep

LEMMA TypeIngestStart ==
  ASSUME TypeOK, NEW a \in Agents, IngestStart(a) PROVE TypeOK'
<1>1. FinsTyped'
  BY DEF TypeOK, FinsTyped, AgentsTyped, IngestStart, FinPc
<1>2. AgentsTyped'
  BY DEF TypeOK, AgentsTyped, IngestStart
<1> QED
  BY <1>1, <1>2, Frame DEF TypeOK, IngestStart, finVars

LEMMA TypeOperator ==
  ASSUME TypeOK,
         \/ \E a \in Agents : DrainRead(a) \/ DrainStep(a) \/ TimeStep(a)
         \/ \E r \in Runs : KillJob(r) \/ KillStep(r)
  PROVE  TypeOK'
<1> USE Frame, LifecycleAssumption
<1>1. ASSUME NEW a \in Agents, DrainRead(a) PROVE TypeOK'
  <2>1. OpsTyped'
    BY <1>1 DEF TypeOK, OpsTyped, DrainRead
  <2> QED
    BY <1>1, <2>1 DEF TypeOK, DrainRead
<1>2. ASSUME NEW a \in Agents, DrainMark(a) PROVE TypeOK'
  <2>1. RowsTyped' /\ OpsTyped'
    BY <1>2 DEF TypeOK, RowsTyped, OpsTyped, DrainMark, SetRow, RunnerStatus
  <2> QED
    BY <1>2, <2>1 DEF TypeOK, DrainMark
<1>3. ASSUME NEW a \in Agents, DrainOff(a) PROVE TypeOK'
  <2>1. RowsTyped' /\ OpsTyped'
    BY <1>3 DEF TypeOK, RowsTyped, OpsTyped, DrainOff, SetRow, RunnerStatus
  <2> QED
    BY <1>3, <2>1 DEF TypeOK, DrainOff
<1>7. ASSUME NEW a \in Agents, DrainCut(a) PROVE TypeOK'
  <2>1. OpsTyped'
    BY <1>7 DEF TypeOK, OpsTyped, DrainCut
  <2> QED
    BY <1>7, <2>1 DEF TypeOK, DrainCut
<1>4. ASSUME NEW a \in Agents, TimeStep(a) PROVE TypeOK'
  <2>1. RowsTyped'
    BY <1>4 DEF TypeOK, RowsTyped, TimeStep, DeadlinePasses, GoStale, HoldPasses
  <2> QED
    BY <1>4, <2>1 DEF TypeOK, TimeStep, DeadlinePasses, GoStale, HoldPasses
<1>5. ASSUME NEW r \in Runs, KillJob(r) PROVE TypeOK'
  <2>1. RunsTyped' /\ OpsTyped'
    BY <1>5 DEF TypeOK, RunsTyped, OpsTyped, KillJob, RunStatus, Terminal
  <2> QED
    BY <1>5, <2>1 DEF TypeOK, KillJob
<1>6. ASSUME NEW r \in Runs, KillStep(r) PROVE TypeOK'
  <2>1. RunsTyped' /\ OpsTyped'
    BY <1>6 DEF TypeOK, RunsTyped, OpsTyped, KillStep, KillQueue, KillEmit, KillCut
  <2> QED
    BY <1>6, <2>1 DEF TypeOK, KillStep, KillQueue, KillEmit, KillCut
<1> QED
  BY <1>1, <1>2, <1>3, <1>4, <1>5, <1>6, <1>7 DEF DrainStep

\* A row that is deleted leaves the tables typed.
LEMMA DropTyped ==
  ASSUME TypeOK, NEW a \in Agents, DropRow(a)
  PROVE  RowsTyped' /\ owner' \in [Runs -> Agents \union {None}]
<1>1. RowsTyped'
  BY DEF TypeOK, RowsTyped, DropRow, RunnerStatus
<1>2. owner' \in [Runs -> Agents \union {None}]
  BY DEF TypeOK, RunsTyped, DropRow
<1> QED
  BY <1>1, <1>2

LEMMA TypeReap ==
  ASSUME TypeOK, ReapStep \/ ReapOld \/ \E a \in Agents : Deregister(a) PROVE TypeOK'
<1> USE Frame
<1>1. CASE ReapSweep
  <2>1. ReapTyped'
    BY <1>1 DEF TypeOK, ReapTyped, ReapSweep
  <2> QED
    BY <1>1, <2>1 DEF TypeOK, ReapSweep
<1>2. CASE ReapPick
  <2>1. ReapTyped'
    BY <1>2 DEF TypeOK, ReapTyped, ReapPick, RunningOf, Running
  <2> QED
    BY <1>2, <2>1 DEF TypeOK, ReapPick
<1>3. CASE ReapClose
  <2>1. PICK r \in rtodo : CloseLost(r) /\ rtodo' = rtodo \ {r}
    BY <1>3 DEF ReapClose
  <2>2. r \in Runs
    BY DEF TypeOK, ReapTyped
  <2>3. RunsTyped'
    BY <1>3, <2>1, <2>2, CloseTyped DEF TypeOK, RunsTyped, ReapClose
  <2>4. ReapTyped'
    BY <1>3, <2>1 DEF TypeOK, ReapTyped, ReapClose
  <2> QED
    BY <1>3, <2>3, <2>4 DEF TypeOK, ReapClose
<1>4. CASE ReapOffline
  <2>1. RowsTyped' /\ ReapTyped'
    BY <1>4 DEF TypeOK, RowsTyped, ReapTyped, ReapOffline, SetRow, RunnerStatus
  <2> QED
    BY <1>4, <2>1 DEF TypeOK, ReapOffline
<1>5. CASE ReapOld
  <2>1. ReapTyped'
    BY <1>5 DEF TypeOK, ReapTyped, ReapOld
  <2> QED
    BY <1>5, <2>1 DEF TypeOK, ReapOld
<1>6. CASE ReapDeregister
  <2>1. PICK a \in rlist : /\ DropRow(a)
                           /\ rlist' = rlist \ {a}
                           /\ rpc' = IF rlist = {a} THEN "idle" ELSE "old"
    BY <1>6 DEF ReapDeregister
  <2>2. a \in Agents
    BY DEF TypeOK, ReapTyped
  <2>3. RowsTyped' /\ RunsTyped'
    BY <1>6, <2>1, <2>2, DropTyped DEF TypeOK, RunsTyped, ReapDeregister
  <2>4. ReapTyped'
    BY <1>6, <2>1 DEF TypeOK, ReapTyped, ReapDeregister
  <2> QED
    BY <1>6, <2>3, <2>4 DEF TypeOK, ReapDeregister
<1>7. ASSUME NEW a \in Agents, Deregister(a) PROVE TypeOK'
  <2>1. RowsTyped' /\ RunsTyped'
    BY <1>7, DropTyped DEF TypeOK, RunsTyped, Deregister, RunStatus, Terminal
  <2> QED
    BY <1>7, <2>1 DEF TypeOK, Deregister
<1> QED
  BY <1>1, <1>2, <1>3, <1>4, <1>5, <1>6, <1>7 DEF ReapStep

LEMMA TypeServerCrash ==
  ASSUME TypeOK, ServerCrash PROVE TypeOK'
<1>1. PollsTyped'
  BY DEF ServerCrash, PollsTyped, PollPc, RunnerStatus
<1>2. FinsTyped'
  BY DEF ServerCrash, FinsTyped, FinPc
<1>3. OpsTyped' /\ ReapTyped'
  BY DEF ServerCrash, OpsTyped, ReapTyped
<1>4. AgentsTyped'
  BY AfterPollTyped DEF TypeOK, ServerCrash, AgentsTyped
<1> QED
  BY <1>1, <1>2, <1>3, <1>4, Frame DEF TypeOK, ServerCrash

LEMMA TypeNext ==
  ASSUME TypeOK, [Next]_vars PROVE TypeOK'
<1>1. CASE UNCHANGED vars
  BY <1>1, Frame DEF TypeOK, vars
<1>2. CASE Next
  BY <1>2, TypePoll, TypeAgent, TypeIngest, TypeIngestStart, TypeOperator,
     TypeReap, TypeServerCrash DEF Next
<1> QED
  BY <1>1, <1>2

\* The tables, the handlers and the agents keep their types, and a handler at
\* work knows its runner, however many runs and runners there are.
THEOREM TypeCorrect == Spec => []TypeOK
<1>1. Init => TypeOK
  BY TypeInit
<1>2. TypeOK /\ [Next]_vars => TypeOK'
  BY TypeNext
<1> QED
  BY <1>1, <1>2, PTL DEF Spec

-----------------------------------------------------------------------------
(* What one step does to one run: its status, its run-end rows, and the     *)
(* handlers that still owe it one.                                          *)

Owed(r) == (IF kpc[r] = "idle" THEN 0 ELSE 1) + (IF fwon[r] THEN 1 ELSE 0)

SameReport(r) == (r \in unreported') = (r \in unreported)

Same(r) == status'[r] = status[r] /\ ends'[r] = ends[r] /\ SameReport(r)

Kept(r)      == Same(r) /\ Owed(r)' = Owed(r)
Claimed(r)   == /\ status[r] = "queued" /\ status'[r] = "running"
                /\ ends'[r] = ends[r] /\ Owed(r)' = Owed(r) /\ SameReport(r)
                /\ owner'[r] \in Agents
EndedOwed(r) == /\ status[r] \in {"queued", "running"} /\ status'[r] \in Terminal
                /\ ends'[r] = ends[r] /\ Owed(r)' = Owed(r) + 1 /\ SameReport(r)
EndedRow(r)  == /\ status[r] = "running" /\ status'[r] \in Terminal
                /\ ends'[r] = ends[r] + 1 /\ Owed(r)' = Owed(r) /\ SameReport(r)
Paid(r)      == /\ status'[r] = status[r] /\ ends'[r] = ends[r] + 1
                /\ Owed(r) = Owed(r)' + 1 /\ SameReport(r)

\* A request broken off, with the row it owed or with that of a run it had just
\* closed.
Missed(r)      == /\ status'[r] = status[r] /\ ends'[r] = ends[r]
                  /\ Owed(r) = Owed(r)' + 1 /\ r \in unreported'
EndedMissed(r) == /\ status[r] = "running" /\ status'[r] \in Terminal
                  /\ ends'[r] = ends[r] /\ Owed(r)' = Owed(r) /\ r \in unreported'

Forgotten(r) == "serverCrash" \in faults /\ Same(r) /\ Owed(r)' = 0
Failed(r)    == /\ "dbError" \in faults
                /\ \/ status'[r] = status[r]
                   \/ status[r] = "running" /\ status'[r] \in Terminal

RunStep(r) ==
  \/ Kept(r) \/ Claimed(r) \/ EndedOwed(r) \/ EndedRow(r) \/ Paid(r)
  \/ Missed(r) \/ EndedMissed(r) \/ Forgotten(r) \/ Failed(r)

IsOver(r) == IF status[r] \in Terminal THEN 1 ELSE 0

\* Nobody records an end twice, even when a server death makes handlers forget.
NeverTwice ==
  "dbError" \notin faults => \A r \in Runs : ends[r] + Owed(r) <= IsOver(r)

\* Only a finalizeRun past its terminal write owes a row for the write.
WonWrote == \A r \in Runs : fwon[r] => fpc[r] \notin {"idle", "write"}

\* Only the steps of an upload, and a server death, touch the uploads.
LEMMA FinSteps ==
  ASSUME [Next]_vars
  PROVE  \/ \E r \in Runs : IngestStep(r)
         \/ \E a \in Agents : IngestStart(a)
         \/ ServerCrash
         \/ UNCHANGED finVars
<1>1. ASSUME NEW a \in Agents, PollStep(a) PROVE UNCHANGED finVars
  BY <1>1 DEF PollStep, PollArrive, PollCloseRun, PollClosed, PollControl,
     PollReadmit, PollLoop, PollClaim, PollAgain, PollTimeout, PollNothing,
     PollLoad, PollDeliver, PollLost, PollAbort
<1>2. ASSUME NEW a \in Agents,
             \/ AgentStep(a) \/ DrainRead(a) \/ DrainStep(a) \/ TimeStep(a)
             \/ Deregister(a)
      PROVE  UNCHANGED finVars
  BY <1>2 DEF AgentStep, Finish, Leave, Crash, Restart, StopSignal, PollRejected,
     DrainRead, DrainStep, DrainMark, DrainOff, DrainCut, TimeStep, DeadlinePasses, GoStale,
     HoldPasses, Deregister
<1>3. ASSUME NEW r \in Runs, KillJob(r) \/ KillStep(r) PROVE UNCHANGED finVars
  BY <1>3 DEF KillJob, KillStep, KillQueue, KillEmit, KillCut
<1>4. ASSUME ReapStep \/ ReapOld PROVE UNCHANGED finVars
  BY <1>4 DEF ReapStep, ReapSweep, ReapPick, ReapClose, ReapOffline,
     ReapDeregister, ReapOld
<1> QED
  BY <1>1, <1>2, <1>3, <1>4 DEF Next, vars

LEMMA WonWroteStep ==
  ASSUME TypeOK, WonWrote, [Next]_vars PROVE WonWrote'
<1> USE DEF WonWrote, TypeOK, FinsTyped
<1>1. ASSUME NEW r \in Runs, IngestStep(r) PROVE WonWrote'
  BY <1>1 DEF IngestStep, IngestWrite, IngestLoad, IngestDrain, IngestOff,
     IngestForce, IngestForced, IngestEmit, IngestCut
<1>2. ASSUME NEW a \in Agents, IngestStart(a) PROVE WonWrote'
  BY <1>2 DEF IngestStart
<1>3. CASE UNCHANGED finVars
  BY <1>3 DEF finVars
<1>4. CASE ServerCrash
  BY <1>4 DEF ServerCrash
<1> QED
  BY <1>1, <1>2, <1>3, <1>4, FinSteps

\* A close writes the status and the row together, or neither.
LEMMA CloseRow ==
  ASSUME TypeOK, NEW r \in Runs, CloseLost(r), UNCHANGED <<kpc, fwon, unreported>>,
         NEW x \in Runs
  PROVE  Kept(x) \/ EndedRow(x)
<1>1. CASE status[r] = "running" /\ x = r
  BY <1>1 DEF CloseLost, EndedRow, Owed, SameReport, Terminal, TypeOK, RunsTyped
<1>2. CASE ~(status[r] = "running" /\ x = r)
  BY <1>2 DEF CloseLost, Kept, Same, SameReport, Owed, TypeOK, RunsTyped
<1> QED
  BY <1>1, <1>2

\* A failed statement may end a run that is running, and nothing else.
LEMMA FailRow ==
  ASSUME TypeOK, "dbError" \in faults, NEW r \in Runs, CloseFails(r), NEW x \in Runs
  PROVE  Failed(x)
  BY DEF CloseFails, Failed, Terminal, TypeOK, RunsTyped

\* A request broken off may have ended one run more.
LEMMA BreakRow ==
  ASSUME TypeOK, NEW todo, NEW owed, BreakOff(todo, owed), todo \subseteq Runs,
         ends' = ends, NEW x \in Runs, x \notin owed, Owed(x)' = Owed(x)
  PROVE  Kept(x) \/ EndedMissed(x)
<1>1. CASE UNCHANGED status /\ unreported' = unreported \union owed
  BY <1>1 DEF Kept, Same, SameReport
<1>2. ASSUME NEW r \in todo, status[r] = "running",
             status' = [status EXCEPT ![r] = "failure"],
             unreported' = unreported \union owed \union {r}
      PROVE  Kept(x) \/ EndedMissed(x)
  <2>1. CASE x = r
    BY <1>2, <2>1 DEF EndedMissed, Terminal, TypeOK, RunsTyped
  <2>2. CASE x # r
    BY <1>2, <2>2 DEF Kept, Same, SameReport, TypeOK, RunsTyped
  <2> QED
    BY <2>1, <2>2
<1> QED
  BY <1>1, <1>2 DEF BreakOff

\* Every step does to every run one of the nine things above.
LEMMA RunSteps ==
  ASSUME TypeOK, WonWrote, NeverTwice, [Next]_vars, NEW x \in Runs PROVE RunStep(x)
<1> USE LifecycleAssumption
<1>1. CASE UNCHANGED <<status, ends, kpc, fwon, unreported>>
  BY <1>1 DEF RunStep, Kept, Same, SameReport, Owed
<1>2. ASSUME NEW a \in Agents, PollStep(a) PROVE RunStep(x)
  <2>1. CASE PollCloseRun(a)
    <3>1. PICK r \in ptodo[a] : CloseLost(r)
      BY <2>1 DEF PollCloseRun
    <3>2. r \in Runs
      BY DEF TypeOK, PollsTyped
    <3> QED
      BY <2>1, <3>1, <3>2, CloseRow DEF PollCloseRun, finVars, opVars, RunStep
  <2>2. CASE PollClaim(a)
    <3>1. PICK r \in Claimable(a) : /\ status' = [status EXCEPT ![r] = "running"]
                                   /\ owner' = [owner EXCEPT ![r] = a]
      BY <2>2 DEF PollClaim
    <3>2. status[r] = "queued" /\ r \in Runs
      BY DEF Claimable
    <3> QED
      BY <2>2, <3>1, <3>2 DEF PollClaim, finVars, opVars, RunStep, Claimed, Kept,
         Same, SameReport, Owed, TypeOK, RunsTyped
  <2>4. CASE PollAbort(a)
    <3>1. ptodo[a] \subseteq Runs
      BY DEF TypeOK, PollsTyped
    <3>2. Owed(x)' = Owed(x) /\ ends' = ends
      BY <2>4 DEF PollAbort, finVars, opVars, Owed
    <3> QED
      BY <2>4, <3>1, <3>2, BreakRow DEF PollAbort, RunStep
  <2>3. CASE ~PollCloseRun(a) /\ ~PollClaim(a) /\ ~PollAbort(a)
    <3>1. UNCHANGED <<status, ends, kpc, fwon, unreported>>
      BY <1>2, <2>3 DEF PollStep, PollArrive, PollClosed, PollControl,
         PollReadmit, PollLoop, PollAgain, PollTimeout, PollNothing, PollLoad,
         PollDeliver, PollLost, runVars, finVars, opVars
    <3> QED
      BY <1>1, <3>1
  <2> QED
    BY <2>1, <2>2, <2>3, <2>4
<1>3. ASSUME NEW a \in Agents,
             \/ AgentStep(a) \/ IngestStart(a) \/ DrainRead(a) \/ DrainStep(a)
             \/ TimeStep(a)
      PROVE  UNCHANGED <<status, ends, kpc, fwon, unreported>>
  BY <1>3 DEF AgentStep, Finish, Leave, Crash, Restart, StopSignal, PollRejected,
     IngestStart, DrainRead, DrainStep, DrainMark, DrainOff, DrainCut, TimeStep,
     DeadlinePasses, GoStale, HoldPasses, runVars, finVars, opVars
<1>4. ASSUME NEW r \in Runs, IngestStep(r) PROVE RunStep(x)
  <2>1. CASE IngestWrite(r)
    <3>1. ~fwon[r] /\ Outcomes \subseteq Terminal
      BY <2>1 DEF IngestWrite, WonWrote, Terminal
    <3>2. kpc' = kpc /\ ends' = ends /\ unreported' = unreported
      BY <2>1 DEF IngestWrite, opVars
    <3>3. CASE x # r
      <4>1. status'[x] = status[x] /\ fwon'[x] = fwon[x]
        BY <2>1, <3>3 DEF IngestWrite, TypeOK, RunsTyped, FinsTyped
      <4> QED
        BY <3>2, <4>1 DEF RunStep, Kept, Same, SameReport, Owed
    <3>4. CASE x = r
      <4>1. \/ /\ status[r] = "running" /\ status'[r] \in Terminal /\ fwon'[r]
            \/ /\ status' = status /\ fwon' = fwon
            \/ /\ "dbError" \in faults /\ status' = status /\ fwon'[r]
        BY <2>1, <3>1 DEF IngestWrite, TypeOK, RunsTyped, FinsTyped
      <4> QED
        BY <3>1, <3>2, <3>4, <4>1
        DEF RunStep, Kept, EndedOwed, Failed, Same, SameReport, Owed
    <3> QED
      BY <3>3, <3>4
  <2>2. CASE IngestForce(r)
    <3>1. PICK y \in ftodo[r] : CloseLost(y) \/ ("dbError" \in faults /\ CloseFails(y))
      BY <2>2 DEF IngestForce
    <3>2. y \in Runs
      BY DEF TypeOK, FinsTyped
    <3> QED
      BY <2>2, <3>1, <3>2, CloseRow, FailRow DEF IngestForce, opVars, RunStep
  <2>3. CASE IngestEmit(r)
    <3>1. kpc' = kpc /\ status' = status /\ unreported' = unreported
      BY <2>3 DEF IngestEmit, opVars
    <3>4. CASE "dbError" \in faults
      BY <3>1, <3>4 DEF RunStep, Failed
    <3>2. CASE "dbError" \notin faults /\ (x # r \/ ~fwon[r])
      <4>1. ends'[x] = ends[x] /\ fwon'[x] = fwon[x]
        BY <2>3, <3>2 DEF IngestEmit, TypeOK, RunsTyped, FinsTyped
      <4> QED
        BY <3>1, <4>1 DEF RunStep, Kept, Same, SameReport, Owed
    <3>3. CASE "dbError" \notin faults /\ x = r /\ fwon[r]
      <4>1. ends'[x] = ends[x] + 1 /\ ~fwon'[x]
        BY <2>3, <3>3 DEF IngestEmit, TypeOK, RunsTyped, FinsTyped
      <4> QED
        BY <3>1, <3>3, <4>1 DEF RunStep, Paid, SameReport, Owed
    <3> QED
      BY <3>2, <3>3, <3>4
  <2>4. CASE IngestLoad(r) \/ IngestDrain(r) \/ IngestOff(r) \/ IngestForced(r)
    <3>1. UNCHANGED <<status, ends, kpc, fwon, unreported>>
      BY <2>4 DEF IngestLoad, IngestDrain, IngestOff, IngestForced, runVars, opVars
    <3> QED
      BY <1>1, <3>1
  <2>5. CASE IngestCut(r)
    <3>1. kpc' = kpc /\ ends' = ends /\ ftodo[r] \subseteq Runs
      BY <2>5 DEF IngestCut, opVars, TypeOK, FinsTyped
    <3>2. CASE x # r \/ ~fwon[r]
      <4>1. Owed(x)' = Owed(x)
        BY <2>5, <3>1, <3>2 DEF IngestCut, Owed, TypeOK, FinsTyped
      <4> QED
        BY <2>5, <3>1, <3>2, <4>1, BreakRow DEF IngestCut, RunStep
    <3>3. CASE x = r /\ fwon[r]
      <4>1. Owed(r) = Owed(r)' + 1 /\ r \in unreported'
        BY <2>5, <3>1, <3>3 DEF IngestCut, BreakOff, Owed, TypeOK, FinsTyped
      <4>2. CASE status'[r] = status[r]
        BY <3>1, <3>3, <4>1, <4>2 DEF RunStep, Missed
      <4>3. CASE status'[r] # status[r]
        <5>1. status[r] = "running" /\ status'[r] \in Terminal
          BY <2>5, <3>1, <4>3 DEF IngestCut, BreakOff, Terminal, TypeOK, RunsTyped
        <5>2. "dbError" \in faults
          BY <3>3, <5>1 DEF NeverTwice, IsOver, Owed, Terminal, TypeOK, RunsTyped
        <5> QED
          BY <3>3, <5>1, <5>2 DEF RunStep, Failed
      <4> QED
        BY <4>2, <4>3
    <3> QED
      BY <3>2, <3>3
  <2> QED
    BY <1>4, <2>1, <2>2, <2>3, <2>4, <2>5 DEF IngestStep
<1>5. ASSUME NEW r \in Runs, KillJob(r) \/ KillStep(r) PROVE RunStep(x)
  <2>1. fwon' = fwon
    BY <1>5 DEF KillJob, KillStep, KillQueue, KillEmit, KillCut, finVars
  <2>2. CASE KillJob(r)
    <3>1. kpc[r] = "idle" /\ kpc'[r] = "queue" /\ ends' = ends
      BY <2>2 DEF KillJob, TypeOK, OpsTyped
    <3>4. unreported' = unreported
      BY <2>2 DEF KillJob
    <3>2. status[r] \in {"queued", "running"} /\ status'[r] \in Terminal
      BY <2>2 DEF KillJob, TypeOK, RunsTyped, Terminal
    <3>3. x # r => status'[x] = status[x] /\ kpc'[x] = kpc[x]
      BY <2>2 DEF KillJob, TypeOK, RunsTyped, OpsTyped
    <3> QED
      BY <2>1, <3>1, <3>2, <3>3, <3>4 DEF RunStep, Kept, EndedOwed, Same, SameReport, Owed
  <2>3. CASE KillQueue(r)
    <3>1. status' = status /\ ends' = ends /\ unreported' = unreported
      BY <2>3 DEF KillQueue
    <3>2. (kpc'[x] = "idle") <=> (kpc[x] = "idle")
      BY <2>3 DEF KillQueue, TypeOK, OpsTyped
    <3> QED
      BY <2>1, <3>1, <3>2 DEF RunStep, Kept, Same, SameReport, Owed
  <2>4. CASE KillEmit(r)
    <3>1. status' = status /\ unreported' = unreported
      BY <2>4 DEF KillEmit
    <3>2. CASE "dbError" \in faults
      BY <3>1, <3>2 DEF RunStep, Failed
    <3>3. CASE "dbError" \notin faults
      <4>1. kpc[r] # "idle" /\ kpc'[r] = "idle" /\ ends'[r] = ends[r] + 1
        BY <2>4, <3>3 DEF KillEmit, TypeOK, OpsTyped, RunsTyped
      <4>2. x # r => ends'[x] = ends[x] /\ kpc'[x] = kpc[x]
        BY <2>4, <3>3 DEF KillEmit, TypeOK, RunsTyped, OpsTyped
      <4> QED
        BY <2>1, <3>1, <4>1, <4>2 DEF RunStep, Kept, Paid, Same, SameReport, Owed
    <3> QED
      BY <3>2, <3>3
  <2>5. CASE KillCut(r)
    <3>1. status' = status /\ ends' = ends /\ unreported' = unreported \union {r}
      BY <2>5 DEF KillCut
    <3>2. kpc[r] # "idle" /\ kpc'[r] = "idle"
      BY <2>5 DEF KillCut, TypeOK, OpsTyped
    <3>3. x # r => kpc'[x] = kpc[x]
      BY <2>5 DEF KillCut, TypeOK, OpsTyped
    <3> QED
      BY <2>1, <3>1, <3>2, <3>3 DEF RunStep, Kept, Missed, Same, SameReport, Owed
  <2> QED
    BY <1>5, <2>2, <2>3, <2>4, <2>5 DEF KillStep
<1>6. CASE ReapStep \/ ReapOld
  <2>1. CASE ReapClose
    <3>1. PICK r \in rtodo : CloseLost(r)
      BY <2>1 DEF ReapClose
    <3>2. r \in Runs
      BY DEF TypeOK, ReapTyped
    <3> QED
      BY <2>1, <3>1, <3>2, CloseRow DEF ReapClose, finVars, opVars, RunStep
  <2>2. CASE ~ReapClose
    <3>1. UNCHANGED <<status, ends, kpc, fwon, unreported>>
      BY <1>6, <2>2 DEF ReapStep, ReapOld, ReapSweep, ReapPick, ReapOffline,
         ReapDeregister, runVars, finVars, opVars
    <3> QED
      BY <1>1, <3>1
  <2> QED
    BY <2>1, <2>2
<1>7. ASSUME NEW a \in Agents, Deregister(a) PROVE RunStep(x)
  <2>1. kpc' = kpc /\ fwon' = fwon /\ unreported' = unreported
    BY <1>7 DEF Deregister, opVars, finVars
  <2>2. CASE x \in RunningOf(a)
    <3>1. status[x] = "running" /\ status'[x] = "failure" /\ ends'[x] = ends[x] + 1
      BY <1>7, <2>2 DEF Deregister, RunningOf, Running
    <3> QED
      BY <2>1, <3>1 DEF RunStep, EndedRow, SameReport, Owed, Terminal
  <2>3. CASE x \notin RunningOf(a)
    <3>1. status'[x] = status[x] /\ ends'[x] = ends[x]
      BY <1>7, <2>3 DEF Deregister
    <3> QED
      BY <2>1, <3>1 DEF RunStep, Kept, Same, SameReport, Owed
  <2> QED
    BY <2>2, <2>3
<1>8. CASE ServerCrash
  BY <1>8 DEF ServerCrash, RunStep, Forgotten, Same, SameReport, Owed, runVars
<1>9. CASE UNCHANGED vars
  BY <1>1, <1>9 DEF vars, runVars, finVars, opVars
<1> QED
  BY <1>1, <1>2, <1>3, <1>4, <1>5, <1>6, <1>7, <1>8, <1>9 DEF Next

-----------------------------------------------------------------------------
(* The end of a run is final and recorded once                              *)

\* What EndReported counts as an end to record, and what a broken-off request
\* leaves out.
Due(r)  == IF status[r] \in Terminal /\ r \notin unreported THEN 1 ELSE 0
LeftOut == "dbError" \notin faults => \A r \in Runs \intersect unreported : status[r] \in Terminal

EndInv == TypeOK /\ WonWrote /\ EndReported /\ NeverTwice /\ LeftOut

LEMMA EndInit ==
  ASSUME Init PROVE EndInv
<1>1. \A r \in Runs : status[r] = "queued" /\ ends[r] = 0 /\ Owed(r) = 0
  BY DEF Init, Owed
<1>2. \A r \in Runs : status[r] \notin Terminal
  BY <1>1 DEF Terminal
<1>3. EndReported /\ NeverTwice /\ LeftOut
  BY <1>1, <1>2 DEF Init, EndReported, NeverTwice, LeftOut, IsOver, Owed
<1> QED
  BY <1>3, TypeInit DEF EndInv, WonWrote, Init

LEMMA FaultsFixed ==
  ASSUME [Next]_vars PROVE faults' = faults
<1>1. ASSUME NEW a \in Agents, PollStep(a) PROVE faults' = faults
  BY <1>1 DEF PollStep, PollArrive, PollCloseRun, PollClosed, PollControl,
     PollReadmit, PollLoop, PollClaim, PollAgain, PollTimeout, PollNothing,
     PollLoad, PollDeliver, PollLost, PollAbort
<1>2. ASSUME NEW a \in Agents,
             \/ AgentStep(a) \/ IngestStart(a) \/ DrainRead(a) \/ DrainStep(a)
             \/ TimeStep(a) \/ Deregister(a)
      PROVE  faults' = faults
  BY <1>2 DEF AgentStep, Finish, Leave, Crash, Restart, StopSignal, PollRejected,
     IngestStart, DrainRead, DrainStep, DrainMark, DrainOff, DrainCut, TimeStep,
     DeadlinePasses, GoStale, HoldPasses, Deregister
<1>3. ASSUME NEW r \in Runs, IngestStep(r) \/ KillJob(r) \/ KillStep(r)
      PROVE  faults' = faults
  BY <1>3 DEF IngestStep, IngestWrite, IngestLoad, IngestDrain, IngestOff,
     IngestForce, IngestForced, IngestEmit, IngestCut, KillJob, KillStep, KillQueue, KillEmit, KillCut
<1>4. CASE ReapStep \/ ReapOld \/ ServerCrash
  BY <1>4 DEF ReapStep, ReapSweep, ReapPick, ReapClose, ReapOffline,
     ReapDeregister, ReapOld, ServerCrash
<1> QED
  BY <1>1, <1>2, <1>3, <1>4 DEF Next, vars

LEMMA EndStep ==
  ASSUME EndInv, [Next]_vars PROVE EndInv'
<1> USE DEF EndInv
<1>1. TypeOK' /\ WonWrote' /\ faults' = faults
  BY TypeNext, WonWroteStep, FaultsFixed
<1>2. \A r \in Runs : ends[r] \in Nat /\ Owed(r) \in Nat /\ Owed(r)' \in Nat
  BY DEF TypeOK, RunsTyped, Owed
<1>3. \A r \in Runs : RunStep(r)
  BY RunSteps
<1>4. NeverTwice'
  <2> SUFFICES ASSUME "dbError" \notin faults, NEW r \in Runs
               PROVE  ends'[r] + Owed(r)' <= IsOver(r)'
    BY <1>1 DEF NeverTwice
  <2>1. ends[r] + Owed(r) <= IsOver(r)
    BY DEF NeverTwice
  <2>2. RunStep(r) /\ ~Failed(r)
    BY <1>3 DEF Failed
  <2>3. CASE status'[r] = status[r]
    <3>1. IsOver(r)' = IsOver(r) /\ IsOver(r) \in {0, 1}
      BY <2>3 DEF IsOver
    <3>2. CASE Kept(r) \/ Paid(r) \/ Missed(r) \/ Forgotten(r)
      BY <1>2, <2>1, <3>1, <3>2 DEF Kept, Paid, Missed, Forgotten, Same
    <3>3. CASE ~(Kept(r) \/ Paid(r) \/ Missed(r) \/ Forgotten(r))
      BY <2>2, <2>3, <3>3 DEF RunStep, Claimed, EndedOwed, EndedRow, EndedMissed, Terminal
    <3> QED
      BY <3>2, <3>3
  <2>4. CASE status'[r] # status[r]
    <3>1. Claimed(r) \/ EndedOwed(r) \/ EndedRow(r) \/ EndedMissed(r)
      BY <2>2, <2>4 DEF RunStep, Kept, Paid, Missed, Forgotten, Same
    <3>2. IsOver(r) = 0 /\ (Claimed(r) \/ IsOver(r)' = 1)
      BY <3>1 DEF Claimed, EndedOwed, EndedRow, EndedMissed, IsOver, Terminal
    <3>3. IsOver(r)' \in {0, 1}
      BY DEF IsOver
    <3> QED
      BY <1>2, <2>1, <3>1, <3>2, <3>3 DEF Claimed, EndedOwed, EndedRow, EndedMissed
  <2> QED
    BY <2>3, <2>4
<1>5. LeftOut'
  <2> SUFFICES ASSUME "dbError" \notin faults, NEW r \in Runs, r \in unreported'
               PROVE  status'[r] \in Terminal
    BY <1>1 DEF LeftOut
  <2>1. RunStep(r) /\ ~Failed(r)
    BY <1>3 DEF Failed
  <2>2. CASE r \in unreported
    <3>1. status[r] \in Terminal
      BY <2>2 DEF LeftOut
    <3> QED
      BY <2>1, <3>1 DEF RunStep, Kept, Claimed, EndedOwed, EndedRow, Paid, Missed,
         EndedMissed, Forgotten, Same, Terminal
  <2>3. CASE r \notin unreported
    <3>1. Missed(r) \/ EndedMissed(r)
      BY <2>1, <2>3 DEF RunStep, Kept, Claimed, EndedOwed, EndedRow, Paid, Forgotten,
         Same, SameReport
    <3>2. CASE Missed(r)
      <4>1. Owed(r) > 0
        BY <1>2, <3>2 DEF Missed
      <4>2. IsOver(r) # 0
        BY <1>2, <4>1 DEF NeverTwice
      <4> QED
        BY <3>2, <4>2 DEF Missed, IsOver
    <3> QED
      BY <3>1, <3>2 DEF EndedMissed
  <2> QED
    BY <2>2, <2>3
<1>6. EndReported'
  <2> SUFFICES ASSUME faults \intersect {"dbError", "serverCrash"} = {}, NEW r \in Runs
               PROVE  ends'[r] + Owed(r)' = Due(r)'
    BY <1>1 DEF EndReported, Owed, Due
  <2>1. ends[r] + Owed(r) = Due(r)
    BY DEF EndReported, Owed, Due
  <2>2. r \in unreported => status[r] \in Terminal
    BY DEF LeftOut
  <2>3. RunStep(r) /\ ~Failed(r) /\ ~Forgotten(r)
    BY <1>3 DEF Failed, Forgotten
  <2>4. CASE Kept(r) \/ Paid(r)
    <3>1. Due(r)' = Due(r) /\ Due(r) \in {0, 1}
      BY <2>4 DEF Kept, Paid, Same, SameReport, Due
    <3> QED
      BY <1>2, <2>1, <2>4, <3>1 DEF Kept, Paid, Same
  <2>5. CASE Claimed(r)
    <3>1. Due(r)' = 0 /\ Due(r) = 0
      BY <2>5 DEF Claimed, Due, Terminal
    <3> QED
      BY <1>2, <2>1, <2>5, <3>1 DEF Claimed
  <2>6. CASE EndedOwed(r) \/ EndedRow(r)
    <3>1. status[r] \notin Terminal /\ r \notin unreported'
      BY <2>2, <2>6 DEF EndedOwed, EndedRow, SameReport, Terminal
    <3>2. Due(r)' = 1 /\ Due(r) = 0
      BY <2>6, <3>1 DEF EndedOwed, EndedRow, Due
    <3> QED
      BY <1>2, <2>1, <2>6, <3>2 DEF EndedOwed, EndedRow
  <2>7. CASE Missed(r)
    <3>1. Due(r)' = 0 /\ Due(r) \in {0, 1}
      BY <2>7 DEF Missed, Due
    <3> QED
      BY <1>2, <2>1, <2>7, <3>1 DEF Missed
  <2>8. CASE EndedMissed(r)
    <3>1. Due(r)' = 0 /\ Due(r) = 0
      BY <2>8 DEF EndedMissed, Due, Terminal
    <3> QED
      BY <1>2, <2>1, <2>8, <3>1 DEF EndedMissed
  <2> QED
    BY <2>3, <2>4, <2>5, <2>6, <2>7, <2>8 DEF RunStep
<1> QED
  BY <1>1, <1>4, <1>5, <1>6

LEMMA EndAlways == Spec => []EndInv
<1>1. Init => EndInv
  BY EndInit
<1>2. EndInv /\ [Next]_vars => EndInv'
  BY EndStep
<1> QED
  BY <1>1, <1>2, PTL DEF Spec

\* A run that has ended has its run-end row, or one handler owes it, unless a
\* statement failed, the server died, or the request that was to write the row was
\* broken off: by the agent's death, or by a connection that ended.
THEOREM EndIsReported == Spec => []EndReported
<1>1. EndInv => EndReported
  BY DEF EndInv
<1> QED
  BY <1>1, EndAlways, PTL

\* No handler rewrites the status of a run that has ended.
THEOREM TerminalStays == Spec => TerminalIsFinal
<1>1. ASSUME EndInv, [Next]_vars, NEW r \in Runs, status[r] \in Terminal
      PROVE  status'[r] = status[r]
  BY <1>1, RunSteps DEF EndInv, RunStep, Kept, Claimed, EndedOwed, EndedRow, Paid,
     Missed, EndedMissed, Forgotten, Failed, Same, Terminal
<1>2. EndInv /\ [Next]_vars =>
        [\A r \in Runs : status[r] \in Terminal => status'[r] = status[r]]_vars
  BY <1>1
<1> QED
  BY <1>2, EndAlways, PTL DEF Spec, TerminalIsFinal

\* Whoever ends a run, and whatever fails, its life is the contract's: queued,
\* perhaps running, terminal for good, its end recorded at most once and never
\* before it has ended.
THEOREM RunsKeepContract == Spec => ImplementsContract
<1> USE LifecycleAssumption
<1>1. Init => Contract!Init
  BY DEF Init, Contract!Init, Reported
<1>2. ASSUME EndInv, EndInv', [Next]_vars
      PROVE  [Contract!Next]_(Contract!contractVars)
  <2>1. faults' = faults
    BY <1>2, FaultsFixed
  <2>2. status' \in [Runs -> {"queued", "running"} \union Terminal]
    BY <1>2 DEF EndInv, TypeOK, RunsTyped, RunStatus
  <2>3. ASSUME "dbError" \notin faults, NEW r \in Runs
        PROVE  /\ ends[r] \in {0, 1} /\ ends'[r] \in {0, 1}
               /\ Reported[r] = ends[r] /\ Reported'[r] = ends'[r]
    <3>1. ends[r] + Owed(r) <= IsOver(r) /\ ends'[r] + Owed(r)' <= IsOver(r)'
      BY <1>2, <2>1, <2>3 DEF EndInv, NeverTwice
    <3>2. ends[r] \in Nat /\ ends'[r] \in Nat
      BY <1>2, <2>3 DEF EndInv, TypeOK, RunsTyped
    <3>3. /\ Owed(r) \in Nat /\ Owed(r)' \in Nat
          /\ IsOver(r) \in {0, 1} /\ IsOver(r)' \in {0, 1}
      BY DEF Owed, IsOver
    <3>4. ends[r] \in {0, 1} /\ ends'[r] \in {0, 1}
      BY <3>1, <3>2, <3>3
    <3> QED
      BY <2>1, <2>3, <3>4 DEF Reported
  <2>4. Reported' \in [Runs -> {0, 1}]
    BY <2>1, <2>3 DEF Reported
  <2>5. ASSUME NEW r \in Runs PROVE Contract!Moves(r)
    <3>1. RunStep(r)
      BY <1>2, RunSteps DEF EndInv
    <3>2. CASE "dbError" \in faults
      <4>1. Reported'[r] = Reported[r]
        BY <2>1, <3>2 DEF Reported
      <4>2. \/ status'[r] = status[r]
            \/ status[r] = "queued" /\ status'[r] = "running"
            \/ status[r] \in {"queued", "running"} /\ status'[r] \in Terminal
        BY <3>1 DEF RunStep, Kept, Claimed, EndedOwed, EndedRow, Paid, Missed,
           EndedMissed, Forgotten, Failed, Same
      <4> QED
        BY <4>1, <4>2
        DEF Contract!Moves, Contract!Claims, Contract!Ends, Contract!Stays
    <3>3. CASE "dbError" \notin faults
      <4>1. /\ ends[r] \in {0, 1} /\ ends'[r] \in {0, 1}
            /\ Reported[r] = ends[r] /\ Reported'[r] = ends'[r]
        BY <2>3, <3>3
      <4>2. ~Failed(r)
        BY <3>3 DEF Failed
      <4>3. CASE Kept(r) \/ Missed(r) \/ Forgotten(r)
        BY <4>1, <4>3 DEF Kept, Missed, Forgotten, Same, Contract!Moves, Contract!Stays
      <4>4. CASE Claimed(r)
        BY <4>1, <4>4 DEF Claimed, Contract!Moves, Contract!Claims
      <4>5. CASE EndedOwed(r) \/ EndedMissed(r)
        BY <4>1, <4>5 DEF EndedOwed, EndedMissed, Contract!Moves, Contract!Ends
      <4>6. CASE EndedRow(r)
        BY <4>1, <4>6 DEF EndedRow, Contract!Moves, Contract!EndsReported
      <4>7. CASE Paid(r)
        <5>1. ends'[r] + Owed(r)' <= IsOver(r)' /\ Owed(r)' \in Nat
          BY <1>2, <2>1, <3>3 DEF EndInv, NeverTwice, Owed
        <5>2. status'[r] \in Terminal
          BY <4>1, <4>7, <5>1 DEF Paid, IsOver
        <5> QED
          BY <4>1, <4>7, <5>2 DEF Paid, Contract!Moves, Contract!Reports
      <4> QED
        BY <3>1, <4>2, <4>3, <4>4, <4>5, <4>6, <4>7 DEF RunStep
    <3> QED
      BY <3>2, <3>3
  <2> QED
    BY <2>2, <2>4, <2>5 DEF Contract!Next
<1> QED
  BY <1>1, <1>2, EndAlways, PTL DEF Spec, ImplementsContract, Contract!Spec

-----------------------------------------------------------------------------
(* The claim                                                                *)

\* A run waiting in the queue belongs to no runner.
QueuedIsFree == \A r \in Runs : status[r] = "queued" => owner[r] = None

\* One poll's claim, and the deletion of the owner's row: by an operator, which
\* ends the run first, or by the reaper.
Taken(r, a) ==
  /\ status[r] = "queued" /\ owner'[r] = a /\ status'[r] # "queued"
  /\ ppc[a] = "claim" /\ prun'[a] = r /\ rstat[a] # "gone"

Dropped(r) ==
  /\ owner[r] \in Agents /\ owner'[r] = None
  /\ rstat'[owner[r]] = "gone"
  /\ \/ status'[r] # "running"
     \/ rpc = "old" /\ owner[r] \in rlist

LEMMA OwnerSteps ==
  ASSUME TypeOK, [Next]_vars, NEW r \in Runs
  PROVE  owner'[r] = owner[r] \/ Dropped(r) \/ \E a \in Agents : Taken(r, a)
<1>1. ASSUME NEW a \in Agents, PollStep(a)
      PROVE  owner'[r] = owner[r] \/ Taken(r, a)
  <2>1. CASE PollClaim(a)
    <3>1. PICK x \in Runs : /\ status[x] = "queued" /\ rstat[a] # "gone"
                           /\ status' = [status EXCEPT ![x] = "running"]
                           /\ owner' = [owner EXCEPT ![x] = a]
                           /\ prun' = [prun EXCEPT ![a] = x]
      BY <2>1 DEF PollClaim, Claimable
    <3>2. ppc[a] = "claim" /\ prun'[a] = x
      BY <2>1, <3>1 DEF PollClaim, TypeOK, PollsTyped
    <3> QED
      BY <3>1, <3>2 DEF Taken, TypeOK, RunsTyped
  <2>2. CASE ~PollClaim(a)
    BY <1>1, <2>2 DEF PollStep, PollArrive, PollCloseRun, PollClosed, PollControl,
       PollReadmit, PollLoop, PollAgain, PollTimeout, PollNothing, PollLoad,
       PollDeliver, PollLost, PollAbort, runVars
  <2> QED
    BY <2>1, <2>2
<1>2. ASSUME NEW a \in Agents,
             \/ AgentStep(a) \/ IngestStart(a) \/ DrainRead(a) \/ DrainStep(a)
             \/ TimeStep(a)
      PROVE  owner' = owner
  BY <1>2 DEF AgentStep, Finish, Leave, Crash, Restart, StopSignal, PollRejected,
     IngestStart, DrainRead, DrainStep, DrainMark, DrainOff, DrainCut, TimeStep,
     DeadlinePasses, GoStale, HoldPasses, runVars
<1>3. ASSUME NEW x \in Runs, IngestStep(x) \/ KillJob(x) \/ KillStep(x)
      PROVE  owner' = owner
  BY <1>3 DEF IngestStep, IngestWrite, IngestLoad, IngestDrain, IngestOff,
     IngestForce, IngestForced, IngestEmit, IngestCut, KillJob, KillStep, KillQueue, KillEmit, KillCut,
     runVars
<1>4. ASSUME NEW a \in Agents, DropRow(a)
      PROVE  \/ owner'[r] = owner[r]
             \/ owner[r] = a /\ owner'[r] = None /\ rstat'[a] = "gone"
  BY <1>4 DEF DropRow, TypeOK, RunsTyped, RowsTyped
<1>5. CASE ReapDeregister
  BY <1>4, <1>5 DEF ReapDeregister, Dropped, TypeOK, ReapTyped
<1>6. CASE ReapSweep \/ ReapPick \/ ReapClose \/ ReapOffline \/ ReapOld \/ ServerCrash
  BY <1>6 DEF ReapSweep, ReapPick, ReapClose, ReapOffline, ReapOld, ServerCrash,
     runVars
<1>7. ASSUME NEW a \in Agents, Deregister(a)
      PROVE  owner'[r] = owner[r] \/ Dropped(r)
  <2>1. status'[r] = "running" => r \notin RunningOf(a) /\ status[r] = "running"
    BY <1>7 DEF Deregister, TypeOK, RunsTyped
  <2> QED
    BY <1>4, <1>7, <2>1 DEF Deregister, Dropped, RunningOf, Running
<1>8. CASE UNCHANGED vars
  BY <1>8 DEF vars, runVars
<1> QED
  BY <1>1, <1>2, <1>3, <1>5, <1>6, <1>7, <1>8 DEF Next, ReapStep

LEMMA QueuedIsFreeStep ==
  ASSUME EndInv, QueuedIsFree, [Next]_vars PROVE QueuedIsFree'
<1> SUFFICES ASSUME NEW r \in Runs, status'[r] = "queued" PROVE owner'[r] = None
  BY DEF QueuedIsFree
<1>1. status[r] = "queued"
  BY RunSteps DEF EndInv, RunStep, Kept, Claimed, EndedOwed, EndedRow, Paid,
     Missed, EndedMissed, Forgotten, Failed, Same, Terminal
<1>2. owner[r] = None
  BY <1>1 DEF QueuedIsFree
<1> QED
  BY <1>2, OwnerSteps DEF EndInv, Dropped, Taken

\* One claim wins a run, whatever polls race for it, and only the deletion of
\* the winner's row takes it away.
THEOREM OneClaim == Spec => ClaimedOnce
<1>1. Init => QueuedIsFree
  BY DEF Init, QueuedIsFree
<1>2. QueuedIsFree /\ EndInv /\ [Next]_vars => QueuedIsFree'
  BY QueuedIsFreeStep
<1>3. ASSUME EndInv, QueuedIsFree, [Next]_vars, NEW r \in Runs, owner'[r] # owner[r]
      PROVE  \/ owner[r] = None /\ status[r] = "queued"
             \/ owner'[r] = None /\ rstat'[owner[r]] = "gone"
  BY <1>3, OwnerSteps DEF EndInv, QueuedIsFree, Taken, Dropped
<1>4. EndInv /\ QueuedIsFree /\ [Next]_vars =>
        [\A r \in Runs : owner'[r] # owner[r] =>
           \/ owner[r] = None /\ status[r] = "queued"
           \/ owner'[r] = None /\ rstat'[owner[r]] = "gone"]_vars
  BY <1>3
<1> QED
  BY <1>1, <1>2, <1>4, EndAlways, PTL DEF Spec, ClaimedOnce

-----------------------------------------------------------------------------
(* Execution                                                                *)

\* What the agent executes, and the run its poll in the server has taken for it.
Carries(a) == active[a] \union ({prun[a]} \intersect Runs)

CarriesOwn ==
  \A a \in Agents : \A r \in Carries(a) :
    status[r] # "queued" /\ (rstat[a] = "gone" \/ owner[r] = a)

CarriesAlone == \A a, b \in Agents : a # b => Carries(a) \intersect Carries(b) = {}

\* The step gives nobody a run, or gives one agent one that was queued.
Carry(a, r) ==
  /\ status[r] = "queued" /\ status'[r] # "queued" /\ owner'[r] = a
  /\ Carries(a)' \subseteq Carries(a) \union {r}
  /\ \A b \in Agents \ {a} : Carries(b)' \subseteq Carries(b)

NoCarry == \A a \in Agents : Carries(a)' \subseteq Carries(a)

LEMMA CarrySteps ==
  ASSUME TypeOK, [Next]_vars
  PROVE  NoCarry \/ \E a \in Agents, r \in Runs : Carry(a, r)
<1> USE LifecycleAssumption DEF TypeOK
<1>1. ASSUME prun' = prun, active' = active PROVE NoCarry
  BY <1>1 DEF NoCarry, Carries
<1>2. ASSUME NEW a \in Agents, PollOver(a),
             active'[a] \subseteq Carries(a),
             \A b \in Agents \ {a} : active'[b] = active[b]
      PROVE  NoCarry
  <2>1. prun'[a] = None /\ \A b \in Agents \ {a} : prun'[b] = prun[b]
    BY <1>2 DEF PollOver, PollsTyped
  <2>2. Carries(a)' = active'[a]
    BY <2>1 DEF Carries
  <2>3. \A b \in Agents \ {a} : Carries(b)' = Carries(b)
    BY <1>2, <2>1 DEF Carries
  <2> QED
    BY <1>2, <2>2, <2>3 DEF NoCarry
<1>3. ASSUME NEW a \in Agents, PollStep(a)
      PROVE  NoCarry \/ \E r \in Runs : Carry(a, r)
  <2>1. CASE PollClaim(a)
    <3>1. PICK r \in Claimable(a) :
            /\ status' = [status EXCEPT ![r] = "running"]
            /\ owner' = [owner EXCEPT ![r] = a]
            /\ prun' = [prun EXCEPT ![a] = r]
      BY <2>1 DEF PollClaim
    <3>2. r \in Runs /\ status[r] = "queued"
      BY DEF Claimable
    <3>3. status'[r] # "queued" /\ owner'[r] = a
      BY <3>1, <3>2 DEF RunsTyped
    <3>4. active' = active
      BY <2>1 DEF PollClaim, agentVars
    <3>5. prun'[a] = r /\ \A b \in Agents \ {a} : prun'[b] = prun[b]
      BY <3>1 DEF PollsTyped
    <3>6. Carries(a)' \subseteq Carries(a) \union {r}
      BY <3>4, <3>5 DEF Carries
    <3>7. \A b \in Agents \ {a} : Carries(b)' \subseteq Carries(b)
      BY <3>4, <3>5 DEF Carries
    <3> QED
      BY <3>2, <3>3, <3>6, <3>7 DEF Carry
  <2>2. CASE PollDeliver(a)
    <3>1. /\ PollOver(a)
          /\ \A b \in Agents \ {a} : active'[b] = active[b]
      BY <2>2 DEF PollDeliver, AgentsTyped
    <3>2. active'[a] \subseteq active[a] \union (IF prun[a] = None THEN {} ELSE {prun[a]})
      BY <2>2 DEF PollDeliver, AgentsTyped
    <3>3. prun[a] = None \/ prun[a] \in Runs
      BY DEF PollsTyped
    <3>4. active'[a] \subseteq Carries(a)
      BY <3>2, <3>3 DEF Carries
    <3> QED
      BY <1>2, <3>1, <3>4
  <2>3. CASE PollLost(a) \/ PollAbort(a)
    BY <1>2, <2>3 DEF PollLost, PollAbort, agentVars, Carries
  <2>4. CASE ~PollClaim(a) /\ ~PollDeliver(a) /\ ~PollLost(a) /\ ~PollAbort(a)
    <3>1. prun' = prun /\ active' = active
      BY <1>3, <2>4 DEF PollStep, PollArrive, PollCloseRun, PollClosed, PollControl,
         PollReadmit, PollLoop, PollAgain, PollTimeout, PollNothing, PollLoad,
         agentVars
    <3> QED
      BY <1>1, <3>1
  <2> QED
    BY <2>1, <2>2, <2>3, <2>4
<1>4. ASSUME NEW a \in Agents, AgentStep(a) PROVE NoCarry
  <2>1. prun' = prun
    BY <1>4 DEF AgentStep, Finish, Leave, Crash, Restart, StopSignal, PollRejected,
       pollVars
  <2>2. \A b \in Agents : active'[b] \subseteq active[b]
    BY <1>4 DEF AgentStep, Finish, Leave, Crash, Restart, StopSignal, PollRejected,
       ProcessGone, AgentsTyped
  <2> QED
    BY <2>1, <2>2 DEF NoCarry, Carries
<1>5. ASSUME NEW a \in Agents,
             \/ IngestStart(a) \/ DrainRead(a) \/ DrainStep(a) \/ TimeStep(a)
             \/ Deregister(a)
      PROVE  prun' = prun /\ active' = active
  BY <1>5 DEF IngestStart, DrainRead, DrainStep, DrainMark, DrainOff, DrainCut, TimeStep,
     DeadlinePasses, GoStale, HoldPasses, Deregister, pollVars, agentVars
<1>6. ASSUME NEW r \in Runs, IngestStep(r) \/ KillJob(r) \/ KillStep(r)
      PROVE  prun' = prun /\ active' = active
  BY <1>6 DEF IngestStep, IngestWrite, IngestLoad, IngestDrain, IngestOff,
     IngestForce, IngestForced, IngestEmit, IngestCut, KillJob, KillStep, KillQueue, KillEmit, KillCut,
     pollVars, agentVars
<1>7. ASSUME ReapStep \/ ReapOld PROVE prun' = prun /\ active' = active
  BY <1>7 DEF ReapStep, ReapSweep, ReapPick, ReapClose, ReapOffline,
     ReapDeregister, ReapOld, pollVars, agentVars
<1>8. ASSUME ServerCrash PROVE NoCarry
  <2>1. active' = active /\ \A a \in Agents : prun'[a] = None
    BY <1>8 DEF ServerCrash
  <2> QED
    BY <2>1 DEF NoCarry, Carries
<1>9. ASSUME UNCHANGED vars PROVE prun' = prun /\ active' = active
  BY <1>9 DEF vars, pollVars, agentVars
<1> QED
  BY <1>1, <1>3, <1>4, <1>5, <1>6, <1>7, <1>8, <1>9 DEF Next

\* A deleted row does not come back.
LEMMA GoneStays ==
  ASSUME TypeOK, [Next]_vars, NEW a \in Agents, rstat[a] = "gone"
  PROVE  rstat'[a] = "gone"
<1> USE DEF TypeOK, RowsTyped
<1>1. ASSUME NEW b \in Agents, PollStep(b) PROVE rstat'[a] = "gone"
  BY <1>1 DEF PollStep, PollArrive, PollCloseRun, PollClosed, PollControl,
     PollReadmit, PollLoop, PollClaim, PollAgain, PollTimeout, PollNothing,
     PollLoad, PollDeliver, PollLost, PollAbort, Readmit, rowVars
<1>2. ASSUME NEW b \in Agents,
             AgentStep(b) \/ IngestStart(b) \/ DrainRead(b) \/ TimeStep(b)
      PROVE  rstat' = rstat
  BY <1>2 DEF AgentStep, Finish, Leave, Crash, Restart, StopSignal, PollRejected,
     IngestStart, DrainRead, TimeStep, DeadlinePasses, GoStale, HoldPasses, rowVars
<1>3. ASSUME NEW b \in Agents, DrainStep(b) \/ Deregister(b)
      PROVE  rstat'[a] = "gone"
  BY <1>3 DEF DrainStep, DrainMark, DrainOff, DrainCut, SetRow, Deregister, DropRow,
     rowVars
<1>4. ASSUME NEW r \in Runs, IngestStep(r) PROVE rstat'[a] = "gone"
  BY <1>4 DEF IngestStep, IngestWrite, IngestLoad, IngestDrain, IngestOff,
     IngestForce, IngestForced, IngestEmit, IngestCut, SetRow, rowVars
<1>5. ASSUME NEW r \in Runs, KillJob(r) \/ KillStep(r) PROVE rstat' = rstat
  BY <1>5 DEF KillJob, KillStep, KillQueue, KillEmit, KillCut, rowVars
<1>6. CASE ReapStep \/ ReapOld \/ ServerCrash
  BY <1>6 DEF ReapStep, ReapSweep, ReapPick, ReapClose, ReapOffline, SetRow,
     ReapDeregister, DropRow, ReapOld, ServerCrash, rowVars
<1>7. CASE UNCHANGED vars
  BY <1>7 DEF vars, rowVars
<1> QED
  BY <1>1, <1>2, <1>3, <1>4, <1>5, <1>6, <1>7 DEF Next

LEMMA CarriesStep ==
  ASSUME EndInv, CarriesOwn, CarriesAlone, [Next]_vars
  PROVE  CarriesOwn' /\ CarriesAlone'
<1> USE DEF EndInv
<1>1. TypeOK /\ WonWrote
  OBVIOUS
<1>2. ASSUME NEW a \in Agents, NEW r \in Runs, r \in Carries(a)
      PROVE  status'[r] # "queued" /\ (rstat'[a] = "gone" \/ owner'[r] = a)
  <2>1. status[r] # "queued" /\ (rstat[a] = "gone" \/ owner[r] = a)
    BY <1>2 DEF CarriesOwn
  <2>2. status'[r] # "queued"
    BY <2>1, RunSteps DEF RunStep, Kept, Claimed, EndedOwed, EndedRow, Paid,
       Missed, EndedMissed, Forgotten, Failed, Same, Terminal
  <2>3. rstat'[a] = "gone" \/ owner'[r] = a
    BY <2>1, OwnerSteps, GoneStays DEF Taken, Dropped
  <2> QED
    BY <2>2, <2>3
<1>3. \A a \in Agents : Carries(a) \subseteq Runs /\ Carries(a)' \subseteq Runs
  BY TypeNext DEF Carries, TypeOK, AgentsTyped
<1>4. CASE NoCarry
  BY <1>2, <1>3, <1>4 DEF NoCarry, CarriesOwn, CarriesAlone
<1>5. ASSUME NEW a \in Agents, NEW r \in Runs, Carry(a, r)
      PROVE  CarriesOwn' /\ CarriesAlone'
  <2>1. \A b \in Agents : r \notin Carries(b)
    BY <1>5 DEF Carry, CarriesOwn
  <2>2. CarriesOwn'
    BY <1>2, <1>3, <1>5 DEF Carry, CarriesOwn
  <2>3. CarriesAlone'
    BY <1>5, <2>1 DEF Carry, CarriesAlone
  <2> QED
    BY <2>2, <2>3
<1> QED
  BY <1>1, <1>4, <1>5, CarrySteps

\* No run executes on two agents, and none on an agent it was not claimed for.
THEOREM ExecutedOnce == Spec => []OneExecutor
<1>1. Init => CarriesOwn /\ CarriesAlone
  BY LifecycleAssumption DEF Init, Carries, CarriesOwn, CarriesAlone
<1>2. EndInv /\ CarriesOwn /\ CarriesAlone /\ [Next]_vars =>
        CarriesOwn' /\ CarriesAlone'
  BY CarriesStep
<1>3. CarriesOwn /\ CarriesAlone => OneExecutor
  BY DEF CarriesOwn, CarriesAlone, Carries, OneExecutor
<1> QED
  BY <1>1, <1>2, <1>3, EndAlways, PTL DEF Spec

-----------------------------------------------------------------------------
(* The poll and its process.  What follows is about one runner: every other's *)
(* poll and process leave it alone, and the rest of the server takes from its *)
(* slots and from its list of lost runs, and adds nothing.                    *)

Rest(a) ==
  /\ ppc'[a] = ppc[a] /\ psnap'[a] = psnap[a] /\ pclaim'[a] = pclaim[a]
  /\ ptodo'[a] = ptodo[a] /\ prun'[a] = prun[a] /\ plive'[a] = plive[a]
  /\ amode'[a] = amode[a] /\ pstart'[a] = pstart[a] /\ active'[a] = active[a]
  /\ ending'[a] \subseteq ending[a] /\ refusing'[a] \subseteq refusing[a]
  /\ lost'[a] \in {lost[a], {}}

\* A step of one runner's poll or process leaves the others' as they were.
LEMMA OthersRest ==
  ASSUME TypeOK, NEW a \in Agents, NEW b \in Agents \ {a},
         PollStep(b) \/ AgentStep(b)
  PROVE  Rest(a)
<1> USE DEF TypeOK, PollsTyped, AgentsTyped, RowsTyped, Rest
<1>1. CASE PollArrive(b)
  BY <1>1 DEF PollArrive
<1>2. CASE PollCloseRun(b)
  BY <1>2 DEF PollCloseRun, rowVars, agentVars
<1>3. CASE PollClosed(b)
  BY <1>3 DEF PollClosed, SetRow, agentVars
<1>4. CASE PollControl(b)
  BY <1>4 DEF PollControl, rowVars, agentVars
<1>5. CASE PollReadmit(b)
  BY <1>5 DEF PollReadmit, agentVars
<1>6. CASE PollLoop(b)
  BY <1>6 DEF PollLoop, agentVars
<1>7. CASE PollClaim(b)
  BY <1>7 DEF PollClaim, rowVars, agentVars
<1>8. CASE PollAgain(b) \/ PollTimeout(b)
  BY <1>8 DEF PollAgain, PollTimeout, PollNothing, rowVars, agentVars
<1>9. CASE PollLoad(b)
  BY <1>9 DEF PollLoad, agentVars
<1>10. CASE PollDeliver(b)
  BY <1>10 DEF PollDeliver, PollOver, rowVars
<1>11. CASE PollLost(b) \/ PollAbort(b)
  BY <1>11 DEF PollLost, PollAbort, PollOver, rowVars, agentVars
<1>12. CASE Finish(b)
  BY <1>12 DEF Finish, rowVars, pollVars
<1>13. CASE Leave(b) \/ Crash(b) \/ PollRejected(b)
  BY <1>13 DEF Leave, Crash, PollRejected, ProcessGone
<1>14. CASE Restart(b) \/ StopSignal(b)
  BY <1>14 DEF Restart, StopSignal, rowVars, pollVars
<1> QED
  BY <1>1, <1>2, <1>3, <1>4, <1>5, <1>6, <1>7, <1>8, <1>9, <1>10, <1>11, <1>12,
     <1>13, <1>14 DEF PollStep, AgentStep

LEMMA Touched ==
  ASSUME TypeOK, [Next]_vars, NEW a \in Agents
  PROVE  PollStep(a) \/ AgentStep(a) \/ ServerCrash \/ Rest(a)
<1> USE DEF TypeOK
<1>1. ASSUME NEW b \in Agents, PollStep(b) \/ AgentStep(b)
      PROVE  PollStep(a) \/ AgentStep(a) \/ Rest(a)
  BY <1>1, OthersRest
<1>2. ASSUME UNCHANGED pollVars, UNCHANGED <<amode, pstart, active>>,
             ending'[a] \subseteq ending[a], refusing'[a] \subseteq refusing[a],
             lost'[a] \in {lost[a], {}}
      PROVE  Rest(a)
  BY <1>2 DEF Rest, pollVars
<1>3. ASSUME UNCHANGED pollVars, UNCHANGED agentVars, lost'[a] \in {lost[a], {}}
      PROVE  Rest(a)
  BY <1>2, <1>3 DEF agentVars
<1>4. ASSUME NEW b \in Agents, IngestStart(b) PROVE Rest(a)
  <2>1. UNCHANGED <<amode, pstart, active>> /\ UNCHANGED pollVars /\ lost' = lost
    BY <1>4 DEF IngestStart, rowVars
  <2>2. ending'[a] \subseteq ending[a] /\ refusing'[a] \subseteq refusing[a]
    BY <1>4 DEF IngestStart, AgentsTyped
  <2> QED
    BY <1>2, <2>1, <2>2
<1>5. ASSUME NEW b \in Agents, DrainRead(b) \/ DrainStep(b) \/ TimeStep(b)
      PROVE  Rest(a)
  BY <1>3, <1>5 DEF DrainRead, DrainStep, DrainMark, DrainOff, DrainCut, TimeStep,
     DeadlinePasses, GoStale, HoldPasses, rowVars
<1>6. ASSUME NEW b \in Agents, DropRow(b) PROVE lost'[a] \in {lost[a], {}}
  BY <1>6 DEF DropRow, RowsTyped
<1>7. ASSUME NEW b \in Agents, Deregister(b) PROVE Rest(a)
  BY <1>3, <1>6, <1>7 DEF Deregister
<1>8. ASSUME NEW r \in Runs, IngestStep(r), ~IngestEmit(r) PROVE Rest(a)
  BY <1>3, <1>8 DEF IngestStep, IngestWrite, IngestLoad, IngestDrain, IngestOff,
     IngestForce, IngestForced, IngestCut, rowVars
<1>9. ASSUME NEW r \in Runs, IngestEmit(r) PROVE Rest(a)
  <2>1. UNCHANGED <<amode, pstart, active>> /\ UNCHANGED pollVars /\ lost' = lost
    BY <1>9 DEF IngestEmit, rowVars
  <2>2. ending'[a] \subseteq ending[a] /\ refusing'[a] \subseteq refusing[a]
    BY <1>9 DEF IngestEmit, AgentsTyped
  <2> QED
    BY <1>2, <2>1, <2>2
<1>10. ASSUME NEW r \in Runs, KillJob(r) \/ KillStep(r) PROVE Rest(a)
  BY <1>3, <1>10 DEF KillJob, KillStep, KillQueue, KillEmit, KillCut, rowVars
<1>11. CASE ReapDeregister
  BY <1>3, <1>6, <1>11 DEF ReapDeregister, ReapTyped
<1>12. CASE ReapOffline
  BY <1>3, <1>12 DEF ReapOffline, SetRow, RowsTyped
<1>13. CASE ReapSweep \/ ReapPick \/ ReapClose \/ ReapOld
  BY <1>3, <1>13 DEF ReapSweep, ReapPick, ReapClose, ReapOld, rowVars
<1>14. CASE UNCHANGED vars
  BY <1>3, <1>14 DEF vars, rowVars
<1> QED
  BY <1>1, <1>4, <1>5, <1>7, <1>8, <1>9, <1>10, <1>11, <1>12, <1>13, <1>14
  DEF Next, ReapStep

\* What a poll at work knows of its agent: a run it took is on its way in the
\* answer, what it closes it closes before it answers, and once its connection
\* is gone the agent is on its way out.  A process that is down, or that no
\* answer has reached, holds no run.
Polled(a) ==
  /\ prun[a] # None => ppc[a] \in {"load", "reply"}
  /\ ppc[a] \in {"loop", "claim"} \/ prun[a] # None => pclaim[a]
  /\ ptodo[a] # {} => ppc[a] \in {"closeAll", "closeLost"}
  /\ ppc[a] # "idle" => pstart[a] # "new"
  /\ ppc[a] # "idle" /\ ~plive[a] => amode[a] \in {"down", "stopping", "leaving"}
  /\ plive[a] => Up(a)
  /\ amode[a] = "down" \/ pstart[a] # "answered" => Holds(a) = {}

LEMMA PolledStep ==
  ASSUME TypeOK, [Next]_vars, NEW a \in Agents, Polled(a)
  PROVE  Polled(a)'
<1> USE LifecycleAssumption
        DEF TypeOK, PollsTyped, AgentsTyped, PollPc, Polled, Holds, SlotsOf, Up
<1>1. CASE PollArrive(a)
  BY <1>1 DEF PollArrive, Started
<1>2. CASE PollCloseRun(a)
  BY <1>2 DEF PollCloseRun, agentVars
<1>3. CASE PollClosed(a)
  BY <1>3 DEF PollClosed, agentVars
<1>4. CASE PollControl(a)
  BY <1>4 DEF PollControl, AnswerOrWait, agentVars
<1>5. CASE PollReadmit(a)
  BY <1>5 DEF PollReadmit, AnswerOrWait, agentVars
<1>6. CASE PollLoop(a)
  BY <1>6 DEF PollLoop, agentVars
<1>7. CASE PollClaim(a)
  BY <1>7 DEF PollClaim, agentVars
<1>8. CASE PollAgain(a) \/ PollTimeout(a)
  BY <1>8 DEF PollAgain, PollTimeout, PollNothing, agentVars
<1>9. CASE PollLoad(a)
  BY <1>9 DEF PollLoad, agentVars
<1>10. CASE PollDeliver(a)
  <2>1. /\ prun'[a] = None /\ ppc'[a] = "idle" /\ ptodo'[a] = {}
        /\ pstart'[a] = "answered"
    BY <1>10 DEF PollDeliver, PollOver
  <2>2. amode'[a] # "down"
    BY <1>10 DEF PollDeliver, AfterPoll
  <2> QED
    BY <2>1, <2>2
<1>11. CASE PollLost(a) \/ PollAbort(a)
  BY <1>11 DEF PollLost, PollAbort, PollOver, AfterPoll, agentVars
<1>12. CASE Finish(a)
  BY <1>12 DEF Finish, pollVars
<1>13. CASE Leave(a) \/ Crash(a) \/ PollRejected(a)
  BY <1>13 DEF Leave, Crash, PollRejected, ProcessGone
<1>14. CASE Restart(a) \/ StopSignal(a)
  BY <1>14 DEF Restart, StopSignal, AfterPoll, pollVars
<1>15. CASE ServerCrash
  BY <1>15 DEF ServerCrash, AfterPoll
<1>16. CASE Rest(a)
  BY <1>16 DEF Rest
<1> QED
  BY <1>1, <1>2, <1>3, <1>4, <1>5, <1>6, <1>7, <1>8, <1>9, <1>10, <1>11, <1>12,
     <1>13, <1>14, <1>15, <1>16, Touched DEF PollStep, AgentStep

LEMMA PolledAlways == Spec => [](\A a \in Agents : Polled(a))
<1>1. Init => \A a \in Agents : Polled(a)
  BY LifecycleAssumption DEF Init, Polled, Holds, SlotsOf
<1>2. TypeOK /\ (\A a \in Agents : Polled(a)) /\ [Next]_vars =>
        (\A a \in Agents : Polled(a))'
  BY PolledStep
<1> QED
  BY <1>1, <1>2, TypeCorrect, PTL DEF Spec

-----------------------------------------------------------------------------
(* A poll closes no run of its own process.                                 *)

LEMMA LeavesQueue ==
  ASSUME EndInv, [Next]_vars, NEW r \in Runs, status[r] # "queued"
  PROVE  status'[r] # "queued"
BY RunSteps DEF EndInv, RunStep, Kept, Claimed, EndedOwed, EndedRow, Paid,
   Missed, EndedMissed, Forgotten, Failed, Same, Terminal

\* What a start or a deferred close is to end was claimed before the process it
\* speaks to, so that process has it neither in a slot nor on its way.
Spared(a) ==
  \A r \in ptodo[a] \union lost[a] :
    status[r] # "queued" /\ r \notin Holds(a) /\ r # prun[a]

LEMMA SparedStep ==
  ASSUME EndInv, [Next]_vars, NEW a \in Agents, Polled(a), Spared(a)
  PROVE  Spared(a)'
<1> USE LifecycleAssumption DEF EndInv, TypeOK, PollsTyped, AgentsTyped, RowsTyped
<1>1. ASSUME ptodo'[a] \union lost'[a] \subseteq ptodo[a] \union lost[a],
             Holds(a)' \subseteq Holds(a), prun'[a] \in {prun[a], None}
      PROVE  Spared(a)'
  <2>1. \A r \in ptodo'[a] \union lost'[a] : r \in Runs /\ r # None
    BY <1>1
  <2> QED
    BY <1>1, <2>1, LeavesQueue DEF Spared
<1>2. CASE PollArrive(a)
  <2>1. prun'[a] = prun[a] /\ prun[a] = None /\ Holds(a)' = Holds(a)
    BY <1>2 DEF PollArrive, Polled, Holds, SlotsOf
  <2>2. RunningOf(a) \subseteq Runs /\ \A r \in RunningOf(a) : status[r] # "queued"
    BY DEF RunningOf, Running
  <2>3. CASE Started(a)
    <3>1. Holds(a)' = {}
      BY <2>1, <2>3 DEF Started, Polled
    <3>2. ptodo'[a] \union lost'[a] \subseteq RunningOf(a) \union ptodo[a] \union lost[a]
      BY <1>2 DEF PollArrive
    <3>3. \A r \in ptodo'[a] \union lost'[a] : r \in Runs /\ status[r] # "queued"
      BY <3>2, <2>2 DEF Spared
    <3> QED
      BY <3>1, <3>3, <2>1, LeavesQueue DEF Spared
  <2>4. CASE ~Started(a)
    <3>1. ptodo'[a] \union lost'[a] \subseteq ptodo[a] \union lost[a]
      BY <1>2, <2>4 DEF PollArrive
    <3> QED
      BY <1>1, <2>1, <3>1
  <2> QED
    BY <2>3, <2>4
<1>3. CASE PollClaim(a)
  <2>1. PICK r \in Runs : status[r] = "queued" /\ prun' = [prun EXCEPT ![a] = r]
    BY <1>3 DEF PollClaim, Claimable
  <2>2. ptodo' = ptodo /\ lost' = lost /\ Holds(a)' = Holds(a)
    BY <1>3 DEF PollClaim, rowVars, agentVars, Holds, SlotsOf
  <2>3. r \notin ptodo[a] \union lost[a]
    BY <2>1 DEF Spared
  <2>4. \A x \in ptodo[a] \union lost[a] : status'[x] # "queued"
    BY LeavesQueue DEF Spared
  <2> QED
    BY <2>1, <2>2, <2>3, <2>4 DEF Spared
<1>4. CASE PollDeliver(a)
  <2>1. prun'[a] = None /\ ptodo'[a] = {} /\ lost' = lost
    BY <1>4 DEF PollDeliver, PollOver, rowVars
  <2>2. Holds(a)' \subseteq Holds(a) \union {prun[a]}
    BY <1>4 DEF PollDeliver, Holds, SlotsOf
  <2>3. \A r \in lost[a] : r # None /\ status'[r] # "queued"
    BY LeavesQueue DEF Spared
  <2> QED
    BY <2>1, <2>2, <2>3 DEF Spared
<1>5. CASE PollCloseRun(a)
  BY <1>1, <1>5 DEF PollCloseRun, rowVars, agentVars, Holds, SlotsOf
<1>6. CASE PollClosed(a)
  BY <1>1, <1>6 DEF PollClosed, SetRow, agentVars, Holds, SlotsOf
<1>7. CASE PollControl(a) \/ PollReadmit(a) \/ PollLoop(a) \/ PollLoad(a)
  BY <1>1, <1>7 DEF PollControl, PollReadmit, PollLoop, PollLoad, rowVars, agentVars,
     Holds, SlotsOf
<1>8. CASE PollAgain(a) \/ PollTimeout(a)
  BY <1>1, <1>8 DEF PollAgain, PollTimeout, PollNothing, rowVars, agentVars, Holds,
     SlotsOf
<1>9. CASE PollLost(a) \/ PollAbort(a)
  BY <1>1, <1>9 DEF PollLost, PollAbort, PollOver, rowVars, agentVars, Holds, SlotsOf
<1>10. CASE Finish(a)
  BY <1>1, <1>10 DEF Finish, rowVars, pollVars, Holds, SlotsOf
<1>11. CASE Leave(a) \/ Crash(a) \/ PollRejected(a)
  BY <1>1, <1>11 DEF Leave, Crash, PollRejected, ProcessGone, Holds, SlotsOf
<1>12. CASE Restart(a) \/ StopSignal(a)
  BY <1>1, <1>12 DEF Restart, StopSignal, rowVars, pollVars, Holds, SlotsOf
<1>13. CASE ServerCrash
  BY <1>1, <1>13 DEF ServerCrash, rowVars, Holds, SlotsOf
<1>14. CASE Rest(a)
  BY <1>1, <1>14 DEF Rest, Holds, SlotsOf
<1> QED
  BY <1>2, <1>3, <1>4, <1>5, <1>6, <1>7, <1>8, <1>9, <1>10, <1>11, <1>12, <1>13,
     <1>14, Touched DEF PollStep, AgentStep

\* No poll closes as lost a run that its own process executes, uploads or
\* refuses, at once or after the hold window.
THEOREM LiveAreSpared == Spec => []CloseSparesLive
<1>1. Init => \A a \in Agents : Spared(a)
  BY DEF Init, Spared
<1>2. EndInv /\ (\A a \in Agents : Polled(a) /\ Spared(a)) /\ [Next]_vars =>
        (\A a \in Agents : Spared(a))'
  BY SparedStep
<1>3. (\A a \in Agents : Spared(a)) => CloseSparesLive
  BY DEF Spared, CloseSparesLive
<1>4. (\A a \in Agents : Polled(a)) /\ (\A a \in Agents : Spared(a))
        <=> \A a \in Agents : Polled(a) /\ Spared(a)
  OBVIOUS
<1> QED
  BY <1>1, <1>2, <1>3, <1>4, EndAlways, PolledAlways, PTL DEF Spec

-----------------------------------------------------------------------------
(* No refusals without a drain.                                             *)

\* Nobody marks a row as draining when nobody drains it.
Undrained(a) == rstat[a] # "draining" /\ psnap[a] # "draining" /\ dpc[a] = "idle"

LEMMA UndrainedStep ==
  ASSUME TypeOK, [Next]_vars, "drain" \notin faults,
         \A a \in Agents : Undrained(a)
  PROVE  \A a \in Agents : Undrained(a)'
<1> USE DEF TypeOK, RowsTyped, OpsTyped, PollsTyped, Undrained
<1> DEFINE Row(f) == \A a \in Agents : f[a] # "draining"
<1>0. \A b \in Agents : Row(SetRow(rstat, b, "offline"))
  BY DEF SetRow
<1>1. rstat' = rstat \/ Row(rstat')
  <2>1. ASSUME NEW b \in Agents, PollStep(b) PROVE rstat' = rstat \/ Row(rstat')
    BY <2>1 DEF PollStep, PollArrive, PollCloseRun, PollClosed, PollControl,
       PollReadmit, PollLoop, PollClaim, PollAgain, PollTimeout, PollNothing,
       PollLoad, PollDeliver, PollLost, PollAbort, Readmit, rowVars
  <2>2. ASSUME NEW b \in Agents,
               AgentStep(b) \/ IngestStart(b) \/ DrainRead(b) \/ TimeStep(b)
        PROVE  rstat' = rstat
    BY <2>2 DEF AgentStep, Finish, Leave, Crash, Restart, StopSignal, PollRejected,
       IngestStart, DrainRead, TimeStep, DeadlinePasses, GoStale, HoldPasses, rowVars
  <2>3. ASSUME NEW b \in Agents, DrainStep(b) PROVE FALSE
    BY <2>3 DEF DrainStep, DrainMark, DrainOff, DrainCut
  <2>4. ASSUME NEW b \in Agents, DropRow(b) PROVE Row(rstat')
    BY <2>4 DEF DropRow
  <2>5. ASSUME NEW r \in Runs, IngestStep(r) PROVE rstat' = rstat \/ Row(rstat')
    <3>1. CASE IngestOff(r) \/ IngestForced(r)
      <4>1. fby[r] \in Agents
        BY <3>1 DEF IngestOff, IngestForced, FinsTyped
      <4> QED
        BY <1>0, <3>1, <4>1 DEF IngestOff, IngestForced
    <3>2. CASE ~IngestOff(r) /\ ~IngestForced(r)
      BY <2>5, <3>2 DEF IngestStep, IngestWrite, IngestLoad, IngestDrain,
         IngestForce, IngestEmit, IngestCut, rowVars
    <3> QED
      BY <3>1, <3>2
  <2>6. ASSUME NEW r \in Runs, KillJob(r) \/ KillStep(r) PROVE rstat' = rstat
    BY <2>6 DEF KillJob, KillStep, KillQueue, KillEmit, KillCut, rowVars
  <2>7. CASE ReapOffline
    BY <1>0, <2>7 DEF ReapOffline, ReapTyped
  <2>8. CASE ReapDeregister \/ \E b \in Agents : Deregister(b)
    BY <2>4, <2>8 DEF ReapDeregister, Deregister, ReapTyped
  <2>9. CASE ReapSweep \/ ReapPick \/ ReapClose \/ ReapOld \/ ServerCrash
    BY <2>9 DEF ReapSweep, ReapPick, ReapClose, ReapOld, ServerCrash, rowVars
  <2>10. CASE UNCHANGED vars
    BY <2>10 DEF vars, rowVars
  <2> QED
    BY <2>1, <2>2, <2>3, <2>5, <2>6, <2>7, <2>8, <2>9, <2>10 DEF Next, ReapStep
<1>2. \A a \in Agents : dpc'[a] = "idle"
  <2>1. ASSUME NEW b \in Agents, PollStep(b) PROVE dpc' = dpc
    BY <2>1 DEF PollStep, PollArrive, PollCloseRun, PollClosed, PollControl,
       PollReadmit, PollLoop, PollClaim, PollAgain, PollTimeout, PollNothing,
       PollLoad, PollDeliver, PollLost, PollAbort, opVars
  <2>2. ASSUME NEW b \in Agents,
               \/ AgentStep(b) \/ IngestStart(b) \/ DrainRead(b) \/ DrainStep(b)
               \/ TimeStep(b) \/ Deregister(b)
        PROVE  dpc' = dpc
    BY <2>2 DEF AgentStep, Finish, Leave, Crash, Restart, StopSignal, PollRejected,
       IngestStart, DrainRead, DrainStep, DrainMark, DrainOff, DrainCut, TimeStep,
       DeadlinePasses, GoStale, HoldPasses, Deregister, opVars
  <2>3. ASSUME NEW r \in Runs, IngestStep(r) \/ KillJob(r) \/ KillStep(r)
        PROVE  dpc' = dpc
    BY <2>3 DEF IngestStep, IngestWrite, IngestLoad, IngestDrain, IngestOff,
       IngestForce, IngestForced, IngestEmit, IngestCut, KillJob, KillStep, KillQueue,
       KillEmit, KillCut, opVars
  <2>4. ASSUME ReapStep \/ ReapOld PROVE dpc' = dpc
    BY <2>4 DEF ReapStep, ReapSweep, ReapPick, ReapClose, ReapOffline,
       ReapDeregister, ReapOld, opVars
  <2>5. CASE ServerCrash
    BY <2>5 DEF ServerCrash
  <2>6. CASE UNCHANGED vars
    BY <2>6 DEF vars, opVars
  <2> QED
    BY <2>1, <2>2, <2>3, <2>4, <2>5, <2>6 DEF Next
<1>3. ASSUME NEW a \in Agents PROVE psnap'[a] # "draining"
  <2>1. CASE PollStep(a)
    BY <2>1 DEF PollStep, PollArrive, PollCloseRun, PollClosed, PollControl,
       PollReadmit, PollLoop, PollClaim, PollAgain, PollTimeout, PollNothing,
       PollLoad, PollDeliver, PollLost, PollAbort, PollOver
  <2>2. CASE AgentStep(a)
    BY <2>2 DEF AgentStep, Finish, Leave, Crash, Restart, StopSignal, PollRejected,
       pollVars
  <2>3. CASE ServerCrash \/ Rest(a)
    BY <2>3 DEF ServerCrash, Rest
  <2> QED
    BY <2>1, <2>2, <2>3, Touched
<1> QED
  BY <1>1, <1>2, <1>3

\* An agent that drains although nobody asked for it polled a row that was
\* deleted, and polls no more.
Undrawn(a) == amode[a] = "draining" \/ ppc[a] = "replyDrain" => rstat[a] = "gone"

LEMMA UndrawnStep ==
  ASSUME TypeOK, [Next]_vars, NEW a \in Agents, Undrained(a), Polled(a), Undrawn(a)
  PROVE  Undrawn(a)'
<1> USE DEF TypeOK, PollsTyped, AgentsTyped, RowsTyped, PollPc, RunnerStatus,
            Undrained, Undrawn
<1>1. rstat[a] = "gone" => rstat'[a] = "gone"
  BY GoneStays
<1>2. CASE PollReadmit(a)
  BY <1>1, <1>2 DEF PollReadmit, Readmit, AnswerOrWait, agentVars
<1>3. CASE PollControl(a)
  BY <1>1, <1>3 DEF PollControl, AnswerOrWait, agentVars
<1>4. CASE PollDeliver(a)
  BY <1>1, <1>4 DEF PollDeliver, PollOver, AfterPoll
<1>5. CASE PollLost(a) \/ PollAbort(a)
  BY <1>1, <1>5 DEF PollLost, PollAbort, PollOver, AfterPoll, agentVars
<1>6. CASE PollArrive(a) \/ PollCloseRun(a) \/ PollClosed(a)
  BY <1>1, <1>6 DEF PollArrive, PollCloseRun, PollClosed, agentVars
<1>7. CASE PollLoop(a)
  BY <1>1, <1>7 DEF PollLoop, agentVars
<1>8. CASE PollClaim(a) \/ PollAgain(a) \/ PollTimeout(a) \/ PollLoad(a)
  BY <1>1, <1>8 DEF PollClaim, PollAgain, PollTimeout, PollNothing, PollLoad, agentVars
<1>9. CASE AgentStep(a)
  BY <1>1, <1>9 DEF AgentStep, Finish, Leave, Crash, Restart, StopSignal,
     PollRejected, ProcessGone, AfterPoll, pollVars
<1>10. CASE ServerCrash
  BY <1>1, <1>10 DEF ServerCrash, AfterPoll
<1>11. CASE Rest(a)
  BY <1>1, <1>11 DEF Rest
<1> QED
  BY <1>2, <1>3, <1>4, <1>5, <1>6, <1>7, <1>8, <1>9, <1>10, <1>11, Touched
  DEF PollStep

\* A poll that asks for a run is of a process that can start one.
Fits(a) ==
  plive[a] /\ pclaim[a] =>
    amode[a] = "working" /\ Cardinality(SlotsOf(a)) < Slots[a]

LEMMA FitsStep ==
  ASSUME TypeOK, [Next]_vars, NEW a \in Agents, Polled(a), Undrawn(a), Fits(a)
  PROVE  Fits(a)'
<1> USE LifecycleAssumption DEF TypeOK, PollsTyped, AgentsTyped, PollPc, Polled, Fits
<1>1. CASE PollArrive(a)
  <2>1. SlotsOf(a)' = SlotsOf(a) /\ amode'[a] = amode[a]
    BY <1>1 DEF PollArrive, SlotsOf
  <2>2. amode[a] \in {"working", "stopping"}
    BY <1>1 DEF PollArrive, Undrawn
  <2>3. pclaim'[a] => amode[a] # "stopping" /\ Cardinality(SlotsOf(a)) < Slots[a]
    BY <1>1 DEF PollArrive, WantsRun
  <2> QED
    BY <2>1, <2>2, <2>3
<1>2. ASSUME SlotsOf(a)' = SlotsOf(a), amode'[a] = amode[a], plive'[a] = plive[a],
             pclaim'[a] = pclaim[a]
      PROVE  Fits(a)'
  BY <1>2
<1>3. CASE PollCloseRun(a) \/ PollClosed(a) \/ PollControl(a) \/ PollReadmit(a)
  BY <1>2, <1>3 DEF PollCloseRun, PollClosed, PollControl, PollReadmit, agentVars,
     SlotsOf
<1>4. CASE PollLoop(a) \/ PollClaim(a) \/ PollLoad(a)
  BY <1>2, <1>4 DEF PollLoop, PollClaim, PollLoad, agentVars, SlotsOf
<1>5. CASE PollAgain(a) \/ PollTimeout(a)
  BY <1>2, <1>5 DEF PollAgain, PollTimeout, PollNothing, agentVars, SlotsOf
<1>6. CASE PollDeliver(a) \/ PollLost(a) \/ PollAbort(a)
  BY <1>6 DEF PollDeliver, PollLost, PollAbort, PollOver
<1>7. CASE Finish(a)
  <2>1. SlotsOf(a)' = SlotsOf(a)
    BY <1>7 DEF Finish, SlotsOf
  <2> QED
    BY <1>2, <1>7, <2>1 DEF Finish, pollVars
<1>8. CASE Leave(a) \/ Crash(a) \/ PollRejected(a) \/ StopSignal(a)
  BY <1>8 DEF Leave, Crash, PollRejected, ProcessGone, StopSignal
<1>9. CASE Restart(a)
  BY <1>9 DEF Restart, Up, pollVars
<1>10. CASE ServerCrash
  BY <1>10 DEF ServerCrash
<1>11. CASE Rest(a)
  <2>1. SlotsOf(a)' \subseteq SlotsOf(a) /\ SlotsOf(a) \subseteq Runs
    BY <1>11 DEF Rest, SlotsOf
  <2>2. IsFiniteSet(SlotsOf(a))
    BY <2>1, FS_Subset
  <2>3. IsFiniteSet(SlotsOf(a)') /\ Cardinality(SlotsOf(a)') <= Cardinality(SlotsOf(a))
    BY <2>1, <2>2, FS_Subset
  <2>4. Cardinality(SlotsOf(a)) \in Nat /\ Cardinality(SlotsOf(a)') \in Nat
    BY <2>2, <2>3, FS_CardinalityType
  <2>5. Slots[a] \in Nat
    OBVIOUS
  <2>6. plive'[a] = plive[a] /\ pclaim'[a] = pclaim[a] /\ amode'[a] = amode[a]
    BY <1>11 DEF Rest
  <2>7. Cardinality(SlotsOf(a))' = Cardinality(SlotsOf(a)')
    OBVIOUS
  <2> QED
    BY <2>3, <2>4, <2>5, <2>6, <2>7
<1> QED
  BY <1>1, <1>3, <1>4, <1>5, <1>6, <1>7, <1>8, <1>9, <1>10, <1>11, Touched
  DEF PollStep, AgentStep

LEMMA RefusesNone ==
  ASSUME TypeOK, [Next]_vars, NEW a \in Agents, Polled(a), Undrawn(a), Fits(a),
         refusing[a] = {}
  PROVE  refusing'[a] = {}
<1> USE LifecycleAssumption DEF TypeOK, PollsTyped, AgentsTyped
<1>1. CASE PollDeliver(a)
  <2>1. CASE prun[a] = None
    BY <1>1, <2>1 DEF PollDeliver
  <2>2. CASE prun[a] # None
    <3>1. ppc[a] = "reply" /\ plive[a] /\ pclaim[a]
      BY <1>1, <2>2 DEF PollDeliver, Polled
    <3>2. amode[a] = "working" /\ Cardinality(SlotsOf(a)) < Slots[a]
      BY <3>1 DEF Fits
    <3> QED
      BY <1>1, <3>1, <3>2 DEF PollDeliver
  <2> QED
    BY <2>1, <2>2
<1>2. CASE PollStep(a) /\ ~PollDeliver(a)
  BY <1>2 DEF PollStep, PollArrive, PollCloseRun, PollClosed, PollControl,
     PollReadmit, PollLoop, PollClaim, PollAgain, PollTimeout, PollNothing,
     PollLoad, PollLost, PollAbort, agentVars
<1>3. CASE AgentStep(a)
  BY <1>3 DEF AgentStep, Finish, Leave, Crash, Restart, StopSignal, PollRejected,
     ProcessGone
<1>4. CASE ServerCrash \/ Rest(a)
  BY <1>4 DEF ServerCrash, Rest
<1> QED
  BY <1>1, <1>2, <1>3, <1>4, Touched

\* Without a drain nobody drains, and nobody refuses.
Calm ==
  "drain" \notin faults =>
    \A a \in Agents : Undrained(a) /\ Undrawn(a) /\ Fits(a) /\ refusing[a] = {}

LEMMA CalmAlways == Spec => []Calm
<1>1. Init => Calm
  BY DEF Init, InitFleet, Calm, Undrained, Undrawn, Fits
<1>2. ASSUME TypeOK, \A a \in Agents : Polled(a), Calm, [Next]_vars
      PROVE  Calm'
  <2>1. faults' = faults
    BY <1>2, FaultsFixed
  <2>2. CASE "drain" \in faults
    BY <2>1, <2>2 DEF Calm
  <2>3. CASE "drain" \notin faults
    <3>1. \A a \in Agents : Undrained(a) /\ Undrawn(a) /\ Fits(a) /\ refusing[a] = {}
      BY <1>2, <2>3 DEF Calm
    <3>2. \A a \in Agents : Undrained(a)'
      BY <1>2, <2>3, <3>1, UndrainedStep
    <3>3. \A a \in Agents : Undrawn(a)' /\ Fits(a)'
      BY <1>2, <3>1, UndrawnStep, FitsStep
    <3>4. \A a \in Agents : refusing'[a] = {}
      BY <1>2, <3>1, RefusesNone
    <3> QED
      BY <2>1, <3>2, <3>3, <3>4 DEF Calm
  <2> QED
    BY <2>2, <2>3
<1> QED
  BY <1>1, <1>2, TypeCorrect, PolledAlways, PTL DEF Spec

\* An agent is handed no run it cannot start, unless somebody drains it: what its
\* poll said of its slots is still true when the answer arrives.
THEOREM NothingRefused == Spec => []NeverRefused
<1>1. Calm => NeverRefused
  BY DEF Calm, NeverRefused
<1> QED
  BY <1>1, CalmAlways, PTL

-----------------------------------------------------------------------------
(* A running run is held.  First the uploads: a final chunk past its write    *)
(* has no running run, unless the write failed.                              *)

Uploads(r) ==
  /\ fpc[r] # "idle" => status[r] # "queued"
  /\ fpc[r] \notin {"idle", "write"} => status[r] \in Terminal

LEMMA UploadsStep ==
  ASSUME EndInv, [Next]_vars, "dbError" \notin faults, NEW r \in Runs, Uploads(r)
  PROVE  Uploads(r)'
<1> USE DEF EndInv, TypeOK, FinsTyped
<1>1. ASSUME fpc'[r] = fpc[r] PROVE Uploads(r)'
  <2>1. status[r] \in Terminal => status'[r] \in Terminal
    BY RunSteps DEF RunStep, Kept, Claimed, EndedOwed, EndedRow, Paid,
       Missed, EndedMissed, Forgotten, Failed, Same, Terminal
  <2> QED
    BY <1>1, <2>1, LeavesQueue DEF Uploads
<1>2. ASSUME NEW a \in Agents, IngestStart(a) PROVE Uploads(r)'
  <2>1. fpc'[r] = fpc[r] \/ (fpc'[r] = "write" /\ status[r] = "running")
    BY <1>2 DEF IngestStart
  <2>2. CASE fpc'[r] = "write" /\ status[r] = "running"
    BY <1>2, <2>2 DEF IngestStart, runVars, Uploads
  <2> QED
    BY <1>1, <2>1, <2>2
<1>3. ASSUME NEW x \in Runs, IngestStep(x) PROVE Uploads(r)'
  <2>1. CASE x # r
    <3>1. fpc'[r] = fpc[r]
      BY <1>3, <2>1 DEF IngestStep, IngestWrite, IngestLoad, IngestDrain, IngestOff,
         IngestForce, IngestForced, IngestEmit, IngestCut
    <3> QED
      BY <1>1, <3>1
  <2>2. CASE x = r /\ IngestWrite(r)
    <3>1. status'[r] # "running" /\ status'[r] # "queued"
      BY <2>2, LifecycleAssumption DEF IngestWrite, RunsTyped, Uploads
    <3>2. status'[r] \in RunStatus
      BY TypeNext DEF RunsTyped
    <3> QED
      BY <3>1, <3>2 DEF RunStatus, Terminal, Uploads
  <2>4. CASE x = r /\ IngestCut(r)
    BY <2>4 DEF IngestCut, Uploads
  <2>3. CASE x = r /\ ~IngestWrite(r) /\ ~IngestCut(r)
    <3>1. fpc[r] \notin {"idle", "write"}
      BY <1>3, <2>3 DEF IngestStep, IngestLoad, IngestDrain, IngestOff, IngestForce,
         IngestForced, IngestEmit
    <3>2. status'[r] \in Terminal
      BY <3>1, RunSteps DEF Uploads, RunStep, Kept, Claimed, EndedOwed, EndedRow,
         Paid, Missed, EndedMissed, Forgotten, Failed, Same, Terminal
    <3> QED
      BY <3>2 DEF Uploads, Terminal
  <2> QED
    BY <1>3, <2>1, <2>2, <2>3, <2>4
<1>4. CASE ServerCrash
  BY <1>4 DEF ServerCrash, Uploads
<1>5. CASE UNCHANGED finVars
  BY <1>1, <1>5 DEF finVars
<1> QED
  BY <1>2, <1>3, <1>4, <1>5, FinSteps

\* Nobody drains, so no upload ends a drain.
NoDrainEnds(r) == fpc[r] \notin {"off", "force"}

LEMMA NoDrainEndsStep ==
  ASSUME TypeOK, [Next]_vars, \A a \in Agents : Undrained(a),
         NEW r \in Runs, NoDrainEnds(r)
  PROVE  NoDrainEnds(r)'
<1> USE DEF TypeOK, FinsTyped, NoDrainEnds
<1>1. ASSUME NEW x \in Runs, IngestStep(x) PROVE NoDrainEnds(r)'
  <2>1. CASE IngestDrain(x)
    <3>1. rstat[fby[x]] # "draining"
      BY <2>1 DEF IngestDrain, Undrained
    <3> QED
      BY <2>1, <3>1 DEF IngestDrain
  <2>2. CASE ~IngestDrain(x)
    BY <1>1, <2>2 DEF IngestStep, IngestWrite, IngestLoad, IngestOff,
       IngestForce, IngestForced, IngestEmit, IngestCut
  <2> QED
    BY <2>1, <2>2
<1>2. ASSUME NEW a \in Agents, IngestStart(a) PROVE NoDrainEnds(r)'
  BY <1>2 DEF IngestStart
<1>3. CASE ServerCrash
  BY <1>3 DEF ServerCrash
<1>4. CASE UNCHANGED finVars
  BY <1>4 DEF finVars
<1> QED
  BY <1>1, <1>2, <1>3, <1>4, FinSteps

\* A running run becomes an agent's only by the claim of the agent's own poll.
LEMMA RunningGrows ==
  ASSUME EndInv, QueuedIsFree, [Next]_vars, NEW a \in Agents, NEW r \in RunningOf(a)'
  PROVE  r \in RunningOf(a) \/ (ppc[a] = "claim" /\ prun'[a] = r)
<1>1. r \in Runs /\ status'[r] = "running" /\ owner'[r] = a
  BY DEF RunningOf, Running
<1>2. status[r] \in {"queued", "running"}
  BY <1>1, RunSteps DEF EndInv, RunStep, Kept, Claimed, EndedOwed, EndedRow, Paid,
     Missed, EndedMissed, Forgotten, Failed, Same, Terminal
<1>3. a # None
  BY LifecycleAssumption
<1>4. owner[r] = a \/ (ppc[a] = "claim" /\ prun'[a] = r)
  BY <1>1, <1>3, OwnerSteps DEF EndInv, Dropped, Taken
<1>5. owner[r] = a => status[r] = "running"
  BY <1>1, <1>2, <1>3 DEF QueuedIsFree
<1> QED
  BY <1>1, <1>4, <1>5 DEF RunningOf, Running

\* A row is deleted only together with what its runner owned.
LEMMA RowDeleted ==
  ASSUME TypeOK, [Next]_vars, NEW a \in Agents,
         rstat[a] # "gone", rstat'[a] = "gone", NEW r \in Runs
  PROVE  owner'[r] # a
<1> USE LifecycleAssumption DEF TypeOK, RowsTyped, RunsTyped
<1>0. ASSUME NEW b \in Agents, NEW v \in {"online", "offline", "draining"}
      PROVE  SetRow(rstat, b, v)[a] # "gone"
  BY <1>0 DEF SetRow
<1>1. ASSUME NEW b \in Agents, PollStep(b) PROVE rstat'[a] # "gone"
  BY <1>1 DEF PollStep, PollArrive, PollCloseRun, PollClosed, PollControl,
     PollReadmit, PollLoop, PollClaim, PollAgain, PollTimeout, PollNothing,
     PollLoad, PollDeliver, PollLost, PollAbort, Readmit, rowVars
<1>2. ASSUME NEW b \in Agents,
             AgentStep(b) \/ IngestStart(b) \/ DrainRead(b) \/ TimeStep(b)
      PROVE  rstat' = rstat
  BY <1>2 DEF AgentStep, Finish, Leave, Crash, Restart, StopSignal, PollRejected,
     IngestStart, DrainRead, TimeStep, DeadlinePasses, GoStale, HoldPasses, rowVars
<1>3. ASSUME NEW b \in Agents, DrainStep(b) PROVE rstat'[a] # "gone"
  BY <1>0, <1>3 DEF DrainStep, DrainMark, DrainOff, DrainCut, rowVars
<1>4. ASSUME NEW b \in Agents, DropRow(b) PROVE owner'[r] # a
  BY <1>4 DEF DropRow
<1>5. ASSUME NEW x \in Runs, IngestOff(x) \/ IngestForced(x) PROVE rstat'[a] # "gone"
  <2>1. fby[x] \in Agents
    BY <1>5 DEF IngestOff, IngestForced, FinsTyped
  <2> QED
    BY <1>0, <1>5, <2>1 DEF IngestOff, IngestForced
<1>6. ASSUME NEW x \in Runs, IngestStep(x), ~IngestOff(x), ~IngestForced(x)
      PROVE  rstat' = rstat
  BY <1>6 DEF IngestStep, IngestWrite, IngestLoad, IngestDrain, IngestForce,
     IngestEmit, IngestCut, rowVars
<1>7. ASSUME NEW x \in Runs, KillJob(x) \/ KillStep(x) PROVE rstat' = rstat
  BY <1>7 DEF KillJob, KillStep, KillQueue, KillEmit, KillCut, rowVars
<1>8. ASSUME ReapOffline PROVE rstat'[a] # "gone"
  BY <1>0, <1>8 DEF ReapOffline, ReapTyped
<1>9. ASSUME ReapDeregister \/ \E b \in Agents : Deregister(b) PROVE owner'[r] # a
  BY <1>4, <1>9 DEF ReapDeregister, Deregister, ReapTyped
<1>10. ASSUME ReapSweep \/ ReapPick \/ ReapClose \/ ReapOld \/ ServerCrash
       PROVE  rstat' = rstat
  BY <1>10 DEF ReapSweep, ReapPick, ReapClose, ReapOld, ServerCrash, rowVars
<1>11. ASSUME UNCHANGED vars PROVE rstat' = rstat
  BY <1>11 DEF vars, rowVars
<1> QED
  BY <1>1, <1>2, <1>3, <1>5, <1>6, <1>7, <1>8, <1>9, <1>10, <1>11 DEF Next, ReapStep

\* A run belongs to a runner that has a row.
OwnerHasRow == \A r \in Runs : \A a \in Agents : owner[r] = a => rstat[a] # "gone"

LEMMA OwnerHasRowStep ==
  ASSUME TypeOK, OwnerHasRow, [Next]_vars PROVE OwnerHasRow'
<1> SUFFICES ASSUME NEW r \in Runs, NEW a \in Agents, owner'[r] = a
             PROVE  rstat'[a] # "gone"
  BY DEF OwnerHasRow
<1>1. rstat[a] # "gone"
  BY OwnerSteps, LifecycleAssumption DEF OwnerHasRow, Dropped, Taken
<1> QED
  BY <1>1, RowDeleted

\* Only the reaper's own steps, and a server death, touch the reaper.
LEMMA ReapSteps ==
  ASSUME [Next]_vars
  PROVE  ReapStep \/ ReapOld \/ ServerCrash \/ UNCHANGED reapVars
<1>1. ASSUME NEW a \in Agents, PollStep(a) PROVE UNCHANGED reapVars
  BY <1>1 DEF PollStep, PollArrive, PollCloseRun, PollClosed, PollControl,
     PollReadmit, PollLoop, PollClaim, PollAgain, PollTimeout, PollNothing,
     PollLoad, PollDeliver, PollLost, PollAbort
<1>2. ASSUME NEW a \in Agents,
             \/ AgentStep(a) \/ IngestStart(a) \/ DrainRead(a) \/ DrainStep(a)
             \/ TimeStep(a) \/ Deregister(a)
      PROVE  UNCHANGED reapVars
  BY <1>2 DEF AgentStep, Finish, Leave, Crash, Restart, StopSignal, PollRejected,
     IngestStart, DrainRead, DrainStep, DrainMark, DrainOff, DrainCut, TimeStep,
     DeadlinePasses, GoStale, HoldPasses, Deregister
<1>3. ASSUME NEW r \in Runs, IngestStep(r) \/ KillJob(r) \/ KillStep(r)
      PROVE  UNCHANGED reapVars
  BY <1>3 DEF IngestStep, IngestWrite, IngestLoad, IngestDrain, IngestOff,
     IngestForce, IngestForced, IngestEmit, IngestCut, KillJob, KillStep, KillQueue, KillEmit, KillCut
<1> QED
  BY <1>1, <1>2, <1>3 DEF Next, vars

\* A runner nobody has heard of, or one the reaper works on.
Listed(a) == stale[a] \/ a \in rlist \/ rcur = a

LEMMA ListedSteps ==
  ASSUME TypeOK, [Next]_vars, NEW a \in Agents, Listed(a)'
  PROVE  \/ Listed(a)
         \/ ppc[a] = "idle" /\ (IF Up(a) THEN "partition" ELSE "quiet") \in faults
<1> USE LifecycleAssumption DEF TypeOK, RowsTyped, ReapTyped
<1>1. CASE stale'[a] /\ ~stale[a]
  <2>1. ASSUME NEW b \in Agents, PollStep(b) PROVE FALSE
    BY <1>1, <2>1 DEF PollStep, PollArrive, PollCloseRun, PollClosed, PollControl,
       PollReadmit, PollLoop, PollClaim, PollAgain, PollTimeout, PollNothing,
       PollLoad, PollDeliver, PollLost, PollAbort, rowVars
  <2>2. ASSUME NEW b \in Agents,
               \/ AgentStep(b) \/ IngestStart(b) \/ DrainRead(b) \/ DrainStep(b)
               \/ Deregister(b) \/ DeadlinePasses(b) \/ HoldPasses(b)
        PROVE  FALSE
    BY <1>1, <2>2 DEF AgentStep, Finish, Leave, Crash, Restart, StopSignal,
       PollRejected, IngestStart, DrainRead, DrainStep, DrainMark, DrainOff, DrainCut,
       DeadlinePasses, HoldPasses, Deregister, DropRow, rowVars
  <2>3. ASSUME NEW b \in Agents, GoStale(b)
        PROVE  ppc[a] = "idle" /\ (IF Up(a) THEN "partition" ELSE "quiet") \in faults
    <3>1. b = a
      BY <1>1, <2>3 DEF GoStale
    <3> QED
      BY <2>3, <3>1 DEF GoStale
  <2>4. ASSUME NEW r \in Runs, IngestStep(r) \/ KillJob(r) \/ KillStep(r) PROVE FALSE
    BY <1>1, <2>4 DEF IngestStep, IngestWrite, IngestLoad, IngestDrain, IngestOff,
       IngestForce, IngestForced, IngestEmit, IngestCut, KillJob, KillStep, KillQueue,
       KillEmit, KillCut, rowVars
  <2>5. CASE ReapStep \/ ReapOld \/ ServerCrash
    BY <1>1, <2>5 DEF ReapStep, ReapSweep, ReapPick, ReapClose, ReapOffline,
       ReapDeregister, DropRow, ReapOld, ServerCrash, rowVars
  <2>6. CASE UNCHANGED vars
    BY <1>1, <2>6 DEF vars, rowVars
  <2> QED
    BY <2>1, <2>2, <2>3, <2>4, <2>5, <2>6 DEF Next, TimeStep
<1>2. ASSUME a \in rlist' \/ rcur' = a PROVE Listed(a)
  BY <1>2, ReapSteps DEF Listed, ReapStep, ReapSweep, ReapPick, ReapClose,
     ReapOffline, ReapDeregister, ReapOld, ServerCrash, reapVars
<1> QED
  BY <1>1, <1>2 DEF Listed

\* An agent that is down and stays down has no poll in the server.
Silent(a) == "quiet" \in faults /\ amode[a] = "down" /\ ppc[a] = "idle"

LEMMA SilentStays ==
  ASSUME TypeOK, [Next]_vars, "restart" \notin faults, NEW a \in Agents, Silent(a)
  PROVE  Silent(a)'
<1> USE DEF TypeOK, PollsTyped, AgentsTyped, Silent
<1>0. faults' = faults
  BY FaultsFixed
<1>1. ASSUME PollStep(a) PROVE FALSE
  BY <1>1 DEF PollStep, PollArrive, PollCloseRun, PollClosed, PollControl,
     PollReadmit, PollLoop, PollClaim, PollAgain, PollTimeout, PollNothing,
     PollLoad, PollDeliver, PollLost, PollAbort
<1>2. CASE AgentStep(a)
  BY <1>0, <1>2 DEF AgentStep, Finish, Leave, Crash, Restart, StopSignal,
     PollRejected, Up, pollVars
<1>3. CASE ServerCrash
  BY <1>0, <1>3 DEF ServerCrash, AfterPoll
<1>4. CASE Rest(a)
  BY <1>0, <1>4 DEF Rest
<1> QED
  BY <1>1, <1>2, <1>3, <1>4, Touched

\* Without a drain it is the reaper alone that takes a runner offline.
LEMMA OfflineSteps ==
  ASSUME TypeOK, [Next]_vars, NEW a \in Agents, rstat'[a] = "offline",
         \A b \in Agents : Undrained(b), \A r \in Runs : NoDrainEnds(r)
  PROVE  \/ rstat[a] = "offline"
         \/ rpc = "close" /\ rtodo = {} /\ rcur = a
<1> USE DEF TypeOK, RowsTyped, Undrained, NoDrainEnds
<1>1. ASSUME NEW b \in Agents, PollStep(b) PROVE rstat[a] = "offline"
  BY <1>1 DEF PollStep, PollArrive, PollCloseRun, PollClosed, PollControl,
     PollReadmit, PollLoop, PollClaim, PollAgain, PollTimeout, PollNothing,
     PollLoad, PollDeliver, PollLost, PollAbort, Readmit, rowVars
<1>2. ASSUME NEW b \in Agents,
             AgentStep(b) \/ IngestStart(b) \/ DrainRead(b) \/ TimeStep(b)
      PROVE  rstat' = rstat
  BY <1>2 DEF AgentStep, Finish, Leave, Crash, Restart, StopSignal, PollRejected,
     IngestStart, DrainRead, TimeStep, DeadlinePasses, GoStale, HoldPasses, rowVars
<1>3. ASSUME NEW b \in Agents, DrainStep(b) PROVE FALSE
  BY <1>3 DEF DrainStep, DrainMark, DrainOff, DrainCut
<1>4. ASSUME NEW b \in Agents, DropRow(b) PROVE rstat[a] = "offline"
  BY <1>4 DEF DropRow
<1>5. ASSUME NEW r \in Runs, IngestStep(r) PROVE rstat' = rstat
  BY <1>5 DEF IngestStep, IngestWrite, IngestLoad, IngestDrain, IngestOff,
     IngestForce, IngestForced, IngestEmit, IngestCut, rowVars
<1>6. ASSUME NEW r \in Runs, KillJob(r) \/ KillStep(r) PROVE rstat' = rstat
  BY <1>6 DEF KillJob, KillStep, KillQueue, KillEmit, KillCut, rowVars
<1>7. ASSUME ReapOffline
      PROVE  rstat[a] = "offline" \/ (rpc = "close" /\ rtodo = {} /\ rcur = a)
  BY <1>7 DEF ReapOffline, SetRow, ReapTyped
<1>8. ASSUME ReapDeregister \/ \E b \in Agents : Deregister(b)
      PROVE  rstat[a] = "offline"
  BY <1>4, <1>8 DEF ReapDeregister, Deregister, ReapTyped
<1>9. ASSUME ReapSweep \/ ReapPick \/ ReapClose \/ ReapOld \/ ServerCrash
      PROVE  rstat' = rstat
  BY <1>9 DEF ReapSweep, ReapPick, ReapClose, ReapOld, ServerCrash, rowVars
<1>10. ASSUME UNCHANGED vars PROVE rstat' = rstat
  BY <1>10 DEF vars, rowVars
<1> QED
  BY <1>1, <1>2, <1>3, <1>5, <1>6, <1>7, <1>8, <1>9, <1>10 DEF Next, ReapStep

\* What the reaper may count on while the server keeps track: a runner on its
\* list is down for good; it closes every running run of the one it works on;
\* what it took offline has none left, so what it deletes later has none.
Reaped(a) ==
  /\ Listed(a) => Silent(a)
  /\ rpc = "old" => "quiet" \in faults /\ "expire" \in faults
  /\ rpc = "close" /\ rcur = a => RunningOf(a) \subseteq rtodo
  /\ "quiet" \in faults /\ "drain" \notin faults /\ rstat[a] = "offline" =>
       Silent(a) /\ RunningOf(a) = {}
  /\ rpc = "old" /\ a \in rlist => RunningOf(a) = {}

\* Nobody drains, or nobody's row is deleted for its silence.
Spoken ==
  "drain" \notin faults =>
    /\ \A a \in Agents : Undrained(a)
    /\ \A r \in Runs : NoDrainEnds(r)

LEMMA ReapedStep ==
  ASSUME EndInv, QueuedIsFree, [Next]_vars, KeepsTrack, Spoken,
         NEW a \in Agents, \A b \in Agents : Reaped(b)
  PROVE  Reaped(a)'
<1> USE LifecycleAssumption DEF EndInv, TypeOK, ReapTyped
<1>0. faults' = faults /\ ~ServerCrash /\ Reaped(a)
  BY FaultsFixed DEF ServerCrash, KeepsTrack
<1>1. ASSUME Listed(a)' PROVE Silent(a)'
  <2>1. CASE Listed(a)
    <3>1. Silent(a)
      BY <1>0, <2>1 DEF Reaped
    <3>2. "restart" \notin faults
      BY <3>1 DEF Silent, KeepsTrack
    <3> QED
      BY <3>1, <3>2, SilentStays
  <2>2. CASE ~Listed(a)
    <3>1. ppc[a] = "idle" /\ (IF Up(a) THEN "partition" ELSE "quiet") \in faults
      BY <1>1, <2>2, ListedSteps
    <3>2. ~Up(a) /\ "quiet" \in faults
      BY <3>1 DEF KeepsTrack
    <3>3. Silent(a)
      BY <3>1, <3>2 DEF Silent, Up
    <3> QED
      BY <3>2, <3>3, SilentStays DEF KeepsTrack
  <2> QED
    BY <2>1, <2>2
<1>2. ASSUME Silent(a) PROVE RunningOf(a)' \subseteq RunningOf(a)
  BY <1>2, RunningGrows DEF Silent
<1>3. ASSUME rpc' = "old"
      PROVE  /\ "quiet" \in faults /\ "expire" \in faults
             /\ a \in rlist' => RunningOf(a)' = {}
  <2>1. CASE ReapOld
    <3>1. /\ "expire" \in faults /\ rlist' # {}
          /\ \A b \in rlist' : b \in Agents /\ stale[b] /\ rstat[b] = "offline"
          /\ UNCHANGED runVars
      BY <2>1 DEF ReapOld
    <3>2. "quiet" \in faults
      BY <3>1 DEF Reaped, Listed, Silent
    <3>3. "drain" \notin faults
      BY <3>1, <3>2 DEF KeepsTrack
    <3>4. a \in rlist' => RunningOf(a) = {}
      BY <1>0, <3>1, <3>2, <3>3 DEF Reaped
    <3>5. RunningOf(a)' = RunningOf(a)
      BY <3>1 DEF runVars, RunningOf, Running
    <3> QED
      BY <3>1, <3>2, <3>4, <3>5
  <2>2. CASE ~ReapOld
    <3>1. rpc = "old" /\ rlist' \subseteq rlist
      BY <1>0, <1>3, <2>2, ReapSteps DEF ReapStep, ReapSweep, ReapPick, ReapClose,
         ReapOffline, ReapDeregister, reapVars
    <3>2. "quiet" \in faults /\ "expire" \in faults
      BY <1>0, <3>1 DEF Reaped
    <3>3. a \in rlist' => Silent(a) /\ RunningOf(a) = {}
      BY <1>0, <3>1 DEF Reaped, Listed
    <3> QED
      BY <1>2, <3>2, <3>3
  <2> QED
    BY <2>1, <2>2
<1>4. ASSUME rpc' = "close", rcur' = a PROVE RunningOf(a)' \subseteq rtodo'
  <2>1. CASE ReapPick
    <3>1. rtodo' = RunningOf(a) /\ UNCHANGED runVars
      BY <1>4, <2>1 DEF ReapPick
    <3> QED
      BY <3>1 DEF runVars, RunningOf, Running
  <2>2. CASE ReapClose
    <3>1. rcur = a /\ rpc = "close"
      BY <1>4, <2>2 DEF ReapClose
    <3>2. PICK r \in rtodo : CloseLost(r) /\ rtodo' = rtodo \ {r}
      BY <2>2 DEF ReapClose
    <3>3. status'[r] # "running"
      BY <3>2 DEF CloseLost, RunsTyped
    <3>4. RunningOf(a)' \subseteq RunningOf(a) /\ RunningOf(a) \subseteq rtodo
      BY <1>0, <1>2, <3>1 DEF Reaped, Listed
    <3>5. r \notin RunningOf(a)'
      BY <3>3 DEF RunningOf, Running
    <3> QED
      BY <3>2, <3>4, <3>5
  <2>3. CASE ~ReapPick /\ ~ReapClose
    <3>1. rpc = "close" /\ rcur = a /\ rtodo' = rtodo
      BY <1>0, <1>4, <2>3, ReapSteps DEF ReapStep, ReapSweep, ReapOffline,
         ReapDeregister, ReapOld, reapVars
    <3> QED
      BY <1>0, <1>2, <3>1 DEF Reaped, Listed
  <2> QED
    BY <2>1, <2>2, <2>3
<1>5. ASSUME "quiet" \in faults, "drain" \notin faults, rstat'[a] = "offline"
      PROVE  Silent(a)' /\ RunningOf(a)' = {}
  <2>1. Silent(a) /\ RunningOf(a) = {}
    <3>1. CASE rstat[a] = "offline"
      BY <1>0, <1>5, <3>1 DEF Reaped
    <3>2. CASE rpc = "close" /\ rtodo = {} /\ rcur = a
      BY <1>0, <3>2 DEF Reaped, Listed
    <3> QED
      BY <1>5, <3>1, <3>2, OfflineSteps DEF Spoken
  <2> QED
    BY <1>2, <1>5, <2>1, SilentStays DEF KeepsTrack
<1> QED
  BY <1>0, <1>1, <1>3, <1>4, <1>5 DEF Reaped

\* A run the agent has, or will be given, or that somebody is to close.
InCare(r, a) ==
  \/ r \in Holds(a) \/ r = prun[a] \/ r \in ptodo[a] \/ r \in lost[a]
  \/ amode[a] \in {"down", "stopping", "leaving"} \/ pstart[a] = "new"

\* A deferred close has on its list every run it will be taken to have closed.
Closing(a) == ppc[a] = "closeLost" => lost[a] \intersect RunningOf(a) \subseteq ptodo[a]

\* Others take a running run neither from its agent's slots nor off the list of
\* lost runs of a runner that is up.
LEMMA OthersSpare ==
  ASSUME EndInv, OwnerHasRow, [Next]_vars, KeepsTrack,
         NEW a \in Agents, NEW r \in RunningOf(a), r \in RunningOf(a)',
         Reaped(a), Uploads(r),
         ~PollStep(a), ~AgentStep(a)
  PROVE  /\ r \in Holds(a) => r \in Holds(a)'
         /\ r \in lost[a] => r \in lost'[a] \/ amode[a] = "down"
<1> USE LifecycleAssumption DEF EndInv, TypeOK
<1>0. /\ r \in Runs /\ status[r] = "running" /\ owner[r] = a
      /\ status'[r] = "running" /\ owner'[r] = a /\ rstat[a] # "gone"
  BY DEF RunningOf, Running, OwnerHasRow
<1>1. ASSUME UNCHANGED agentVars, lost'[a] = lost[a]
      PROVE  r \in Holds(a)' <=> r \in Holds(a)
  BY <1>1 DEF agentVars, Holds, SlotsOf
<1>2. ASSUME NEW b \in Agents \ {a}, PollStep(b) \/ AgentStep(b)
      PROVE  /\ active'[a] = active[a] /\ ending'[a] = ending[a]
             /\ refusing'[a] = refusing[a] /\ lost'[a] = lost[a]
  <2>1. CASE PollStep(b)
    <3>0. lost \in [Agents -> SUBSET Runs]
      BY DEF RowsTyped
    <3>1. CASE PollArrive(b) \/ PollCloseRun(b) \/ PollClosed(b)
      BY <3>1, <3>0 DEF PollArrive, PollCloseRun, PollClosed, SetRow, agentVars, rowVars
    <3>3. CASE PollControl(b) \/ PollReadmit(b) \/ PollLoop(b) \/ PollClaim(b)
      BY <3>3 DEF PollControl, PollReadmit, PollLoop, PollClaim, agentVars, rowVars
    <3>2. CASE \/ PollAgain(b) \/ PollTimeout(b) \/ PollLoad(b)
               \/ PollDeliver(b) \/ PollLost(b) \/ PollAbort(b)
      BY <3>2 DEF PollAgain, PollTimeout, PollNothing, PollLoad, PollDeliver, PollLost,
         PollAbort, SetRow, agentVars, rowVars, AgentsTyped, RowsTyped
    <3> QED
      BY <2>1, <3>1, <3>2, <3>3 DEF PollStep
  <2>2. CASE AgentStep(b)
    BY <2>2 DEF AgentStep, Finish, Leave, Crash, Restart, StopSignal, PollRejected,
       ProcessGone, rowVars, AgentsTyped
  <2> QED
    BY <1>2, <2>1, <2>2
<1>3. ASSUME NEW b \in Agents, IngestStart(b)
      PROVE  r \in Holds(a)' <=> r \in Holds(a)
  <2>1. PICK x \in ending[b] \union refusing[b] :
          \/ ending' = ending /\ refusing' = refusing
          \/ /\ status[x] # "running" \/ owner[x] # b \/ rstat[b] = "gone"
             /\ ending' = [ending EXCEPT ![b] = @ \ {x}]
             /\ refusing' = [refusing EXCEPT ![b] = @ \ {x}]
    BY <1>3 DEF IngestStart
  <2>2. active' = active
    BY <1>3 DEF IngestStart
  <2>3. b = a => x # r \/ (ending' = ending /\ refusing' = refusing)
    BY <1>0, <2>1
  <2> QED
    BY <2>1, <2>2, <2>3 DEF Holds, SlotsOf, AgentsTyped
<1>4. ASSUME NEW x \in Runs, IngestEmit(x)
      PROVE  r \in Holds(a)' <=> r \in Holds(a)
  <2>1. x # r
    BY <1>0, <1>4 DEF IngestEmit, Uploads, Terminal
  <2>2. active' = active
    BY <1>4 DEF IngestEmit
  <2> QED
    BY <1>4, <2>1, <2>2 DEF IngestEmit, Holds, SlotsOf, AgentsTyped
<1>5. ASSUME ReapOffline PROVE r \in lost[a] => r \in lost'[a] \/ amode[a] = "down"
  BY <1>5 DEF ReapOffline, SetRow, RowsTyped, Reaped, Listed, Silent
<1>6. ASSUME NEW b \in Agents, DropRow(b) PROVE lost'[a] = lost[a]
  BY <1>0, <1>6 DEF DropRow, RowsTyped
<1>7. ASSUME UNCHANGED agentVars, lost'[a] = lost[a]
      PROVE  /\ r \in Holds(a) => r \in Holds(a)'
             /\ r \in lost[a] => r \in lost'[a] \/ amode[a] = "down"
  BY <1>1, <1>7
<1>8. ASSUME NEW b \in Agents, DrainRead(b) \/ DrainStep(b) \/ TimeStep(b)
      PROVE  UNCHANGED agentVars /\ lost' = lost
  BY <1>8 DEF DrainRead, DrainStep, DrainMark, DrainOff, DrainCut, TimeStep, DeadlinePasses,
     GoStale, HoldPasses, rowVars
<1>9. ASSUME NEW b \in Agents, Deregister(b)
      PROVE  UNCHANGED agentVars /\ lost'[a] = lost[a]
  BY <1>6, <1>9 DEF Deregister
<1>10. ASSUME NEW x \in Runs, IngestStep(x), ~IngestEmit(x)
       PROVE  UNCHANGED agentVars /\ lost' = lost
  BY <1>10 DEF IngestStep, IngestWrite, IngestLoad, IngestDrain, IngestOff,
     IngestForce, IngestForced, IngestCut, rowVars
<1>11. ASSUME NEW x \in Runs, KillJob(x) \/ KillStep(x)
       PROVE  UNCHANGED agentVars /\ lost' = lost
  BY <1>11 DEF KillJob, KillStep, KillQueue, KillEmit, KillCut, rowVars
<1>12. ASSUME ReapDeregister PROVE UNCHANGED agentVars /\ lost'[a] = lost[a]
  BY <1>6, <1>12 DEF ReapDeregister, ReapTyped
<1>13. ASSUME ReapSweep \/ ReapPick \/ ReapClose \/ ReapOld
       PROVE  UNCHANGED agentVars /\ lost' = lost
  BY <1>13 DEF ReapSweep, ReapPick, ReapClose, ReapOld, rowVars
<1>14. ASSUME UNCHANGED vars PROVE UNCHANGED agentVars /\ lost' = lost
  BY <1>14 DEF vars, rowVars
<1>15. ~ServerCrash
  BY DEF ServerCrash, KeepsTrack
<1>17. ASSUME \/ \E b \in Agents : IngestStart(b)
              \/ \E x \in Runs : IngestEmit(x)
       PROVE  lost' = lost
  BY <1>17 DEF IngestStart, IngestEmit, rowVars
<1>18. ASSUME ReapOffline PROVE UNCHANGED agentVars
  BY <1>18 DEF ReapOffline
<1>19. CASE ReapOffline
  BY <1>5, <1>18, <1>19 DEF agentVars, Holds, SlotsOf
<1>20. CASE \E b \in Agents : PollStep(b) \/ AgentStep(b)
  BY <1>2, <1>20 DEF Holds, SlotsOf
<1>21. CASE (\E b \in Agents : IngestStart(b)) \/ \E x \in Runs : IngestEmit(x)
  BY <1>3, <1>4, <1>17, <1>21
<1> QED
  BY <1>7, <1>8, <1>9, <1>10, <1>11, <1>12, <1>13, <1>14, <1>15, <1>19, <1>20,
     <1>21 DEF Next, ReapStep

LEMMA ClosingStep ==
  ASSUME EndInv, QueuedIsFree, [Next]_vars, KeepsTrack, NEW a \in Agents, Closing(a)
  PROVE  Closing(a)'
<1> USE LifecycleAssumption
        DEF EndInv, TypeOK, PollsTyped, RowsTyped, RunsTyped, PollPc, Closing
<1> SUFFICES ASSUME ppc'[a] = "closeLost", NEW r \in lost'[a], r \in RunningOf(a)'
             PROVE  r \in ptodo'[a]
  OBVIOUS
<1>1. CASE PollArrive(a)
  <2>1. RunningOf(a)' = RunningOf(a)
    BY <1>1 DEF PollArrive, runVars, RunningOf, Running
  <2> QED
    BY <1>1, <2>1 DEF PollArrive
<1>2. CASE ~PollArrive(a)
  <2>1. ppc[a] = "closeLost" /\ lost'[a] \subseteq lost[a]
    <3>1. CASE PollStep(a)
      BY <1>2, <3>1 DEF PollStep, PollCloseRun, PollClosed, PollControl, PollReadmit,
         PollLoop, PollClaim, PollAgain, PollTimeout, PollNothing, PollLoad,
         PollDeliver, PollLost, PollAbort, PollOver, AnswerOrWait, rowVars
    <3>2. CASE AgentStep(a)
      BY <3>2 DEF AgentStep, Finish, Leave, Crash, Restart, StopSignal, PollRejected,
         rowVars, pollVars
    <3>3. CASE Rest(a)
      BY <3>3 DEF Rest
    <3>4. ~ServerCrash
      BY DEF ServerCrash, KeepsTrack
    <3> QED
      BY <3>1, <3>2, <3>3, <3>4, Touched
  <2>2. r \in RunningOf(a)
    BY <2>1, RunningGrows
  <2>3. r \in ptodo[a]
    BY <2>1, <2>2
  <2>4. CASE PollCloseRun(a)
    <3>1. PICK x \in ptodo[a] : CloseLost(x) /\ ptodo' = [ptodo EXCEPT ![a] = @ \ {x}]
      BY <2>4 DEF PollCloseRun
    <3>2. status'[x] # "running"
      BY <3>1 DEF CloseLost
    <3>3. x # r
      BY <3>2 DEF RunningOf, Running
    <3> QED
      BY <2>3, <3>1, <3>3
  <2>5. CASE PollStep(a) /\ ~PollCloseRun(a)
    BY <1>2, <2>1, <2>3, <2>5 DEF PollStep, PollClosed, PollControl, PollReadmit,
       PollLoop, PollClaim, PollAgain, PollTimeout, PollNothing, PollLoad,
       PollDeliver, PollLost, PollAbort, PollOver
  <2>6. CASE AgentStep(a)
    BY <2>3, <2>6 DEF AgentStep, Finish, Leave, Crash, Restart, StopSignal,
       PollRejected, pollVars
  <2>7. CASE Rest(a)
    BY <2>3, <2>7 DEF Rest
  <2>8. ~ServerCrash
    BY DEF ServerCrash, KeepsTrack
  <2> QED
    BY <2>4, <2>5, <2>6, <2>7, <2>8, Touched
<1> QED
  BY <1>1, <1>2

LEMMA InCareStep ==
  ASSUME EndInv, QueuedIsFree, OwnerHasRow, [Next]_vars, KeepsTrack,
         NEW a \in Agents, NEW r \in RunningOf(a), r \in RunningOf(a)',
         Polled(a), Closing(a), Reaped(a), Uploads(r), InCare(r, a)
  PROVE  InCare(r, a)'
<1> USE LifecycleAssumption
        DEF EndInv, TypeOK, PollsTyped, RowsTyped, AgentsTyped, PollPc, InCare
<1>0. r \in Runs /\ r # None /\ status'[r] = "running" /\ ~ServerCrash
  BY DEF RunningOf, Running, ServerCrash, KeepsTrack
<1>a. Holds(a) = active[a] \union ending[a] \union refusing[a]
  BY DEF Holds, SlotsOf
<1>b. Holds(a)' = active'[a] \union ending'[a] \union refusing'[a]
  BY DEF Holds, SlotsOf
<1>1. CASE PollArrive(a)
  <2>1. /\ Holds(a)' = Holds(a) /\ prun'[a] = prun[a] /\ amode'[a] = amode[a]
        /\ ptodo[a] = {}
    BY <1>1 DEF PollArrive, Polled, Holds, SlotsOf
  <2>2. CASE pstart[a] = "new"
    <3>1. r \in ptodo'[a] \/ r \in lost'[a]
      BY <1>1, <2>2 DEF PollArrive, Started
    <3> QED
      BY <3>1
  <2>3. CASE pstart[a] # "new"
    <3>1. r \in lost[a] => r \in lost'[a] \/ r \in ptodo'[a]
      BY <1>1, <2>3 DEF PollArrive
    <3> QED
      BY <2>1, <2>3, <3>1
  <2> QED
    BY <2>2, <2>3
<1>2. CASE PollCloseRun(a)
  <2>1. PICK x \in ptodo[a] : CloseLost(x) /\ ptodo' = [ptodo EXCEPT ![a] = @ \ {x}]
    BY <1>2 DEF PollCloseRun
  <2>2. status'[x] # "running"
    BY <2>1 DEF CloseLost, RunsTyped
  <2>3. r \in ptodo[a] => r \in ptodo'[a]
    BY <1>0, <2>1, <2>2
  <2> QED
    BY <1>2, <1>a, <1>b, <2>3 DEF PollCloseRun, rowVars, agentVars
<1>3. CASE PollClosed(a)
  <2>1. r \in lost[a] => r \in lost'[a]
    BY <1>3 DEF PollClosed, Closing
  <2> QED
    BY <1>3, <1>a, <1>b, <2>1 DEF PollClosed, agentVars
<1>4. CASE PollClaim(a)
  <2>1. prun[a] = None
    BY <1>4 DEF PollClaim, Polled
  <2> QED
    BY <1>0, <1>4, <1>a, <1>b, <2>1 DEF PollClaim, rowVars, agentVars
<1>5. CASE PollControl(a) \/ PollReadmit(a) \/ PollLoop(a) \/ PollLoad(a)
  BY <1>5, <1>a, <1>b DEF PollControl, PollReadmit, PollLoop, PollLoad, rowVars,
     agentVars
<1>6. CASE PollAgain(a) \/ PollTimeout(a)
  BY <1>6, <1>a, <1>b DEF PollAgain, PollTimeout, PollNothing, rowVars, agentVars
<1>7. CASE PollDeliver(a)
  <2>1. pstart[a] # "new" /\ ptodo[a] = {} /\ lost' = lost
    BY <1>7 DEF PollDeliver, Polled, rowVars
  <2>2. r \in Holds(a) \/ r = prun[a] => r \in Holds(a)'
    BY <1>0, <1>7, <1>a, <1>b DEF PollDeliver
  <2>3. amode[a] \in {"down", "stopping", "leaving"} =>
          amode'[a] \in {"down", "stopping", "leaving"}
    BY <1>7 DEF PollDeliver, AfterPoll
  <2> QED
    BY <2>1, <2>2, <2>3
<1>8. CASE PollAbort(a)
  BY <1>8 DEF PollAbort, Polled, agentVars
<1>9. ~PollLost(a)
  BY DEF PollLost, KeepsTrack
<1>10. CASE Finish(a)
  BY <1>10, <1>a, <1>b DEF Finish, rowVars, pollVars
<1>11. CASE Leave(a) \/ Crash(a) \/ PollRejected(a)
  BY <1>11 DEF Leave, Crash, PollRejected, ProcessGone
<1>12. CASE Restart(a) \/ StopSignal(a)
  BY <1>12 DEF Restart, StopSignal, AfterPoll
<1>13. CASE Rest(a) /\ ~PollStep(a) /\ ~AgentStep(a)
  BY <1>13, OthersSpare DEF Rest
<1> QED
  BY <1>0, <1>1, <1>2, <1>3, <1>4, <1>5, <1>6, <1>7, <1>8, <1>9, <1>10, <1>11,
     <1>12, <1>13, Touched DEF PollStep, AgentStep

\* While the server keeps track.
Tracked ==
  KeepsTrack =>
    /\ \A r \in Runs : Uploads(r)
    /\ \A a \in Agents : Reaped(a) /\ Closing(a)
    /\ \A r \in Running : owner[r] \in Agents /\ InCare(r, owner[r])

LEMMA TrackedInit ==
  ASSUME Init PROVE QueuedIsFree /\ OwnerHasRow /\ Spoken /\ Tracked
<1> USE LifecycleAssumption DEF Init
<1>1. QueuedIsFree /\ OwnerHasRow
  BY DEF QueuedIsFree, OwnerHasRow
<1>2. \A r \in Runs : Uploads(r) /\ NoDrainEnds(r) /\ status[r] = "queued"
  BY DEF Uploads, NoDrainEnds
<1>3. Running = {}
  BY <1>2 DEF Running
<1>4. \A a \in Agents : Undrained(a)
  BY DEF Undrained, InitFleet
<1>5. ASSUME NEW a \in Agents PROVE Reaped(a) /\ Closing(a)
  BY <1>3, <1>4 DEF Reaped, Closing, Listed, InitFleet
<1> QED
  BY <1>1, <1>2, <1>3, <1>4, <1>5 DEF Spoken, Tracked

LEMMA SpokenStep ==
  ASSUME TypeOK, Spoken, [Next]_vars PROVE Spoken'
<1>1. faults' = faults
  BY FaultsFixed
<1>2. CASE "drain" \in faults
  BY <1>1, <1>2 DEF Spoken
<1>3. CASE "drain" \notin faults
  <2>1. (\A a \in Agents : Undrained(a)) /\ \A r \in Runs : NoDrainEnds(r)
    BY <1>3 DEF Spoken
  <2>2. \A a \in Agents : Undrained(a)'
    BY <1>3, <2>1, UndrainedStep
  <2>3. \A r \in Runs : NoDrainEnds(r)'
    BY <2>1, NoDrainEndsStep
  <2> QED
    BY <2>2, <2>3 DEF Spoken
<1> QED
  BY <1>2, <1>3

LEMMA TrackedStep ==
  ASSUME EndInv, QueuedIsFree, OwnerHasRow, Spoken, \A a \in Agents : Polled(a),
         Tracked, [Next]_vars
  PROVE  Tracked'
<1>1. faults' = faults
  BY FaultsFixed
<1> SUFFICES ASSUME KeepsTrack
             PROVE  /\ \A r \in Runs : Uploads(r)'
                    /\ \A a \in Agents : Reaped(a)' /\ Closing(a)'
                    /\ \A r \in Running' : owner'[r] \in Agents /\ InCare(r, owner[r])'
  BY <1>1 DEF Tracked, KeepsTrack
<1>2. /\ \A r \in Runs : Uploads(r)
      /\ \A a \in Agents : Reaped(a) /\ Closing(a)
      /\ \A r \in Running : owner[r] \in Agents /\ InCare(r, owner[r])
  BY DEF Tracked
<1>3. ASSUME NEW r \in Runs PROVE Uploads(r)'
  BY <1>2, UploadsStep DEF KeepsTrack
<1>4. ASSUME NEW a \in Agents PROVE Reaped(a)' /\ Closing(a)'
  BY <1>2, ReapedStep, ClosingStep
<1>5. ASSUME NEW r \in Running' PROVE owner'[r] \in Agents /\ InCare(r, owner[r])'
  <2>1. r \in Runs /\ status'[r] = "running"
    BY DEF Running
  <2>2. ASSUME NEW a \in Agents, Taken(r, a)
        PROVE  owner'[r] \in Agents /\ InCare(r, owner[r])'
    BY <2>2 DEF Taken, InCare
  <2>3. CASE ~ \E a \in Agents : Taken(r, a)
    <3>1. owner'[r] = owner[r] \/ Dropped(r)
      BY <2>1, <2>3, OwnerSteps DEF EndInv
    <3>2. status[r] = "running"
      <4>1. status[r] = "running" \/ status[r] = "queued"
        BY <2>1, RunSteps DEF EndInv, RunStep, Kept, Claimed, EndedOwed, EndedRow,
           Paid, Missed, EndedMissed, Forgotten, Failed, Same, Terminal
      <4>2. ASSUME status[r] = "queued" PROVE FALSE
        <5>1. owner'[r] = None
          BY <2>1, <3>1, <4>2 DEF QueuedIsFree, Dropped
        <5>2. owner'[r] \in Agents
          BY <2>1, <4>2, RunSteps DEF EndInv, RunStep, Kept, Claimed, EndedOwed,
             EndedRow, Paid, Missed, EndedMissed, Forgotten, Failed, Same, Terminal
        <5> QED
          BY <5>1, <5>2, LifecycleAssumption
      <4> QED
        BY <4>1, <4>2
    <3>3. owner[r] \in Agents /\ InCare(r, owner[r])
      BY <1>2, <2>1, <3>2 DEF Running
    <3>4. r \in RunningOf(owner[r])
      BY <2>1, <3>2 DEF RunningOf, Running
    <3>5. ~Dropped(r)
      BY <1>2, <2>1, <3>3, <3>4 DEF Dropped, Reaped
    <3>6. owner'[r] = owner[r] /\ r \in RunningOf(owner[r])'
      BY <2>1, <3>1, <3>5 DEF RunningOf, Running
    <3>7. PICK a \in Agents : a = owner[r]
      BY <3>3
    <3>8. InCare(r, a)'
      BY <1>2, <2>1, <3>3, <3>4, <3>6, <3>7, InCareStep
    <3>9. InCare(r, owner[r])' = InCare(r, a)'
      BY <3>6, <3>7 DEF InCare, Holds, SlotsOf
    <3> QED
      BY <3>3, <3>6, <3>8, <3>9
  <2> QED
    BY <2>2, <2>3
<1> QED
  BY <1>3, <1>4, <1>5

\* A run the server shows as running is in somebody's care, for any number of runs
\* and runners, and whatever of kills, crashes, restarts, stops, drains, silences
\* and deletions KeepsTrack lets happen.
THEOREM HeldWhileRunning == Spec => []RunningIsHeld
<1>1. Tracked => RunningIsHeld
  BY DEF Tracked, InCare, RunningIsHeld
<1>2. EndInv /\ QueuedIsFree /\ OwnerHasRow /\ Spoken /\ Tracked
        /\ (\A a \in Agents : Polled(a)) /\ [Next]_vars
      => QueuedIsFree' /\ OwnerHasRow' /\ Spoken' /\ Tracked'
  BY QueuedIsFreeStep, OwnerHasRowStep, SpokenStep, TrackedStep DEF EndInv
<1> QED
  BY <1>1, <1>2, TrackedInit, EndAlways, PolledAlways, PTL DEF Spec

-----------------------------------------------------------------------------
(* The slots of a runner.  Its load column is counted in statements of their  *)
(* own, beside those that claim and end its runs; what follows says when the  *)
(* two agree.                                                                *)

\* A run that was claimed for a runner, whatever has become of the two since.
Own(r, a) ==
  /\ r \in Runs /\ status[r] # "queued"
  /\ owner[r] = a \/ (owner[r] = None /\ rstat[a] = "gone")

LEMMA OwnStays ==
  ASSUME EndInv, [Next]_vars, NEW a \in Agents, NEW r, Own(r, a)
  PROVE  Own(r, a)'
<1>1. /\ r \in Runs /\ status[r] # "queued"
      /\ owner[r] = a \/ (owner[r] = None /\ rstat[a] = "gone")
  BY DEF Own
<1>2. status'[r] # "queued"
  BY <1>1, LeavesQueue
<1>3. rstat[a] = "gone" => rstat'[a] = "gone"
  BY GoneStays DEF EndInv
<1>4. owner'[r] = owner[r] \/ (owner[r] # None /\ owner'[r] = None /\ rstat'[owner[r]] = "gone")
  BY <1>1, OwnerSteps, LifecycleAssumption DEF EndInv, Dropped, Taken
<1> QED
  BY <1>1, <1>2, <1>3, <1>4 DEF Own

LEMMA RunningIsOwn ==
  ASSUME NEW a \in Agents, NEW r \in RunningOf(a) PROVE Own(r, a)
BY DEF RunningOf, Running, Own

\* What a runner's row and its poll say of its slots: a deleted row counts none,
\* a poll counts the runs it closes until it has settled them, and closes and
\* carries only runs of its runner.
PollBooks(a) ==
  /\ rstat[a] = "gone" => load[a] = 0
  /\ pn[a] > 0 => ppc[a] \in {"closeAll", "closeLost"}
  /\ ppc[a] = "load" => Own(prun[a], a)
  /\ ptodo[a] # {} => ppc[a] \in {"closeAll", "closeLost"}
  /\ \A r \in ptodo[a] : Own(r, a)

LEMMA LoadSteps ==
  ASSUME TypeOK, [Next]_vars, NEW a \in Agents, load[a] = 0
  PROVE  load'[a] = 0 \/ (PollLoad(a) /\ rstat[a] # "gone")
<1> USE DEF TypeOK, RowsTyped, PollsTyped, FinsTyped, ReapTyped
<1>1. ASSUME NEW b \in Agents, PollStep(b), ~PollLoad(b), ~PollClosed(b) PROVE load' = load
  BY <1>1 DEF PollStep, PollArrive, PollCloseRun, PollControl,
     PollReadmit, PollLoop, PollClaim, PollAgain, PollTimeout, PollNothing,
     PollDeliver, PollLost, PollAbort, rowVars
<1>2. ASSUME NEW b \in Agents, PollClosed(b) PROVE load'[a] = 0
  BY <1>2 DEF PollClosed, SetRow, Floor0
<1>3. ASSUME NEW b \in Agents, PollLoad(b) PROVE load'[a] = 0 \/ (b = a /\ rstat[a] # "gone")
  BY <1>3 DEF PollLoad, SetRow
<1>4. ASSUME NEW b \in Agents,
             AgentStep(b) \/ IngestStart(b) \/ DrainRead(b) \/ DrainStep(b) \/ TimeStep(b)
      PROVE  load' = load
  BY <1>4 DEF AgentStep, Finish, Leave, Crash, Restart, StopSignal, PollRejected,
     IngestStart, DrainRead, DrainStep, DrainMark, DrainOff, DrainCut, TimeStep,
     DeadlinePasses, GoStale, HoldPasses, rowVars
<1>5. ASSUME NEW b \in Agents, Deregister(b) PROVE load'[a] = 0
  BY <1>5 DEF Deregister, DropRow
<1>6. ASSUME NEW r \in Runs, IngestStep(r) PROVE load'[a] = 0
  BY <1>6 DEF IngestStep, IngestWrite, IngestLoad, IngestDrain, IngestOff,
     IngestForce, IngestForced, IngestEmit, IngestCut, SetRow, Floor0, rowVars
<1>7. ASSUME NEW r \in Runs, KillJob(r) \/ KillStep(r) PROVE load' = load
  BY <1>7 DEF KillJob, KillStep, KillQueue, KillEmit, KillCut, rowVars
<1>8. CASE ReapStep \/ ReapOld \/ ServerCrash
  BY <1>8 DEF ReapStep, ReapSweep, ReapPick, ReapClose, ReapOffline, SetRow,
     ReapDeregister, DropRow, ReapOld, ServerCrash, rowVars
<1>9. CASE UNCHANGED vars
  BY <1>9 DEF vars, rowVars
<1> QED
  BY <1>1, <1>2, <1>3, <1>4, <1>5, <1>6, <1>7, <1>8, <1>9 DEF Next

\* A row that is deleted, or that comes to be, counts no slot.
LEMMA GoneCounts ==
  ASSUME TypeOK, [Next]_vars, NEW a \in Agents, rstat[a] = "gone" => load[a] = 0
  PROVE  rstat'[a] = "gone" => load'[a] = 0
<1> USE DEF TypeOK, RowsTyped, RunsTyped
<1>1. CASE rstat[a] = "gone"
  BY <1>1, LoadSteps
<1>2. CASE rstat[a] # "gone"
  <2>0. ASSUME NEW b \in Agents, NEW v \in {"online", "offline", "draining"}
        PROVE  SetRow(rstat, b, v)[a] # "gone"
    BY <1>2, <2>0 DEF SetRow
  <2>1. ASSUME NEW b \in Agents, PollStep(b) PROVE rstat'[a] # "gone"
    BY <1>2, <2>1 DEF PollStep, PollArrive, PollCloseRun, PollClosed, PollControl,
       PollReadmit, PollLoop, PollClaim, PollAgain, PollTimeout, PollNothing,
       PollLoad, PollDeliver, PollLost, PollAbort, Readmit, rowVars
  <2>2. ASSUME NEW b \in Agents,
               AgentStep(b) \/ IngestStart(b) \/ DrainRead(b) \/ TimeStep(b)
        PROVE  rstat' = rstat
    BY <2>2 DEF AgentStep, Finish, Leave, Crash, Restart, StopSignal, PollRejected,
       IngestStart, DrainRead, TimeStep, DeadlinePasses, GoStale, HoldPasses, rowVars
  <2>3. ASSUME NEW b \in Agents, DrainStep(b) PROVE rstat'[a] # "gone"
    BY <1>2, <2>0, <2>3 DEF DrainStep, DrainMark, DrainOff, DrainCut, rowVars
  <2>4. ASSUME NEW b \in Agents, DropRow(b)
        PROVE  rstat'[a] = "gone" => load'[a] = 0
    BY <1>2, <2>4 DEF DropRow
  <2>5. ASSUME NEW r \in Runs, IngestStep(r) PROVE rstat'[a] # "gone"
    <3>1. fpc[r] # "idle" /\ fby[r] \in Agents
      BY <2>5 DEF IngestStep, IngestWrite, IngestLoad, IngestDrain, IngestOff,
         IngestForce, IngestForced, IngestEmit, IngestCut, FinsTyped
    <3>2. SetRow(rstat, fby[r], "offline")[a] # "gone"
      BY <3>1, <2>0
    <3> QED
      BY <1>2, <2>5, <3>2 DEF IngestStep, IngestWrite, IngestLoad, IngestDrain, IngestOff,
         IngestForce, IngestForced, IngestEmit, IngestCut, rowVars
  <2>6. ASSUME NEW r \in Runs, KillJob(r) \/ KillStep(r) PROVE rstat' = rstat
    BY <2>6 DEF KillJob, KillStep, KillQueue, KillEmit, KillCut, rowVars
  <2>7. CASE ReapSweep \/ ReapPick \/ ReapClose \/ ReapOld \/ ServerCrash
    BY <2>7 DEF ReapSweep, ReapPick, ReapClose, ReapOld, ServerCrash, rowVars
  <2>8. CASE ReapOffline
    <3>1. SetRow(rstat, rcur, "offline")[a] # "gone"
      BY <2>0, <2>8 DEF ReapOffline, ReapTyped
    <3> QED
      BY <2>8, <3>1 DEF ReapOffline
  <2>9. CASE ReapDeregister
    BY <2>4, <2>9 DEF ReapDeregister, ReapTyped
  <2>10. CASE UNCHANGED vars
    BY <2>10 DEF vars, rowVars
  <2>11. ASSUME NEW b \in Agents, Deregister(b) PROVE rstat'[a] = "gone" => load'[a] = 0
    BY <2>4, <2>11 DEF Deregister
  <2> QED
    BY <1>2, <2>1, <2>2, <2>3, <2>5, <2>6, <2>7, <2>8, <2>9, <2>10, <2>11 DEF Next, ReapStep
<1> QED
  BY <1>1, <1>2

\* Only the steps of its own poll change what a runner's poll counts.
LEMMA PnSteps ==
  ASSUME TypeOK, [Next]_vars, NEW a \in Agents
  PROVE  PollStep(a) \/ ServerCrash \/ pn'[a] = pn[a]
<1> USE DEF TypeOK, PollsTyped
<1>1. ASSUME NEW b \in Agents, b # a, PollStep(b) PROVE pn'[a] = pn[a]
  BY <1>1 DEF PollStep, PollArrive, PollCloseRun, PollClosed, PollControl,
     PollReadmit, PollLoop, PollClaim, PollAgain, PollTimeout, PollNothing,
     PollLoad, PollDeliver, PollLost, PollAbort, PollOver
<1>2. ASSUME NEW b \in Agents,
             \/ AgentStep(b) \/ IngestStart(b) \/ DrainRead(b) \/ DrainStep(b)
             \/ TimeStep(b) \/ Deregister(b)
      PROVE  pn' = pn
  BY <1>2 DEF AgentStep, Finish, Leave, Crash, Restart, StopSignal, PollRejected,
     IngestStart, DrainRead, DrainStep, DrainMark, DrainOff, DrainCut, TimeStep,
     DeadlinePasses, GoStale, HoldPasses, Deregister, pollVars
<1>3. ASSUME NEW r \in Runs, IngestStep(r) \/ KillJob(r) \/ KillStep(r) PROVE pn' = pn
  BY <1>3 DEF IngestStep, IngestWrite, IngestLoad, IngestDrain, IngestOff,
     IngestForce, IngestForced, IngestEmit, IngestCut, KillJob, KillStep, KillQueue, KillEmit, KillCut, pollVars
<1>4. CASE ReapStep \/ ReapOld
  BY <1>4 DEF ReapStep, ReapSweep, ReapPick, ReapClose, ReapOffline,
     ReapDeregister, ReapOld, pollVars
<1>5. CASE UNCHANGED vars
  BY <1>5 DEF vars, pollVars
<1> QED
  BY <1>1, <1>2, <1>3, <1>4, <1>5 DEF Next

\* An upload that has still to give a slot back, or to count none.
GivesBack(r) == fpc[r] \in {"load", "force"}

\* The ways a slot stays taken for nothing: an operator's stop, a server death, a
\* statement that fails, a connection that ends, an agent that dies before its
\* upload has given the slot back, a poll broken off while it closes lost runs, and
\* a run that is over before its claim has been counted.
Unbroken ==
  /\ {"kill", "serverCrash", "dbError", "cut"} \cap faults = {}
  /\ \A r \in Runs : GivesBack(r) => ~UploadBroken(r)
  /\ \A a \in Agents : ppc[a] \in {"closeAll", "closeLost"} => plive[a]
  /\ \A a \in Agents : ppc[a] = "load" => status[prun[a]] = "running"

LEMMA PollBooksStep ==
  ASSUME EndInv, QueuedIsFree, Unbroken, [Next]_vars, NEW a \in Agents, PollBooks(a)
  PROVE  PollBooks(a)'
<1> USE LifecycleAssumption DEF EndInv, TypeOK, PollsTyped
<1>0. ~ServerCrash
  BY DEF ServerCrash, Unbroken
<1>1. rstat'[a] = "gone" => load'[a] = 0
  BY GoneCounts DEF PollBooks
<1>2. pn'[a] > 0 => ppc'[a] \in {"closeAll", "closeLost"}
  <2>1. CASE PollStep(a)
    <3>1. ASSUME ~PollCloseRun(a), ~PollClosed(a), ~PollAbort(a), pn'[a] = pn[a]
          PROVE  pn[a] = 0
      <4>1. ppc[a] \notin {"closeAll", "closeLost"}
        BY <2>1, <3>1 DEF PollStep, PollArrive, PollControl, PollReadmit, PollLoop,
           PollClaim, PollAgain, PollTimeout, PollNothing, PollLoad, PollDeliver, PollLost
      <4> QED
        BY <4>1 DEF PollBooks
    <3>2. CASE PollCloseRun(a)
      BY <3>2 DEF PollCloseRun
    <3>3. CASE PollClosed(a)
      BY <3>3 DEF PollClosed
    <3>4. CASE PollAbort(a) \/ PollDeliver(a) \/ PollLost(a)
      BY <3>4 DEF PollAbort, PollDeliver, PollLost, PollOver
    <3>5. CASE PollArrive(a) \/ PollControl(a) \/ PollReadmit(a) \/ PollLoop(a)
               \/ PollClaim(a) \/ PollAgain(a) \/ PollTimeout(a) \/ PollLoad(a)
      <4>1. pn' = pn
        BY <3>5 DEF PollArrive, PollControl, PollReadmit, PollLoop, PollClaim,
           PollAgain, PollTimeout, PollNothing, PollLoad
      <4>2. ppc[a] \notin {"closeAll", "closeLost"}
        BY <3>5 DEF PollArrive, PollControl, PollReadmit, PollLoop, PollClaim,
           PollAgain, PollTimeout, PollNothing, PollLoad
      <4> QED
        BY <4>1, <4>2 DEF PollBooks
    <3> QED
      BY <2>1, <3>2, <3>3, <3>4, <3>5 DEF PollStep
  <2>2. CASE ~PollStep(a)
    <3>1. pn'[a] = pn[a]
      BY <1>0, <2>2, PnSteps
    <3>2. ppc'[a] = ppc[a]
      <4>1. CASE AgentStep(a)
        BY <4>1 DEF AgentStep, Finish, Leave, Crash, Restart, StopSignal, PollRejected, pollVars
      <4> QED
        BY <1>0, <2>2, <4>1, Touched DEF Rest
    <3> QED
      BY <3>1, <3>2 DEF PollBooks
  <2> QED
    BY <2>1, <2>2
<1>3. /\ ppc'[a] = "load" => Own(prun'[a], a) \/ PollClaim(a)
      /\ ~PollArrive(a) => ptodo'[a] \subseteq ptodo[a]
  <2>1. CASE PollStep(a)
    BY <2>1 DEF PollBooks, PollStep, PollArrive, PollCloseRun, PollClosed, PollControl,
       AnswerOrWait, PollReadmit, PollLoop, PollClaim, PollAgain, PollTimeout, PollNothing,
       PollLoad, PollDeliver, PollLost, PollAbort, PollOver
  <2>2. CASE AgentStep(a)
    BY <2>2 DEF PollBooks, AgentStep, Finish, Leave, Crash, Restart, StopSignal,
       PollRejected, pollVars
  <2>3. CASE Rest(a)
    BY <2>3 DEF Rest, PollBooks
  <2> QED
    BY <1>0, <2>1, <2>2, <2>3, Touched
<1>6. ptodo'[a] # {} => ppc'[a] \in {"closeAll", "closeLost"}
  <2>1. CASE PollStep(a)
    <3>1. CASE PollArrive(a)
      BY <3>1 DEF PollArrive, PollBooks
    <3>2. CASE PollCloseRun(a) \/ PollClosed(a)
      BY <3>2 DEF PollCloseRun, PollClosed
    <3>3. CASE PollControl(a) \/ PollReadmit(a) \/ PollLoop(a) \/ PollClaim(a)
               \/ PollAgain(a) \/ PollTimeout(a) \/ PollLoad(a)
      BY <3>3 DEF PollControl, PollReadmit, PollLoop, PollClaim, PollAgain, PollTimeout,
         PollNothing, PollLoad, PollBooks
    <3>4. CASE PollAbort(a) \/ PollDeliver(a) \/ PollLost(a)
      BY <3>4 DEF PollAbort, PollDeliver, PollLost, PollOver
    <3> QED
      BY <2>1, <3>1, <3>2, <3>3, <3>4 DEF PollStep
  <2>2. CASE AgentStep(a)
    BY <2>2 DEF PollBooks, AgentStep, Finish, Leave, Crash, Restart, StopSignal,
       PollRejected, pollVars
  <2>3. CASE Rest(a)
    BY <2>3 DEF Rest, PollBooks
  <2> QED
    BY <1>0, <2>1, <2>2, <2>3, Touched
<1>4. ppc'[a] = "load" => Own(prun[a], a)'
  <2>1. CASE PollClaim(a)
    <3>1. PICK r \in Runs : /\ status' = [status EXCEPT ![r] = "running"]
                            /\ owner' = [owner EXCEPT ![r] = a]
                            /\ prun' = [prun EXCEPT ![a] = r]
      BY <2>1 DEF PollClaim, Claimable
    <3> QED
      BY <3>1 DEF Own, RunsTyped
  <2>2. CASE ~PollClaim(a) /\ ppc'[a] = "load"
    <3>1. Own(prun'[a], a)
      BY <1>3, <2>2
    <3>2. PICK r \in Runs : r = prun'[a]
      BY <3>1 DEF Own
    <3>3. Own(r, a)'
      BY <3>1, <3>2, OwnStays
    <3> QED
      BY <3>2, <3>3 DEF Own
  <2> QED
    BY <2>1, <2>2
<1>5. \A r \in ptodo'[a] : Own(r, a)'
  <2>1. ASSUME NEW r \in ptodo'[a] PROVE Own(r, a)
    <3>1. CASE PollArrive(a)
      <4>1. ptodo'[a] \subseteq ptodo[a] \cup RunningOf(a)
        BY <3>1 DEF PollArrive
      <4> QED
        BY <4>1, RunningIsOwn DEF PollBooks
    <3>2. CASE ~PollArrive(a)
      BY <1>3, <3>2 DEF PollBooks
    <3> QED
      BY <3>1, <3>2
  <2>2. ptodo'[a] \subseteq Runs
    <3>1. TypeOK'
      BY TypeNext
    <3> QED
      BY <3>1
  <2> QED
    BY <2>1, <2>2, OwnStays
<1> QED
  BY <1>1, <1>2, <1>4, <1>5, <1>6 DEF PollBooks

\* The same of an upload and of the runs it forces to an end.
UploadBooks(r) ==
  /\ fpc[r] # "idle" => Own(r, fby[r])
  /\ \A x \in ftodo[r] : fpc[r] = "force" /\ Own(x, fby[r])

LEMMA UploadBooksStep ==
  ASSUME EndInv, Unbroken, [Next]_vars, NEW r \in Runs, UploadBooks(r)
  PROVE  UploadBooks(r)'
<1> USE DEF EndInv, TypeOK, FinsTyped
<1>0. ~ServerCrash
  BY DEF ServerCrash, Unbroken
<1>1. ASSUME fpc'[r] = fpc[r], fby'[r] = fby[r], ftodo'[r] \subseteq ftodo[r]
      PROVE  UploadBooks(r)'
  <2>1. CASE fpc[r] = "idle"
    BY <1>1, <2>1 DEF UploadBooks
  <2>2. CASE fpc[r] # "idle"
    <3>1. PICK a \in Agents : a = fby[r]
      BY <2>2
    <3>2. Own(r, a)' /\ \A x \in ftodo[r] : Own(x, a)'
      BY <2>2, <3>1, OwnStays DEF UploadBooks
    <3> QED
      BY <1>1, <2>2, <3>1, <3>2 DEF UploadBooks, Own
  <2> QED
    BY <2>1, <2>2
<1>2. ASSUME NEW a \in Agents, IngestStart(a) PROVE UploadBooks(r)'
  <2>1. CASE fpc'[r] = fpc[r] /\ fby'[r] = fby[r]
    BY <1>1, <1>2, <2>1 DEF IngestStart
  <2>2. CASE ~(fpc'[r] = fpc[r] /\ fby'[r] = fby[r])
    <3>1. /\ fpc[r] = "idle" /\ fby'[r] = a /\ r \in RunningOf(a)
          /\ ftodo' = ftodo /\ UNCHANGED runVars
      BY <1>2, <2>2 DEF IngestStart, RunningOf, Running
    <3>2. ftodo[r] = {}
      BY <3>1 DEF UploadBooks
    <3>3. Own(r, a)'
      BY <3>1, RunningIsOwn, OwnStays
    <3> QED
      BY <3>1, <3>2, <3>3 DEF UploadBooks, Own
  <2> QED
    BY <2>1, <2>2
<1>3. ASSUME NEW x \in Runs, IngestStep(x) PROVE UploadBooks(r)'
  <2>1. CASE x # r
    <3>1. fpc'[r] = fpc[r] /\ fby'[r] = fby[r] /\ ftodo'[r] = ftodo[r]
      BY <1>3, <2>1 DEF IngestStep, IngestWrite, IngestLoad, IngestDrain, IngestOff,
         IngestForce, IngestForced, IngestEmit, IngestCut
    <3> QED
      BY <1>1, <3>1
  <2>2. CASE x = r
    <3>1. PICK a \in Agents : a = fby[r] /\ fpc[r] # "idle"
      BY <1>3, <2>2 DEF IngestStep, IngestWrite, IngestLoad, IngestDrain, IngestOff,
         IngestForce, IngestForced, IngestEmit, IngestCut
    <3>2. Own(r, a) /\ \A y \in ftodo[r] : fpc[r] = "force" /\ Own(y, a)
      BY <3>1 DEF UploadBooks
    <3>3. Own(r, a)' /\ \A y \in ftodo[r] : Own(y, a)'
      BY <3>2, OwnStays
    <3>4. CASE IngestDrain(r)
      <4>1. \A y \in RunningOf(a) : Own(y, a)'
        BY RunningIsOwn, OwnStays
      <4>2. ftodo[r] = {}
        BY <3>2, <3>4 DEF IngestDrain
      <4>3. /\ fby' = fby
            /\ ftodo'[r] = {} \/ (fpc'[r] = "force" /\ ftodo'[r] = RunningOf(a))
        BY <3>1, <3>4, <4>2 DEF IngestDrain
      <4> QED
        BY <3>1, <3>3, <4>1, <4>3 DEF UploadBooks, Own
    <3>5. CASE IngestEmit(r) \/ IngestCut(r)
      BY <3>2, <3>5 DEF IngestEmit, IngestCut, UploadBooks
    <3>6. CASE IngestForce(r)
      BY <3>1, <3>3, <3>6 DEF IngestForce, UploadBooks, Own
    <3>7. CASE IngestWrite(r) \/ IngestLoad(r) \/ IngestOff(r) \/ IngestForced(r)
      <4>1. ftodo[r] = {} /\ ftodo' = ftodo /\ fby' = fby
        BY <3>2, <3>7 DEF IngestWrite, IngestLoad, IngestOff, IngestForced
      <4> QED
        BY <3>1, <3>3, <4>1 DEF UploadBooks, Own
    <3> QED
      BY <1>3, <2>2, <3>4, <3>5, <3>6, <3>7 DEF IngestStep
  <2> QED
    BY <2>1, <2>2
<1>4. CASE UNCHANGED finVars
  BY <1>1, <1>4 DEF finVars
<1> QED
  BY <1>0, <1>2, <1>3, <1>4, FinSteps

\* And of the reaper.
ReapBooks ==
  /\ rpc # "close" => rcur = None
  /\ \A r \in rtodo : rpc = "close" /\ Own(r, rcur)

LEMMA ReapBooksStep ==
  ASSUME EndInv, Unbroken, [Next]_vars, ReapBooks
  PROVE  ReapBooks'
<1> USE DEF EndInv, TypeOK, ReapTyped
<1>0. ~ServerCrash
  BY DEF ServerCrash, Unbroken
<1>1. ASSUME rpc' = rpc, rcur' = rcur, rtodo' \subseteq rtodo PROVE ReapBooks'
  <2>1. CASE rpc # "close"
    BY <1>1, <2>1 DEF ReapBooks
  <2>2. CASE rpc = "close"
    <3>1. PICK a \in Agents : a = rcur
      BY <2>2
    <3>2. \A r \in rtodo : Own(r, a)'
      BY <2>2, <3>1, OwnStays DEF ReapBooks
    <3> QED
      BY <1>1, <2>2, <3>1, <3>2 DEF ReapBooks, Own
  <2> QED
    BY <2>1, <2>2
<1>2. CASE ReapSweep \/ ReapOld \/ ReapDeregister
  BY <1>2 DEF ReapSweep, ReapOld, ReapDeregister, ReapBooks
<1>3. CASE ReapPick
  <2>1. PICK a \in Agents : rcur' = a /\ rtodo' = RunningOf(a) /\ rpc' = "close"
    BY <1>3 DEF ReapPick
  <2>2. \A r \in RunningOf(a) : Own(r, a)'
    BY RunningIsOwn, OwnStays
  <2> QED
    BY <2>1, <2>2 DEF ReapBooks, Own
<1>4. CASE ReapClose
  BY <1>1, <1>4 DEF ReapClose
<1>5. CASE ReapOffline
  BY <1>5 DEF ReapOffline, ReapBooks
<1>6. CASE UNCHANGED reapVars
  BY <1>1, <1>6 DEF reapVars
<1> QED
  BY <1>0, <1>2, <1>3, <1>4, <1>5, <1>6, ReapSteps DEF ReapStep

\* The runs a runner's load stands for: those it runs, and those whose upload has
\* not given the slot back; less the one whose claim is not counted yet.
Charged(a) ==
  {r \in Runs : \/ status[r] = "running" /\ owner[r] = a
                \/ fpc[r] = "load" /\ fby[r] = a}
Uncounted(a) == IF ppc[a] = "load" THEN {prun[a]} ELSE {}
Counted(a)   == Charged(a) \ Uncounted(a)

\* The reaper, or a drain past its deadline, is about to count none.
Zeroed(a) == rcur = a \/ \E r \in Runs : fpc[r] = "force" /\ fby[r] = a

\* No more slots are taken than there are runs to give them back.
Within(a) == Zeroed(a) \/ load[a] <= Cardinality(Counted(a)) + pn[a]

\* What a step does to a runner's slots: nothing, or it counts none, or it ends a
\* run and counts it, or settles what it counted, or starts a run, or ends one.
Accounts(a) ==
  \/ load'[a] = 0
  \/ Zeroed(a)'
  \/ /\ Counted(a) \subseteq Counted(a)'
     /\ \/ pn'[a] = pn[a] /\ load'[a] = load[a]
        \/ pn'[a] = 0 /\ load'[a] = Floor0(load[a] - pn[a])
        \/ \E r \in Counted(a)' \ Counted(a) : pn'[a] = pn[a] /\ load'[a] = load[a] + 1
  \/ \E r \in Runs :
       /\ Counted(a) \ {r} \subseteq Counted(a)'
       /\ \/ pn'[a] = pn[a] + 1 /\ load'[a] = load[a]
          \/ pn'[a] = pn[a] /\ load'[a] = Floor0(load[a] - 1)

LEMMA WithinStep ==
  ASSUME TypeOK, TypeOK', NEW a \in Agents, Within(a), Accounts(a),
         Zeroed(a) => Zeroed(a)' \/ load'[a] = 0
  PROVE  Within(a)'
<1> DEFINE C == Counted(a)
           D == Counted(a)'
<1>1. /\ load[a] \in Nat /\ load'[a] \in Nat /\ pn[a] \in Nat /\ pn'[a] \in Nat
  BY DEF TypeOK, RowsTyped, PollsTyped
<1>2. IsFiniteSet(C) /\ IsFiniteSet(D)
  <2>1. Counted(a) \subseteq Runs /\ Counted(a)' \subseteq Runs
    BY DEF Counted, Charged
  <2> QED
    BY <2>1, LifecycleAssumption, FS_Subset
<1>3. Cardinality(C) \in Nat /\ Cardinality(D) \in Nat
  BY <1>2, FS_CardinalityType
<1> HIDE DEF C, D
<1>4. load'[a] = 0 => Within(a)'
  BY <1>1, <1>3 DEF Within, D
<1>5. CASE Zeroed(a) \/ Zeroed(a)' \/ load'[a] = 0
  BY <1>4, <1>5 DEF Within
<1>6. CASE ~Zeroed(a) /\ ~Zeroed(a)' /\ load'[a] # 0
  <2>0. load[a] <= Cardinality(C) + pn[a]
    BY <1>6 DEF Within, C
  <2>1. SUFFICES load'[a] <= Cardinality(D) + pn'[a]
    BY DEF Within, D
  <2>2. CASE C \subseteq D
    <3>1. Cardinality(C) <= Cardinality(D)
      BY <1>2, <2>2, FS_Subset
    <3>2. ASSUME NEW r \in D \ C PROVE Cardinality(C) + 1 <= Cardinality(D)
      <4>1. C \cup {r} \subseteq D /\ Cardinality(C \cup {r}) = Cardinality(C) + 1
        BY <1>2, <2>2, FS_AddElement
      <4> QED
        BY <1>2, <4>1, FS_Subset
    <3>3. CASE pn'[a] = pn[a] /\ load'[a] = load[a]
      BY <1>1, <1>3, <2>0, <3>1, <3>3
    <3>4. CASE pn'[a] = 0 /\ load'[a] = Floor0(load[a] - pn[a])
      BY <1>1, <1>3, <2>0, <3>1, <3>4 DEF Floor0
    <3>5. CASE \E r \in D \ C : pn'[a] = pn[a] /\ load'[a] = load[a] + 1
      BY <1>1, <1>3, <2>0, <3>2, <3>5
    <3>6. ASSUME NEW r \in Runs, pn'[a] = pn[a] + 1 /\ load'[a] = load[a]
          PROVE  load'[a] <= Cardinality(D) + pn'[a]
      BY <1>1, <1>3, <2>0, <3>1, <3>6
    <3>7. CASE pn'[a] = pn[a] /\ load'[a] = Floor0(load[a] - 1)
      BY <1>1, <1>3, <2>0, <3>1, <3>7 DEF Floor0
    <3> QED
      BY <1>6, <3>3, <3>4, <3>5, <3>6, <3>7 DEF Accounts, C, D
  <2>3. CASE ~(C \subseteq D)
    <3>1. PICK r \in Runs :
            /\ C \ {r} \subseteq D
            /\ \/ pn'[a] = pn[a] + 1 /\ load'[a] = load[a]
               \/ pn'[a] = pn[a] /\ load'[a] = Floor0(load[a] - 1)
      BY <1>6, <2>3 DEF Accounts, C, D
    <3>2. IsFiniteSet(C \ {r}) /\ Cardinality(C \ {r}) = Cardinality(C) - 1
      <4>1. r \in C
        BY <2>3, <3>1
      <4> QED
        BY <1>2, <4>1, FS_RemoveElement
    <3>3. Cardinality(C) - 1 <= Cardinality(D)
      <4>1. Cardinality(C \ {r}) <= Cardinality(D)
        BY <1>2, <3>1, FS_Subset
      <4> QED
        BY <3>2, <4>1
    <3> QED
      BY <1>1, <1>3, <2>0, <3>1, <3>3, <1>6 DEF Floor0
  <2> QED
    BY <2>2, <2>3
<1> QED
  BY <1>5, <1>6

\* Whoever is about to count none does so.
LEMMA ZeroedStep ==
  ASSUME TypeOK, ReapBooks, Unbroken, [Next]_vars, NEW a \in Agents, PollBooks(a), Zeroed(a)
  PROVE  Zeroed(a)' \/ load'[a] = 0
<1> USE LifecycleAssumption DEF TypeOK, RowsTyped, FinsTyped, ReapTyped
<1>0. ~ServerCrash
  BY DEF ServerCrash, Unbroken
<1>1. CASE rcur = a
  <2>1. rpc = "close"
    BY <1>1 DEF ReapBooks
  <2>2. CASE ReapOffline
    BY <1>1, <2>2 DEF ReapOffline, SetRow, PollBooks
  <2>3. CASE ~ReapOffline
    BY <1>0, <1>1, <2>1, <2>3, ReapSteps
    DEF ReapStep, ReapSweep, ReapPick, ReapClose, ReapDeregister, ReapOld, reapVars, Zeroed
  <2> QED
    BY <2>2, <2>3
<1>2. ASSUME NEW r \in Runs, fpc[r] = "force", fby[r] = a
      PROVE  Zeroed(a)' \/ load'[a] = 0
  <2>1. CASE IngestForced(r)
    BY <1>2, <2>1 DEF IngestForced, SetRow, PollBooks, Unbroken
  <2>2. CASE ~IngestForced(r)
    <3>0. ~IngestCut(r)
      BY <1>2 DEF IngestCut, GivesBack, Unbroken
    <3>1. ASSUME NEW x \in Runs, IngestStep(x) PROVE fpc'[r] = "force" /\ fby'[r] = a
      <4>1. CASE x = r
        BY <1>2, <2>2, <3>0, <3>1, <4>1 DEF IngestStep, IngestWrite, IngestLoad, IngestDrain,
           IngestOff, IngestForce, IngestEmit
      <4>2. CASE x # r
        BY <1>2, <3>1, <4>2 DEF IngestStep, IngestWrite, IngestLoad, IngestDrain, IngestOff,
           IngestForce, IngestForced, IngestEmit, IngestCut
      <4> QED
        BY <4>1, <4>2
    <3>2. ASSUME NEW b \in Agents, IngestStart(b) PROVE fpc'[r] = "force" /\ fby'[r] = a
      BY <1>2, <3>2 DEF IngestStart
    <3>3. UNCHANGED finVars => fpc'[r] = "force" /\ fby'[r] = a
      BY <1>2 DEF finVars
    <3> QED
      BY <1>0, <3>1, <3>2, <3>3, FinSteps DEF Zeroed
  <2> QED
    BY <2>1, <2>2
<1> QED
  BY <1>1, <1>2 DEF Zeroed

\* A step that moves no run, no upload and no poll past a count.
LEMMA AccountsIdle ==
  ASSUME TypeOK, NEW a \in Agents, UNCHANGED <<status, owner, load, fby>>, pn'[a] = pn[a],
         prun'[a] = prun[a] \/ ppc[a] # "load", ppc'[a] = "load" => ppc[a] = "load",
         \A r \in Runs : fpc[r] = "load" => fpc'[r] = "load"
  PROVE  Accounts(a)
<1>1. Counted(a) \subseteq Counted(a)'
  BY DEF Counted, Charged, Uncounted
<1> QED
  BY <1>1 DEF Accounts

\* A close of a run that is another's own.
LEMMA AccountsClose ==
  ASSUME TypeOK, NEW a \in Agents, NEW b \in Agents, b # a, NEW x \in Runs, Own(x, b),
         CloseLost(x), UNCHANGED <<owner, load, fpc, fby>>,
         pn'[a] = pn[a], ppc'[a] = ppc[a], prun'[a] = prun[a]
  PROVE  Accounts(a)
<1>1. \A r \in Runs : status[r] = "running" /\ owner[r] = a => status'[r] = "running"
  BY LifecycleAssumption DEF CloseLost, Own, TypeOK, RunsTyped
<1>2. Counted(a) \subseteq Counted(a)'
  BY <1>1 DEF Counted, Charged, Uncounted
<1> QED
  BY <1>2 DEF Accounts

LEMMA AccountsPoll ==
  ASSUME TypeOK, Unbroken, QueuedIsFree, \A r \in Runs : UploadBooks(r),
         NEW a \in Agents, PollBooks(a), NEW b \in Agents, PollBooks(b), PollStep(b)
  PROVE  Accounts(a)
<1> USE LifecycleAssumption DEF TypeOK, RunsTyped, RowsTyped, PollsTyped
<1>1. CASE PollArrive(b)
  BY <1>1, AccountsIdle DEF PollArrive, runVars, finVars
<1>2. CASE PollCloseRun(b)
  <2>1. PICK x \in ptodo[b] :
          /\ CloseLost(x)
          /\ pn' = [pn EXCEPT ![b] = IF status[x] = "running" THEN @ + 1 ELSE @]
    BY <1>2 DEF PollCloseRun
  <2>2. x \in Runs /\ Own(x, b)
    BY <2>1 DEF PollBooks
  <2>3. UNCHANGED <<owner, load, fpc, fby, ppc, prun>>
    BY <1>2 DEF PollCloseRun, rowVars, finVars
  <2>4. CASE b # a
    BY <2>1, <2>2, <2>3, <2>4, AccountsClose
  <2>5. CASE b = a /\ status[x] = "running"
    <3>1. Counted(a) \ {x} \subseteq Counted(a)'
      BY <2>1, <2>3, <2>5 DEF CloseLost, Counted, Charged, Uncounted
    <3>2. pn'[a] = pn[a] + 1 /\ load'[a] = load[a]
      BY <2>1, <2>3, <2>5
    <3> QED
      BY <2>2, <3>1, <3>2 DEF Accounts
  <2>6. CASE b = a /\ status[x] # "running"
    <3>1. Counted(a) \subseteq Counted(a)'
      BY <2>1, <2>3, <2>6 DEF CloseLost, Counted, Charged, Uncounted
    <3>2. pn'[a] = pn[a] /\ load'[a] = load[a]
      BY <2>1, <2>3, <2>6
    <3> QED
      BY <3>1, <3>2 DEF Accounts
  <2> QED
    BY <2>4, <2>5, <2>6
<1>3. CASE PollClosed(b)
  <2>1. /\ UNCHANGED <<status, owner, fpc, fby, prun>>
        /\ ppc[b] # "load" /\ ppc' = [ppc EXCEPT ![b] = "control"] /\ pn' = [pn EXCEPT ![b] = 0]
    BY <1>3 DEF PollClosed, runVars, finVars
  <2>2. Counted(a) \subseteq Counted(a)'
    BY <2>1 DEF Counted, Charged, Uncounted
  <2>3. CASE b # a
    <3>1. load'[a] = load[a] /\ pn'[a] = pn[a]
      BY <1>3, <2>1, <2>3 DEF PollClosed, SetRow
    <3> QED
      BY <2>2, <3>1 DEF Accounts
  <2>4. CASE b = a /\ rstat[a] = "gone"
    BY <1>3, <2>4 DEF PollClosed, SetRow, PollBooks, Accounts
  <2>5. CASE b = a /\ rstat[a] # "gone"
    <3>1. \/ load'[a] = 0
          \/ load'[a] = load[a] /\ pn[a] = 0
          \/ load'[a] = Floor0(load[a] - pn[a])
      BY <1>3, <2>5 DEF PollClosed, SetRow
    <3>2. load[a] \in Nat /\ pn[a] = 0 => Floor0(load[a] - pn[a]) = load[a]
      BY DEF Floor0
    <3>3. load'[a] = 0 \/ load'[a] = Floor0(load[a] - pn[a])
      BY <3>1, <3>2
    <3>4. pn'[a] = 0
      BY <2>1, <2>5
    <3> QED
      BY <2>2, <3>3, <3>4 DEF Accounts
  <2> QED
    BY <2>3, <2>4, <2>5
<1>4. CASE PollControl(b) \/ PollReadmit(b) \/ PollLoop(b) \/ PollAgain(b) \/ PollTimeout(b)
  <2>1. /\ UNCHANGED <<status, owner, load, fpc, fby, pn, prun>>
        /\ ppc'[a] = "load" => ppc[a] = "load"
    BY <1>4 DEF PollControl, PollReadmit, PollLoop, PollAgain, PollTimeout, PollNothing,
       AnswerOrWait, runVars, rowVars, finVars
  <2> QED
    BY <2>1, AccountsIdle
<1>5. CASE PollClaim(b)
  <2>1. PICK r \in Runs : /\ status[r] = "queued"
                          /\ status' = [status EXCEPT ![r] = "running"]
                          /\ owner' = [owner EXCEPT ![r] = b]
                          /\ prun' = [prun EXCEPT ![b] = r]
    BY <1>5 DEF PollClaim, Claimable
  <2>2. /\ UNCHANGED <<load, fpc, fby, pn>>
        /\ ppc[b] = "claim" /\ ppc' = [ppc EXCEPT ![b] = "load"]
    BY <1>5 DEF PollClaim, rowVars, finVars
  <2>3. fpc[r] = "idle"
    BY <2>1 DEF UploadBooks, Own
  <2>4. Charged(a) \subseteq Charged(a)' /\ r \notin Charged(a)
    BY <2>1, <2>2, <2>3 DEF Charged
  <2>5. Counted(a) \subseteq Counted(a)'
    <3>1. CASE b = a
      BY <2>1, <2>2, <2>4, <3>1 DEF Counted, Uncounted
    <3>2. CASE b # a
      BY <2>1, <2>2, <2>4, <3>2 DEF Counted, Uncounted
    <3> QED
      BY <3>1, <3>2
  <2> QED
    BY <2>2, <2>5 DEF Accounts
<1>6. CASE PollLoad(b)
  <2>1. /\ UNCHANGED <<status, owner, fpc, fby, prun, pn>>
        /\ ppc[b] = "load" /\ ppc' = [ppc EXCEPT ![b] = "reply"]
        /\ load' = SetRow(load, b, load[b] + 1)
    BY <1>6 DEF PollLoad, runVars, finVars
  <2>2. Counted(a) \subseteq Counted(a)'
    BY <2>1 DEF Counted, Charged, Uncounted
  <2>3. CASE b # a
    BY <2>1, <2>2, <2>3 DEF SetRow, Accounts
  <2>4. CASE b = a /\ rstat[a] = "gone"
    BY <2>1, <2>4 DEF SetRow, PollBooks, Accounts
  <2>5. CASE b = a /\ rstat[a] # "gone"
    <3>1. load'[a] = load[a] + 1 /\ pn'[a] = pn[a]
      BY <2>1, <2>5 DEF SetRow
    <3>2. Own(prun[a], a) /\ status[prun[a]] = "running"
      BY <2>1, <2>5 DEF PollBooks, Unbroken
    <3>3. prun[a] \in Counted(a)' \ Counted(a)
      BY <2>1, <2>5, <3>2 DEF Counted, Charged, Uncounted, Own
    <3> QED
      BY <2>2, <3>1, <3>3 DEF Accounts
  <2> QED
    BY <2>3, <2>4, <2>5
<1>7. CASE PollDeliver(b) \/ PollLost(b) \/ PollAbort(b)
  <2>0. UNCHANGED status
    <3>1. CASE PollAbort(b)
      <4>1. ppc[b] \notin {"closeAll", "closeLost"}
        BY <3>1 DEF PollAbort, Unbroken
      <4>2. ptodo[b] = {}
        BY <4>1 DEF PollBooks
      <4> QED
        BY <3>1, <4>2 DEF PollAbort, BreakOff
    <3> QED
      BY <1>7, <3>1 DEF PollDeliver, PollLost, runVars
  <2>1. /\ UNCHANGED <<status, owner, load, fpc, fby>>
        /\ ppc'[a] = "load" => ppc[a] = "load"
        /\ prun'[a] = prun[a] \/ ppc'[a] # "load"
    BY <1>7, <2>0 DEF PollDeliver, PollLost, PollAbort, PollOver, runVars, rowVars, finVars
  <2>2. pn'[a] = pn[a]
    <3>1. ppc[b] \notin {"closeAll", "closeLost"}
      BY <1>7 DEF PollDeliver, PollLost, PollAbort, Unbroken
    <3>2. pn[b] = 0
      BY <3>1 DEF PollBooks
    <3> QED
      BY <1>7, <3>2 DEF PollDeliver, PollLost, PollAbort, PollOver
  <2>3. Counted(a) \subseteq Counted(a)'
    BY <2>1 DEF Counted, Charged, Uncounted
  <2> QED
    BY <2>1, <2>2, <2>3 DEF Accounts
<1> QED
  BY <1>1, <1>2, <1>3, <1>4, <1>5, <1>6, <1>7 DEF PollStep

LEMMA AccountsUpload ==
  ASSUME TypeOK, Unbroken, NEW r \in Runs, UploadBooks(r), NEW a \in Agents, PollBooks(a),
         IngestStep(r)
  PROVE  Accounts(a)
<1> USE LifecycleAssumption DEF TypeOK, RunsTyped, RowsTyped, FinsTyped
<1>0. fpc[r] # "idle" /\ fby[r] \in Agents /\ Own(r, fby[r])
  BY DEF IngestStep, IngestWrite, IngestLoad, IngestDrain, IngestOff, IngestForce,
     IngestForced, IngestEmit, IngestCut, UploadBooks
<1>9. "dbError" \notin faults
  BY DEF Unbroken
<1>1. CASE IngestWrite(r)
  <2>1. /\ fpc[r] = "write" /\ fpc' = [fpc EXCEPT ![r] = "load"]
        /\ UNCHANGED <<owner, load, fby, ppc, pn, prun>>
        /\ \A x \in Runs : x # r => status'[x] = status[x]
    BY <1>1 DEF IngestWrite, rowVars, pollVars
  <2>2. owner[r] = a => fby[r] = a
    BY <1>0 DEF Own
  <2>3. Counted(a) \subseteq Counted(a)'
    BY <2>1, <2>2 DEF Counted, Charged, Uncounted
  <2> QED
    BY <2>1, <2>3 DEF Accounts
<1>2. CASE IngestLoad(r)
  <2>1. /\ fpc' = [fpc EXCEPT ![r] = "drain"]
        /\ UNCHANGED <<status, owner, fby, ppc, pn, prun>>
        /\ load' = SetRow(load, fby[r], Floor0(load[fby[r]] - 1))
    BY <1>2, <1>9 DEF IngestLoad, runVars, pollVars
  <2>2. Counted(a) \ {r} \subseteq Counted(a)'
    BY <2>1 DEF Counted, Charged, Uncounted
  <2>3. CASE fby[r] # a
    <3>1. Counted(a) \subseteq Counted(a)' /\ load'[a] = load[a]
      BY <1>0, <2>1, <2>3 DEF Counted, Charged, Uncounted, SetRow
    <3> QED
      BY <2>1, <3>1 DEF Accounts
  <2>4. CASE fby[r] = a /\ rstat[a] = "gone"
    BY <2>1, <2>4 DEF SetRow, PollBooks, Accounts
  <2>5. CASE fby[r] = a /\ rstat[a] # "gone"
    <3>1. load'[a] = Floor0(load[a] - 1) /\ pn'[a] = pn[a]
      BY <2>1, <2>5 DEF SetRow
    <3> QED
      BY <2>2, <3>1 DEF Accounts
  <2> QED
    BY <2>3, <2>4, <2>5
<1>3. CASE IngestDrain(r) \/ IngestOff(r) \/ IngestEmit(r)
  <2>1. /\ UNCHANGED <<status, owner, load, ppc, pn, prun>>
        /\ fpc[r] \notin {"write", "load"}
        /\ \A x \in Runs : x # r => fpc'[x] = fpc[x] /\ fby'[x] = fby[x]
    BY <1>3 DEF IngestDrain, IngestOff, IngestEmit, runVars, rowVars, pollVars
  <2>2. Counted(a) \subseteq Counted(a)'
    BY <2>1 DEF Counted, Charged, Uncounted
  <2> QED
    BY <2>1, <2>2 DEF Accounts
<1>6. CASE IngestCut(r)
  <2>1. fpc[r] \notin {"load", "force"}
    BY <1>6 DEF IngestCut, GivesBack, Unbroken
  <2>2. ftodo[r] = {}
    BY <2>1 DEF UploadBooks
  <2>3. /\ UNCHANGED <<status, owner, load, ppc, pn, prun>>
        /\ \A x \in Runs : x # r => fpc'[x] = fpc[x] /\ fby'[x] = fby[x]
    BY <1>6, <2>2 DEF IngestCut, BreakOff, rowVars, pollVars
  <2>4. Counted(a) \subseteq Counted(a)'
    BY <2>1, <2>3 DEF Counted, Charged, Uncounted
  <2> QED
    BY <2>3, <2>4 DEF Accounts
<1>4. CASE IngestForce(r)
  <2>1. PICK x \in ftodo[r] : CloseLost(x)
    BY <1>4, <1>9 DEF IngestForce
  <2>2. /\ fpc[r] = "force" /\ UNCHANGED <<owner, load, fpc, fby, ppc, pn, prun>>
        /\ x \in Runs /\ Own(x, fby[r])
    BY <1>4, <2>1 DEF IngestForce, rowVars, pollVars, UploadBooks
  <2>3. CASE fby[r] = a
    BY <2>2, <2>3 DEF Zeroed, Accounts
  <2>4. CASE fby[r] # a
    BY <1>0, <2>1, <2>2, <2>4, AccountsClose
  <2> QED
    BY <2>3, <2>4
<1>5. CASE IngestForced(r)
  <2>1. /\ fpc[r] = "force" /\ fpc' = [fpc EXCEPT ![r] = "emit"]
        /\ UNCHANGED <<status, owner, fby, ppc, pn, prun>>
        /\ load' = SetRow(load, fby[r], 0)
    BY <1>5, <1>9 DEF IngestForced, runVars, pollVars
  <2>2. CASE fby[r] = a
    BY <2>1, <2>2 DEF SetRow, PollBooks, Accounts
  <2>3. CASE fby[r] # a
    <3>1. Counted(a) \subseteq Counted(a)' /\ load'[a] = load[a]
      BY <1>0, <2>1, <2>3 DEF Counted, Charged, Uncounted, SetRow
    <3> QED
      BY <2>1, <3>1 DEF Accounts
  <2> QED
    BY <2>2, <2>3
<1> QED
  BY <1>1, <1>2, <1>3, <1>4, <1>5, <1>6 DEF IngestStep

LEMMA AccountsReap ==
  ASSUME TypeOK, ReapBooks, NEW a \in Agents, PollBooks(a), ReapStep \/ ReapOld
  PROVE  Accounts(a)
<1> USE LifecycleAssumption DEF TypeOK, RunsTyped, RowsTyped, ReapTyped
<1>1. CASE ReapSweep \/ ReapPick \/ ReapOld
  <2>1. UNCHANGED <<status, owner, load, fpc, fby, ppc, pn, prun>>
    BY <1>1 DEF ReapSweep, ReapPick, ReapOld, runVars, rowVars, pollVars, finVars
  <2> QED
    BY <2>1, AccountsIdle
<1>2. CASE ReapClose
  <2>1. PICK x \in rtodo : CloseLost(x)
    BY <1>2 DEF ReapClose
  <2>2. /\ rcur \in Agents /\ rcur' = rcur
        /\ UNCHANGED <<owner, load, fpc, fby, ppc, pn, prun>>
        /\ x \in Runs /\ Own(x, rcur)
    BY <1>2, <2>1 DEF ReapClose, rowVars, pollVars, finVars, ReapBooks
  <2>3. CASE rcur = a
    BY <2>2, <2>3 DEF Zeroed, Accounts
  <2>4. CASE rcur # a
    BY <2>1, <2>2, <2>4, AccountsClose
  <2> QED
    BY <2>3, <2>4
<1>3. CASE ReapOffline
  <2>1. /\ UNCHANGED <<status, owner, fpc, fby, ppc, pn, prun>>
        /\ load' = SetRow(load, rcur, 0) /\ rcur \in Agents
    BY <1>3 DEF ReapOffline, runVars, pollVars, finVars
  <2>2. load'[a] = 0 \/ load'[a] = load[a]
    BY <2>1 DEF SetRow
  <2>3. Counted(a) \subseteq Counted(a)'
    BY <2>1 DEF Counted, Charged, Uncounted
  <2> QED
    BY <2>1, <2>2, <2>3 DEF Accounts
<1>4. CASE ReapDeregister
  <2>1. PICK b \in Agents : DropRow(b)
    BY <1>4 DEF ReapDeregister
  <2>2. UNCHANGED <<status, fpc, fby, ppc, pn, prun>>
    BY <1>4 DEF ReapDeregister, pollVars, finVars
  <2>3. CASE b = a
    BY <2>1, <2>3 DEF DropRow, Accounts
  <2>4. CASE b # a
    <3>1. load'[a] = load[a] /\ \A r \in Runs : owner[r] = a => owner'[r] = a
      BY <2>1, <2>4 DEF DropRow
    <3>2. Counted(a) \subseteq Counted(a)'
      BY <2>2, <3>1 DEF Counted, Charged, Uncounted
    <3> QED
      BY <2>2, <3>1, <3>2 DEF Accounts
  <2> QED
    BY <2>3, <2>4
<1> QED
  BY <1>1, <1>2, <1>3, <1>4 DEF ReapStep

LEMMA AccountsOthers ==
  ASSUME TypeOK, Unbroken, NEW a \in Agents,
         \/ \E b \in Agents : \/ AgentStep(b) \/ IngestStart(b) \/ DrainRead(b)
                              \/ DrainStep(b) \/ TimeStep(b) \/ Deregister(b)
         \/ \E r \in Runs : KillStep(r)
         \/ UNCHANGED vars
  PROVE  Accounts(a)
<1> USE LifecycleAssumption DEF TypeOK, RunsTyped, RowsTyped, FinsTyped
<1>1. ASSUME UNCHANGED <<status, owner, load, fpc, fby, ppc, pn, prun>>
      PROVE  Accounts(a)
  BY <1>1, AccountsIdle
<1>2. ASSUME NEW b \in Agents, AgentStep(b)
      PROVE  Accounts(a)
  BY <1>1, <1>2 DEF AgentStep, Finish, Leave, Crash, Restart, StopSignal, PollRejected,
     runVars, rowVars, pollVars, finVars
<1>3. ASSUME NEW b \in Agents, DrainRead(b) \/ DrainStep(b) \/ TimeStep(b)
      PROVE  Accounts(a)
  BY <1>1, <1>3 DEF DrainRead, DrainStep, DrainMark, DrainOff, DrainCut, TimeStep,
     DeadlinePasses, GoStale, HoldPasses, runVars, rowVars, pollVars, finVars
<1>4. ASSUME NEW b \in Agents, IngestStart(b) PROVE Accounts(a)
  <2>1. /\ UNCHANGED <<status, owner, load, ppc, pn, prun>>
        /\ \A r \in Runs : fpc[r] # "idle" => fpc'[r] = fpc[r] /\ fby'[r] = fby[r]
    BY <1>4 DEF IngestStart, runVars, rowVars, pollVars
  <2>2. Counted(a) \subseteq Counted(a)'
    BY <2>1 DEF Counted, Charged, Uncounted
  <2> QED
    BY <2>1, <2>2 DEF Accounts
<1>5. ASSUME NEW b \in Agents, Deregister(b) PROVE Accounts(a)
  <2>1. DropRow(b) /\ UNCHANGED <<fpc, fby, ppc, pn, prun>>
    BY <1>5 DEF Deregister, pollVars, finVars
  <2>2. CASE b = a
    BY <2>1, <2>2 DEF DropRow, Accounts
  <2>3. CASE b # a
    <3>1. load'[a] = load[a] /\ \A r \in Runs : owner[r] = a => owner'[r] = a
      BY <2>1, <2>3 DEF DropRow
    <3>2. \A r \in Runs : owner[r] = a => status'[r] = status[r]
      BY <1>5, <2>3 DEF Deregister, RunningOf
    <3>3. Counted(a) \subseteq Counted(a)'
      BY <2>1, <3>1, <3>2 DEF Counted, Charged, Uncounted
    <3> QED
      BY <2>1, <3>1, <3>3 DEF Accounts
  <2> QED
    BY <2>2, <2>3
<1>6. ASSUME NEW r \in Runs, KillStep(r) PROVE Accounts(a)
  BY <1>1, <1>6 DEF KillStep, KillQueue, KillEmit, KillCut, rowVars, pollVars, finVars
<1>7. CASE UNCHANGED vars
  BY <1>1, <1>7 DEF vars, runVars, rowVars, pollVars, finVars
<1> QED
  BY <1>2, <1>3, <1>4, <1>5, <1>6, <1>7

\* The books of all who count slots, and what they come to.
Books ==
  /\ \A a \in Agents : PollBooks(a) /\ Within(a)
  /\ \A r \in Runs : UploadBooks(r)
  /\ ReapBooks

LEMMA BooksStep ==
  ASSUME EndInv, EndInv', QueuedIsFree, Books, Unbroken, [Next]_vars PROVE Books'
<1> USE DEF EndInv
<1>1. ASSUME NEW a \in Agents PROVE PollBooks(a)'
  BY PollBooksStep DEF Books
<1>2. ASSUME NEW r \in Runs PROVE UploadBooks(r)'
  BY UploadBooksStep DEF Books
<1>3. ReapBooks'
  BY ReapBooksStep DEF Books
<1>4. ASSUME NEW a \in Agents PROVE Within(a)'
  <2>1. /\ PollBooks(a) /\ Within(a) /\ ReapBooks
        /\ \A r \in Runs : UploadBooks(r)
        /\ \A b \in Agents : PollBooks(b)
    BY DEF Books
  <2>2. Accounts(a)
    <3>1. ~ServerCrash /\ \A r \in Runs : ~KillJob(r)
      BY DEF ServerCrash, KillJob, Unbroken
    <3>2. ASSUME NEW b \in Agents, PollStep(b) PROVE Accounts(a)
      BY <2>1, <3>2, AccountsPoll
    <3>3. ASSUME NEW r \in Runs, IngestStep(r) PROVE Accounts(a)
      BY <2>1, <3>3, AccountsUpload
    <3>4. CASE ReapStep \/ ReapOld
      BY <2>1, <3>4, AccountsReap
    <3> QED
      BY <3>1, <3>2, <3>3, <3>4, AccountsOthers DEF Next
  <2>3. Zeroed(a) => Zeroed(a)' \/ load'[a] = 0
    BY <2>1, ZeroedStep
  <2> QED
    BY <2>1, <2>2, <2>3, WithinStep
<1> QED
  BY <1>1, <1>2, <1>3, <1>4 DEF Books

\* A runner at rest takes no slot, once the reaper has left it.
SlotsFree == \A a \in Agents : Quiet(a) /\ rcur # a => load[a] = 0

\* A runner's slots come back: outside the seven events Unbroken names, no crash,
\* restart, drain, silence, lost answer or deletion leaves the load up when all the
\* runs of the runner are over (the claim's load + 1, finalizeRun's decrement, the
\* resets of the closes).
THEOREM SlotsReturn == Spec /\ []Unbroken => []SlotsFree
<1>1. Init => QueuedIsFree /\ Books
  <2>1. ASSUME Init PROVE Books
    <3>1. ASSUME NEW a \in Agents PROVE PollBooks(a) /\ Within(a)
      <4>1. Counted(a) = {}
        BY <2>1, LifecycleAssumption DEF Init, Counted, Charged
      <4> QED
        BY <2>1, <4>1, FS_EmptySet DEF Init, PollBooks, Within
    <3> QED
      BY <2>1, <3>1 DEF Init, Books, UploadBooks, ReapBooks
  <2> QED
    BY <2>1 DEF Init, QueuedIsFree
<1>2. EndInv /\ QueuedIsFree /\ [Next]_vars => QueuedIsFree'
  BY QueuedIsFreeStep
<1>3. EndInv /\ EndInv' /\ QueuedIsFree /\ Books /\ Unbroken /\ [Next]_vars => Books'
  BY BooksStep
<1>4. EndInv /\ Books => SlotsFree
  <2>1. SUFFICES ASSUME EndInv, Books, NEW a \in Agents, Quiet(a), rcur # a
                 PROVE  load[a] = 0
    BY DEF SlotsFree
  <2>2. Counted(a) = {}
    BY <2>1 DEF Quiet, RunningOf, Running, Counted, Charged
  <2>3. pn[a] = 0 /\ load[a] \in Nat
    BY <2>1 DEF Quiet, Books, PollBooks, EndInv, TypeOK, PollsTyped, RowsTyped
  <2>4. load[a] <= Cardinality({}) + pn[a]
    BY <2>1, <2>2 DEF Quiet, Books, Within, Zeroed
  <2> QED
    BY <2>3, <2>4, FS_EmptySet
<1> QED
  BY <1>1, <1>2, <1>3, <1>4, EndAlways, PTL DEF Spec

=============================================================================
