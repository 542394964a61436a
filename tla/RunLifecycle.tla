---------------------------- MODULE RunLifecycle ----------------------------
(***************************************************************************)
(* The life of a run between the server and the runner agents: the claim,  *)
(* the poll that carries it, the upload that ends it, the operator's stop, *)
(* the drain, the reaper and the deregistration.                           *)
(*                                                                         *)
(* The server keeps everything in one SQLite database.  A statement is     *)
(* atomic; a handler is several statements, and any other handler may run  *)
(* between two of them.  One action is therefore one statement (or one     *)
(* group of reads that nothing can tell apart), and a handler is a program *)
(* counter with the values it has read and not yet used.                   *)
(*                                                                         *)
(* Every run starts queued and is claimed at most once, so the state space *)
(* is finite without counters.                                             *)
(***************************************************************************)
EXTENDS Integers, FiniteSets

CONSTANTS
  Runs,         \* trace ids
  Agents,       \* runner ids
  None,         \* SQL NULL
  Slots,        \* each agent's maxConcurrent
  MaxRunning,   \* the installation's concurrency cap (runcap.Max)
  Dispositions, \* what an operator may record when stopping a run
  Outcomes,     \* what the envelope of a final chunk may say
  Scenarios     \* which events may happen, and to which runners

FaultKinds ==
  { "crash",       \* an agent process dies with the runs it holds
    "restart",     \* a stopped or crashed agent is started again
    "stop",        \* a stop signal reaches an agent
    "quiet",       \* a dead agent stays away for RunnerOfflineAfter
    "partition",   \* a live one is unheard of for as long
    "loseReply",   \* an answer does not reach the agent
    "cut",         \* a connection ends while the server handles an upload, a
                   \* stop or a drain
    "dbError",     \* a statement of finalizeRun, or of killJob after its first, fails
    "serverCrash", \* the server dies between two statements
    "hang",        \* a job runs for as long as nobody ends it
    "kill", "drain", "deregister",
    "expire" }     \* a runner is quiet for RunnerDeregisterAfter

ASSUME LifecycleAssumption ==
  /\ None \notin Agents /\ None \notin Runs
  /\ IsFiniteSet(Runs) /\ IsFiniteSet(Agents)
  /\ Slots \in [Agents -> Nat \ {0}]
  /\ MaxRunning \in Nat \ {0}
  /\ Dispositions \subseteq {"killed", "failure", "success", "warning"}
  /\ Outcomes \subseteq {"success", "failure", "warning"} /\ Outcomes # {}
  /\ Scenarios \subseteq [faults : SUBSET FaultKinds, fleet : SUBSET Agents]

VARIABLES
  \* table runs
  status, owner,
  \* run-end rows in activity, and unconsumed kill rows in action_queue
  ends, killq,
  \* for checking only: the runs whose run-end row a request that was broken off
  \* has left out
  unreported,
  \* table runners: status, load, drain_deadline_at, a last_seen_at older than
  \* the offline window, and the runs lost_runs_before covers
  rstat, load, deadline, stale, lost,
  \* table runner_processes: a process before this one was seen within the
  \* hold window
  held,
  \* the poll handler of each runner
  ppc, psnap, pclaim, pctl, ptodo, pn, prun, plive,
  \* the final-chunk handler of each run
  fpc, fby, fwon, ftodo,
  \* the drain handler of each runner, the stop handler of each run
  dpc, kpc,
  \* the reaper
  rpc, rlist, rcur, rtodo,
  \* the agents
  amode, pstart, active, ending, refusing,
  \* the scenario's events, fixed in a behaviour
  faults

runVars   == <<status, owner, ends, killq, unreported>>
rowVars   == <<rstat, load, deadline, stale, lost, held>>
pollVars  == <<ppc, psnap, pclaim, pctl, ptodo, pn, prun, plive>>
finVars   == <<fpc, fby, fwon, ftodo>>
opVars    == <<dpc, kpc>>
reapVars  == <<rpc, rlist, rcur, rtodo>>
agentVars == <<amode, pstart, active, ending, refusing>>
vars == <<runVars, rowVars, pollVars, finVars, opVars, reapVars, agentVars, faults>>

-----------------------------------------------------------------------------

Terminal  == {"success", "failure", "warning", "killed"}
RunStatus == {"queued", "running"} \union Terminal

\* "gone": the row was deleted.
RunnerStatus == {"online", "draining", "offline", "gone"}

PollPc == {"idle", "closeAll", "closeLost", "control", "readmit", "loop",
           "claim", "load", "reply", "replyDrain"}
FinPc  == {"idle", "write", "load", "drain", "off", "force", "emit"}

\* What the server knows of the agent's process: nothing yet, a poll it has
\* recorded, or a poll whose answer arrived (no more started=1).
ProcessState == {"new", "seen", "answered"}

\* "leaving" is the agent past its drain check, waiting for its refusals.
AgentMode == {"down", "working", "draining", "stopping", "leaving"}

Running       == {r \in Runs : status[r] = "running"}
RunningOf_Bug(a) == {r \in Runs : owner[r] = a}

RunningOf(a)  == {r \in Running : owner[r] = a}
SlotsOf(a)    == active[a] \union ending[a]
Holds(a)      == SlotsOf(a) \union refusing[a]
Up(a)         == amode[a] # "down"

\* Definitions ending in _Bug are mistakes the code could have made: no action
\* uses them, and the properties tell each from the definition after it.
Floor0_Bug(n) == n

\* MAX(0, n), as the statements write it.
Floor0(n) == IF n < 0 THEN 0 ELSE n

\* A runners row that is gone takes no write.
SetRow(f, a, v) == IF rstat[a] = "gone" THEN f ELSE [f EXCEPT ![a] = v]

\* A runner outside the scenario's fleet has no row and no process.
InitFleet(fleet) ==
  /\ rstat = [a \in Agents |-> IF a \in fleet THEN "online" ELSE "gone"]
  /\ amode = [a \in Agents |-> IF a \in fleet THEN "working" ELSE "down"]

Init ==
  /\ \E s \in Scenarios : faults = s.faults /\ InitFleet(s.fleet)
  /\ status = [r \in Runs |-> "queued"]
  /\ owner = [r \in Runs |-> None]
  /\ ends = [r \in Runs |-> 0]
  /\ killq = {} /\ unreported = {}
  /\ load = [a \in Agents |-> 0]
  /\ deadline = [a \in Agents |-> "none"]
  /\ stale = [a \in Agents |-> FALSE]
  /\ lost = [a \in Agents |-> {}]
  /\ held = [a \in Agents |-> FALSE]
  /\ ppc = [a \in Agents |-> "idle"]
  /\ psnap = [a \in Agents |-> "gone"]
  /\ pclaim = [a \in Agents |-> FALSE]
  /\ pctl = [a \in Agents |-> {}]
  /\ ptodo = [a \in Agents |-> {}]
  /\ pn = [a \in Agents |-> 0]
  /\ prun = [a \in Agents |-> None]
  /\ plive = [a \in Agents |-> FALSE]
  /\ fpc = [r \in Runs |-> "idle"]
  /\ fby = [r \in Runs |-> None]
  /\ fwon = [r \in Runs |-> FALSE]
  /\ ftodo = [r \in Runs |-> {}]
  /\ dpc = [a \in Agents |-> "idle"]
  /\ kpc = [r \in Runs |-> "idle"]
  /\ rpc = "idle" /\ rlist = {} /\ rcur = None /\ rtodo = {}
  /\ pstart = [a \in Agents |-> "new"]
  /\ active = [a \in Agents |-> {}]
  /\ ending = [a \in Agents |-> {}]
  /\ refusing = [a \in Agents |-> {}]

-----------------------------------------------------------------------------
(* Closing a run as runner_lost or drain_timeout: the status-guarded write  *)
(* and, when it matched, the run-end row.  todo is what the SELECT before   *)
(* it returned.                                                             *)
CloseLost_Bug(r) ==
  /\ status' = IF status[r] = "running" THEN [status EXCEPT ![r] = "failure"] ELSE status
  /\ ends' = [ends EXCEPT ![r] = @ + 1]

CloseLost(r) ==
  IF status[r] = "running"
    THEN /\ status' = [status EXCEPT ![r] = "failure"]
         /\ ends' = [ends EXCEPT ![r] = @ + 1]
    ELSE UNCHANGED <<status, ends>>

\* One of its two statements fails: the run stays, or ends without its row.
CloseFails(r) ==
  /\ status' = status \/ (status[r] = "running" /\ status' = [status EXCEPT ![r] = "failure"])
  /\ UNCHANGED ends

\* A request is broken off: every statement it has left fails, the row it owed for
\* the runs of owed among them, and perhaps the row of a run of todo it had just
\* written as lost.
BreakOff(todo, owed) ==
  \/ UNCHANGED status /\ unreported' = unreported \union owed
  \/ \E r \in todo :
       /\ status[r] = "running"
       /\ status' = [status EXCEPT ![r] = "failure"]
       /\ unreported' = unreported \union owed \union {r}

-----------------------------------------------------------------------------
(* HandlePoll                                                               *)

\* A poll without claim=0: the agent is not stopping and has a free slot.
WantsRun_Bug(a) == amode[a] # "stopping"

WantsRun(a) == amode[a] # "stopping" /\ Cardinality(SlotsOf(a)) < Slots[a]

\* started=1: no poll of this process has been answered.
StartedNever_Bug(a)  == FALSE
StartedAlways_Bug(a) == TRUE

Started(a) == pstart[a] # "answered"

\* The heartbeat, the runner's row as this poll read it, and noteProcess: a
\* start closes every running run at once, or, when a process was seen moments
\* ago, leaves the runs started before it for closeLostRunsIfOwnersGone.
PollArrive(a) ==
  LET started == Started(a)
      owned   == RunningOf(a)
  IN
  /\ ppc[a] = "idle" /\ amode[a] \in {"working", "draining", "stopping"}
  /\ rstat[a] # "gone"
  /\ stale' = [stale EXCEPT ![a] = FALSE]
  /\ psnap' = [psnap EXCEPT ![a] = rstat[a]]
  /\ pclaim' = [pclaim EXCEPT ![a] = WantsRun(a)]
  /\ plive' = [plive EXCEPT ![a] = TRUE]
  /\ pstart' = [pstart EXCEPT ![a] = IF started THEN "seen" ELSE @]
  /\ \/ /\ started /\ held[a]
        /\ lost' = [lost EXCEPT ![a] = IF pstart[a] = "new" THEN owned ELSE @]
        /\ ppc' = [ppc EXCEPT ![a] = "control"]
        /\ UNCHANGED ptodo
     \/ /\ started /\ ~held[a]
        /\ lost' = [lost EXCEPT ![a] = {}]
        /\ ptodo' = [ptodo EXCEPT ![a] = owned]
        /\ ppc' = [ppc EXCEPT ![a] = "closeAll"]
     \/ /\ ~started /\ ~held[a] /\ lost[a] # {}
        /\ ptodo' = [ptodo EXCEPT ![a] = lost[a] \intersect owned]
        /\ ppc' = [ppc EXCEPT ![a] = "closeLost"]
        /\ UNCHANGED lost
     \/ /\ ~started /\ (held[a] \/ lost[a] = {})
        /\ ppc' = [ppc EXCEPT ![a] = "control"]
        /\ UNCHANGED <<ptodo, lost>>
  /\ UNCHANGED <<runVars, rstat, load, deadline, held, pctl, pn, prun>>
  /\ UNCHANGED <<finVars, opVars, reapVars, amode, active, ending, refusing, faults>>

PollCloseRun(a) ==
  /\ ppc[a] \in {"closeAll", "closeLost"}
  /\ \E r \in ptodo[a] :
       /\ CloseLost(r)
       /\ ptodo' = [ptodo EXCEPT ![a] = @ \ {r}]
       /\ pn' = [pn EXCEPT ![a] = IF status[r] = "running" THEN @ + 1 ELSE @]
  /\ UNCHANGED <<owner, killq, unreported, rowVars, ppc, psnap, pclaim, pctl, prun, plive>>
  /\ UNCHANGED <<finVars, opVars, reapVars, agentVars, faults>>

\* The runner's slots after a close: all free, or as many as it closed.
PollClosed(a) ==
  /\ ptodo[a] = {}
  /\ \/ /\ ppc[a] = "closeAll"
        /\ load' = IF pn[a] > 0 THEN SetRow(load, a, 0) ELSE load
        /\ UNCHANGED lost
     \/ /\ ppc[a] = "closeLost"
        /\ load' = SetRow(load, a, Floor0(load[a] - pn[a]))
        /\ lost' = SetRow(lost, a, {})
  /\ ppc' = [ppc EXCEPT ![a] = "control"]
  /\ pn' = [pn EXCEPT ![a] = 0]
  /\ UNCHANGED <<runVars, rstat, deadline, stale, held>>
  /\ UNCHANGED <<psnap, pclaim, pctl, ptodo, prun, plive>>
  /\ UNCHANGED <<finVars, opVars, reapVars, agentVars, faults>>

KillsFor_Bug(a) == {r \in killq : owner[r] = a /\ status[r] = "running"}

\* The signals drainControl reads and consumes.
KillsFor(a) == {r \in killq : owner[r] = a}

\* An answer that needs no wait: a kill to deliver, or no run wanted.
AnswerOrWait(a, ctl) == IF ctl # {} \/ ~pclaim[a] THEN "reply" ELSE "loop"

\* drainControl, then the branch on the status read when the poll arrived.
PollControl(a) ==
  /\ ppc[a] = "control"
  /\ killq' = killq \ KillsFor(a)
  /\ pctl' = [pctl EXCEPT ![a] = KillsFor(a)]
  /\ ppc' = [ppc EXCEPT ![a] =
       CASE psnap[a] = "draining" -> "replyDrain"
         [] psnap[a] = "offline"  -> "readmit"
         [] OTHER                 -> AnswerOrWait(a, KillsFor(a))]
  /\ UNCHANGED <<status, owner, ends, unreported, rowVars>>
  /\ UNCHANGED <<psnap, pclaim, ptodo, pn, prun, plive>>
  /\ UNCHANGED <<finVars, opVars, reapVars, agentVars, faults>>

\* readmitRunner: offline to online, guarded by the status it finds.
Readmit(a) ==
  IF rstat[a] = "offline"
    THEN /\ rstat' = [rstat EXCEPT ![a] = "online"]
         /\ deadline' = [deadline EXCEPT ![a] = "none"]
    ELSE UNCHANGED <<rstat, deadline>>

PollReadmit(a) ==
  /\ ppc[a] = "readmit"
  /\ Readmit(a)
  /\ ppc' = [ppc EXCEPT ![a] =
       IF rstat[a] \in {"offline", "online"}
         THEN AnswerOrWait(a, pctl[a]) ELSE "replyDrain"]
  /\ UNCHANGED <<runVars, load, stale, lost, held>>
  /\ UNCHANGED <<psnap, pclaim, pctl, ptodo, pn, prun, plive>>
  /\ UNCHANGED <<finVars, opVars, reapVars, agentVars, faults>>

\* One turn of the long poll up to the claim: the status again, a readmission
\* of a runner found offline, and drainControl again.
PollLoop(a) ==
  /\ ppc[a] = "loop"
  /\ \/ /\ rstat[a] = "draining"
        /\ ppc' = [ppc EXCEPT ![a] = "replyDrain"]
        /\ UNCHANGED <<killq, pctl, rstat, deadline>>
     \/ /\ rstat[a] = "gone"
        /\ ppc' = [ppc EXCEPT ![a] = "reply"]
        /\ UNCHANGED <<killq, pctl, rstat, deadline>>
     \/ /\ rstat[a] \in {"online", "offline"}
        /\ Readmit(a)
        /\ killq' = killq \ KillsFor(a)
        /\ pctl' = [pctl EXCEPT ![a] = KillsFor(a)]
        /\ ppc' = [ppc EXCEPT ![a] = IF KillsFor(a) # {} THEN "reply" ELSE "claim"]
  /\ UNCHANGED <<status, owner, ends, unreported, load, stale, lost, held>>
  /\ UNCHANGED <<psnap, pclaim, ptodo, pn, prun, plive>>
  /\ UNCHANGED <<finVars, opVars, reapVars, agentVars, faults>>

Claimable_Bug(a) ==
  IF rstat[a] = "gone" THEN {} ELSE {r \in Runs : status[r] \in {"queued", "running"}}

\* runcap.ClaimSQL, a clause of the claim itself.
UnderCap == Cardinality(Running) < MaxRunning

\* What one UPDATE ... RETURNING may take: a queued run, under the cap, in any
\* order.  A runner whose row is gone serves no agency and takes nothing.
Claimable(a) ==
  {r \in Runs : status[r] = "queued" /\ rstat[a] # "gone" /\ UnderCap}

PollClaim(a) ==
  /\ ppc[a] = "claim"
  /\ \E r \in Claimable(a) :
       /\ status' = [status EXCEPT ![r] = "running"]
       /\ owner' = [owner EXCEPT ![r] = a]
       /\ prun' = [prun EXCEPT ![a] = r]
  /\ ppc' = [ppc EXCEPT ![a] = "load"]
  /\ UNCHANGED <<ends, killq, unreported, rowVars, psnap, pclaim, pctl, ptodo, pn, plive>>
  /\ UNCHANGED <<finVars, opVars, reapVars, agentVars, faults>>

\* Nothing to take: another turn of the loop, or the end of the long poll.
PollNothing(a, next) ==
  /\ ppc[a] = "claim" /\ Claimable(a) = {}
  /\ ppc' = [ppc EXCEPT ![a] = next]
  /\ UNCHANGED <<runVars, rowVars, psnap, pclaim, pctl, ptodo, pn, prun, plive>>
  /\ UNCHANGED <<finVars, opVars, reapVars, agentVars, faults>>

PollAgain(a)   == PollNothing(a, "loop")
PollTimeout(a) == PollNothing(a, "reply")

\* load + 1, a statement of its own after the claim.
PollLoad(a) ==
  /\ ppc[a] = "load"
  /\ load' = SetRow(load, a, load[a] + 1)
  /\ ppc' = [ppc EXCEPT ![a] = "reply"]
  /\ UNCHANGED <<runVars, rstat, deadline, stale, lost, held>>
  /\ UNCHANGED <<psnap, pclaim, pctl, ptodo, pn, prun, plive>>
  /\ UNCHANGED <<finVars, opVars, reapVars, agentVars, faults>>

-----------------------------------------------------------------------------
(* The agent                                                                *)

\* The poll handler of a is over.
PollOver(a) ==
  /\ ppc' = [ppc EXCEPT ![a] = "idle"]
  /\ psnap' = [psnap EXCEPT ![a] = "gone"]
  /\ pclaim' = [pclaim EXCEPT ![a] = FALSE]
  /\ pctl' = [pctl EXCEPT ![a] = {}]
  /\ ptodo' = [ptodo EXCEPT ![a] = {}]
  /\ pn' = [pn EXCEPT ![a] = 0]
  /\ prun' = [prun EXCEPT ![a] = None]
  /\ plive' = [plive EXCEPT ![a] = FALSE]

\* isDrainingDone, asked after every poll: a draining agent with no run in a
\* slot leaves.
AfterPoll(mode, slots) ==
  IF mode \in {"draining", "stopping"} /\ slots = {} THEN "leaving" ELSE mode

\* The answer reaches the process that polled: settle the kills, then the
\* drain op, then the assignment, which an agent told to drain refuses.
PollDeliver(a) ==
  LET killed  == pctl[a] \intersect active[a]
      mode    == IF ppc[a] = "replyDrain" /\ amode[a] = "working"
                   THEN "draining" ELSE amode[a]
      run     == IF prun[a] = None THEN {} ELSE {prun[a]}
      starts  == mode = "working" /\ Cardinality(SlotsOf(a)) < Slots[a]
      active2 == (active[a] \ killed) \union (IF starts THEN run ELSE {})
      ending2 == ending[a] \union killed
  IN
  /\ ppc[a] \in {"reply", "replyDrain"} /\ plive[a]
  /\ active' = [active EXCEPT ![a] = active2]
  /\ ending' = [ending EXCEPT ![a] = ending2]
  /\ refusing' = [refusing EXCEPT ![a] = IF starts THEN @ ELSE @ \union run]
  /\ amode' = [amode EXCEPT ![a] = AfterPoll(mode, active2 \union ending2)]
  /\ pstart' = [pstart EXCEPT ![a] = "answered"]
  /\ PollOver(a)
  /\ UNCHANGED <<runVars, rowVars, finVars, opVars, reapVars, faults>>

\* The answer is lost and the agent sees a failed poll.
PollLost(a) ==
  /\ "loseReply" \in faults
  /\ ppc[a] \in {"reply", "replyDrain"} /\ plive[a]
  /\ amode' = [amode EXCEPT ![a] = AfterPoll(@, SlotsOf(a))]
  /\ PollOver(a)
  /\ UNCHANGED <<runVars, rowVars, finVars, opVars, reapVars>>
  /\ UNCHANGED <<pstart, active, ending, refusing, faults>>

\* The handler of a poll whose connection is gone stops at its next statement.
PollAbort(a) ==
  /\ ppc[a] # "idle" /\ ~plive[a]
  /\ BreakOff(ptodo[a], {})
  /\ PollOver(a)
  /\ UNCHANGED <<owner, ends, killq, rowVars, finVars, opVars, reapVars, agentVars, faults>>

\* A run's process ends; its slot is kept until its log is uploaded.
Finish(a) ==
  /\ \E r \in active[a] :
       /\ active' = [active EXCEPT ![a] = @ \ {r}]
       /\ ending' = [ending EXCEPT ![a] = @ \union {r}]
  /\ UNCHANGED <<runVars, rowVars, pollVars, finVars, opVars, reapVars>>
  /\ UNCHANGED <<amode, pstart, refusing, faults>>

\* The process is gone, with what it held and the poll it had in flight.
ProcessGone(a) ==
  /\ amode' = [amode EXCEPT ![a] = "down"]
  /\ held' = [held EXCEPT ![a] = @ \/ (rstat[a] # "gone" /\ pstart[a] # "new")]
  /\ active' = [active EXCEPT ![a] = {}]
  /\ ending' = [ending EXCEPT ![a] = {}]
  /\ refusing' = [refusing EXCEPT ![a] = {}]
  /\ plive' = [plive EXCEPT ![a] = FALSE]

\* "drain complete", once the refusals are on their way.
Leave(a) ==
  /\ amode[a] = "leaving" /\ refusing[a] = {}
  /\ ProcessGone(a)
  /\ UNCHANGED <<runVars, rstat, load, deadline, stale, lost>>
  /\ UNCHANGED <<ppc, psnap, pclaim, pctl, ptodo, pn, prun>>
  /\ UNCHANGED <<finVars, opVars, reapVars, pstart, faults>>

Crash(a) ==
  /\ "crash" \in faults /\ Up(a)
  /\ ProcessGone(a)
  /\ UNCHANGED <<runVars, rstat, load, deadline, stale, lost>>
  /\ UNCHANGED <<ppc, psnap, pclaim, pctl, ptodo, pn, prun>>
  /\ UNCHANGED <<finVars, opVars, reapVars, pstart, faults>>

\* A new process on the saved identity.
Restart(a) ==
  /\ "restart" \in faults /\ ~Up(a) /\ rstat[a] # "gone"
  /\ ppc[a] = "idle"
  /\ amode' = [amode EXCEPT ![a] = "working"]
  /\ pstart' = [pstart EXCEPT ![a] = "new"]
  /\ UNCHANGED <<runVars, rowVars, pollVars, finVars, opVars, reapVars>>
  /\ UNCHANGED <<active, ending, refusing, faults>>

\* The first stop signal: it cancels the poll in flight, and the agent leaves
\* once its runs are over.
StopSignal(a) ==
  /\ "stop" \in faults /\ amode[a] \in {"working", "draining"}
  /\ amode' = [amode EXCEPT ![a] = AfterPoll("stopping", SlotsOf(a))]
  /\ plive' = [plive EXCEPT ![a] = FALSE]
  /\ UNCHANGED <<runVars, rowVars, ppc, psnap, pclaim, pctl, ptodo, pn, prun>>
  /\ UNCHANGED <<finVars, opVars, reapVars, pstart, active, ending, refusing, faults>>

\* The poll of a deregistered runner is refused; the process goes on as
\* another runner, and what it still executes is no run of this one.
PollRejected(a) ==
  /\ ppc[a] = "idle" /\ Up(a) /\ rstat[a] = "gone"
  /\ ProcessGone(a)
  /\ UNCHANGED <<runVars, rstat, load, deadline, stale, lost>>
  /\ UNCHANGED <<ppc, psnap, pclaim, pctl, ptodo, pn, prun>>
  /\ UNCHANGED <<finVars, opVars, reapVars, pstart, faults>>

-----------------------------------------------------------------------------
(* HandleIngestLog for a final chunk, finalizeRun and checkDrainComplete    *)

\* The status check at the top.  A run already closed is a 409, a run of
\* another runner a 404: either way the agent lets it go.
IngestStart(a) ==
  /\ \E r \in ending[a] \union refusing[a] :
       /\ fpc[r] = "idle"
       /\ \/ /\ status[r] = "running" /\ owner[r] = a /\ rstat[a] # "gone"
             /\ fpc' = [fpc EXCEPT ![r] = "write"]
             /\ fby' = [fby EXCEPT ![r] = a]
             /\ UNCHANGED <<ending, refusing>>
          \/ /\ status[r] # "running" \/ owner[r] # a \/ rstat[a] = "gone"
             /\ ending' = [ending EXCEPT ![a] = @ \ {r}]
             /\ refusing' = [refusing EXCEPT ![a] = @ \ {r}]
             /\ UNCHANGED <<fpc, fby>>
  /\ UNCHANGED <<runVars, rowVars, pollVars, fwon, ftodo, opVars, reapVars>>
  /\ UNCHANGED <<amode, pstart, active, faults>>

IngestWrite_Bug(r) ==
  /\ fpc[r] = "write"
  /\ \E o \in Outcomes : status' = [status EXCEPT ![r] = o]
  /\ fwon' = [fwon EXCEPT ![r] = TRUE]
  /\ fpc' = [fpc EXCEPT ![r] = "load"]
  /\ UNCHANGED <<owner, ends, killq, unreported, rowVars, pollVars, fby, ftodo>>
  /\ UNCHANGED <<opVars, reapVars, agentVars, faults>>

\* The status-guarded terminal write.  A write that fails leaves the run
\* running and is reported all the same.  So with the statements below: one that
\* fails is logged or ignored, and the next is tried.
IngestWrite(r) ==
  /\ fpc[r] = "write"
  /\ \/ /\ status[r] = "running"
        /\ \E o \in Outcomes : status' = [status EXCEPT ![r] = o]
        /\ fwon' = [fwon EXCEPT ![r] = TRUE]
     \/ /\ status[r] # "running"
        /\ UNCHANGED <<status, fwon>>
     \/ /\ "dbError" \in faults
        /\ fwon' = [fwon EXCEPT ![r] = TRUE]
        /\ UNCHANGED status
  /\ fpc' = [fpc EXCEPT ![r] = "load"]
  /\ UNCHANGED <<owner, ends, killq, unreported, rowVars, pollVars, fby, ftodo>>
  /\ UNCHANGED <<opVars, reapVars, agentVars, faults>>

IngestLoad(r) ==
  /\ fpc[r] = "load"
  /\ \/ load' = SetRow(load, fby[r], Floor0(load[fby[r]] - 1))
     \/ "dbError" \in faults /\ UNCHANGED load
  /\ fpc' = [fpc EXCEPT ![r] = "drain"]
  /\ UNCHANGED <<runVars, rstat, deadline, stale, lost, held, pollVars>>
  /\ UNCHANGED <<fby, fwon, ftodo, opVars, reapVars, agentVars, faults>>

\* checkDrainComplete reads the row once and acts on what it read.
IngestDrain(r) ==
  LET a == fby[r] IN
  /\ fpc[r] = "drain"
  /\ \/ /\ rstat[a] = "draining" /\ load[a] = 0
        /\ fpc' = [fpc EXCEPT ![r] = "off"]
        /\ UNCHANGED ftodo
     \/ /\ rstat[a] = "draining" /\ load[a] > 0 /\ deadline[a] = "passed"
        /\ fpc' = [fpc EXCEPT ![r] = "force"]
        /\ ftodo' = [ftodo EXCEPT ![r] = RunningOf(a)]
     \/ /\ \/ rstat[a] # "draining" \/ (load[a] > 0 /\ deadline[a] # "passed")
           \/ "dbError" \in faults
        /\ fpc' = [fpc EXCEPT ![r] = "emit"]
        /\ UNCHANGED ftodo
  /\ UNCHANGED <<runVars, rowVars, pollVars, fby, fwon>>
  /\ UNCHANGED <<opVars, reapVars, agentVars, faults>>

\* Drain complete: the write that takes the runner offline is not guarded.
IngestOff(r) ==
  /\ fpc[r] = "off"
  /\ \/ /\ rstat' = SetRow(rstat, fby[r], "offline")
        /\ deadline' = SetRow(deadline, fby[r], "none")
     \/ "dbError" \in faults /\ UNCHANGED <<rstat, deadline>>
  /\ fpc' = [fpc EXCEPT ![r] = "emit"]
  /\ UNCHANGED <<runVars, load, stale, lost, held, pollVars>>
  /\ UNCHANGED <<fby, fwon, ftodo, opVars, reapVars, agentVars, faults>>

\* forceOfflineOnDrainTimeout: its runs, then the row.
IngestForce(r) ==
  /\ fpc[r] = "force"
  /\ \E x \in ftodo[r] :
       /\ CloseLost(x) \/ ("dbError" \in faults /\ CloseFails(x))
       /\ ftodo' = [ftodo EXCEPT ![r] = @ \ {x}]
  /\ UNCHANGED <<owner, killq, unreported, rowVars, pollVars, fpc, fby, fwon>>
  /\ UNCHANGED <<opVars, reapVars, agentVars, faults>>

IngestForced(r) ==
  /\ fpc[r] = "force" /\ ftodo[r] = {}
  /\ \/ /\ rstat' = SetRow(rstat, fby[r], "offline")
        /\ load' = SetRow(load, fby[r], 0)
        /\ deadline' = SetRow(deadline, fby[r], "none")
     \/ "dbError" \in faults /\ UNCHANGED <<rstat, load, deadline>>
  /\ fpc' = [fpc EXCEPT ![r] = "emit"]
  /\ UNCHANGED <<runVars, stale, lost, held, pollVars>>
  /\ UNCHANGED <<fby, fwon, ftodo, opVars, reapVars, agentVars, faults>>

\* The run-end row, unless somebody else ended the run; then the answer.  An
\* answer that is lost leaves the agent to ask again and be told 409.
IngestEmit(r) ==
  /\ fpc[r] = "emit"
  /\ \/ ends' = [ends EXCEPT ![r] = IF fwon[r] THEN @ + 1 ELSE @]
     \/ "dbError" \in faults /\ UNCHANGED ends
  /\ fpc' = [fpc EXCEPT ![r] = "idle"]
  /\ fby' = [fby EXCEPT ![r] = None]
  /\ fwon' = [fwon EXCEPT ![r] = FALSE]
  /\ \/ /\ ending' = [ending EXCEPT ![fby[r]] = @ \ {r}]
        /\ refusing' = [refusing EXCEPT ![fby[r]] = @ \ {r}]
     \/ /\ "loseReply" \in faults
        /\ UNCHANGED <<ending, refusing>>
  /\ UNCHANGED <<status, owner, killq, unreported, rowVars, pollVars, ftodo>>
  /\ UNCHANGED <<opVars, reapVars, amode, pstart, active, faults>>

\* The connection of an upload has ended, or the process that sent it has: the
\* statements of finalizeRun run on the request's context, which ends with either.
UploadBroken(r) ==
  \/ "cut" \in faults
  \/ "crash" \in faults /\ r \notin ending[fby[r]] \union refusing[fby[r]]

\* The server notices, before whichever statement comes next.  An agent that lives
\* sends the end again.
IngestCut(r) ==
  /\ fpc[r] # "idle" /\ UploadBroken(r)
  /\ BreakOff(ftodo[r], IF fwon[r] THEN {r} ELSE {})
  /\ fpc' = [fpc EXCEPT ![r] = "idle"]
  /\ fby' = [fby EXCEPT ![r] = None]
  /\ fwon' = [fwon EXCEPT ![r] = FALSE]
  /\ ftodo' = [ftodo EXCEPT ![r] = {}]
  /\ UNCHANGED <<owner, ends, killq, rowVars, pollVars, opVars, reapVars>>
  /\ UNCHANGED <<agentVars, faults>>

-----------------------------------------------------------------------------
(* HandleDrain                                                              *)

\* The status check and the load it will decide by, read together.
DrainRead(a) ==
  /\ "drain" \in faults
  /\ dpc[a] = "idle" /\ rstat[a] = "online"
  /\ dpc' = [dpc EXCEPT ![a] = IF load[a] = 0 THEN "markIdle" ELSE "markBusy"]
  /\ UNCHANGED <<runVars, rowVars, pollVars, finVars, kpc, reapVars, agentVars, faults>>

\* The write is not guarded by the status that was checked.
DrainMark(a) ==
  /\ dpc[a] \in {"markIdle", "markBusy"}
  /\ rstat' = SetRow(rstat, a, "draining")
  /\ deadline' = SetRow(deadline, a, "set")
  /\ dpc' = [dpc EXCEPT ![a] = IF @ = "markIdle" THEN "off" ELSE "idle"]
  /\ UNCHANGED <<runVars, load, stale, lost, held, pollVars, finVars, kpc>>
  /\ UNCHANGED <<reapVars, agentVars, faults>>

\* "No active jobs": offline at once, by the load read at the start.
DrainOff(a) ==
  /\ dpc[a] = "off"
  /\ rstat' = SetRow(rstat, a, "offline")
  /\ deadline' = SetRow(deadline, a, "none")
  /\ dpc' = [dpc EXCEPT ![a] = "idle"]
  /\ UNCHANGED <<runVars, load, stale, lost, held, pollVars, finVars, kpc>>
  /\ UNCHANGED <<reapVars, agentVars, faults>>

\* The operator's connection ends before the row says offline.
DrainCut(a) ==
  /\ "cut" \in faults /\ dpc[a] # "idle"
  /\ dpc' = [dpc EXCEPT ![a] = "idle"]
  /\ UNCHANGED <<runVars, rowVars, pollVars, finVars, kpc, reapVars, agentVars, faults>>

-----------------------------------------------------------------------------
(* killJob                                                                  *)

\* The guarded write of the operator's disposition, queued or running alike.
KillJob(r) ==
  /\ "kill" \in faults
  /\ kpc[r] = "idle" /\ status[r] \in {"queued", "running"}
  /\ \E d \in Dispositions : status' = [status EXCEPT ![r] = d]
  /\ kpc' = [kpc EXCEPT ![r] = "queue"]
  /\ UNCHANGED <<owner, ends, killq, unreported, rowVars, pollVars, finVars, dpc>>
  /\ UNCHANGED <<reapVars, agentVars, faults>>

\* The signal, whose insert may fail without a word, as the row's may.
KillQueue(r) ==
  /\ kpc[r] = "queue"
  /\ \/ killq' = killq \union {r}
     \/ "dbError" \in faults /\ UNCHANGED killq
  /\ kpc' = [kpc EXCEPT ![r] = "emit"]
  /\ UNCHANGED <<status, owner, ends, unreported, rowVars, pollVars, finVars, dpc>>
  /\ UNCHANGED <<reapVars, agentVars, faults>>

KillEmit(r) ==
  /\ kpc[r] = "emit"
  /\ \/ ends' = [ends EXCEPT ![r] = @ + 1]
     \/ "dbError" \in faults /\ UNCHANGED ends
  /\ kpc' = [kpc EXCEPT ![r] = "idle"]
  /\ UNCHANGED <<status, owner, killq, unreported, rowVars, pollVars, finVars, dpc>>
  /\ UNCHANGED <<reapVars, agentVars, faults>>

\* The operator's connection ends before the signal or the row is written.
KillCut(r) ==
  /\ "cut" \in faults /\ kpc[r] # "idle"
  /\ unreported' = unreported \union {r}
  /\ kpc' = [kpc EXCEPT ![r] = "idle"]
  /\ UNCHANGED <<status, owner, ends, killq, rowVars, pollVars, finVars, dpc>>
  /\ UNCHANGED <<reapVars, agentVars, faults>>

-----------------------------------------------------------------------------
(* The reaper, and the operator's deregistration                            *)

\* sweepOffline's SELECT.
SweptStatus_Bug == {"online"}

SweptStatus == {"online", "draining"}

ReapSweep ==
  /\ rpc = "idle"
  /\ rlist' = {a \in Agents : stale[a] /\ rstat[a] \in SweptStatus}
  /\ rlist' # {}
  /\ rpc' = "pick"
  /\ UNCHANGED <<runVars, rowVars, pollVars, finVars, opVars, rcur, rtodo, agentVars, faults>>

\* offlineRunner begins: the next runner of the list, and its running runs.
ReapPick ==
  /\ rpc = "pick"
  /\ \E a \in rlist :
       /\ rcur' = a
       /\ rtodo' = RunningOf(a)
       /\ rlist' = rlist \ {a}
  /\ rpc' = "close"
  /\ UNCHANGED <<runVars, rowVars, pollVars, finVars, opVars, agentVars, faults>>

ReapClose ==
  /\ rpc = "close"
  /\ \E r \in rtodo :
       /\ CloseLost(r)
       /\ rtodo' = rtodo \ {r}
  /\ UNCHANGED <<owner, killq, unreported, rowVars, pollVars, finVars, opVars>>
  /\ UNCHANGED <<rpc, rlist, rcur, agentVars, faults>>

\* The row, whatever has happened to it since the sweep read it.
ReapOffline ==
  /\ rpc = "close" /\ rtodo = {}
  /\ rstat' = SetRow(rstat, rcur, "offline")
  /\ load' = SetRow(load, rcur, 0)
  /\ lost' = SetRow(lost, rcur, {})
  /\ rpc' = IF rlist = {} THEN "idle" ELSE "pick"
  /\ rcur' = None
  /\ UNCHANGED <<runVars, deadline, stale, held, pollVars, finVars, opVars>>
  /\ UNCHANGED <<rlist, rtodo, agentVars, faults>>

\* sweepDeregister's SELECT: offline, and quiet for RunnerDeregisterAfter.
ReapOld ==
  /\ "expire" \in faults /\ rpc = "idle"
  /\ \E old \in SUBSET {a \in Agents : stale[a] /\ rstat[a] = "offline"} :
       /\ old # {}
       /\ rlist' = old
  /\ rpc' = "old"
  /\ UNCHANGED <<runVars, rowVars, pollVars, finVars, opVars, rcur, rtodo, agentVars, faults>>

\* The row of a runner is deleted; the runs it claimed keep no owner.
DropRow(a) ==
  /\ rstat' = [rstat EXCEPT ![a] = "gone"]
  /\ owner' = [r \in Runs |-> IF owner[r] = a THEN None ELSE owner[r]]
  /\ load' = [load EXCEPT ![a] = 0]
  /\ deadline' = [deadline EXCEPT ![a] = "none"]
  /\ stale' = [stale EXCEPT ![a] = FALSE]
  /\ lost' = [lost EXCEPT ![a] = {}]
  /\ held' = [held EXCEPT ![a] = FALSE]

\* deregisterRunner: one transaction, which reads neither the status nor the
\* heartbeat again, and closes no run.
ReapDeregister ==
  /\ rpc = "old"
  /\ \E a \in rlist :
       /\ DropRow(a)
       /\ rlist' = rlist \ {a}
       /\ rpc' = IF rlist = {a} THEN "idle" ELSE "old"
  /\ UNCHANGED <<status, ends, killq, unreported, pollVars, finVars, opVars>>
  /\ UNCHANGED <<rcur, rtodo, agentVars, faults>>

\* HandleDeregisterRunner: one transaction that first closes its running runs.
Deregister(a) ==
  /\ "deregister" \in faults /\ rstat[a] # "gone"
  /\ status' = [r \in Runs |-> IF r \in RunningOf(a) THEN "failure" ELSE status[r]]
  /\ ends' = [r \in Runs |-> IF r \in RunningOf(a) THEN ends[r] + 1 ELSE ends[r]]
  /\ DropRow(a)
  /\ UNCHANGED <<killq, unreported, pollVars, finVars, opVars, reapVars, agentVars, faults>>

-----------------------------------------------------------------------------
(* Time, and the death of the server                                        *)

\* drain_deadline_at is in the past.
DeadlinePasses(a) ==
  /\ deadline[a] = "set"
  /\ deadline' = [deadline EXCEPT ![a] = "passed"]
  /\ UNCHANGED <<runVars, rstat, load, stale, lost, held, pollVars, finVars>>
  /\ UNCHANGED <<opVars, reapVars, agentVars, faults>>

\* last_seen_at is older than RunnerOfflineAfter: no poll of a in the server.
GoStale(a) ==
  /\ ~stale[a] /\ rstat[a] # "gone" /\ ppc[a] = "idle"
  /\ (IF Up(a) THEN "partition" ELSE "quiet") \in faults
  /\ stale' = [stale EXCEPT ![a] = TRUE]
  /\ UNCHANGED <<runVars, rstat, load, deadline, lost, held, pollVars, finVars>>
  /\ UNCHANGED <<opVars, reapVars, agentVars, faults>>

\* The process before this one has been silent for the hold window.
HoldPasses(a) ==
  /\ held[a]
  /\ held' = [held EXCEPT ![a] = FALSE]
  /\ UNCHANGED <<runVars, rstat, load, deadline, stale, lost, pollVars, finVars>>
  /\ UNCHANGED <<opVars, reapVars, agentVars, faults>>

\* Every handler dies between two statements; an agent sees a failed poll.
ServerCrash ==
  /\ "serverCrash" \in faults
  /\ amode' = [a \in Agents |->
       IF ppc[a] # "idle" /\ plive[a] THEN AfterPoll(amode[a], SlotsOf(a)) ELSE amode[a]]
  /\ ppc' = [a \in Agents |-> "idle"]
  /\ psnap' = [a \in Agents |-> "gone"]
  /\ pclaim' = [a \in Agents |-> FALSE]
  /\ pctl' = [a \in Agents |-> {}]
  /\ ptodo' = [a \in Agents |-> {}]
  /\ pn' = [a \in Agents |-> 0]
  /\ prun' = [a \in Agents |-> None]
  /\ plive' = [a \in Agents |-> FALSE]
  /\ fpc' = [r \in Runs |-> "idle"]
  /\ fby' = [r \in Runs |-> None]
  /\ fwon' = [r \in Runs |-> FALSE]
  /\ ftodo' = [r \in Runs |-> {}]
  /\ dpc' = [a \in Agents |-> "idle"]
  /\ kpc' = [r \in Runs |-> "idle"]
  /\ rpc' = "idle" /\ rlist' = {} /\ rcur' = None /\ rtodo' = {}
  /\ UNCHANGED <<runVars, rowVars, pstart, active, ending, refusing, faults>>

-----------------------------------------------------------------------------

PollStep(a) ==
  \/ PollArrive(a) \/ PollCloseRun(a) \/ PollClosed(a) \/ PollControl(a)
  \/ PollReadmit(a) \/ PollLoop(a) \/ PollClaim(a) \/ PollAgain(a)
  \/ PollTimeout(a) \/ PollLoad(a)
  \/ PollDeliver(a) \/ PollLost(a) \/ PollAbort(a)

AgentStep(a) ==
  \/ Finish(a) \/ Leave(a) \/ Crash(a) \/ Restart(a) \/ StopSignal(a)
  \/ PollRejected(a)

IngestStep(r) ==
  \/ IngestWrite(r) \/ IngestLoad(r) \/ IngestDrain(r) \/ IngestOff(r)
  \/ IngestForce(r) \/ IngestForced(r) \/ IngestEmit(r) \/ IngestCut(r)

DrainStep(a) == DrainMark(a) \/ DrainOff(a) \/ DrainCut(a)

KillStep(r) == KillQueue(r) \/ KillEmit(r) \/ KillCut(r)

ReapStep ==
  \/ ReapSweep \/ ReapPick \/ ReapClose \/ ReapOffline \/ ReapDeregister

TimeStep(a) == DeadlinePasses(a) \/ GoStale(a) \/ HoldPasses(a)

Next ==
  \/ \E a \in Agents : \/ PollStep(a) \/ AgentStep(a) \/ IngestStart(a)
                       \/ DrainRead(a) \/ DrainStep(a) \/ TimeStep(a)
                       \/ Deregister(a)
  \/ \E r \in Runs : IngestStep(r) \/ KillJob(r) \/ KillStep(r)
  \/ ReapStep \/ ReapOld \/ ServerCrash

Spec == Init /\ [][Next]_vars

(***************************************************************************)
(* Fairness.  A handler that has begun goes on (Go runs its goroutine), a   *)
(* live agent polls and uploads again and again, the ticker drives the      *)
(* reaper, clocks advance, and a long poll ends after pollTimeout whatever  *)
(* its loop finds.  A job ends, unless it may hang.  No operator, fault or   *)
(* signal is fair.                                                          *)
(***************************************************************************)
PollHandler(a) ==
  \/ PollCloseRun(a) \/ PollClosed(a) \/ PollControl(a) \/ PollReadmit(a)
  \/ PollLoop(a) \/ PollClaim(a) \/ PollAgain(a) \/ PollTimeout(a)
  \/ PollLoad(a) \/ PollDeliver(a)

Fairness ==
  /\ \A a \in Agents :
       /\ WF_vars(PollArrive(a)) /\ WF_vars(PollHandler(a))
       /\ SF_vars(PollTimeout(a)) /\ WF_vars(PollAbort(a))
       /\ WF_vars(IngestStart(a)) /\ WF_vars(Leave(a)) /\ WF_vars(PollRejected(a))
       /\ WF_vars(DrainStep(a))
       /\ WF_vars(~Up(a) /\ GoStale(a)) /\ WF_vars(HoldPasses(a))
       /\ WF_vars(DeadlinePasses(a))
       /\ WF_vars("hang" \notin faults /\ Finish(a))
  /\ \A r \in Runs : WF_vars(IngestStep(r)) /\ WF_vars(KillStep(r))
  /\ WF_vars(ReapStep)

FairSpec == Spec /\ Fairness

-----------------------------------------------------------------------------
(* Properties                                                               *)

RunsTyped ==
  /\ status \in [Runs -> RunStatus] /\ owner \in [Runs -> Agents \union {None}]
  /\ ends \in [Runs -> Nat] /\ killq \subseteq Runs /\ unreported \subseteq Runs

RowsTyped ==
  /\ rstat \in [Agents -> RunnerStatus] /\ load \in [Agents -> Nat]
  /\ deadline \in [Agents -> {"none", "set", "passed"}]
  /\ stale \in [Agents -> BOOLEAN] /\ lost \in [Agents -> SUBSET Runs]
  /\ held \in [Agents -> BOOLEAN]

PollsTyped ==
  /\ ppc \in [Agents -> PollPc] /\ psnap \in [Agents -> RunnerStatus]
  /\ pclaim \in [Agents -> BOOLEAN] /\ pctl \in [Agents -> SUBSET Runs]
  /\ ptodo \in [Agents -> SUBSET Runs] /\ pn \in [Agents -> Nat]
  /\ prun \in [Agents -> Runs \union {None}] /\ plive \in [Agents -> BOOLEAN]

FinsTyped ==
  /\ fpc \in [Runs -> FinPc] /\ fby \in [Runs -> Agents \union {None}]
  /\ fwon \in [Runs -> BOOLEAN] /\ ftodo \in [Runs -> SUBSET Runs]
  /\ \A r \in Runs : fpc[r] # "idle" => fby[r] \in Agents

OpsTyped ==
  /\ dpc \in [Agents -> {"idle", "markIdle", "markBusy", "off"}]
  /\ kpc \in [Runs -> {"idle", "queue", "emit"}]

ReapTyped ==
  /\ rpc \in {"idle", "pick", "close", "old"} /\ rlist \subseteq Agents
  /\ rcur \in Agents \union {None} /\ rtodo \subseteq Runs
  /\ rpc = "close" => rcur \in Agents

AgentsTyped ==
  /\ amode \in [Agents -> AgentMode] /\ pstart \in [Agents -> ProcessState]
  /\ active \in [Agents -> SUBSET Runs] /\ ending \in [Agents -> SUBSET Runs]
  /\ refusing \in [Agents -> SUBSET Runs]

\* Every variable has its type: the rows of the tables, the handlers' program
\* counters with what they hold, and the agents' slots.  A finalizeRun or an
\* offlineRunner at work knows its runner.
TypeOK ==
  /\ RunsTyped /\ RowsTyped /\ PollsTyped /\ FinsTyped /\ OpsTyped
  /\ ReapTyped /\ AgentsTyped /\ faults \subseteq FaultKinds

\* A run that has ended has had its run-end row written once, or exactly one
\* handler still owes it; a run that has not has none.  The guarded terminal
\* writes of finalizeRun, killJob, closeLostRuns and forceOfflineOnDrainTimeout
\* decide who owes it.  The code gives this up in three ways: a statement fails,
\* the server dies, or the request of the handler that ended the run is broken off
\* before the row, because the agent or the operator behind it is gone
\* (unreported; such a run never has a row).
EndReported == faults \intersect {"dbError", "serverCrash"} = {} =>
  \A r \in Runs :
    LET owed == (IF kpc[r] = "idle" THEN 0 ELSE 1) + (IF fwon[r] THEN 1 ELSE 0)
    IN ends[r] + owed = IF status[r] \in Terminal /\ r \notin unreported THEN 1 ELSE 0

\* An agent executes only runs that were claimed for it, and no run executes on
\* two agents: the claim is one UPDATE ... RETURNING, whatever polls race it.
OneExecutor ==
  \A a \in Agents : \A r \in active[a] :
    /\ status[r] # "queued"
    /\ rstat[a] = "gone" \/ owner[r] = a
    /\ \A b \in Agents \ {a} : r \notin active[b]

\* The events under which the server keeps track of every run it gave away.  It
\* loses it to an answer that is lost, a terminal write that fails and its own
\* death; to an agent that polls again just as the reaper acts on its silence; and
\* to a drain that read the load before the claim: the agent's row is offline, the
\* reaper passes it over for as long as it is silent, then deletes it.
KeepsTrack ==
  /\ faults \intersect {"loseReply", "dbError", "serverCrash", "partition"} = {}
  /\ "quiet" \in faults => /\ "restart" \notin faults
                          /\ ~ ({"drain", "expire"} \subseteq faults)

\* A run the server shows as running is held by its agent, or is on its way to
\* it, or its agent is leaving, gone or yet to be answered, in which case a
\* start, a deferred close or the reaper will end it.  Otherwise nothing would:
\* the reaper walks quiet runners only.
RunningIsHeld ==
  KeepsTrack =>
  \A r \in Running :
    \E a \in Agents :
      /\ owner[r] = a
      /\ \/ r \in Holds(a) \/ r = prun[a] \/ r \in ptodo[a] \/ r \in lost[a]
         \/ amode[a] \in {"down", "stopping", "leaving"} \/ pstart[a] # "answered"

\* A poll never closes as lost a run its own process holds: failRunningRuns on
\* a start, closeLostRunsIfOwnersGone later.
CloseSparesLive ==
  \A a \in Agents : (ptodo[a] \union lost[a]) \intersect Holds(a) = {}

\* "With pollState.noClaim this should not happen at all" (agent.go refuse): the
\* agent is handed no run it cannot start, unless an operator drains it.
NeverRefused == "drain" \notin faults => \A a \in Agents : refusing[a] = {}

\* A terminal status is never rewritten, by a late upload, a stop, the reaper
\* or a drain that times out.
TerminalIsFinal ==
  [][\A r \in Runs : status[r] \in Terminal => status'[r] = status[r]]_vars

\* A run is claimed for one runner in its life; the deletion of the runner's
\* row is all that clears it.
ClaimedOnce ==
  [][\A r \in Runs : owner'[r] # owner[r] =>
       \/ owner[r] = None /\ status[r] = "queued"
       \/ owner'[r] = None /\ rstat'[owner[r]] = "gone"]_vars

\* An agent stays for good, or stays away long enough for the reaper to see it.
StaysOrQuiet ==
  "quiet" \in faults \/ \A a \in Agents : <>[](Up(a) \/ rstat[a] = "gone")

\* Every run a runner claimed ends, though the agent dies with it, leaves
\* without it or comes back without it: by its upload, by the close a start asks
\* for, at once or once the process before it has been silent, or by the reaper.
\* (Not when an agent comes back, or is drained, just as the reaper acts on its
\* silence: see the README.)
LostRunsEnd ==
  LET recovers ==
        /\ faults \intersect {"hang", "loseReply", "dbError", "serverCrash",
                              "partition", "cut"} = {}
        /\ "quiet" \in faults => faults \intersect {"restart", "drain"} = {}
  IN StaysOrQuiet =>
       \A r \in Runs : (status[r] = "running" /\ recovers) ~> (status[r] \in Terminal)

\* An operator's stop reaches the process: the run does not go on executing
\* behind a row that says it ended.  (The signal is consumed when it is read: an
\* answer that never arrives, or that a stop signal cancels, takes it along.  It is
\* never queued when its insert fails or the operator's connection ends first.)
StopReachesAgent ==
  LET delivers == faults \intersect {"loseReply", "serverCrash", "stop", "dbError", "cut"} = {}
  IN \A r \in Runs : \A a \in Agents :
       (r \in active[a] /\ status[r] \in Terminal /\ delivers) ~> (r \notin active[a])

\* A drain comes to an end while jobs do: by the last upload, or by the reaper
\* once the agent has left.  (An upload cut off again and again, or a statement of
\* the last one that fails, leaves the drain open.)
DrainEnds ==
  LET resolves == faults \intersect {"hang", "dbError", "cut"} = {}
  IN \A a \in Agents : (rstat[a] = "draining" /\ resolves) ~> (rstat[a] # "draining")

\* "drain timeout force-kills on expiry": a deadline that has passed resolves
\* the drain, whatever the runner's jobs do.
DeadlineForces ==
  \A a \in Agents :
    (rstat[a] = "draining" /\ deadline[a] = "passed") ~> (rstat[a] # "draining")

\* "this poll can only come from a deliberate restart": the process that a poll
\* brings back online has not been answered before.
ReadmitOnlyAfterRestart ==
  [][\A a \in Agents : (rstat[a] = "offline" /\ rstat'[a] = "online") =>
       pstart[a] # "answered"]_vars

\* Nothing of the agent is in a handler of the server, and it holds no run.
Quiet(a) ==
  /\ Up(a) /\ ppc[a] = "idle" /\ Holds(a) = {} /\ RunningOf(a) = {}
  /\ \A r \in Runs : fby[r] # a /\ (owner[r] = a => kpc[r] = "idle")

\* "skipping the decrement would leak load": a runner whose runs are all over
\* has its slots back.
IdleLoadZero == \A a \in Agents : Quiet(a) => load[a] = 0

\* The run-end rows that count: a write that fails is reported all the same.
Reported == [r \in Runs |-> IF "dbError" \in faults THEN 0 ELSE ends[r]]

\* The life of every run is the one the contract allows, and its end is
\* recorded at most once, whatever else fails.
Contract == INSTANCE RunContract WITH
  Results <- Terminal, life <- status, reported <- Reported
ImplementsContract == Contract!Spec

=============================================================================
