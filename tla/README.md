# cronomicon: specification, checks and proofs

cronomicon is a job scheduler: one Go server with one SQLite database, and any
number of runner agents that poll it over HTTP, execute runs and stream their
logs back. This directory models its core logic in TLA+, checks the models with
TLC on small instances and proves their main properties with TLAPS for every
value of the constants.

All paths below are relative to `src/backend/internal/`.

## 1. The system

| component | state it keeps | operations | what makes it correct |
|---|---|---|---|
| poll, claim, agent processes (`runner/poll.go`, `processes.go`) | `runs.status`, `runner_id`; `runners.status`, `load`, `last_seen_at`, `lost_runs_before`; `runner_processes`; `action_queue` | heartbeat, note of a started process, close of lost runs, control drain, readmission, long poll, claim | a run is handed to one agent; a close never hits a run its agent holds; a run no process holds is found |
| log ingest (`runner/log.go`) | `runs.status`, `log_raw_offset`, the log file, `unredactableSince`, `runners.load`, `activity` | chunk, final chunk, end without text, drain completion, forced drain | one terminal status, one run-end row, every line of the log in order |
| agent log streaming (`agent/logstream.go`) | the buffer, its committed offset | write, tick, seal, send, resume, retry | nothing counted as committed that the server lacks; a run's end is sent until it is taken |
| reaper (`runner/reaper.go`) | as above | offline sweep, deregistration sweep | every run of a silent runner ends |
| drain, deregistration (`runner/drain.go`, `register.go`) | `runners` | drain, deregister | a drain ends and stays |
| operator stop (`api/execution_mount.go`, `killJob`) | `runs`, `action_queue`, `activity` | stop | the process really stops |
| agent (`agent/agent.go`) | slots, drain state, stop signals | poll loop, dispatch, refuse, kill, upload | executes what was claimed for it, and nothing twice |
| cron fire, queue (`scheduler/scheduler.go`, `queue.go`) | cron entries, `runs`, `pending_runs` | fire, queue, enqueue, reload | one active run per key; a fire is run, queued or recorded |
| admission gates (`scheduler/gate.go`) | settings, pauses, calendars | evaluate, per origin | nothing starts past a shut gate |
| pending runs (`scheduler/pending.go`, `api/pending_runs.go`) | `pending_runs` | promote, hold, clear, miss, drop, cancel | a parked row ends once, and does end |
| file arrivals (`runner/filewatch.go`) | sightings | deliver | one run per event |
| reactions (`scheduler/reaction.go`, `reaction/`) | `reaction_deliveries`, the cursor, `pending_runs` | scan, match, claim, judge, park, record | one run per event and reaction; no event passed over; a cycle ends |
| run cap (`runcap/`) | - | at production, in the claim | the cap is not exceeded |
| workflow engine (`workflow/`) | `workflow_runs`, child `runs`, the walks' goroutines and cancel functions | trigger, walk, dispatch, wait, retry, branch, fan out, cancel, reap, sweep | steps in order, within their slots; a cancel holds; success means success; a workflow ends once |
| missed-run detector (`scheduler/sla.go`) | `activity` | detect | no false miss, no silent one |
| log archive, retention, git import, notices, secrets, auth, inventory, backup, UI | | | not state machines of interest here, or planned (section 8) |

**How they interact.** Everything shared is a row of the database. SQLite makes
one statement atomic, and the handlers named here (except two deregistration
transactions) are sequences of statements with other handlers running in
between. Between the server and an agent there are only requests of the agent:
a poll that carries an assignment, kills and the drain op back, and uploads.
The server never calls an agent, so whatever an answer carries is gone if that
answer is lost.

**What is hard.** Two handlers between the statements of one another; a value
read (load, status, a due row, the depth of a queue) and used later; an agent
that dies and returns before anybody noticed; an answer lost after the signal
in it was consumed; the server's death between two statements; a row held by
one gate after another that must still leave. `PROJECT.json` lists these
hazards at their lines with the properties that watch them.

## 2. The modules

| module | contents |
|---|---|
| `RunContract` | what is promised of a run: queued, running, one result for good, its end recorded at most once and not before it ended |
| `RunLifecycle` | claim, polls, uploads, stops, drains, reaper, deregistration, agents; implements `RunContract` |
| `RunLifecycle_proofs` | its theorems |
| `PendingRuns` | producers of runs, the concurrency key and queue, the admission gates, promotion, cancels |
| `PendingRuns_proofs` | its theorems |
| `Workflow` | a workflow's walks, child runs, retries, branches, sub-workflows, cancels, the reaper of old workflows and the sweep at start; implements `RunContract` |
| `Workflow_proofs` | its theorems |
| `Reactions` | the reactor's pass over finished runs, the claim, the vetoes and brakes, the chains of runs that follow |
| `Reactions_proofs` | its theorems |
| `LogStream` | one run's log from the agent's buffer to the server's file and the run's end |
| `LogStream_proofs` | its theorems |
| `MCRunLifecycle`, `MCPendingRuns`, `MCWorkflow`, `MCReactions`, `MCLogStream` | instances and scenarios for TLC |

`RunContract` is the abstract specification that two modules implement: a run
(`RunLifecycle`) and a workflow run (`Workflow`). The others meet at rows of the
database. What `Workflow` dispatches is a run that `RunLifecycle` claims and ends;
what either ends is an event of `Reactions`; what `Reactions` parks is a row that
`PendingRuns` promotes; the final chunk that `RunLifecycle` has in one step is the
last of the chunks of `LogStream`. Each module keeps of its neighbours the row as
they may leave it.

### RunLifecycle

One action is one SQL statement, or a group of reads nothing can tell apart; a
handler is a program counter with what it has read and not yet used.

* `ppc` and the other `p` variables are `HandlePoll` of each runner: `PollArrive`
  (heartbeat, the row as read, `noteProcess`), `PollCloseRun` and `PollClosed`
  (the closes of lost runs, then the load), `PollControl` (`drainControl`),
  `PollReadmit`, `PollLoop`, `PollClaim`, `PollAgain`, `PollTimeout`, `PollLoad`
  and the answer: `PollDeliver`, `PollLost`, or `PollAbort` when the connection
  is gone.
* `fpc` and the `f` variables are the final chunk of each run: `IngestStart`
  (the status check), `IngestWrite` (the guarded write), `IngestLoad`,
  `IngestDrain` (`checkDrainComplete`), `IngestOff`, `IngestForce`/`IngestForced`
  (`forceOfflineOnDrainTimeout`), `IngestEmit`.
* `dpc` is `HandleDrain`, `kpc` is `killJob`, `rpc` is the reaper's ticker.
* `active`, `ending` and `refusing` are the agent's slots: executing, over and
  not yet uploaded, refused and not yet uploaded. `amode` and `pstart` are its
  drain and stop state and its `started` parameter.
* Every statement of these handlers runs on its request's context. `PollAbort`,
  `IngestCut`, `DrainCut` and `KillCut` are a request broken off: the handler stops
  between any two statements, as those it has left all fail. A poll or an upload
  breaks off when its process is gone (`plive`, `UploadBroken`), and any handler but
  a live agent's poll when its connection ends (the event `cut`). `BreakOff` keeps in the history
  variable `unreported` the runs whose run-end row was lost that way. The event
  `dbError` is a single failing statement: of `finalizeRun`, the closes of a forced drain
  included (`CloseFails`), or of `killJob` after its terminal write.
* `lost` is the set of runs `lost_runs_before` covers, `held` says that another
  process was seen within `processHoldWindow`: the timestamps themselves are
  abstracted to the comparisons made with them.

Abstractions: `endLostRuns`' update and its activity row are one step, which no
other handler can distinguish, but a server death or the end of the poll can (the
record is then missing: `BreakOff` allows it); a delivered kill moves the run to `ending` at
once; `IngestStart` also takes the 404 and the 409; the order of the queue, an
agency's own cap, capability masks and managed limits do not restrict a claim.

### PendingRuns

A request is one call of a producer, with its row of `runs` (`run`) and of
`pending_runs` (`row`, `stamp` for `gate_kind`, `age` for `run_at`). `pc` is the
producer: `FireRefused`/`FireAdmitted` (the gates), `FireCheck`
(`hasActiveRunForKey`), `FireDepth` and `FirePark` (`TryQueue`'s two statements),
`FireEnqueue` (the insert, which the partial unique index may refuse). `ppc`,
`todo` and `cur` are a pass of `PromotePending`, with one action per statement
of `promoteOne`. `fate` is a history variable: how a parked request ended, as
its traces tell it. The event `hang` is a run that keeps its key for ever; `Late`
and `Due` are the grace and the instant that `promoteOne` and its query test.

`AdmissionGates` and `PromotionGates` are the origin table of `gate.go`, and
`Refusals` is the order in which `Evaluate` asks. A gate is a condition that
opens and shuts whenever the scenario allows it.

Abstractions: a recorded skip is the answer "refused", whether or not an earlier
skip of the same episode absorbs it; which of two calendars is named is free; the
rows of a pass are taken in any order; an insert that loses the key is answered
"refused" whoever asked (`IsForbidConflict` looks for the index's name where SQLite
reports the column, `scheduler.go:1655`, so that a cron fire only logs it and HTTP
answers 500: the tables are left the same); a parked workflow takes the path of a job
that holds no key; a deferral made by a service token takes the path of one made
by hand; failures of the database are left out; the cron entry of a disabled,
binned or deleted job stops at once (the window until the next `Reload` belongs
to the planned module `Reload`).

### Workflow

The graph is constant: nodes, their kinds, and walks, the lists of steps one
call of `walkSteps` goes through (a workflow, a sequence, an arm of a branch).
They form a tree, which `GraphAssumption` and `PlacesAssumption` say: a step has one
place, a walk one step that opens it, and each attempt inserts a row of its own.
`walk` and `pos` are that call; `node` and `tries` are a step and its attempts;
`row` is the child run of each attempt.

* `Trigger`, `Start`, `Finish`, `Report`: the row and its goroutine, the lookup of
  the jobs, `finishWorkflow`'s guarded write and its activity row.
* `NextStep`, `StepOver`, `TakeArm`, `StartArm`: `walkSteps`, branches, sequences
  and the semaphore of a parallel step. `Fatal`, `Tolerated`, `Result` are the
  rules for a failed step.
* `DispatchJob`, `WaitForRun`, `BackoffOver`, `AttemptOver`: `runJob` and its
  retries. `DispatchFlow`, `WaitForFlow`, `RefuseChild`: `runWorkflowStep`.
* `Claim`, `RunEnds`: what the runners do to a child run.
* `CancelAsk`, `CancelFlag`, `CancelSkip`, `CancelStop`, `CancelList`: `CancelTree`
  and `Cancel`, one action a statement, then the context.
* `ReapRead`, `ReapFlow`, `ReapEmit`, `ReapRuns`: the workflow reaper;
  `Crash`, `Boot`, `SweepRead`, `SweepDone`: the sweep at start.
* Flows outside `Local` are driven by the engine that `firers.go` makes for one
  trigger: nobody holds their cancel functions.

Abstractions: a step is known by its place, not by its name; which job a name
resolves to, inputs and outputs are left out, and a branch on an output goes either
way; the skip rows of an arm not taken are inserted in one step and do not fail;
a killed child counts as a failed one; `Trigger`'s insert and the start of its
goroutine are one step; a cancel of a workflow already over is not asked.

### Reactions

`pc` and `pass` are the reactor's one goroutine and what it holds in memory:
`FirstPass` (the anchor), `CollectJobs` and `CollectFlows` (`collectEvents`),
`MatchEvent` (`deliverEvent`'s query), `NextReaction`, `Claim` (`INSERT OR
IGNORE`), `Judge` (`reactionVerdict`), `Park` (`fireReaction`), `Finish`
(`finishDelivery`), `SaveCursor`. Each of these statements may fail where the
scenario says so: `FirstPass(TRUE)` (a cursor that cannot be read is set anew, at
now), `CollectJobs(TRUE)`, `CollectFlows(TRUE)`, `MatchEvent(u, TRUE)` (the event
is passed over), `ClaimFails`, `Judge(unread)` (the vetoes whose query failed
answer as if nothing stood against the run; for the minimum interval, "never
fired"), `Finish(TRUE)`, `SaveCursor(TRUE)`. `result` and
`claimedAt` are `reaction_deliveries`; `made` counts the rows parked for a pair and
`unbraked` says that the brake could not be read for it.
Around it, runs start and end with a `completed_at` up to `Lag` before they land,
workflows start children that inherit their depth (`ChildDepth`; depth 0 when the
read of it fails, whose error the engine discards), parked runs
start their owner one hop deeper (`Promote`), reactions are written and deleted,
gates close and the server dies.

A row's `hops` is the number of reactions that led to it, its `forgot` how many of
them a failed read has dropped from its depth: both are history.

Abstractions: a reaction and the definition it watches are matched by identity;
the vetoes of one pair are read in one step, as nothing stated here depends on a
gate that moves between two of those reads; the gates a parked run meets later
belong to `PendingRuns`. `LagAssumption` says that a run lands at most a lookback after its
`completed_at`, which the code stamps just before the write.

### LogStream

`committed`, `tries` and `post` are the agent's half (`streamLogs`,
`flushTerminal`); `req` holds the requests the server is handling, each with its
stage, and those the agent has given up go on beside the new one. `Admit`
(status and dictionary), `ReadOffset` (cap and `X-Resume-Offset`), `OpenLog`
(truncate or append), `StoreLine`, then `ReadToEnd`, `BodyCut`, `LineTooLong`,
`DiskFull` or `ReachCap`, `Commit` (the offset's statement), `EndRun`
(`finalizeRun`) or `EndWithoutText`. `dead` marks a request whose context has
ended: its later statements fail; one whose agent has left (`Hung`) may fail at any of them.

Abstractions: an item is a line, an offset counts items (the agent sends whole
lines only); redaction maps a line to a line; of the captured outputs only a leak
is kept; ownership does not change while the run runs; a database error of the
cap's own statement and of the log directory is left out.

## 3. The runs

A scenario fixes which events may happen in a behaviour, and TLC explores every
scenario of a set; within one, an event may happen whenever its guard allows and
as often as it can. This keeps the interleavings complete for each combination
without the product of all of them.

| run | shows | distinct states |
|---|---|---|
| `lifecycle_safety` | thirteen combinations of kills, drains, crashes, restarts, stop signals, silences, partitions, lost answers, connections that end under a handler, failed statements, server deaths and deregistrations: ends final and recorded once, no double execution, no orphan | about 1,569,000 (by symmetry of runs) |
| `lifecycle_liveness` | lost runs end, stops arrive, drains end | about 68,000 |
| `pending_runs` | nine combinations of producers, gates, cancels, bins, purges, ageing, hung runs, server deaths, and one with two passes at once | about 27,000 |
| `workflow` | fifteen combinations of five definitions with cancels, hung runs, expired waits, failed statements, dropped requests, old age and server deaths: order, slots, cancels, true success, one end, an end at all | about 50,000 |
| `reactions` | twelve combinations of reactions with crashes, failed statements (also along a chain), late landings, cycles through workflows, rewritten reactions and gates | about 369,000 |
| `log_stream` | fourteen combinations of a run's log with broken connections, server deaths, failed statements, stops, lost secrets, the cap, overlong lines, a full disk and a leak: a whole log, a true outcome, and, in the five without the first three, an end that is brought to the server | about 1,526,000 |
| `drained_agent_readmitted`, `stopped_run_keeps_load`, `drain_deadline_ignored`, `parked_run_vanishes`, `queue_over_cap`, `end_forgotten_after_crash` | a statement of the repository that the code does not keep (section 6) | stops at the counterexample |

**Bounds and why they are enough.** Two runs, and runners of two slots and of
one: two runs compete for a claim, share an agent, or are one in a slot and one
refused; with two agents each run can be claimed by either. `MaxRunning` is 2 in
`lifecycle_safety`, so that runs do compete, and 1 in `lifecycle_liveness`, so
that a run whose agent died holds up the other until it is closed. Agents
restart any number of times: nothing counts. In `PendingRuns`, three jobs
(`Queue` and `Forbid` on one key, `Allow` on another) and up to three requests a
scenario; `QueueCap` is 1 where the code has 3, so that a full queue takes two
requests. The second promoter stands for the claim in `pending.go` that
`PromotePending` is safe to call concurrently; in production one ticker calls it.

`MCWorkflow`'s definitions are the smallest in which each kind of step has a
neighbour that could go wrong: a retried job before a parallel step of a job and a
sequence, a branch with an empty arm and one with a sequence, a sub-workflow with a retry
and a step after it, one nested too deep, one driven by the scheduler. `width` is 1
or 2 for two arms. In `MCReactions` the lookback is 1 and the run to land late is late
by 1; `MissGrace` is 2 and the clock goes to 4, so that an event can expire;
`MaxDepth` is 3 where the code has 5, and seven runs are enough to walk a cycle
through a workflow's child past it. In `MCLogStream` two requests are handled at
a time (the abandoned and the current), two faults may happen, and one or two
lines and the envelope give a chunk a beginning, a middle and an end. The budget is 2, so that
both the first call's attempts and the re-sends are walked.

Deadlock is not checked: when every run has ended and no more requests come,
the modelled system has nothing to do.

## 4. Fairness

Handlers that have begun go on (a goroutine is scheduled), agents that are up
poll and upload again and again (`agent.go`'s loops retry without end), tickers
tick, clocks advance, jobs end unless the scenario has `hang` (in `RunLifecycle` and
in `PendingRuns`, where a hung run keeps its key for ever), and the long poll
ends by its timeout whatever its loop meets (strong fairness of `PollTimeout`,
because the loop alternates between turning and claiming). No person, fault,
signal, gate or request is fair. In the liveness scenarios with `quiet`, a dead
agent that stays away becomes stale.

In `Workflow`, the walks' goroutines, the runners (unless the scenario hangs
them), a cancel's handler, the reaper's ticker, the start of a dead server and the
passing of 24 hours are fair. In `Reactions`, the reactor's goroutine and the
start of a dead server are. In `LogStream`, the agent's loop and the handlers
are, and the ten minutes of the grace pass; connections may stay broken only as
often as the bound on faults allows.

## 5. Properties and their limits

A property that the code gives up under some event excludes the event in its
own formula, next to the reason:

* `EndReported` leaves out three things. A failed statement: when it is the terminal
  write, the code announces the end nevertheless; when it is the row's, the error is
  discarded. A server death between the write and the row. And the end of the
  request in between (`unreported`): `finalizeRun` works on the request's context, so
  that an agent that dies or a connection that ends after the terminal write
  (`log.go:616`) and before the row (`log.go:667`) leaves a terminal run without a
  row; the same holds for an operator who leaves in the middle of `killJob` and for a
  poll that ends in its closes. At most one record still holds under all of them, by
  `ImplementsContract`.
* `RunningIsHeld` and `LostRunsEnd` leave out lost answers: a claim whose answer
  never arrives belongs to a live agent that polls on and never heard of it.
  They leave out partitions and the agent that returns just as the reaper acts:
  the reaper's list, its closes and its offline write are separate statements,
  and a run claimed between the last two stays behind. And they leave out a
  drain that meets the deregistration of quiet runners: a drain that read a load
  of 0 before the claim takes the row offline with a run on it; if the agent then
  dies, `sweepOffline` passes over a row that is offline, `sweepDeregister`
  deletes it and closes no run (`reaper.go:353`), and the run stays running with no
  owner until somebody stops it. `KeepsTrack` names these events. `LostRunsEnd`
  also leaves out connections that end again and again under the uploads, and hung jobs.
* `StopReachesAgent` leaves out answers that are lost or cancelled by a stop
  signal: the signal was consumed when read. It also leaves out a signal that was never queued:
  the insert's error is discarded (`execution_mount.go:2349`), and the operator's
  connection may end before it.
* `DrainEnds` leaves out hung jobs, and failed statements and connections that end:
  the last upload's load and drain statements may not be reached, and then nothing
  looks at the drain again.
* `NeverRefused` leaves out drains, where a refusal is the design.
* `ReadyIsPromoted` leaves out a server that dies again and again in its first
  pass. `ParkedIsSettled` leaves out nothing: a row behind a run that hangs ages
  into a miss (`queue_test.go:298-327`).
* `StepsInOrder` and `ParallelBound` leave out the engine's wait bound, which
  leaves an attempt's run live by design, and failed statements.
* `CancelHalts` and `CancelReachesAll` speak of the API's engine: a walk of the
  scheduler's engine sees the flag between two steps only, so a step it had just
  decided on still starts. `subworkflow.go:475` speaks of every descendant.
* `RateBrake` leaves out a fire whose verdict was never recorded, and one decided
  while the query of the last firing failed: `lastFiredAt` then answers "never
  fired" and the brake is open (`reaction.go:870-877`, `unbraked`).
* `ChainBounded` counts the reactions from the last child run whose depth could not
  be read: the engine discards the error (`engine.go:795-798`, `subworkflow.go:249-251`),
  the child has depth 0, and the chain may go on for another `MaxDepth` hops.
* `RetroBounded` is what is left of "never retroactively"
  (`db/migrations/880_reactions.up.sql:19-20`): a reaction written now does fire on
  a run that finished before, if the run is within a lookback of the cursor, and the cursor
  moves only with events.
* `EventAnswered` leaves out failed reads and writes: the cursor moves on past
  them, a cursor that cannot be read is set to now (`reaction.go:968-972`), an event
  whose match query fails is passed over (`reaction.go:363-366`), and an outage longer
  than the lookback loses the event.
* `Lossless` and `AckedIsStored` leave out the cap (the rest is discarded by
  design) and three ways in which the code does lose lines. A full disk ends the
  write loop without a scan error, so the offset moves and the chunk is answered as stored
  (`log.go:320-324`, against the comment at 389). A line just under 1 MiB that
  the agent prefixes with its host exceeds the server's scanner: a partial chunk is
  answered as stored, a final one ends the run as `log_stream_lost`. And two
  handlers at once (`overlap`): the last tick's request, given up at the agent when the
  body ends, may still be handled when the final chunk arrives; each reads the same
  offset, and the one that opens the log second truncates what the other has
  written, or both add to the offset.
* `AckedIsStored` also leaves out runs in which both connections break and statements
  fail. A chunk of offset 0 whose offset the server could not record is answered as
  stored while the row still says 0; an abandoned first request, handled only then,
  truncates the file, and the agent holds lines for committed that are gone until a
  mismatch makes it send them again.
* `EndIsBrought` speaks of behaviours in which no connection breaks, no server dies
  and no statement fails (`Undisturbed`); with one server death the end may be
  forgotten (section 6). It does not leave out `overlap`.
* `NoRepeat` leaves out `torn`: lines appended past offset 0 by a handler that
  could not record them are sent again.

Definitions whose names end in `_Bug` are mistakes the code could have made (a
dropped guard, a missing floor, an unguarded stamp). No action uses them; each
property is known to fail when one of them takes the place of the definition
after it.

## 6. Where the code and its documents part

| run | statement | what happens |
|---|---|---|
| `drained_agent_readmitted` | `poll.go:193-196`: a poll of a runner taken offline by a drain "can only come from a deliberate restart" | the last upload takes the runner offline before the agent has been told to drain; its next poll puts it back online |
| `stopped_run_keeps_load` | `log.go:653-658`: skipping the decrement would leak load, "the common case for a stopped run" | the status check answers 409 earlier, so the decrement is skipped in just that case |
| `drain_deadline_ignored` | `openapi.yaml:5416-5417`: the drain timeout force-kills on expiry | the deadline is read only when another run of the runner finalises |
| `parked_run_vanishes` | `queue.go:62-65`: a fire is run, queued or recorded | promotion deletes the row, then its insert loses the key to a fresh fire; only a log line is left |
| `queue_over_cap` | `README.md:529`, `queue.go:41-42`: at most three wait per key | the count and the insert are two statements; concurrent fires pass the count together |
| `end_forgotten_after_crash` | `agent.go:809-813`: the upload of a run's end "is NOT dropped", it is sent again for as long as the run's context lives | the server records the final chunk's offset, dies before it ends the run, and answers the re-send with an offset that leaves nothing to send: the agent takes the end for delivered and the run stays running |

How far four of these reach is proved (section 7): a runner's load comes back to 0 but for
seven events (`SlotsReturn`), a queue passes its cap by no more
than the fires that are between the count and the insert (`QueueOvershoot`), no
request vanishes while the claims on a key take turns and the server lives
(`NothingIsLost`), and no end is forgotten while connections, server and database
hold (`EndReaches`).

## 7. The proofs

The assumptions are the named ones of each module (`LifecycleAssumption`,
`ConstantsAssumption`, `GraphAssumption`, `PlacesAssumption`, `LagAssumption`,
`ScenariosAssumption`), which TLC evaluates in the runs: the constants have their
types, `None` is not a value, the sets of runs, agents and steps are finite, a
workflow is a tree of steps, and a run lands within a lookback. The proofs share one
form: a lemma says what a step can do to one run, request, walk or runner, and the
invariants are proved from those cases.

`RunLifecycle_proofs`, for any runs, agents, slots and scenarios:

* `TypeCorrect`. One lemma per group of actions (poll, agent, ingest, operator,
  reaper).
* `EndIsReported`, from `EndInv`: types, `WonWrote` (a final-chunk handler that
  won its write looks at a terminal run), `EndReported`, and `NeverTwice`.
  `EndReported` alone is not inductive: nothing in it says that a handler owing
  a row for a run keeps that run terminal; nor that a run whose row was given up has
  ended for good (`LeftOut`). `RunSteps` reduces every action to
  what it does to one run: kept, claimed, ended with a row owed, ended with the
  row, the row paid, forgotten by a crash, a failed write, and the row of an end lost
  with the request, at once or while it was owed.
* `TerminalStays` and `RunsKeepContract` (the refinement of `RunContract`) from
  the same cases.
* `OneClaim`, from `QueuedIsFree`: a queued run has no owner.
* `ExecutedOnce`, from `Carries`: what a poll carries, an agent executes or keeps
  in a slot was claimed for it, unless its row is gone, which is for good.
* `LiveAreSpared`, from `Polled` (what a poll at work knows of its agent; a process
  no answer has reached holds nothing) and `Spared` (what is on a list of lost runs
  is past the queue, so no poll claims it again). `Touched` reduces a step to the
  poll or the process of one runner, a server death, or others that only take away.
* `NothingRefused`: without a drain no row says so (`Undrained`), an agent that
  drains all the same polled a row that was deleted (`Undrawn`), and a poll that
  asks for a run has a slot until its answer (`Fits`).
* `HeldWhileRunning`, from `Tracked`. A run that runs was claimed by its owner's poll
  (`RunningGrows`) and is in somebody's care (`InCare`). What could drop it is shown not
  to: an upload past its write (`Uploads`), a deferred close that clears its list
  (`Closing`), the reaper, which works on runners that are down for good and closes
  all they have before it takes them offline (`Reaped`), and the deletion of
  a row, which only happens when nothing runs for it (`OwnerHasRow`, `Dropped`).
* `SlotsReturn` says what is left of the promise that `stopped_run_keeps_load` breaks. It
  assumes that none of seven things happens (`Unbroken`): an operator's stop, a server
  death, a failed statement, a connection that ends under a handler, an agent that dies
  before its upload has given the slot back (`log.go:616-641`, on the request's
  context), a poll broken off while it closes lost runs, and a run that is over between
  its claim and the claim's `load + 1`. TLC finds a leak for each. That the load is 0 at rest is far from
  inductive; `Books` bounds it at every moment by the runs that will still give a slot back
  (`Counted`) and those a poll has closed and not settled, except while the reaper
  or a forced drain is about to set it to 0 (`Zeroed`), and every step keeps the
  balance (`Accounts`). The load may be lower: a poll that is broken off after its claim and before
  `load + 1` leaves it so.

`PendingRuns_proofs`, for any jobs, keys, policies, producers and passes:

* `TypeCorrect`.
* `KeyExcludes`: `RunSteps` shows that a run becomes active only in an insert,
  which tests the index, so the checks before it may be as stale as they like.
* `RequestStartsOnce` and `SettledOnce`, from `SettleInv`: a request that has not
  answered has no row and no run, a waiting row has no fate, and the row a pass
  is about to insert was deleted by that pass and by no other (`InHand`).
* `MarkStays`, from the same invariant: the one writer of the mark that does not
  test it is the producer, whose row is new.
* `QueueOvershoot` and `QueueKept` say what is left of the cap that `queue_over_cap`
  breaks. Both assume a bound `w` on the requests of a key that have counted the
  rows and not inserted yet (`FewJoin`), and `QueueKept` is the case of `w = 1`, producers
  that take turns. The bound on the rows alone is not inductive; `QueueInv` counts the rows
  and those about to join together, and a request joins the second set only
  after a count below the cap.
* `NothingIsLost` says what is left of the promise that `parked_run_vanishes` breaks. It
  assumes that of all who found a key free at most one stands before its insert
  (`OneClaims`) and that the server does not die (`NoCrash`); then the key is
  still free at that insert (`Freed`), and the row that a promotion has deleted becomes a run.

`Reactions_proofs`, for any reactions, runs, limits and windows:

* `TypeCorrect`.
* `FiresOncePerEvent`, `RateIsLimited`, `ChainsAreBounded` and `NeverFarBack` from one
  invariant, `IInv`. Rows are given out in order (`RowsInOrder`); the events of a pass
  are runs it read as over (`PassReads`); the pair being
  decided has its claim and nothing parked before `Park` (`PassClaims`), and what was
  parked has a delivery that keeps a later claim out (`Deliveries`); a parked row waits under a run that may have
  followers (`Waiting`), and a row's depth, with what failed reads dropped from it, is
  the number of reactions that led to it (`Depths`); two deliveries that fired, or are
  about to, are an interval apart, those aside for which the brake could not be read
  (`Brake`); no reaction was written with a wider view than a pass has (`Horizons`); and no
  `completed_at` and no cursor is ahead of the clock (`Clocked`), so that a cursor set
  anew after a failed read only narrows the view.

`LogStream_proofs`, for any log, any number of requests, tries and faults. Five
invariants, each on top of the other, a sixth on the first of them (`Brought`), and `StepCases`, which groups the actions
by what they do to the file, the offset and the agent's count:

* `TypeCorrect`, from `Typed`: types, what a request in a stage knows (`Requests`), and
  what the agent waits for (`Waiting`).
* `OutcomeIsTrue`, from `Outcome`: a secret is lost to a request only when it could
  not be resolved (`Secrets`), and an outcome in hand is of an envelope the
  request carries (`Envelopes`).
* `LinesAreUnique`, from `Repeats`: unless two handlers met, one request at most has the
  file open (`Exclusive`), and where it writes is where the file ends (`Positions`).
* `LogIsWhole`, from `Complete`: what the file holds up to a handler's position is
  what the agent's buffer holds there (`Contents`).
* `AcksAreKept`, from `Answerable`: an answer under way, the recorded offset and the
  agent's count are each no further than the file (`Acknowledged`), and none of
  the requests left behind can still truncate it.
* `EndReaches`, from `Brought`: while an undisturbed run is running, the
  recorded offset covers body lines only, or the final chunk's handler is on its way to
  the end (`Taken`), or the log is at its cap, where a final chunk ends the run whatever it holds. The
  chunk of the last tick is the one that makes this delicate: it may be counted
  before the final one or after (`TickChunks`, `FinalChunks`), and a mismatch answered
  from that count must not reach past the body.

`Workflow_proofs`, for any tree of steps, any flows, tries, widths and scenarios:

* `TypeCorrect`, from `Typed`: types, the attempts a step may have had (`Attempted`),
  and that a walk that is on is at a step of its list (`Placed`).
* `WorkflowsKeepContract`, from `Lives`: who owes the row of an end, the goroutine of
  the workflow or the request that ended it, has ended it and owes it alone (`Driven`,
  `Emitting`), and the child runs of attempts to come are not there yet (`Unborn`).
* `CancelHolds`, from `Cancels`: once a cancel has returned, the workflow is flagged,
  and its context is stopped, its goroutine gone, or none of its steps entered
  (`Halting`, `Flagged`).
* `CancelGoesDown`, from `Reaches`: a running child that is not cancelled is still on
  the list of the cancel of its parent (`Reaching`), and no walk of a request outlives the
  server that ran it (`Served`).
* `OrderIsKept`, from `Shape` and `RowsInTurn`. `Shape` is the shape of the tree of
  goroutines: what is before a walk's step is quiet, what is after it cold, and what is
  below a step that nobody entered is cold (`InTurn`, `Containers`, `Unwalked`). A step of
  the system touches one step of the workflow, on the path of walks above it (`OnPath`).
  `RowsInTurn`: a live run is that of the attempt under way, or was left by a walk
  that has stopped.
* `SlotsAreKept`, from `ArmsBound` and `SlotHeld`: an arm with a live run holds its
  slot while its walk goes on, and what a stopped walk left only ends.
* `SuccessIsHonest`, from `Honest`: a step's verdict is that of its last attempt
  (`Verdict`), what a walk went past had succeeded, was skipped or is tolerated
  (`Passed`), and a workflow that says success has a walk that ended well (`Ending`).

Every safety invariant and action property of the passing runs is a theorem, and for four
of the six statements that the code does not keep a theorem says under which
condition it does. Only
model-checked are the liveness properties (`LostRunsEnd`, `StopReachesAgent`,
`DrainEnds`, `ReadyIsPromoted`, `ParkedIsSettled`, `WorkflowEnds`, `EventAnswered`,
`FlushEnds`): leads-to under fairness is beyond the prover's reach. No module that is
proved about uses a recursive operator.

## 8. Not modelled, and the plan

Not modelled in the modules above: two live processes on one runner identity and
the long poll of a dead one, resync, host keys, managed settings, capability and
agency matching, registration; the scheduler's reload and the de-duplication of
skips; how a name becomes a job, a workflow or a reaction's upstream across
agencies; the start of the server as an order of goroutines (the scheduler may
promote a workflow that the sweep then ends as an orphan, `cmd/cronomicon/main.go:482`).
The git import, the settings and inventory tables, the pages of the API and the
UI are the larger part of the code: transformations of data and reads, with
constraints of the database as their rules. Text, rendering, cryptography and
I/O are left out for good. `PROJECT.json` says so component by component.

Known to be possible in the code and watched by no property: an agent that
crashes again within every hold window defers the close of its lost runs for
ever (`processes.go:123`); whole-second stamps let a run claimed in the second
the next process started escape that close (`processes.go:133`); a refusal is
uploaded within one budget only (`agent.go:359`); a row of a job restored from
the bin while paused keeps the bin as its stamp (`pending.go:250`); the skip of
one blocking episode must not cover a later one (`scheduler.go:1395`); a workflow
ended by the reaper keeps its walk (`engine.go:2370`); the row of a refused
child takes its step's id, which a refused retry meets again
(`subworkflow.go:447`); a delivery's verdict and the brake's anchor are found by
the owner's name, so that two agencies' reactions of one name write over each
other on one run and a rename resets the brake (`reaction.go:871, 895`); a partial
chunk that leaks a secret in an output has its offset recorded before the write
that fails the run, which may be lost (`log.go:408`); the end of a run is
announced although the write of it failed (`log.go:630`).

If a module were added it would be `Reload` (generation and fingerprint against concurrent
writes), then `Processes` (two copies of one identity, resync).
