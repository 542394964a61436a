------------------------------ MODULE Workflow ------------------------------
(***************************************************************************)
(* The workflow engine (workflow/{engine,subworkflow,firers}.go): a         *)
(* workflow run walks a tree of steps, starts a child run for each job step, *)
(* waits for it by polling its row, retries, branches, fans out, and starts  *)
(* other workflows as steps of its own.                                     *)
(*                                                                         *)
(* A walk is one call of walkSteps on one list of steps: a workflow's own,   *)
(* a sequence's, or one arm's of a branch.  Each is walked once in a run.    *)
(* The walks of a workflow run concurrently with each other (the arms of a   *)
(* parallel step), with the runners that execute child runs, with a person   *)
(* who cancels, with the reaper of workflows older than 24 hours, and with   *)
(* the server's death and the sweep at its next start.  One action is one    *)
(* SQL statement, or one decision of a goroutine on values of its own.       *)
(*                                                                         *)
(* Two objects drive workflows in one process: the engine of the API, which  *)
(* can stop the walks it started, and an engine made for one trigger by the  *)
(* scheduler (firers.go), whose walks only see the row's cancelled flag.     *)
(***************************************************************************)
EXTENDS Integers, Sequences, FiniteSets

CONSTANTS
  Flows,       \* rows of workflow_runs that may come to be
  Nodes,       \* steps, one for each place in the graph of each flow
  Walks,       \* lists of steps: flows, sequence nodes, arms of branches
  None,
  Kind,        \* a node's type
  Body,        \* the steps of a walk
  Arms,        \* the arms of a parallel node, <<>> of any other
  Pass, Fail,  \* the arms of a branch
  Ref,         \* the step a branch's condition names
  OnOutput,    \* branches whose condition matches an output (output_match)
  Child,       \* the flow of each attempt of a workflow node
  FlowOf,      \* the flow of a node or a walk
  Above,       \* a node and the nodes that contain it
  Depth,       \* workflow_depth of a flow
  Retries,     \* retries of a job or workflow node
  MaxTries,    \* the largest number of attempts of a node
  ContinueOn,  \* nodes with continue_on_error
  Refused,     \* jobs that are not the workflow's to run
  Local,       \* flows that the API's engine drives
  MaxDepth,    \* nesting ceiling (3 in the code)
  MaxCrashes,  \* bound: deaths of the server in one behaviour
  Scenarios    \* the flow that is triggered, and what may happen

Kinds == {"job", "workflow", "sequence", "parallel", "branch"}

\* Events of a scenario: a statement fails; a step outlives the engine's wait
\* bound; a child run is never executed; a workflow outlives 24 hours; the
\* server dies; a cancelling request is dropped half-way.
Events == {"dbError", "timeout", "hang", "long", "crash", "dropped"}

Elems(s) == {s[i] : i \in DOMAIN s}

Leaves == {n \in Nodes : Kind[n] \in {"job", "workflow"}}
NodesOf == [f \in Flows |-> {n \in Nodes : FlowOf[n] = f}]
WalksOf == [f \in Flows |-> {w \in Walks : FlowOf[w] = f}]
Jobs    == [f \in Flows |-> {n \in NodesOf[f] : Kind[n] = "job"}]

\* The walks that a container opens.
Opens(n) ==
  CASE Kind[n] = "sequence" -> {n}
    [] Kind[n] = "branch"   -> {Pass[n], Fail[n]}
    [] OTHER                -> {}

Contains(p, n) == n \in Elems(Arms[p]) \/ \E w \in Opens(p) : n \in Elems(Body[w])

\* What the write path lets through (ValidateSteps): an arm of a parallel step
\* is a job or a sequence, a sequence is not empty, a branch has both arms.
Validated(n) ==
  /\ Kind[n] = "parallel" =>
       Arms[n] # <<>> /\ \A a \in Elems(Arms[n]) : Kind[a] \in {"job", "sequence"}
  /\ Kind[n] = "sequence" => Body[n] # <<>>
  /\ Kind[n] = "branch" =>
       /\ Pass[n] # Fail[n] /\ Ref[n] \in Leaves
       /\ \A p \in Above[n], q \in Above[Ref[n]] :
            \* a sibling arm's results are not seen
            p # q => ~\E r \in Nodes : p \in Elems(Arms[r]) /\ q \in Elems(Arms[r])

ASSUME GraphAssumption ==
  /\ Flows \subseteq Walks
  /\ Kind \in [Nodes -> Kinds]
  /\ Body \in [Walks -> Seq(Nodes)] /\ Arms \in [Nodes -> Seq(Nodes)]
  /\ \A n \in Nodes : Opens(n) \subseteq Walks /\ (Kind[n] # "parallel" => Arms[n] = <<>>)
  /\ FlowOf \in [Nodes \cup Walks -> Flows]
  /\ \A f \in Flows : FlowOf[f] = f
  /\ \A w \in Walks : \A n \in Elems(Body[w]) : FlowOf[n] = FlowOf[w]
  /\ \A n \in Nodes : \A w \in Opens(n) : FlowOf[w] = FlowOf[n]
  /\ \A n \in Nodes : \A a \in Elems(Arms[n]) : FlowOf[a] = FlowOf[n]
  /\ Above \in [Nodes -> SUBSET Nodes]
  /\ \A n \in Nodes : Above[n] = {n} \cup UNION {Above[p] : p \in {q \in Nodes : Contains(q, n)}}
  /\ \A n \in Nodes : Validated(n)

\* A graph is a tree of steps: each has one place, and what contains it is in order.
ASSUME PlacesAssumption ==
  /\ \A v, w \in Walks : \A i \in DOMAIN Body[v], j \in DOMAIN Body[w] :
       Body[v][i] = Body[w][j] => v = w /\ i = j
  /\ \A p, q \in Nodes : \A i \in DOMAIN Arms[p], j \in DOMAIN Arms[q] :
       Arms[p][i] = Arms[q][j] => p = q /\ i = j
  /\ \A p \in Nodes, w \in Walks : Elems(Arms[p]) \cap Elems(Body[w]) = {}
  /\ \A p, q \in Nodes : p # q => Opens(p) \cap Opens(q) = {}
  /\ \A n \in Nodes : Opens(n) \cap Flows = {} /\ ~Contains(n, n)
  /\ \A n \in Nodes : Above[n] \cap Elems(Body[FlowOf[n]]) # {}
  /\ \A n \in Nodes : \A p \in Above[n] :
       /\ FlowOf[p] = FlowOf[n] /\ Above[p] \subseteq Above[n]
       /\ p # n => n \notin Above[p] /\ \E q \in Nodes : Contains(p, q) /\ q \in Above[n]

ASSUME ConstantsAssumption ==
  /\ MaxTries \in Nat \ {0} /\ Retries \in [Nodes -> 0 .. MaxTries - 1] /\ Depth \in [Flows -> Nat]
  /\ Child \in [Nodes -> Seq(Flows)]
  /\ \A n \in Nodes : Kind[n] = "workflow" /\ Depth[FlowOf[n]] < MaxDepth
                        => Len(Child[n]) = Retries[n] + 1
  /\ \A n \in Nodes : \A c \in Elems(Child[n]) :
       Kind[n] = "workflow" /\ Depth[c] = Depth[FlowOf[n]] + 1
         /\ (c \in Local <=> FlowOf[n] \in Local)
  \* an attempt inserts a row of its own
  /\ \A n, m \in Nodes : \A i \in DOMAIN Child[n], j \in DOMAIN Child[m] :
       Child[n][i] = Child[m][j] => n = m /\ i = j
  /\ ContinueOn \subseteq Nodes /\ Refused \subseteq Nodes
  /\ OnOutput \subseteq Nodes /\ Local \subseteq Flows
  /\ MaxDepth \in Nat /\ MaxCrashes \in Nat
  /\ Scenarios \subseteq [top : Flows, cancels : SUBSET Flows, off : SUBSET Nodes,
                          width : Nat \ {0}, events : SUBSET Events]
  /\ \A s \in Scenarios : Depth[s.top] = 0
  /\ None \notin Flows

VARIABLES
  flow,      \* workflow_runs.status; "none" before the row
  cancelled, \* workflow_runs.cancelled
  ended,     \* workflow-end rows of activity
  drive,     \* the goroutine of a flow: its row is there, it walks, it reports
  stop,      \* the walk's context is cancelled
  blind,     \* flows whose job lookup failed: no step resolves
  walk, pos, \* a walk's state, and the step it is at
  node,      \* how far a step is, or its result
  tries,     \* attempts a step has made
  row,       \* the child run of each attempt (runs.status)
  cpc, cflow, ctodo,  \* CancelTree: its stage, its flow, the flows left
  told,      \* history: Cancel of this flow has returned true
  up,        \* the server: down, booting, sweeping, up
  rpc, rflow, rtodo,  \* the orphan sweep and reaper: stage, flow, flows read
  aged,      \* flows that started more than 24 hours ago
  crashes, scn

flowVars   == <<flow, cancelled, ended>>
walkVars   == <<walk, pos>>
stepVars   == <<node, tries, row>>
cancelVars == <<cpc, cflow, ctodo, told>>
reapVars   == <<rpc, rflow, rtodo, aged>>
serverVars == <<up, crashes, scn>>
vars == <<flowVars, drive, stop, blind, walkVars, stepVars, cancelVars, reapVars, serverVars>>

Verdicts == {"success", "danger", "skipped"}
Live == {"queued", "running"}
Over == {"success", "failure", "refused", "skipped"}
Attempts == 1 .. MaxTries

May(e) == e \in scn.events

-----------------------------------------------------------------------------
(* The step graph. *)

\* The walk that runs a step, the arms of a parallel step included.
Runner == [n \in Nodes |-> CHOOSE w \in Walks :
  \/ n \in Elems(Body[w])
  \/ \E p \in Elems(Body[w]) : n \in Elems(Arms[p])]

Within(n, w) == Above[n] \cap Elems(Body[w]) # {}

\* The steps that branches inside a walk name: their failure does not halt it.
BranchRefs == [w \in Walks |-> {Ref[b] : b \in {n \in Nodes : Kind[n] = "branch" /\ Within(n, w)}}]

Tolerated == ContinueOn \cup {n \in Nodes : n \in BranchRefs[Runner[n]]}

\* The jobs that are over before n begins: at an earlier step of a walk above it.
Earlier == [n \in Nodes |->
  {m \in Nodes : Kind[m] = "job" /\
     \E w \in Walks : \E i, j \in DOMAIN Body[w] :
       i < j /\ Body[w][i] \in Above[m] /\ Body[w][j] \in Above[n]}]

\* What a branch skips with an arm: the jobs in it, however deep, and no
\* workflow step (flattenJobNodes).
SkippedBy == [w \in Walks |-> {n \in Nodes : Kind[n] = "job" /\ Within(n, w)}]

CallerOf == [f \in Flows |-> {FlowOf[n] : n \in {m \in Nodes : f \in Elems(Child[m])}}]

-----------------------------------------------------------------------------
(* Results of steps. *)

\* "pending" until the step is over.
LeafOrSequence(n) ==
  IF n \in Leaves THEN IF node[n] \in Verdicts THEN node[n] ELSE "pending"
  ELSE IF walk[n] \in Verdicts THEN walk[n] ELSE "pending"

Fatal_Bug(n, verdict) == verdict = "danger" /\ n \in Leaves /\ n \notin Tolerated

\* A failed leaf halts its walk unless it is tolerated; a failed chain always does.
Fatal(n, verdict) == verdict = "danger" /\ (n \in Leaves => n \notin Tolerated)

Result_Bug(n) ==
  CASE n \in Leaves \/ Kind[n] = "sequence" -> LeafOrSequence(n)
    [] Kind[n] = "parallel" ->
         IF \A a \in Elems(Arms[n]) : LeafOrSequence(a) = "pending" THEN "pending"
         ELSE IF \E a \in Elems(Arms[n]) : Fatal(a, LeafOrSequence(a)) THEN "danger"
         ELSE "success"
    [] Kind[n] = "branch" ->
         IF \E w \in Opens(n) : walk[w] \in Verdicts
         THEN walk[CHOOSE w \in Opens(n) : walk[w] \in Verdicts]
         ELSE "pending"

Result(n) ==
  CASE n \in Leaves \/ Kind[n] = "sequence" -> LeafOrSequence(n)
    [] Kind[n] = "parallel" ->
         IF \E a \in Elems(Arms[n]) : LeafOrSequence(a) = "pending" THEN "pending"
         ELSE IF \E a \in Elems(Arms[n]) : Fatal(a, LeafOrSequence(a)) THEN "danger"
         ELSE "success"
    [] Kind[n] = "branch" ->
         IF \E w \in Opens(n) : walk[w] \in Verdicts
         THEN walk[CHOOSE w \in Opens(n) : walk[w] \in Verdicts]
         ELSE "pending"

\* The outcomes a branch's condition may have.  A step with no result fails it.
Conditions(b) ==
  IF b \in OnOutput THEN IF tries[Ref[b]] > 0 THEN BOOLEAN ELSE {FALSE}
  ELSE {node[Ref[b]] = "success"}

Walking(f) == up # "down" /\ drive[f] = "walk"

Started(a) == node[a] # "todo"
InFlight(p) == {a \in Elems(Arms[p]) : Started(a) /\ LeafOrSequence(a) = "pending"}

-----------------------------------------------------------------------------
Init ==
  /\ scn \in Scenarios
  /\ flow = [f \in Flows |-> "none"]
  /\ cancelled = [f \in Flows |-> FALSE]
  /\ ended = [f \in Flows |-> 0]
  /\ drive = [f \in Flows |-> "none"]
  /\ stop = [f \in Flows |-> FALSE]
  /\ blind = {}
  /\ walk = [w \in Walks |-> "off"]
  /\ pos = [w \in Walks |-> 1]
  /\ node = [n \in Nodes |-> "todo"]
  /\ tries = [n \in Nodes |-> 0]
  /\ row = [n \in Nodes |-> [k \in Attempts |-> "none"]]
  /\ cpc = "idle" /\ cflow = None /\ ctodo = {}
  /\ told = [f \in Flows |-> FALSE]
  /\ up = "up" /\ crashes = 0
  /\ rpc = "idle" /\ rflow = None /\ rtodo = {} /\ aged = {}

-----------------------------------------------------------------------------
(* Trigger and the goroutine of a workflow run. *)

\* The row, the workflow-start activity; the lookup of jobs comes before the walk.
Insert(f) ==
  /\ flow' = [flow EXCEPT ![f] = "running"]
  /\ drive' = [drive EXCEPT ![f] = "lookup"]

\* A trigger by a person (API), or by the scheduler, which fires as soon as it
\* has started: the API's engine sweeps later (cmd/cronomicon/main.go).
Trigger ==
  LET f == scn.top IN
  /\ flow[f] = "none"
  /\ IF f \in Local THEN up = "up" ELSE up # "down"
  /\ Insert(f)
  /\ UNCHANGED <<cancelled, ended, stop, blind, walkVars, stepVars, cancelVars,
                 reapVars, serverVars>>

\* The state in which a walk of a list begins.
Opened(w) == IF Body[w] = <<>> THEN "success" ELSE "on"

\* lookupJobDefs on the caller's context (a parent walk's, which may be
\* cancelled: no job resolves then), registerCancel, and the walk.
Start(f) ==
  /\ up # "down" /\ drive[f] = "lookup"
  /\ drive' = [drive EXCEPT ![f] = "walk"]
  /\ walk' = [walk EXCEPT ![f] = Opened(f)]
  /\ blind' = IF \E p \in CallerOf[f] : stop[p] THEN blind \cup {f} ELSE blind
  /\ UNCHANGED <<flowVars, stop, pos, stepVars, cancelVars, reapVars, serverVars>>

Finish_Bug(f) ==
  /\ Walking(f) /\ walk[f] \in {"success", "danger"}
  /\ \/ /\ flow' = [flow EXCEPT ![f] = IF walk[f] = "danger" THEN "failure" ELSE "success"]
        /\ drive' = [drive EXCEPT ![f] = "report"]
     \/ /\ May("dbError")
        /\ drive' = [drive EXCEPT ![f] = "gone"] /\ UNCHANGED flow
  /\ UNCHANGED <<cancelled, ended, stop, blind, walkVars, stepVars, cancelVars,
                 reapVars, serverVars>>

\* finishWorkflow: the guarded update.  When it fails the row stays running.
Finish(f) ==
  /\ Walking(f) /\ walk[f] \in {"success", "danger"}
  /\ \/ /\ flow[f] = "running"
        /\ flow' = [flow EXCEPT ![f] = IF walk[f] = "danger" THEN "failure" ELSE "success"]
        /\ drive' = [drive EXCEPT ![f] = "report"]
     \/ /\ flow[f] # "running" \/ May("dbError")
        /\ drive' = [drive EXCEPT ![f] = "gone"] /\ UNCHANGED flow
  /\ UNCHANGED <<cancelled, ended, stop, blind, walkVars, stepVars, cancelVars,
                 reapVars, serverVars>>

\* finishWorkflow: the workflow-end activity.
Report(f) ==
  /\ up # "down" /\ drive[f] = "report"
  /\ ended' = [ended EXCEPT ![f] = @ + 1]
  /\ drive' = [drive EXCEPT ![f] = "gone"]
  /\ UNCHANGED <<flow, cancelled, stop, blind, walkVars, stepVars, cancelVars,
                 reapVars, serverVars>>

-----------------------------------------------------------------------------
(* walkSteps *)

Current(w) == Body[w][pos[w]]

Halted_Bug(f) == stop[f]

\* The check before each step: the walk's context, or the row's flag.
Halted(f) == stop[f] \/ cancelled[f]

\* The jobs of the arm not taken get a row and a result (markSkipped).
TakeArm(b, arm, other) ==
  LET skipped == SkippedBy[other] IN
  /\ walk' = [walk EXCEPT ![arm] = Opened(arm)]
  /\ node' = [n \in Nodes |-> IF n = b THEN "in" ELSE IF n \in skipped THEN "skipped" ELSE node[n]]
  /\ row' = [n \in Nodes |-> IF n \in skipped THEN [row[n] EXCEPT ![1] = "skipped"] ELSE row[n]]
  /\ UNCHANGED tries

EnterStep(n) ==
  \/ /\ n \in Leaves
     /\ node' = [node EXCEPT ![n] = "go"]
     /\ UNCHANGED <<walk, row, tries>>
  \/ /\ Kind[n] = "sequence"
     /\ node' = [node EXCEPT ![n] = "in"]
     /\ walk' = [walk EXCEPT ![n] = Opened(n)]
     /\ UNCHANGED <<row, tries>>
  \/ /\ Kind[n] = "parallel"
     /\ node' = [node EXCEPT ![n] = "in"]
     /\ UNCHANGED <<walk, row, tries>>
  \/ /\ Kind[n] = "branch"
     /\ \E passed \in Conditions(n) :
          IF passed THEN TakeArm(n, Pass[n], Fail[n]) ELSE TakeArm(n, Fail[n], Pass[n])

NextStep(w) ==
  LET n == Current(w) IN
  /\ Walking(FlowOf[w]) /\ walk[w] = "on" /\ node[n] = "todo"
  /\ IF Halted(FlowOf[w])
     THEN walk' = [walk EXCEPT ![w] = "danger"] /\ UNCHANGED stepVars
     ELSE EnterStep(n)
  /\ UNCHANGED <<flowVars, drive, stop, blind, pos, cancelVars, reapVars, serverVars>>

StepOver(w) ==
  LET n == Current(w) IN
  /\ Walking(FlowOf[w]) /\ walk[w] = "on" /\ node[n] # "todo" /\ Result(n) # "pending"
  /\ IF Fatal(n, Result(n)) THEN walk' = [walk EXCEPT ![w] = "danger"] /\ UNCHANGED pos
     ELSE IF pos[w] = Len(Body[w]) THEN walk' = [walk EXCEPT ![w] = "success"] /\ UNCHANGED pos
     ELSE pos' = [pos EXCEPT ![w] = @ + 1] /\ UNCHANGED walk
  /\ UNCHANGED <<flowVars, drive, stop, blind, stepVars, cancelVars, reapVars, serverVars>>

HasSlot_Bug(p) == Cardinality(InFlight(p)) <= scn.width

\* The semaphore of one parallel step (maxParallel, settings.maxConcurrent).
HasSlot(p) == Cardinality(InFlight(p)) < scn.width

\* The dispatch loop takes a slot, then starts the next arm.  It does not look
\* at the cancelled flag; the walk of a sequence arm does.
StartArm(p) ==
  /\ Kind[p] = "parallel" /\ Walking(FlowOf[p]) /\ node[p] = "in" /\ HasSlot(p)
  /\ \E i \in DOMAIN Arms[p] :
       LET a == Arms[p][i] IN
       /\ ~Started(a) /\ \A j \in 1 .. i - 1 : Started(Arms[p][j])
       /\ node' = [node EXCEPT ![a] = IF a \in Leaves THEN "go" ELSE "in"]
       /\ walk' = IF a \in Leaves THEN walk ELSE [walk EXCEPT ![a] = Opened(a)]
  /\ UNCHANGED <<flowVars, drive, stop, blind, pos, tries, row, cancelVars, reapVars, serverVars>>

-----------------------------------------------------------------------------
(* runStep and runWorkflowStep: the attempts of one leaf. *)

\* An attempt is over: the step is, or it backs off before the next one.  A
\* refused step is not tried again, nor any step of a cancelled context.
AttemptOver(n, k, verdict, refused) ==
  node' = [node EXCEPT ![n] =
    IF verdict = "danger" /\ k <= Retries[n] /\ ~refused /\ ~stop[FlowOf[n]]
    THEN "backoff" ELSE verdict]

BackoffOver(n) ==
  /\ Walking(FlowOf[n]) /\ node[n] = "backoff"
  /\ node' = [node EXCEPT ![n] = IF stop[FlowOf[n]] THEN "danger" ELSE "go"]
  /\ UNCHANGED <<flowVars, drive, stop, blind, walkVars, tries, row, cancelVars, reapVars, serverVars>>

Barred(n) == n \in Refused \/ FlowOf[n] \in blind

\* runJob up to the wait.  Its statements ride the walk's context: they fail
\* once it is cancelled.  A failure of the last of them (SyncRunAgencies) fails
\* the attempt and leaves its row queued.
DispatchJob(n) ==
  LET k == tries[n] + 1
      f == FlowOf[n] IN
  /\ Kind[n] = "job" /\ Walking(f) /\ node[n] = "go"
  /\ tries' = [tries EXCEPT ![n] = k]
  /\ \/ /\ ~stop[f]
        /\ row' = [row EXCEPT ![n][k] = IF Barred(n) THEN "refused" ELSE "queued"]
        /\ node' = [node EXCEPT ![n] = "wait"]
     \/ /\ stop[f] \/ May("dbError")
        /\ AttemptOver(n, k, "danger", FALSE) /\ UNCHANGED row
     \/ /\ ~stop[f] /\ May("dbError") /\ ~Barred(n)
        /\ row' = [row EXCEPT ![n][k] = "queued"]
        /\ AttemptOver(n, k, "danger", FALSE)
  /\ UNCHANGED <<flowVars, drive, stop, blind, walkVars, cancelVars, reapVars, serverVars>>

VerdictOf_Bug(s) == IF s = "failure" THEN "danger" ELSE s

VerdictOf(s) == IF s \in {"failure", "refused"} THEN "danger" ELSE s

\* waitForRun: what the row's status says, else the cancelled context, else the
\* engine's wait bound, which leaves the row to its runner.
WaitForRun(n) ==
  LET k == tries[n]
      s == row[n][k] IN
  /\ Kind[n] = "job" /\ Walking(FlowOf[n]) /\ node[n] = "wait"
  /\ \/ /\ s \in Over
        /\ AttemptOver(n, k, VerdictOf(s), s = "refused")
     \/ /\ s \in Live /\ (stop[FlowOf[n]] \/ May("timeout"))
        /\ AttemptOver(n, k, "danger", FALSE)
  /\ UNCHANGED <<flowVars, drive, stop, blind, walkVars, tries, row, cancelVars, reapVars, serverVars>>

\* DepthExceeded, or a child that is off, gone or another agency's.
Descends(n) == Depth[FlowOf[n]] < MaxDepth /\ n \notin scn.off

\* recordRefusedChild inserts under the node's id: a retry's row collides.
RefuseChild(n) ==
  LET k == tries[n] + 1
      f == FlowOf[n] IN
  /\ Kind[n] = "workflow" /\ Walking(f) /\ node[n] = "go" /\ ~Descends(n)
  /\ tries' = [tries EXCEPT ![n] = k]
  /\ row' = IF stop[f] THEN row ELSE [row EXCEPT ![n][1] = "skipped"]
  /\ AttemptOver(n, k, "danger", FALSE)
  /\ UNCHANGED <<flowVars, drive, stop, blind, walkVars, cancelVars, reapVars, serverVars>>

\* runChildWorkflowOnce.  The insert rides the parent walk's context.
DispatchFlow(n) ==
  LET k == tries[n] + 1
      f == FlowOf[n] IN
  /\ Kind[n] = "workflow" /\ Walking(f) /\ node[n] = "go" /\ Descends(n)
  /\ tries' = [tries EXCEPT ![n] = k]
  /\ \/ /\ ~stop[f] /\ Insert(Child[n][k])
        /\ node' = [node EXCEPT ![n] = "wait"]
     \/ /\ stop[f] \/ May("dbError")
        /\ AttemptOver(n, k, "danger", FALSE) /\ UNCHANGED <<flow, drive>>
  /\ UNCHANGED <<cancelled, ended, stop, blind, walkVars, row, cancelVars, reapVars, serverVars>>

\* waitForWorkflowRun, once Trigger has returned.
WaitForFlow(n) ==
  LET k == tries[n]
      c == Child[n][k] IN
  /\ Kind[n] = "workflow" /\ Walking(FlowOf[n]) /\ node[n] = "wait" /\ drive[c] # "lookup"
  /\ \/ /\ cancelled[c] \/ flow[c] = "failure" \/ stop[FlowOf[n]]
        /\ AttemptOver(n, k, "danger", FALSE)
     \/ /\ flow[c] = "success" /\ ~cancelled[c]
        /\ AttemptOver(n, k, "success", FALSE)
  /\ UNCHANGED <<flowVars, drive, stop, blind, walkVars, tries, row, cancelVars, reapVars, serverVars>>

-----------------------------------------------------------------------------
(* Runners: a child run is claimed and ends. *)

Claim(n, k) ==
  /\ up # "down" /\ row[n][k] = "queued" /\ ~May("hang")
  /\ row' = [row EXCEPT ![n][k] = "running"]
  /\ UNCHANGED <<flowVars, drive, stop, blind, walkVars, node, tries, cancelVars, reapVars, serverVars>>

RunEnds(n, k) ==
  /\ up # "down" /\ row[n][k] = "running"
  /\ \E s \in {"success", "failure"} : row' = [row EXCEPT ![n][k] = s]
  /\ UNCHANGED <<flowVars, drive, stop, blind, walkVars, node, tries, cancelVars, reapVars, serverVars>>

-----------------------------------------------------------------------------
(* CancelTree *)

ChildrenOf(f) == {c \in Flows : flow[c] # "none" /\ f \in CallerOf[c]}

\* Bound: nobody asks again for what is over or cancelled (the answer would be
\* a conflict, after another turn over the children).
CancelAsk(f) ==
  /\ up = "up" /\ cpc = "idle" /\ f \in scn.cancels
  /\ flow[f] = "running" /\ ~cancelled[f]
  /\ cpc' = "flag" /\ cflow' = f /\ ctodo' = {}
  /\ UNCHANGED <<flowVars, drive, stop, blind, walkVars, stepVars, told, reapVars, serverVars>>

\* Cancel: the guarded flag.  What was already flagged or over is not touched,
\* its children are.
CancelFlag ==
  /\ cpc = "flag"
  /\ IF flow[cflow] = "running" /\ ~cancelled[cflow]
     THEN cancelled' = [cancelled EXCEPT ![cflow] = TRUE] /\ cpc' = "skip"
     ELSE cpc' = "list" /\ UNCHANGED cancelled
  /\ UNCHANGED <<flow, ended, drive, stop, blind, walkVars, stepVars, cflow, ctodo, told,
                 reapVars, serverVars>>

\* Cancel: children not yet claimed become skipped.  Its error is ignored.
CancelSkip ==
  /\ cpc = "skip"
  /\ cpc' = "stop"
  /\ \/ row' = [n \in Nodes |-> IF n \in Jobs[cflow]
                 THEN [k \in Attempts |-> IF row[n][k] = "queued" THEN "skipped" ELSE row[n][k]]
                 ELSE row[n]]
     \/ May("dropped") /\ UNCHANGED row
  /\ UNCHANGED <<flowVars, drive, stop, blind, walkVars, node, tries, cflow, ctodo, told,
                 reapVars, serverVars>>

\* Cancel: the walk's cancel func, if this engine holds it.
CancelStop ==
  /\ cpc = "stop"
  /\ cpc' = "list"
  /\ stop' = [stop EXCEPT ![cflow] = @ \/ (cflow \in Local /\ drive[cflow] \in {"walk", "report"})]
  /\ told' = [told EXCEPT ![cflow] = TRUE]
  /\ UNCHANGED <<flowVars, drive, blind, walkVars, stepVars, cflow, ctodo, reapVars, serverVars>>

CancelList_Bug ==
  /\ cpc = "list"
  /\ cpc' = "idle" /\ cflow' = None /\ ctodo' = {}
  /\ UNCHANGED <<flowVars, drive, stop, blind, walkVars, stepVars, told, reapVars, serverVars>>

\* CancelTree: the children this flow has by now, each in its turn.
CancelList ==
  LET todo == ctodo \cup ChildrenOf(cflow) IN
  /\ cpc = "list"
  /\ \/ IF todo = {} THEN cpc' = "idle" /\ cflow' = None /\ ctodo' = {}
        ELSE \E c \in todo : cpc' = "flag" /\ cflow' = c /\ ctodo' = todo \ {c}
     \/ May("dropped") /\ cpc' = "idle" /\ cflow' = None /\ ctodo' = {}
  /\ UNCHANGED <<flowVars, drive, stop, blind, walkVars, stepVars, told, reapVars, serverVars>>

-----------------------------------------------------------------------------
(* Orphans, the server's death and its start. *)

\* 24 hours pass since a workflow began.  A live walk lasts as long in the
\* scenarios that say so.
Age(f) ==
  /\ flow[f] = "running" /\ f \notin aged
  /\ May("long") \/ (up = "up" /\ drive[f] = "gone")
  /\ aged' = aged \cup {f}
  /\ UNCHANGED <<flowVars, drive, stop, blind, walkVars, stepVars, cancelVars, rpc, rflow,
                 rtodo, serverVars>>

ReapRead_Bug ==
  /\ up = "up" /\ rpc = "idle" /\ rtodo = {}
  /\ rtodo' = {f \in aged : flow[f] = "running" /\ drive[f] = "gone"} /\ rtodo' # {}
  /\ UNCHANGED <<flowVars, drive, stop, blind, walkVars, stepVars, cancelVars, rpc, rflow,
                 aged, serverVars>>

\* reapOrphansOnce reads the rows, then reconciles one after the other.
ReapRead ==
  /\ up = "up" /\ rpc = "idle" /\ rtodo = {}
  /\ rtodo' = {f \in aged : flow[f] = "running"} /\ rtodo' # {}
  /\ UNCHANGED <<flowVars, drive, stop, blind, walkVars, stepVars, cancelVars, rpc, rflow,
                 aged, serverVars>>

\* reconcileWorkflowOrphan: the guarded update of the workflow run.
ReapFlow(f) ==
  /\ up # "down" /\ rpc = "idle" /\ f \in rtodo
  /\ rtodo' = rtodo \ {f}
  /\ IF flow[f] = "running"
     THEN flow' = [flow EXCEPT ![f] = "failure"] /\ rpc' = "emit" /\ rflow' = f
     ELSE UNCHANGED <<flow, rpc, rflow>>
  /\ UNCHANGED <<cancelled, ended, drive, stop, blind, walkVars, stepVars, cancelVars, aged,
                 serverVars>>

ReapEmit ==
  /\ rpc = "emit"
  /\ ended' = [ended EXCEPT ![rflow] = @ + 1]
  /\ rpc' = "runs"
  /\ UNCHANGED <<flow, cancelled, drive, stop, blind, walkVars, stepVars, cancelVars, rflow,
                 rtodo, aged, serverVars>>

ReapRuns ==
  /\ rpc = "runs"
  /\ row' = [n \in Nodes |-> IF n \in Jobs[rflow]
               THEN [k \in Attempts |-> IF row[n][k] \in Live THEN "failure" ELSE row[n][k]]
               ELSE row[n]]
  /\ rpc' = "idle" /\ rflow' = None
  /\ UNCHANGED <<flowVars, drive, stop, blind, walkVars, node, tries, cancelVars, rtodo, aged,
                 serverVars>>

Crash ==
  /\ May("crash") /\ up # "down" /\ crashes < MaxCrashes
  /\ up' = "down" /\ crashes' = crashes + 1
  /\ drive' = [f \in Flows |-> IF drive[f] = "none" THEN "none" ELSE "gone"]
  /\ cpc' = "idle" /\ cflow' = None /\ ctodo' = {}
  /\ rpc' = "idle" /\ rflow' = None /\ rtodo' = {}
  /\ UNCHANGED <<flowVars, stop, blind, walkVars, stepVars, told, aged, scn>>

\* The scheduler starts first ...
Boot ==
  /\ up = "down" /\ up' = "booting"
  /\ UNCHANGED <<flowVars, drive, stop, blind, walkVars, stepVars, cancelVars, reapVars,
                 crashes, scn>>

\* ... then sweepOrphansOnStartup reads every running row, and its reconciling
\* comes before the API serves.
SweepRead ==
  /\ up = "booting" /\ up' = "sweeping"
  /\ rtodo' = {f \in Flows : flow[f] = "running"}
  /\ UNCHANGED <<flowVars, drive, stop, blind, walkVars, stepVars, cancelVars, rpc, rflow,
                 aged, crashes, scn>>

SweepDone ==
  /\ up = "sweeping" /\ rpc = "idle" /\ rtodo = {} /\ up' = "up"
  /\ UNCHANGED <<flowVars, drive, stop, blind, walkVars, stepVars, cancelVars, reapVars,
                 crashes, scn>>

-----------------------------------------------------------------------------
FlowNext(f) ==
  \/ Start(f) \/ Finish(f) \/ Report(f)
  \/ \E w \in WalksOf[f] : NextStep(w) \/ StepOver(w)
  \/ \E n \in NodesOf[f] :
       \/ StartArm(n) \/ BackoffOver(n) \/ DispatchJob(n) \/ WaitForRun(n)
       \/ RefuseChild(n) \/ DispatchFlow(n) \/ WaitForFlow(n)
RunNext == \E n \in Nodes, k \in Attempts : Claim(n, k) \/ RunEnds(n, k)
CancelNext == CancelFlag \/ CancelSkip \/ CancelStop \/ CancelList
ReapNext == ReapRead \/ ReapEmit \/ ReapRuns \/ \E f \in Flows : ReapFlow(f)
StartNext == Boot \/ SweepRead \/ SweepDone

Next ==
  \/ Trigger \/ \E f \in Flows : FlowNext(f) \/ CancelAsk(f) \/ Age(f)
  \/ RunNext \/ CancelNext \/ ReapNext \/ Crash \/ StartNext

Spec == Init /\ [][Next]_vars

\* Goroutines go on, runners execute what is queued unless the scenario hangs
\* it, a dead server is started again, and time passes.  Nobody must trigger or
\* cancel, and nothing must fail.  A flow takes finitely many steps, so that
\* fairness of all of them together is fairness of each walk of each flow.
Fairness ==
  /\ WF_vars(\E f \in Flows : FlowNext(f)) /\ WF_vars(\E f \in Flows : Age(f))
  /\ WF_vars(RunNext) /\ WF_vars(CancelNext) /\ WF_vars(ReapNext) /\ WF_vars(StartNext)

FairSpec == Spec /\ Fairness

-----------------------------------------------------------------------------
(* Properties *)

\* Every variable stays in its domain.
TypeOK ==
  /\ flow \in [Flows -> {"none", "running", "success", "failure"}]
  /\ cancelled \in [Flows -> BOOLEAN] /\ ended \in [Flows -> Nat]
  /\ drive \in [Flows -> {"none", "lookup", "walk", "report", "gone"}]
  /\ stop \in [Flows -> BOOLEAN] /\ blind \in SUBSET Flows
  /\ walk \in [Walks -> {"off", "on", "success", "danger"}]
  /\ pos \in [Walks -> Nat \ {0}]
  /\ node \in [Nodes -> {"todo", "in", "go", "wait", "backoff"} \cup Verdicts]
  /\ tries \in [Nodes -> 0 .. MaxTries]
  /\ row \in [Nodes -> [Attempts -> {"none"} \cup Live \cup Over]]
  /\ cpc \in {"idle", "flag", "skip", "stop", "list"}
  /\ cflow \in Flows \cup {None} /\ ctodo \in SUBSET Flows
  /\ told \in [Flows -> BOOLEAN]
  /\ up \in {"down", "booting", "sweeping", "up"}
  /\ rpc \in {"idle", "emit", "runs"} /\ rflow \in Flows \cup {None}
  /\ rtodo \in SUBSET Flows /\ aged \in SUBSET Flows
  /\ crashes \in 0 .. MaxCrashes /\ scn \in Scenarios

\* The row that tells how a step ended: that of its last attempt, or the skip.
Shown(n) == row[n][IF tries[n] = 0 THEN 1 ELSE tries[n]]

NotTaken(n) == \E b \in Nodes : Kind[b] = "branch" /\ node[b] = "in" /\
                 \E w \in Opens(b) : walk[w] = "off" /\ Within(n, w)

\* A workflow that says success did its work: each of its job steps has a row
\* of an attempt that succeeded, or of a skip because its arm was not taken, or
\* its failure is one the definition tolerates.  (One that was cancelled shows
\* as cancelled, whatever its status.)
SuccessIsTrue ==
  \A f \in Flows : flow[f] = "success" /\ ~cancelled[f] =>
    \A n \in Jobs[f] : \/ Shown(n) = "success"
                       \/ Shown(n) = "skipped" /\ NotTaken(n)
                       \/ n \in Tolerated /\ tries[n] > 0

Ran(n) == \E k \in Attempts : row[n][k] \notin {"none", "skipped", "refused"}

\* A step runs when every attempt of every step before it is over, and its own
\* earlier attempts are.  The engine's wait bound gives this up (it leaves the
\* run of the attempt to its runner), and so does a failed statement after the
\* insert of the run.
StepsInOrder ==
  ~May("timeout") /\ ~May("dbError") =>
    /\ \A n \in Nodes : Ran(n) =>
         \A m \in Earlier[n] : \A k \in Attempts : row[m][k] \notin Live
    /\ \A n \in Nodes : \A k \in Attempts : k < tries[n] => row[n][k] \notin Live

\* At most settings.maxConcurrent arms of a parallel step have a live run, with
\* the same two exceptions.
ParallelBound ==
  ~May("timeout") /\ ~May("dbError") =>
    \A p \in Nodes :
      Cardinality({a \in Elems(Arms[p]) : \E n \in Nodes :
                     a \in Above[n] /\ \E k \in Attempts : row[n][k] \in Live}) <= scn.width

\* When Cancel has returned for a workflow of the API's engine, no step of it
\* starts any more, neither a run nor a sub-workflow: not by a walk that had
\* passed its check, not by a retry, not by an arm that waited for its slot, not
\* by a walk that had not registered its cancel func.  A walk of the scheduler's
\* engine only sees the flag before its next step.
CancelHalts ==
  [][\A f \in Local : told[f] =>
       /\ \A n \in Jobs[f] : \A k \in Attempts : row[n][k] = "none" => row'[n][k] = "none"
       /\ \A c \in Flows \ ChildrenOf(f) : c \notin ChildrenOf(f)']_vars

\* When a cancel is over, no sub-workflow of what it cancelled runs on
\* uncancelled.  A sub-workflow that the scheduler's engine starts after the
\* cancel listed the children escapes it, and so do those of a cancel whose
\* request was dropped.
CancelReachesAll ==
  up = "up" /\ cpc = "idle" /\ ~May("dropped") =>
    \A f \in Local : told[f] => \A c \in ChildrenOf(f) : flow[c] = "running" => cancelled[c]

\* Workflows that began all end, whatever they wait for, and their ends are
\* recorded unless the server died in between: by the walk, by the sweep at the
\* next start, or by the reaper.
WorkflowEnds ==
  (\E f \in Flows : flow[f] = "running") ~>
    \A f \in Flows : /\ flow[f] # "running"
                     /\ flow[f] # "none" => ended[f] = 1 \/ crashes > 0

Contract == INSTANCE RunContract WITH
  Runs <- Flows, Results <- {"success", "failure"},
  life <- [f \in Flows |-> IF flow[f] = "none" THEN "queued" ELSE flow[f]],
  reported <- ended

\* A workflow run keeps the contract of a run: one status for good, whoever of
\* its walk, the sweep and the reaper ends it, and one workflow-end after it.
ImplementsContract == Contract!Spec

=============================================================================
