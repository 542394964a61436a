--------------------------- MODULE Workflow_proofs ---------------------------
(***************************************************************************)
(* Proofs about Workflow, for any definitions, scenarios and bounds.        *)
(***************************************************************************)
EXTENDS Workflow, FiniteSetTheorems, TLAPS

Results == {"success", "failure"}

-----------------------------------------------------------------------------
(* Types: how often a step was tried, and where a walk is. *)

\* A step that may be attempted once more has an attempt left.
Attempted ==
  \A n \in Nodes :
    /\ tries[n] <= Retries[n] + 1
    /\ node[n] = "todo" => tries[n] = 0
    /\ node[n] \in {"go", "backoff"} => tries[n] <= Retries[n]

\* A walk that is on is at a step of its list.
Placed ==
  \A w \in Walks : /\ Body[w] # <<>> => pos[w] \in DOMAIN Body[w]
                   /\ walk[w] = "on" => Body[w] # <<>>

Typed == TypeOK /\ Attempted /\ Placed


\* The conjuncts of TypeOK, by the part of the state they are about.
FlowsTyped ==
  /\ flow \in [Flows -> {"none", "running", "success", "failure"}]
  /\ cancelled \in [Flows -> BOOLEAN] /\ ended \in [Flows -> Nat]

DrivesTyped ==
  /\ drive \in [Flows -> {"none", "lookup", "walk", "report", "gone"}]
  /\ stop \in [Flows -> BOOLEAN] /\ blind \in SUBSET Flows

WalksTyped ==
  /\ walk \in [Walks -> {"off", "on", "success", "danger"}]
  /\ pos \in [Walks -> Nat \ {0}]

StepsTyped ==
  /\ node \in [Nodes -> {"todo", "in", "go", "wait", "backoff"} \cup Verdicts]
  /\ tries \in [Nodes -> 0 .. MaxTries]
  /\ row \in [Nodes -> [Attempts -> {"none"} \cup Live \cup Over]]

ServerTyped ==
  /\ cpc \in {"idle", "flag", "skip", "stop", "list"}
  /\ cflow \in Flows \cup {None} /\ ctodo \in SUBSET Flows
  /\ told \in [Flows -> BOOLEAN]
  /\ up \in {"down", "booting", "sweeping", "up"}
  /\ rpc \in {"idle", "emit", "runs"} /\ rflow \in Flows \cup {None}
  /\ rtodo \in SUBSET Flows /\ aged \in SUBSET Flows
  /\ crashes \in 0 .. MaxCrashes /\ scn \in Scenarios

LEMMA Counted ==
  ASSUME NEW S, NEW f \in [S -> Nat], NEW x
  PROVE  [f EXCEPT ![x] = @ + 1] \in [S -> Nat]
<1>1. CASE x \in S
  BY <1>1
<1>2. CASE x \notin S
  BY <1>2
<1> QED
  BY <1>1, <1>2

LEMMA TypeParts ==
  /\ TypeOK <=> FlowsTyped /\ DrivesTyped /\ WalksTyped /\ StepsTyped /\ ServerTyped
  /\ TypeOK' <=> FlowsTyped' /\ DrivesTyped' /\ WalksTyped' /\ StepsTyped' /\ ServerTyped'
<1>1. TypeOK <=> FlowsTyped /\ DrivesTyped /\ WalksTyped /\ StepsTyped /\ ServerTyped
  BY DEF TypeOK, FlowsTyped, DrivesTyped, WalksTyped, StepsTyped, ServerTyped
<1>2. TypeOK' <=> FlowsTyped' /\ DrivesTyped' /\ WalksTyped' /\ StepsTyped' /\ ServerTyped'
  BY DEF TypeOK, FlowsTyped, DrivesTyped, WalksTyped, StepsTyped, ServerTyped
<1> QED
  BY <1>1, <1>2

\* A group of variables that a step leaves alone keeps its type.
LEMMA Frame ==
  ASSUME TypeOK
  PROVE  /\ UNCHANGED flowVars => FlowsTyped'
         /\ UNCHANGED <<drive, stop, blind>> => DrivesTyped'
         /\ UNCHANGED walkVars => WalksTyped' /\ (Placed => Placed')
         /\ UNCHANGED stepVars => StepsTyped' /\ (Attempted => Attempted')
         /\ UNCHANGED <<cancelVars, reapVars, serverVars>> => ServerTyped'
<1>1. UNCHANGED flowVars => FlowsTyped'
  BY DEF flowVars, TypeOK, FlowsTyped
<1>2. UNCHANGED <<drive, stop, blind>> => DrivesTyped'
  BY DEF TypeOK, DrivesTyped
<1>3. UNCHANGED walkVars => WalksTyped' /\ (Placed => Placed')
  BY DEF walkVars, TypeOK, WalksTyped, Placed
<1>4. UNCHANGED stepVars => StepsTyped' /\ (Attempted => Attempted')
  BY DEF stepVars, TypeOK, StepsTyped, Attempted
<1>5. UNCHANGED <<cancelVars, reapVars, serverVars>> => ServerTyped'
  BY DEF cancelVars, reapVars, serverVars, TypeOK, ServerTyped
<1> QED
  BY <1>1, <1>2, <1>3, <1>4, <1>5

\* The steps of a leaf, of a flow, and of the server, one by one.
LeafStep(n) ==
  \/ BackoffOver(n) \/ DispatchJob(n) \/ WaitForRun(n)
  \/ RefuseChild(n) \/ DispatchFlow(n) \/ WaitForFlow(n)

ServerStep ==
  \/ CancelFlag \/ CancelSkip \/ CancelStop \/ CancelList
  \/ ReapRead \/ ReapEmit \/ ReapRuns
  \/ Crash \/ Boot \/ SweepRead \/ SweepDone
  \/ \E f \in Flows : CancelAsk(f) \/ Age(f) \/ ReapFlow(f)

LEMMA StepCases ==
  ASSUME Next
  PROVE  \/ Trigger
         \/ \E f \in Flows : Start(f) \/ Finish(f) \/ Report(f)
         \/ \E w \in Walks : NextStep(w) \/ StepOver(w)
         \/ \E n \in Nodes : StartArm(n) \/ LeafStep(n)
         \/ \E n \in Nodes, k \in Attempts : Claim(n, k) \/ RunEnds(n, k)
         \/ ServerStep
<1>1. ASSUME NEW f \in Flows, FlowNext(f)
      PROVE  \/ Start(f) \/ Finish(f) \/ Report(f)
             \/ \E w \in Walks : NextStep(w) \/ StepOver(w)
             \/ \E n \in Nodes : StartArm(n) \/ LeafStep(n)
  BY <1>1 DEF FlowNext, LeafStep, WalksOf, NodesOf
<1>2. RunNext => \E n \in Nodes, k \in Attempts : Claim(n, k) \/ RunEnds(n, k)
  BY DEF RunNext
<1>3. CancelNext \/ ReapNext \/ StartNext \/ Crash => ServerStep
  BY DEF CancelNext, ReapNext, StartNext, ServerStep
<1>4. (\E f \in Flows : CancelAsk(f) \/ Age(f)) => ServerStep
  BY DEF ServerStep
<1> QED
  BY <1>1, <1>2, <1>3, <1>4 DEF Next


LEMMA TypeInit ==
  ASSUME Init PROVE Typed
<1> USE ConstantsAssumption, GraphAssumption DEF Init
<1>1. FlowsTyped /\ DrivesTyped /\ WalksTyped /\ StepsTyped
  BY DEF FlowsTyped, DrivesTyped, WalksTyped, StepsTyped, Verdicts
<1>2. ServerTyped
  BY DEF ServerTyped
<1>3. Attempted
  BY DEF Attempted
<1>4. Placed
  <2>1. \A w \in Walks : Body[w] \in Seq(Nodes)
    OBVIOUS
  <2>2. \A s \in Seq(Nodes) : s # <<>> => 1 \in DOMAIN s
    OBVIOUS
  <2> QED
    BY <2>1, <2>2 DEF Placed
<1> QED
  BY <1>1, <1>2, <1>3, <1>4, TypeParts DEF Typed

\* The steps that move no step of a workflow: its goroutine, its runs, the server.
LEMMA FlowTypes ==
  ASSUME Typed, NEW f \in Flows, Trigger \/ Start(f) \/ Finish(f) \/ Report(f)
  PROVE  Typed'
<1> USE ConstantsAssumption DEF Typed
<1> USE DEF Insert
<1>1. FlowsTyped
  BY TypeParts
<1>2. DrivesTyped
  BY TypeParts
<1>3. WalksTyped
  BY TypeParts
<1>4. scn \in Scenarios /\ scn.top \in Flows
  BY TypeParts DEF ServerTyped
<1>5. CASE Trigger
  <2>1. FlowsTyped' /\ DrivesTyped'
    BY <1>1, <1>2, <1>4, <1>5 DEF Trigger, FlowsTyped, DrivesTyped
  <2>2. UNCHANGED <<walkVars, stepVars, cancelVars, reapVars, serverVars>>
    BY <1>5 DEF Trigger
  <2> QED
    BY <2>1, <2>2, Frame, TypeParts
<1>6. CASE Start(f)
  <2>1. DrivesTyped'
    BY <1>2, <1>6 DEF Start, DrivesTyped
  <2>2. WalksTyped' /\ Placed'
    BY <1>3, <1>6, GraphAssumption DEF Start, WalksTyped, Opened, Placed
  <2>3. UNCHANGED <<flowVars, stepVars, cancelVars, reapVars, serverVars>>
    BY <1>6 DEF Start
  <2> QED
    BY <2>1, <2>2, <2>3, Frame, TypeParts
<1>7. CASE Finish(f)
  <2>1. FlowsTyped' /\ DrivesTyped'
    <3>1. /\ flow' = flow \/ \E v \in {"failure", "success"} : flow' = [flow EXCEPT ![f] = v]
          /\ \E d \in {"report", "gone"} : drive' = [drive EXCEPT ![f] = d]
          /\ UNCHANGED <<cancelled, ended, stop, blind>>
      BY <1>7 DEF Finish
    <3>2. flow' \in [Flows -> {"none", "running", "success", "failure"}]
      BY <1>1, <3>1 DEF FlowsTyped
    <3>3. drive' \in [Flows -> {"none", "lookup", "walk", "report", "gone"}]
      BY <1>2, <3>1 DEF DrivesTyped
    <3> QED
      BY <1>1, <1>2, <3>1, <3>2, <3>3 DEF FlowsTyped, DrivesTyped
  <2>2. UNCHANGED <<walkVars, stepVars, cancelVars, reapVars, serverVars>>
    BY <1>7 DEF Finish
  <2> QED
    BY <2>1, <2>2, Frame, TypeParts
<1>8. CASE Report(f)
  <2>1. FlowsTyped' /\ DrivesTyped'
    BY <1>1, <1>2, <1>8 DEF Report, FlowsTyped, DrivesTyped
  <2>2. UNCHANGED <<walkVars, stepVars, cancelVars, reapVars, serverVars>>
    BY <1>8 DEF Report
  <2> QED
    BY <2>1, <2>2, Frame, TypeParts
<1> QED
  BY <1>5, <1>6, <1>7, <1>8

LEMMA RunTypes ==
  ASSUME Typed, NEW n \in Nodes, NEW k \in Attempts, Claim(n, k) \/ RunEnds(n, k)
  PROVE  Typed'
<1> USE DEF Typed
<1>1. StepsTyped
  BY TypeParts
<1>2. StepsTyped'
  <2>1. \E s \in {"none"} \cup Live \cup Over : row' = [row EXCEPT ![n] = [@ EXCEPT ![k] = s]]
    BY DEF Claim, RunEnds, Live, Over
  <2>2. UNCHANGED <<node, tries>>
    BY DEF Claim, RunEnds
  <2> QED
    BY <1>1, <2>1, <2>2 DEF StepsTyped
<1>3. Attempted'
  BY DEF Claim, RunEnds, Attempted
<1>4. UNCHANGED <<flowVars, drive, stop, blind, walkVars, cancelVars, reapVars, serverVars>>
  BY DEF Claim, RunEnds
<1> QED
  BY <1>2, <1>3, <1>4, Frame, TypeParts

LEMMA ServerTypes ==
  ASSUME Typed, ServerStep
  PROVE  Typed'
<1> USE ConstantsAssumption DEF Typed
<1> USE DEF cancelVars, reapVars, serverVars
<1>1. FlowsTyped /\ DrivesTyped /\ WalksTyped /\ StepsTyped /\ ServerTyped
  BY TypeParts
<1>2. CASE CancelFlag
  <2>1. FlowsTyped' /\ ServerTyped'
    BY <1>1, <1>2 DEF CancelFlag, FlowsTyped, ServerTyped
  <2>2. UNCHANGED <<drive, stop, blind, walkVars, stepVars>>
    BY <1>2 DEF CancelFlag
  <2> QED
    BY <2>1, <2>2, Frame, TypeParts
<1>3. CASE CancelSkip
  <2>1. StepsTyped'
    BY <1>1, <1>3 DEF CancelSkip, StepsTyped, Over
  <2>2. ServerTyped' /\ Attempted'
    BY <1>1, <1>3 DEF CancelSkip, ServerTyped, Attempted
  <2>3. UNCHANGED <<flowVars, drive, stop, blind, walkVars>>
    BY <1>3 DEF CancelSkip
  <2> QED
    BY <2>1, <2>2, <2>3, Frame, TypeParts
<1>4. CASE CancelStop
  <2>1. DrivesTyped' /\ ServerTyped'
    BY <1>1, <1>4 DEF CancelStop, DrivesTyped, ServerTyped
  <2>2. UNCHANGED <<flowVars, walkVars, stepVars>>
    BY <1>4 DEF CancelStop
  <2> QED
    BY <2>1, <2>2, Frame, TypeParts
<1>5. CASE CancelList
  <2>1. ChildrenOf(cflow) \subseteq Flows
    BY DEF ChildrenOf
  <2>2. ServerTyped'
    BY <1>1, <1>5, <2>1 DEF CancelList, ServerTyped
  <2>3. UNCHANGED <<flowVars, drive, stop, blind, walkVars, stepVars>>
    BY <1>5 DEF CancelList
  <2> QED
    BY <2>2, <2>3, Frame, TypeParts
<1>6. CASE ReapRead \/ Boot \/ SweepRead \/ SweepDone \/ \E f \in Flows : CancelAsk(f) \/ Age(f)
  <2>1. ServerTyped'
    BY <1>1, <1>6 DEF ReapRead, Boot, SweepRead, SweepDone, CancelAsk, Age, ServerTyped
  <2>2. UNCHANGED <<flowVars, drive, stop, blind, walkVars, stepVars>>
    BY <1>6 DEF ReapRead, Boot, SweepRead, SweepDone, CancelAsk, Age
  <2> QED
    BY <2>1, <2>2, Frame, TypeParts
<1>7. CASE ReapEmit
  <2>0. ended' = [ended EXCEPT ![rflow] = @ + 1] /\ UNCHANGED <<flow, cancelled>>
    BY <1>7 DEF ReapEmit
  <2>1. FlowsTyped'
    <3>1. ended \in [Flows -> Nat]
      BY <1>1 DEF FlowsTyped
    <3>2. ended' \in [Flows -> Nat]
      BY <2>0, <3>1, Counted
    <3> QED
      BY <1>1, <2>0, <3>2 DEF FlowsTyped
  <2>4. rpc' = "runs" /\ UNCHANGED <<cancelVars, rflow, rtodo, aged, serverVars>>
    BY <1>7 DEF ReapEmit
  <2>3. ServerTyped'
    BY <1>1, <2>4 DEF ServerTyped
  <2>2. UNCHANGED <<drive, stop, blind, walkVars, stepVars>>
    BY <1>7 DEF ReapEmit
  <2> QED
    BY <2>1, <2>2, <2>3, Frame, TypeParts
<1>8. CASE ReapRuns
  <2>1. StepsTyped'
    BY <1>1, <1>8 DEF ReapRuns, StepsTyped, Over
  <2>2. ServerTyped' /\ Attempted'
    BY <1>1, <1>8 DEF ReapRuns, ServerTyped, Attempted
  <2>3. UNCHANGED <<flowVars, drive, stop, blind, walkVars>>
    BY <1>8 DEF ReapRuns
  <2> QED
    BY <2>1, <2>2, <2>3, Frame, TypeParts
<1>9. CASE Crash
  <2>1. DrivesTyped' /\ ServerTyped'
    BY <1>1, <1>9 DEF Crash, DrivesTyped, ServerTyped
  <2>2. UNCHANGED <<flowVars, walkVars, stepVars>>
    BY <1>9 DEF Crash
  <2> QED
    BY <2>1, <2>2, Frame, TypeParts
<1>10. ASSUME NEW f \in Flows, ReapFlow(f) PROVE Typed'
  <2>1. FlowsTyped'
    BY <1>1, <1>10 DEF ReapFlow, FlowsTyped
  <2>3. /\ (rpc' = "emit" /\ rflow' = f) \/ UNCHANGED <<rpc, rflow>>
        /\ rtodo' = rtodo \ {f} /\ UNCHANGED <<cancelVars, aged, serverVars>>
    BY <1>10 DEF ReapFlow
  <2>4. ServerTyped'
    BY <1>1, <2>3 DEF ServerTyped
  <2>2. UNCHANGED <<drive, stop, blind, walkVars, stepVars>>
    BY <1>10 DEF ReapFlow
  <2> QED
    BY <2>1, <2>2, <2>4, Frame, TypeParts
<1> QED
  BY <1>2, <1>3, <1>4, <1>5, <1>6, <1>7, <1>8, <1>9, <1>10 DEF ServerStep

\* What a walk is at is a step of its flow.
LEMMA AtStep ==
  ASSUME Typed, NEW w \in Walks, walk[w] = "on"
  PROVE  /\ pos[w] \in DOMAIN Body[w] /\ Body[w] # <<>> /\ Body[w] \in Seq(Nodes)
         /\ Current(w) \in Nodes /\ Current(w) \in Elems(Body[w])
         /\ FlowOf[Current(w)] = FlowOf[w] /\ FlowOf[w] \in Flows
<1>1. Body[w] \in Seq(Nodes)
  BY GraphAssumption
<1>2. pos[w] \in DOMAIN Body[w] /\ Body[w] # <<>>
  BY DEF Typed, Placed
<1>3. Current(w) \in Nodes /\ Current(w) \in Elems(Body[w])
  BY <1>1, <1>2 DEF Current, Elems
<1> QED
  BY <1>1, <1>2, <1>3, GraphAssumption

\* The attempts of a leaf may end where they ended.
LEMMA OverTypes ==
  ASSUME Typed, NEW n \in Nodes, NEW k \in 0 .. Retries[n] + 1, NEW verdict \in Verdicts,
         NEW refused \in BOOLEAN, AttemptOver(n, k, verdict, refused)
  PROVE  /\ node' \in [Nodes -> {"todo", "in", "go", "wait", "backoff"} \cup Verdicts]
         /\ \A m \in Nodes : m # n => node'[m] = node[m]
         /\ node'[n] # "todo" /\ node'[n] # "go"
         /\ node'[n] = "backoff" => k <= Retries[n]
<1>1. node \in [Nodes -> {"todo", "in", "go", "wait", "backoff"} \cup Verdicts]
  BY DEF Typed, TypeOK
<1> QED
  BY <1>1 DEF AttemptOver, Verdicts

LEMMA LeafTypes ==
  ASSUME Typed, NEW n \in Nodes, LeafStep(n)
  PROVE  Typed'
<1> DEFINE States == {"todo", "in", "go", "wait", "backoff"} \cup Verdicts
           S == {"none"} \cup Live \cup Over
<1>1. /\ FlowsTyped /\ DrivesTyped /\ WalksTyped /\ StepsTyped /\ ServerTyped /\ Attempted
      /\ TypeOK /\ Placed
  BY TypeParts DEF Typed
<1>2. Retries[n] \in 0 .. MaxTries - 1 /\ MaxTries \in Nat \ {0}
  BY ConstantsAssumption
<1>3. node \in [Nodes -> States] /\ tries \in [Nodes -> 0 .. MaxTries]
      /\ row \in [Nodes -> [Attempts -> S]]
  BY <1>1 DEF StepsTyped
<1> DEFINE Others ==
      \A m \in Nodes : m # n => node'[m] = node[m] /\ tries'[m] = tries[m]
<1>4. ASSUME node' \in [Nodes -> States], tries' \in [Nodes -> 0 .. MaxTries],
             row' \in [Nodes -> [Attempts -> S]], Others,
             tries'[n] <= Retries[n] + 1, node'[n] # "todo",
             node'[n] \in {"go", "backoff"} => tries'[n] <= Retries[n]
      PROVE  StepsTyped' /\ Attempted'
  <2>1. StepsTyped'
    BY <1>4 DEF StepsTyped
  <2>2. Attempted'
    BY <1>1, <1>4 DEF Attempted
  <2> QED
    BY <2>1, <2>2
<1>5. node[n] = "go" => tries[n] + 1 \in Attempts /\ tries[n] + 1 <= Retries[n] + 1
                        /\ tries[n] + 1 \in 0 .. Retries[n] + 1
  BY <1>1, <1>2, <1>3 DEF Attempted, Attempts
<1>6. tries[n] \in 0 .. Retries[n] + 1 /\ (node[n] = "backoff" => tries[n] <= Retries[n])
  BY <1>1, <1>2, <1>3 DEF Attempted
<1> HIDE DEF States, S
<1>7. "danger" \in Verdicts /\ "success" \in Verdicts /\ FALSE \in BOOLEAN
  BY DEF Verdicts
<1>8. "go" \in States /\ "wait" \in States /\ "danger" \in States
      /\ "refused" \in S /\ "queued" \in S /\ "skipped" \in S
  BY DEF States, S, Live, Over, Verdicts
<1>9. CASE BackoffOver(n)
  <2>1. node[n] = "backoff" /\ UNCHANGED <<tries, row>>
        /\ node' = [node EXCEPT ![n] = IF stop[FlowOf[n]] THEN "danger" ELSE "go"]
    BY <1>9 DEF BackoffOver
  <2>2. node' \in [Nodes -> States] /\ Others /\ node'[n] # "todo"
    BY <2>1, <1>3, <1>8
  <2>3. StepsTyped' /\ Attempted'
    BY <2>1, <2>2, <1>3, <1>4, <1>6
  <2>4. UNCHANGED <<flowVars, drive, stop, blind, walkVars, cancelVars, reapVars, serverVars>>
    BY <1>9 DEF BackoffOver
  <2> QED
    BY <2>3, <2>4, Frame, TypeParts DEF Typed
<1>10. CASE DispatchJob(n)
  <2> DEFINE k == tries[n] + 1
  <2>1. node[n] = "go" /\ tries' = [tries EXCEPT ![n] = k]
    BY <1>10 DEF DispatchJob
  <2>2. tries' \in [Nodes -> 0 .. MaxTries] /\ tries'[n] = k
        /\ \A m \in Nodes : m # n => tries'[m] = tries[m]
    BY <2>1, <1>3, <1>5, <1>2
  <2>3. \/ row' = row
        \/ \E s \in {"refused", "queued"} : row' = [row EXCEPT ![n] = [@ EXCEPT ![k] = s]]
    BY <1>10 DEF DispatchJob
  <2>4. row' \in [Nodes -> [Attempts -> S]]
    <3>1. ASSUME NEW s \in {"refused", "queued"}, row' = [row EXCEPT ![n] = [@ EXCEPT ![k] = s]]
          PROVE  row' \in [Nodes -> [Attempts -> S]]
      <4>1. s \in S /\ row[n] \in [Attempts -> S]
        BY <1>3, <1>8
      <4>2. [row[n] EXCEPT ![k] = s] \in [Attempts -> S]
        BY <4>1
      <4> QED
        BY <3>1, <4>2, <1>3
    <3> QED
      BY <3>1, <2>3, <1>3
  <2>5. \/ node' = [node EXCEPT ![n] = "wait"]
        \/ AttemptOver(n, k, "danger", FALSE)
    BY <1>10 DEF DispatchJob
  <2>6. ASSUME node' = [node EXCEPT ![n] = "wait"] PROVE StepsTyped' /\ Attempted'
    <3>1. node' \in [Nodes -> States] /\ Others /\ node'[n] = "wait"
      BY <2>2, <2>6, <1>3, <1>8
    <3> QED
      BY <3>1, <2>1, <2>2, <2>4, <1>4, <1>5
  <2>7. ASSUME AttemptOver(n, k, "danger", FALSE) PROVE StepsTyped' /\ Attempted'
    <3>1. k \in 0 .. Retries[n] + 1
      BY <2>1, <1>5
    <3>2. /\ node' \in [Nodes -> States] /\ \A m \in Nodes : m # n => node'[m] = node[m]
          /\ node'[n] # "todo" /\ node'[n] # "go" /\ (node'[n] = "backoff" => k <= Retries[n])
      BY <3>1, <2>7, <1>7, OverTypes DEF States
    <3> QED
      BY <3>2, <2>1, <2>2, <2>4, <1>4, <1>5
  <2>8. UNCHANGED <<flowVars, drive, stop, blind, walkVars, cancelVars, reapVars, serverVars>>
    BY <1>10 DEF DispatchJob
  <2> QED
    BY <2>5, <2>6, <2>7, <2>8, <1>1, Frame, TypeParts DEF Typed
<1>11. CASE WaitForRun(n) \/ WaitForFlow(n)
  <2>1. \E v \in Verdicts : \E r \in BOOLEAN : AttemptOver(n, tries[n], v, r)
    BY <1>11, <1>7 DEF WaitForRun, WaitForFlow, VerdictOf, Over, Verdicts
  <2>2. PICK v \in Verdicts, r \in BOOLEAN : AttemptOver(n, tries[n], v, r)
    BY <2>1
  <2>3. /\ node' \in [Nodes -> States] /\ \A m \in Nodes : m # n => node'[m] = node[m]
        /\ node'[n] # "todo" /\ node'[n] # "go"
        /\ node'[n] = "backoff" => tries[n] <= Retries[n]
    BY <2>2, <1>6, OverTypes DEF States
  <2>4. UNCHANGED <<tries, row>>
        /\ UNCHANGED <<flowVars, drive, stop, blind, walkVars, cancelVars, reapVars, serverVars>>
    BY <1>11 DEF WaitForRun, WaitForFlow
  <2>5. StepsTyped' /\ Attempted'
    BY <2>3, <2>4, <1>3, <1>4, <1>6
  <2> QED
    BY <2>4, <2>5, <1>1, Frame, TypeParts DEF Typed
<1>12. CASE RefuseChild(n)
  <2> DEFINE k == tries[n] + 1
  <2>1. node[n] = "go" /\ tries' = [tries EXCEPT ![n] = k]
        /\ (row' = row \/ row' = [row EXCEPT ![n][1] = "skipped"])
        /\ AttemptOver(n, k, "danger", FALSE)
    BY <1>12 DEF RefuseChild
  <2>2. tries' \in [Nodes -> 0 .. MaxTries] /\ tries'[n] = k
        /\ \A m \in Nodes : m # n => tries'[m] = tries[m]
    BY <2>1, <1>3, <1>5, <1>2
  <2>3. row' \in [Nodes -> [Attempts -> S]]
    <3>1. [row[n] EXCEPT ![1] = "skipped"] \in [Attempts -> S]
      BY <1>3, <1>8
    <3> QED
      BY <2>1, <3>1, <1>3
  <2>4. k \in 0 .. Retries[n] + 1
    BY <2>1, <1>5
  <2>5. /\ node' \in [Nodes -> States] /\ \A m \in Nodes : m # n => node'[m] = node[m]
        /\ node'[n] # "todo" /\ node'[n] # "go" /\ (node'[n] = "backoff" => k <= Retries[n])
    BY <2>4, <2>1, <1>7, OverTypes DEF States
  <2>6. StepsTyped' /\ Attempted'
    BY <2>5, <2>1, <2>2, <2>3, <1>4, <1>5
  <2>7. UNCHANGED <<flowVars, drive, stop, blind, walkVars, cancelVars, reapVars, serverVars>>
    BY <1>12 DEF RefuseChild
  <2> QED
    BY <2>6, <2>7, <1>1, Frame, TypeParts DEF Typed
<1>13. CASE DispatchFlow(n)
  <2> DEFINE k == tries[n] + 1
  <2>1. node[n] = "go" /\ tries' = [tries EXCEPT ![n] = k] /\ row' = row
    BY <1>13 DEF DispatchFlow
  <2>2. tries' \in [Nodes -> 0 .. MaxTries] /\ tries'[n] = k
        /\ \A m \in Nodes : m # n => tries'[m] = tries[m]
    BY <2>1, <1>3, <1>5, <1>2
  <2>3. \/ Insert(Child[n][k]) /\ node' = [node EXCEPT ![n] = "wait"]
        \/ AttemptOver(n, k, "danger", FALSE) /\ UNCHANGED <<flow, drive>>
    BY <1>13 DEF DispatchFlow
  <2>4. UNCHANGED <<cancelled, ended, stop, blind, walkVars, cancelVars, reapVars, serverVars>>
    BY <1>13 DEF DispatchFlow
  <2>5. FlowsTyped' /\ DrivesTyped'
    BY <2>3, <2>4, <1>1 DEF Insert, FlowsTyped, DrivesTyped
  <2>6. ASSUME node' = [node EXCEPT ![n] = "wait"] PROVE StepsTyped' /\ Attempted'
    <3>1. node' \in [Nodes -> States] /\ Others /\ node'[n] = "wait"
      BY <2>2, <2>6, <1>3, <1>8
    <3> QED
      BY <3>1, <2>1, <2>2, <1>3, <1>4, <1>5
  <2>7. ASSUME AttemptOver(n, k, "danger", FALSE) PROVE StepsTyped' /\ Attempted'
    <3>1. k \in 0 .. Retries[n] + 1
      BY <2>1, <1>5
    <3>2. /\ node' \in [Nodes -> States] /\ \A m \in Nodes : m # n => node'[m] = node[m]
          /\ node'[n] # "todo" /\ node'[n] # "go" /\ (node'[n] = "backoff" => k <= Retries[n])
      BY <3>1, <2>7, <1>7, OverTypes DEF States
    <3> QED
      BY <3>2, <2>1, <2>2, <1>3, <1>4, <1>5
  <2> QED
    BY <2>3, <2>4, <2>5, <2>6, <2>7, <1>1, Frame, TypeParts DEF Typed
<1> QED
  BY <1>9, <1>10, <1>11, <1>12, <1>13 DEF LeafStep

\* A walk that is opened is at its first step, or over.
LEMMA OpenTypes ==
  ASSUME Typed, NEW v \in Walks, walk' = [walk EXCEPT ![v] = Opened(v)], pos' = pos
  PROVE  WalksTyped' /\ Placed'
<1>1. WalksTyped /\ Placed
  BY TypeParts DEF Typed
<1>2. Opened(v) \in {"on", "success"} /\ (Opened(v) = "on" => Body[v] # <<>>)
  BY DEF Opened
<1> HIDE DEF Opened
<1>3. WalksTyped'
  BY <1>1, <1>2 DEF WalksTyped
<1>4. Placed'
  BY <1>1, <1>2 DEF WalksTyped, Placed
<1> QED
  BY <1>3, <1>4

\* What EnterStep does to the steps.
LEMMA EnterTypes ==
  ASSUME Typed, NEW n \in Nodes, node[n] = "todo", EnterStep(n), pos' = pos
  PROVE  StepsTyped' /\ Attempted' /\ WalksTyped' /\ Placed'
<1> DEFINE States == {"todo", "in", "go", "wait", "backoff"} \cup Verdicts
           S == {"none"} \cup Live \cup Over
<1>1. WalksTyped /\ Placed /\ StepsTyped /\ Attempted
  BY TypeParts DEF Typed
<1>2. node \in [Nodes -> States] /\ tries \in [Nodes -> 0 .. MaxTries]
      /\ row \in [Nodes -> [Attempts -> S]]
  BY <1>1 DEF StepsTyped
<1>3. Retries[n] \in Nat /\ tries[n] = 0
  BY <1>1, ConstantsAssumption DEF Attempted
<1>4. "go" \in States /\ "in" \in States /\ "skipped" \in States /\ "skipped" \in S
  BY DEF Verdicts, Over
<1> HIDE DEF States, S
<1>5. ASSUME NEW s \in {"go", "in"}, node' = [node EXCEPT ![n] = s], UNCHANGED <<row, tries>>
      PROVE  StepsTyped' /\ Attempted'
  <2>1. StepsTyped'
    BY <1>2, <1>4, <1>5 DEF StepsTyped, States, S
  <2>2. Attempted'
    BY <1>1, <1>2, <1>3, <1>5 DEF Attempted
  <2> QED
    BY <2>1, <2>2
<1>6. CASE UNCHANGED walk /\ \E s \in {"go", "in"} : /\ node' = [node EXCEPT ![n] = s]
                                                     /\ UNCHANGED <<row, tries>>
  <2>1. WalksTyped' /\ Placed'
    BY <1>1, <1>6 DEF WalksTyped, Placed
  <2> QED
    BY <2>1, <1>5, <1>6
<1>7. ASSUME NEW arm \in Walks, NEW other \in Walks, TakeArm(n, arm, other)
      PROVE  StepsTyped' /\ Attempted' /\ WalksTyped' /\ Placed'
  <2>1. walk' = [walk EXCEPT ![arm] = Opened(arm)] /\ tries' = tries
        /\ node' = [m \in Nodes |-> IF m = n THEN "in"
                                    ELSE IF m \in SkippedBy[other] THEN "skipped" ELSE node[m]]
        /\ row' = [m \in Nodes |-> IF m \in SkippedBy[other]
                                   THEN [row[m] EXCEPT ![1] = "skipped"] ELSE row[m]]
    BY <1>7 DEF TakeArm
  <2>2. WalksTyped' /\ Placed'
    BY <2>1, OpenTypes
  <2>3. node' \in [Nodes -> States]
    BY <2>1, <1>2, <1>4
  <2>4. row' \in [Nodes -> [Attempts -> S]]
    <3>1. \A m \in Nodes : [row[m] EXCEPT ![1] = "skipped"] \in [Attempts -> S]
      BY <1>2, <1>4
    <3> QED
      BY <2>1, <3>1, <1>2
  <2>5. \A m \in Nodes : node'[m] \in {"todo", "go", "backoff"} => node'[m] = node[m]
    BY <2>1
  <2>6. StepsTyped' /\ Attempted'
    BY <2>1, <2>3, <2>4, <2>5, <1>1, <1>2 DEF StepsTyped, Attempted, States, S
  <2> QED
    BY <2>2, <2>6
<1>8. CASE Kind[n] = "sequence" /\ node' = [node EXCEPT ![n] = "in"]
           /\ walk' = [walk EXCEPT ![n] = Opened(n)] /\ UNCHANGED <<row, tries>>
  <2>1. n \in Walks
    BY <1>8, GraphAssumption DEF Opens
  <2> QED
    BY <1>8, <2>1, <1>5, OpenTypes
<1>9. CASE Kind[n] = "branch" /\ \E passed \in Conditions(n) :
             IF passed THEN TakeArm(n, Pass[n], Fail[n]) ELSE TakeArm(n, Fail[n], Pass[n])
  <2>1. Pass[n] \in Walks /\ Fail[n] \in Walks
    BY <1>9, GraphAssumption DEF Opens
  <2>2. TakeArm(n, Pass[n], Fail[n]) \/ TakeArm(n, Fail[n], Pass[n])
    BY <1>9
  <2> QED
    BY <2>1, <2>2, <1>7
<1>10. \/ n \in Leaves /\ node' = [node EXCEPT ![n] = "go"] /\ UNCHANGED <<walk, row, tries>>
       \/ /\ Kind[n] = "parallel" /\ node' = [node EXCEPT ![n] = "in"]
          /\ UNCHANGED <<walk, row, tries>>
       => UNCHANGED walk /\ \E s \in {"go", "in"} : /\ node' = [node EXCEPT ![n] = s]
                                                  /\ UNCHANGED <<row, tries>>
  OBVIOUS
<1> QED
  BY <1>6, <1>8, <1>9, <1>10 DEF EnterStep

LEMMA WalkTypes ==
  ASSUME Typed, NEW w \in Walks, NextStep(w) \/ StepOver(w)
  PROVE  Typed'
<1>1. WalksTyped /\ Placed /\ StepsTyped /\ Attempted /\ TypeOK
  BY TypeParts DEF Typed
<1>2. walk[w] = "on"
  BY DEF NextStep, StepOver
<1>3. /\ pos[w] \in DOMAIN Body[w] /\ Body[w] # <<>> /\ Body[w] \in Seq(Nodes)
      /\ Current(w) \in Nodes
  BY <1>2, AtStep
<1>4. ASSUME NEW s \in {"danger", "success"}, walk' = [walk EXCEPT ![w] = s], pos' = pos
      PROVE  WalksTyped' /\ Placed'
  BY <1>1, <1>4 DEF WalksTyped, Placed
<1>5. CASE NextStep(w)
  <2>1. UNCHANGED <<flowVars, drive, stop, blind, cancelVars, reapVars, serverVars>> /\ pos' = pos
    BY <1>5 DEF NextStep
  <2>2. \/ walk' = [walk EXCEPT ![w] = "danger"] /\ UNCHANGED stepVars
        \/ node[Current(w)] = "todo" /\ EnterStep(Current(w))
    BY <1>5 DEF NextStep
  <2>3. StepsTyped' /\ Attempted' /\ WalksTyped' /\ Placed'
    BY <2>1, <2>2, <1>1, <1>3, <1>4, Frame, EnterTypes
  <2> QED
    BY <2>1, <2>3, <1>1, Frame, TypeParts DEF Typed
<1>6. CASE StepOver(w)
  <2>1. UNCHANGED <<flowVars, drive, stop, blind, stepVars, cancelVars, reapVars, serverVars>>
    BY <1>6 DEF StepOver
  <2>2. \/ walk' = [walk EXCEPT ![w] = "danger"] /\ pos' = pos
        \/ walk' = [walk EXCEPT ![w] = "success"] /\ pos' = pos
        \/ pos[w] # Len(Body[w]) /\ pos' = [pos EXCEPT ![w] = @ + 1] /\ walk' = walk
    BY <1>6 DEF StepOver
  <2>3. ASSUME pos[w] # Len(Body[w]), pos' = [pos EXCEPT ![w] = @ + 1], walk' = walk
        PROVE  WalksTyped' /\ Placed'
    <3>1. pos[w] + 1 \in DOMAIN Body[w] /\ pos[w] + 1 \in Nat \ {0}
      BY <1>3, <2>3
    <3>2. WalksTyped'
      BY <1>1, <2>3, <3>1 DEF WalksTyped
    <3>3. Placed'
      BY <1>1, <2>3, <3>1 DEF WalksTyped, Placed
    <3> QED
      BY <3>2, <3>3
  <2>4. WalksTyped' /\ Placed'
    BY <2>2, <2>3, <1>4
  <2> QED
    BY <2>1, <2>4, <1>1, Frame, TypeParts DEF Typed
<1> QED
  BY <1>5, <1>6

LEMMA ArmTypes ==
  ASSUME Typed, NEW p \in Nodes, StartArm(p)
  PROVE  Typed'
<1>1. WalksTyped /\ Placed /\ StepsTyped /\ Attempted /\ TypeOK
  BY TypeParts DEF Typed
<1>2. PICK i \in DOMAIN Arms[p] :
        /\ ~Started(Arms[p][i])
        /\ node' = [node EXCEPT ![Arms[p][i]] = IF Arms[p][i] \in Leaves THEN "go" ELSE "in"]
        /\ walk' = IF Arms[p][i] \in Leaves THEN walk
                   ELSE [walk EXCEPT ![Arms[p][i]] = Opened(Arms[p][i])]
  BY DEF StartArm
<1> DEFINE a == Arms[p][i]
<1>3. a \in Nodes /\ a \in Elems(Arms[p])
  <2>1. Arms[p] \in Seq(Nodes)
    BY GraphAssumption
  <2> QED
    BY <2>1 DEF Elems
<1>4. Kind[p] = "parallel" /\ pos' = pos /\ UNCHANGED <<tries, row>>
      /\ UNCHANGED <<flowVars, drive, stop, blind, cancelVars, reapVars, serverVars>>
  BY DEF StartArm
<1>5. a \notin Leaves => a \in Walks
  <2>1. Kind[a] \in {"job", "sequence"}
    BY <1>3, <1>4, GraphAssumption DEF Validated
  <2> QED
    BY <1>3, <2>1, GraphAssumption DEF Leaves, Opens
<1>6. Retries[a] \in Nat /\ tries[a] = 0
  BY <1>1, <1>2, <1>3, ConstantsAssumption DEF Started, Attempted
<1> HIDE DEF a
<1>7. node' = [node EXCEPT ![a] = IF a \in Leaves THEN "go" ELSE "in"]
      /\ walk' = IF a \in Leaves THEN walk ELSE [walk EXCEPT ![a] = Opened(a)]
  BY <1>2 DEF a
<1>8. StepsTyped' /\ Attempted'
  <2>1. StepsTyped'
    BY <1>1, <1>3, <1>4, <1>7 DEF StepsTyped
  <2>2. Attempted'
    BY <1>1, <1>3, <1>4, <1>6, <1>7 DEF StepsTyped, Attempted
  <2> QED
    BY <2>1, <2>2
<1>9. WalksTyped' /\ Placed'
  <2>1. CASE a \in Leaves
    BY <1>1, <1>4, <1>7, <2>1 DEF WalksTyped, Placed
  <2>2. CASE a \notin Leaves
    BY <1>4, <1>5, <1>7, <2>2, OpenTypes
  <2> QED
    BY <2>1, <2>2
<1> QED
  BY <1>1, <1>4, <1>8, <1>9, Frame, TypeParts DEF Typed

LEMMA TypedStep ==
  ASSUME Typed, [Next]_vars PROVE Typed'
<1>1. CASE UNCHANGED vars
  <2>1. TypeOK /\ Attempted /\ Placed
    BY DEF Typed
  <2>2. UNCHANGED <<flowVars, drive, stop, blind, walkVars, stepVars, cancelVars, reapVars,
                    serverVars>>
    BY <1>1 DEF vars
  <2> QED
    BY <2>1, <2>2, Frame, TypeParts DEF Typed
<1>2. CASE Next
  <2>1. scn.top \in Flows
    BY ConstantsAssumption DEF Typed, TypeOK
  <2>2. Trigger \/ (\E f \in Flows : Start(f) \/ Finish(f) \/ Report(f)) => Typed'
    BY <2>1, FlowTypes
  <2> QED
    BY <1>2, <2>2, StepCases, WalkTypes, ArmTypes, LeafTypes, RunTypes, ServerTypes
<1> QED
  BY <1>1, <1>2

LEMMA AlwaysTyped == Spec => []Typed
<1>1. Init => Typed
  BY TypeInit
<1>2. Typed /\ [Next]_vars => Typed'
  BY TypedStep
<1> QED
  BY <1>1, <1>2, PTL DEF Spec

\* Every variable keeps its type.  A step is never tried more often than its
\* retries allow, and a walk is never past the end of its list.
THEOREM TypeCorrect == Spec => []TypeOK
<1>1. Typed => TypeOK
  BY DEF Typed
<1> QED
  BY <1>1, AlwaysTyped, PTL

-----------------------------------------------------------------------------
(* The life of a workflow run. *)

\* Who owes the workflow-end row of a flow has ended it, and nobody else owes it.
Driven ==
  \A f \in Flows :
    /\ drive[f] = "none" <=> flow[f] = "none"
    /\ flow[f] \in {"none", "running"} => ended[f] = 0
    /\ ended[f] <= 1
    /\ drive[f] = "report" => flow[f] \in Results /\ ended[f] = 0

Emitting ==
  rpc = "emit" => /\ rflow \in Flows /\ flow[rflow] \in Results
                  /\ ended[rflow] = 0 /\ drive[rflow] # "report"

\* The rows of the attempts to come are not there yet.
Unborn ==
  \A n \in Nodes : \A j \in DOMAIN Child[n] : j > tries[n] => flow[Child[n][j]] = "none"


Lives == Typed /\ Driven /\ Emitting /\ Unborn

\* What a step does to a workflow run.
Keeps(f)   == flow'[f] = flow[f] /\ ended'[f] = ended[f]
Begins(f)  == flow[f] = "none" /\ flow'[f] = "running" /\ ended'[f] = ended[f]
Closes(f)  == flow[f] = "running" /\ flow'[f] \in Results /\ ended'[f] = ended[f]
Records(f) == flow[f] \in Results /\ flow'[f] = flow[f] /\ ended[f] = 0 /\ ended'[f] = 1

FlowStep(f) == Keeps(f) \/ Begins(f) \/ Closes(f) \/ Records(f)

\* The steps that leave the rows, the goroutines and the reaper's debt alone.
Aside ==
  /\ UNCHANGED <<flow, ended, drive>>
  /\ rpc' = "emit" => rpc = "emit" /\ rflow' = rflow
  /\ \A n \in Nodes : tries'[n] >= tries[n]

LEMMA LivesTypes ==
  ASSUME Typed
  PROVE  /\ flow \in [Flows -> {"none", "running", "success", "failure"}]
         /\ ended \in [Flows -> Nat]
         /\ drive \in [Flows -> {"none", "lookup", "walk", "report", "gone"}]
         /\ tries \in [Nodes -> 0 .. MaxTries] /\ MaxTries \in Nat
         /\ scn.top \in Flows /\ Depth[scn.top] = 0
         /\ \A n \in Nodes : Child[n] \in Seq(Flows)
<1>1. scn \in Scenarios
  BY DEF Typed, TypeOK
<1> QED
  BY <1>1, ConstantsAssumption DEF Typed, TypeOK

\* The workflow that a person or the scheduler starts is nobody's child.
LEMMA TopIsNoChild ==
  ASSUME Typed, NEW n \in Nodes, NEW j \in DOMAIN Child[n]
  PROVE  Child[n][j] # scn.top
<1>1. Child[n][j] \in Elems(Child[n])
  BY DEF Elems
<1>2. Depth[Child[n][j]] = Depth[FlowOf[n]] + 1 /\ FlowOf[n] \in Flows
  BY <1>1, ConstantsAssumption, GraphAssumption
<1>3. Depth[FlowOf[n]] \in Nat
  BY <1>2, ConstantsAssumption
<1> QED
  BY <1>2, <1>3, LivesTypes

\* A sub-workflow step that may descend has a flow for its next attempt.
LEMMA NextChild ==
  ASSUME Typed, NEW n \in Nodes, Kind[n] = "workflow", node[n] = "go", Descends(n)
  PROVE  /\ tries[n] + 1 \in DOMAIN Child[n] /\ Child[n][tries[n] + 1] \in Flows
         /\ Child[n][tries[n] + 1] \in Elems(Child[n])
<1>1. Len(Child[n]) = Retries[n] + 1 /\ Child[n] \in Seq(Flows)
  BY ConstantsAssumption DEF Descends
<1>2. tries[n] \in Nat /\ tries[n] <= Retries[n] /\ Retries[n] \in Nat
  BY LivesTypes, ConstantsAssumption DEF Typed, Attempted
<1>3. tries[n] + 1 \in DOMAIN Child[n]
  BY <1>1, <1>2
<1> QED
  BY <1>1, <1>3 DEF Elems

LEMMA InitLives ==
  ASSUME Init PROVE Lives
<1>1. Typed
  BY TypeInit
<1>2. Driven
  BY DEF Init, Driven
<1>3. Emitting
  BY DEF Init, Emitting
<1>4. Unborn
  <2>1. \A n \in Nodes : \A j \in DOMAIN Child[n] : Child[n][j] \in Flows
    BY <1>1, LivesTypes
  <2> QED
    BY <2>1 DEF Init, Unborn
<1> QED
  BY <1>1, <1>2, <1>3, <1>4 DEF Lives

LEMMA AsideLives ==
  ASSUME Lives, Typed', Aside
  PROVE  Lives' /\ \A f \in Flows : Keeps(f)
<1>1. tries \in [Nodes -> 0 .. MaxTries] /\ tries' \in [Nodes -> 0 .. MaxTries]
      /\ MaxTries \in Nat /\ \A n \in Nodes : Child[n] \in Seq(Flows)
  <2>1. TypeOK /\ TypeOK'
    BY DEF Lives, Typed
  <2>2. tries \in [Nodes -> 0 .. MaxTries] /\ tries' \in [Nodes -> 0 .. MaxTries]
    BY <2>1, TypeParts DEF StepsTyped
  <2>3. MaxTries \in Nat /\ Child \in [Nodes -> Seq(Flows)]
    BY ConstantsAssumption
  <2> QED
    BY <2>2, <2>3
<1>2. Driven'
  BY DEF Aside, Lives, Driven
<1>3. Emitting'
  BY DEF Aside, Lives, Emitting
<1>4. Unborn'
  <2>1. \A n \in Nodes : \A j \in DOMAIN Child[n] : j > tries'[n] => j > tries[n]
    BY <1>1 DEF Aside
  <2> QED
    BY <2>1 DEF Aside, Lives, Unborn
<1> QED
  BY <1>2, <1>3, <1>4 DEF Lives, Keeps, Aside

LEMMA InsertLives ==
  ASSUME Lives, Typed', NEW f \in Flows, flow[f] = "none", Insert(f),
         UNCHANGED <<ended, rpc, rflow>>,
         \A n \in Nodes : tries'[n] >= tries[n],
         \A n \in Nodes : \A j \in DOMAIN Child[n] : Child[n][j] = f => j <= tries'[n]
  PROVE  Lives' /\ Begins(f) /\ \A g \in Flows : g # f => Keeps(g)
<1>1. tries \in [Nodes -> 0 .. MaxTries] /\ tries' \in [Nodes -> 0 .. MaxTries]
      /\ MaxTries \in Nat /\ \A n \in Nodes : Child[n] \in Seq(Flows)
  BY ConstantsAssumption DEF Lives, Typed, TypeOK
<1>2. /\ flow \in [Flows -> {"none", "running", "success", "failure"}]
      /\ drive \in [Flows -> {"none", "lookup", "walk", "report", "gone"}]
      /\ ended \in [Flows -> Nat]
  BY LivesTypes DEF Lives
<1>3. /\ flow'[f] = "running" /\ drive'[f] = "lookup"
      /\ \A g \in Flows : g # f => flow'[g] = flow[g] /\ drive'[g] = drive[g]
      /\ ended' = ended /\ rpc' = rpc /\ rflow' = rflow
  BY <1>2 DEF Insert
<1>4. Driven'
  BY <1>3 DEF Lives, Driven
<1>5. Emitting'
  <2>1. rpc = "emit" => rflow # f
    BY DEF Lives, Emitting, Results
  <2> QED
    BY <1>3, <2>1 DEF Lives, Emitting
<1>6. Unborn'
  <2>1. ASSUME NEW n \in Nodes, NEW j \in DOMAIN Child[n], j > tries'[n]
        PROVE  flow'[Child[n][j]] = "none"
    <3>1. j > tries[n] /\ Child[n][j] # f /\ Child[n][j] \in Flows
      BY <1>1, <2>1
    <3> QED
      BY <1>3, <3>1 DEF Lives, Unborn
  <2> QED
    BY <2>1 DEF Unborn
<1> QED
  BY <1>3, <1>4, <1>5, <1>6 DEF Lives, Begins, Keeps

\* The steps of walks and leaves that start no sub-workflow, and of runners.
LEMMA AsideSteps ==
  ASSUME Typed
  PROVE  /\ \A w \in Walks : NextStep(w) \/ StepOver(w) => Aside
         /\ \A n \in Nodes : /\ StartArm(n) \/ (LeafStep(n) /\ ~DispatchFlow(n)) => Aside
                             /\ DispatchFlow(n) /\ UNCHANGED <<flow, drive>> => Aside
         /\ \A n \in Nodes, k \in Attempts : Claim(n, k) \/ RunEnds(n, k) => Aside
<1>1. tries \in [Nodes -> 0 .. MaxTries] /\ MaxTries \in Nat
  BY LivesTypes
<1>2. ASSUME UNCHANGED <<flow, ended, drive, rpc, rflow>>, UNCHANGED tries PROVE Aside
  BY <1>1, <1>2 DEF Aside
<1>3. ASSUME UNCHANGED <<flow, ended, drive, rpc, rflow>>, NEW n \in Nodes,
             tries' = [tries EXCEPT ![n] = tries[n] + 1]
      PROVE  Aside
  <2>1. \A m \in Nodes : tries'[m] >= tries[m]
    BY <1>1, <1>3
  <2> QED
    BY <1>3, <2>1 DEF Aside
<1>4. ASSUME NEW w \in Walks, NextStep(w) PROVE Aside
  <2>1. UNCHANGED <<flow, ended, drive, rpc, rflow>>
    BY <1>4 DEF NextStep, flowVars, reapVars
  <2>2. UNCHANGED tries
    BY <1>4 DEF NextStep, EnterStep, TakeArm, stepVars
  <2> QED
    BY <2>1, <2>2, <1>2
<1>5. ASSUME NEW w \in Walks, StepOver(w) PROVE Aside
  BY <1>2, <1>5 DEF StepOver, flowVars, reapVars, stepVars
<1>6. ASSUME NEW n \in Nodes, StartArm(n) \/ BackoffOver(n) \/ WaitForRun(n) \/ WaitForFlow(n)
      PROVE  Aside
  BY <1>2, <1>6 DEF StartArm, BackoffOver, WaitForRun, WaitForFlow, flowVars, reapVars
<1>7. ASSUME NEW n \in Nodes, \/ DispatchJob(n) \/ RefuseChild(n)
                              \/ DispatchFlow(n) /\ UNCHANGED <<flow, drive>>
      PROVE  Aside
  <2>1. UNCHANGED <<flow, ended, drive, rpc, rflow>>
    BY <1>7 DEF DispatchJob, RefuseChild, DispatchFlow, flowVars, reapVars
  <2>2. tries' = [tries EXCEPT ![n] = tries[n] + 1]
    BY <1>7 DEF DispatchJob, RefuseChild, DispatchFlow
  <2> QED
    BY <2>1, <2>2, <1>3
<1>8. ASSUME NEW n \in Nodes, NEW k \in Attempts, Claim(n, k) \/ RunEnds(n, k) PROVE Aside
  BY <1>2, <1>8 DEF Claim, RunEnds, flowVars, reapVars
<1> QED
  BY <1>4, <1>5, <1>6, <1>7, <1>8 DEF LeafStep

\* A sub-workflow is started under an attempt that has no row.
LEMMA DispatchLives ==
  ASSUME Lives, Typed', NEW n \in Nodes, DispatchFlow(n)
  PROVE  Lives' /\ \A f \in Flows : Keeps(f) \/ Begins(f)
<1>1. CASE UNCHANGED <<flow, drive>>
  BY <1>1, AsideSteps, AsideLives DEF Lives
<1>2. CASE Insert(Child[n][tries[n] + 1])
  <2> DEFINE k == tries[n] + 1
             c == Child[n][k]
  <2>1. /\ Kind[n] = "workflow" /\ node[n] = "go" /\ Descends(n)
        /\ tries' = [tries EXCEPT ![n] = k] /\ UNCHANGED <<ended, rpc, rflow>>
    BY DEF DispatchFlow, reapVars
  <2>2. k \in DOMAIN Child[n] /\ c \in Flows
    BY <2>1, NextChild DEF Lives
  <2>3. tries \in [Nodes -> 0 .. MaxTries] /\ MaxTries \in Nat
    BY LivesTypes DEF Lives
  <2>4. flow[c] = "none"
    <3>1. k > tries[n]
      BY <2>3
    <3> QED
      BY <2>2, <3>1 DEF Lives, Unborn
  <2>5. \A m \in Nodes : tries'[m] >= tries[m] /\ (m = n => tries'[m] = k)
    BY <2>1, <2>3
  <2>6. ASSUME NEW m \in Nodes, NEW j \in DOMAIN Child[m], Child[m][j] = c
        PROVE  j <= tries'[m]
    <3>1. m = n /\ j = k
      BY <2>2, <2>6, ConstantsAssumption
    <3> QED
      BY <2>3, <2>5, <3>1
  <2> HIDE DEF k, c
  <2>7. Insert(c)
    BY <1>2 DEF k, c
  <2>8. Lives' /\ Begins(c) /\ \A g \in Flows : g # c => Keeps(g)
    BY <2>1, <2>2, <2>4, <2>5, <2>6, <2>7, InsertLives
  <2> QED
    BY <2>8
<1> QED
  BY <1>1, <1>2 DEF DispatchFlow

\* A workflow begins, and its goroutine ends it.
LEMMA GoroutineLives ==
  ASSUME Lives, Typed', NEW f \in Flows, Trigger \/ Start(f) \/ Finish(f) \/ Report(f)
  PROVE  Lives' /\ \A g \in Flows : FlowStep(g)
<1>1. /\ flow \in [Flows -> {"none", "running", "success", "failure"}]
      /\ ended \in [Flows -> Nat]
      /\ drive \in [Flows -> {"none", "lookup", "walk", "report", "gone"}]
      /\ tries \in [Nodes -> 0 .. MaxTries] /\ MaxTries \in Nat
      /\ \A n \in Nodes : Child[n] \in Seq(Flows)
  BY LivesTypes DEF Lives
<1>2. Driven /\ Emitting /\ Unborn
  BY DEF Lives
<1>3. CASE Trigger
  <2>1. flow[scn.top] = "none" /\ Insert(scn.top) /\ UNCHANGED <<ended, rpc, rflow, tries>>
    BY <1>3 DEF Trigger, reapVars, stepVars
  <2>2. scn.top \in Flows
    BY LivesTypes DEF Lives
  <2>3. \A n \in Nodes : tries'[n] >= tries[n]
    BY <2>1, <1>1
  <2>4. \A n \in Nodes : \A j \in DOMAIN Child[n] : Child[n][j] # scn.top
    BY TopIsNoChild DEF Lives
  <2>5. Lives' /\ Begins(scn.top) /\ \A g \in Flows : g # scn.top => Keeps(g)
    BY <2>1, <2>2, <2>3, <2>4, InsertLives
  <2> QED
    BY <2>5 DEF FlowStep
<1>4. CASE Start(f)
  <2>1. /\ drive[f] = "lookup" /\ drive' = [drive EXCEPT ![f] = "walk"]
        /\ UNCHANGED <<flow, ended, rpc, rflow, tries>>
    BY <1>4 DEF Start, flowVars, reapVars, stepVars
  <2>2. Driven'
    BY <1>1, <1>2, <2>1 DEF Driven
  <2>3. Emitting' /\ Unborn'
    BY <1>1, <1>2, <2>1 DEF Emitting, Unborn
  <2>4. \A g \in Flows : Keeps(g)
    BY <2>1 DEF Keeps
  <2> QED
    BY <2>2, <2>3, <2>4 DEF Lives, FlowStep
<1>5. CASE Finish(f)
  <2>1. /\ drive[f] = "walk" /\ UNCHANGED <<ended, rpc, rflow, tries>>
        /\ \/ /\ flow[f] = "running" /\ drive' = [drive EXCEPT ![f] = "report"]
              /\ \E s \in Results : flow' = [flow EXCEPT ![f] = s]
           \/ drive' = [drive EXCEPT ![f] = "gone"] /\ flow' = flow
    BY <1>5 DEF Finish, Walking, reapVars, stepVars, Results
  <2>2. CASE flow' = flow /\ drive' = [drive EXCEPT ![f] = "gone"]
    <3>1. Driven'
      BY <1>1, <1>2, <2>1, <2>2 DEF Driven
    <3>2. Emitting' /\ Unborn'
      BY <1>1, <1>2, <2>1, <2>2 DEF Emitting, Unborn
    <3>3. \A g \in Flows : Keeps(g)
      BY <2>1, <2>2 DEF Keeps
    <3> QED
      BY <3>1, <3>2, <3>3 DEF Lives, FlowStep
  <2>3. ASSUME NEW s \in Results, flow' = [flow EXCEPT ![f] = s], flow[f] = "running",
               drive' = [drive EXCEPT ![f] = "report"]
        PROVE  Lives' /\ \A g \in Flows : FlowStep(g)
    <3>1. /\ flow'[f] = s /\ \A g \in Flows : g # f => flow'[g] = flow[g]
          /\ drive'[f] = "report" /\ \A g \in Flows : g # f => drive'[g] = drive[g]
      BY <1>1, <2>3
    <3>2. s # "none" /\ s # "running"
      BY DEF Results
    <3>3. Driven'
      BY <1>2, <2>1, <2>3, <3>1, <3>2 DEF Driven
    <3>4. Emitting'
      <4>1. rpc = "emit" => rflow # f
        BY <1>2, <2>3 DEF Emitting, Results
      <4> QED
        BY <1>2, <2>1, <3>1, <4>1 DEF Emitting
    <3>5. Unborn'
      <4>1. \A n \in Nodes : \A j \in DOMAIN Child[n] :
              Child[n][j] \in Flows /\ (flow[Child[n][j]] = "none" => Child[n][j] # f)
        BY <1>1, <2>3
      <4> QED
        BY <1>2, <2>1, <3>1, <4>1 DEF Unborn
    <3>6. \A g \in Flows : Keeps(g) \/ Closes(g)
      BY <2>1, <2>3, <3>1 DEF Keeps, Closes
    <3> QED
      BY <3>3, <3>4, <3>5, <3>6 DEF Lives, FlowStep
  <2> QED
    BY <2>1, <2>2, <2>3
<1>6. CASE Report(f)
  <2>1. /\ drive[f] = "report" /\ ended' = [ended EXCEPT ![f] = @ + 1]
        /\ drive' = [drive EXCEPT ![f] = "gone"] /\ UNCHANGED <<flow, rpc, rflow, tries>>
    BY <1>6 DEF Report, reapVars, stepVars
  <2>2. flow[f] \in Results /\ ended[f] = 0 /\ flow[f] # "none" /\ flow[f] # "running"
    BY <1>2, <2>1 DEF Driven, Results
  <2>3. /\ ended'[f] = 1 /\ \A g \in Flows : g # f => ended'[g] = ended[g]
        /\ drive'[f] = "gone" /\ \A g \in Flows : g # f => drive'[g] = drive[g]
    BY <1>1, <2>1, <2>2
  <2>4. Driven'
    BY <1>2, <2>1, <2>2, <2>3 DEF Driven
  <2>5. Emitting'
    <3>1. rpc = "emit" => rflow # f
      BY <1>2, <2>1 DEF Emitting
    <3> QED
      BY <1>2, <2>1, <2>3, <3>1 DEF Emitting
  <2>6. Unborn'
    BY <1>2, <2>1 DEF Unborn
  <2>7. \A g \in Flows : Keeps(g) \/ Records(g)
    BY <2>1, <2>2, <2>3 DEF Keeps, Records
  <2> QED
    BY <2>4, <2>5, <2>6, <2>7 DEF Lives, FlowStep
<1> QED
  BY <1>3, <1>4, <1>5, <1>6

\* The reaper, the sweep, cancels and the server's death.
LEMMA ServerLives ==
  ASSUME Lives, Typed', ServerStep
  PROVE  Lives' /\ \A g \in Flows : FlowStep(g)
<1>1. /\ flow \in [Flows -> {"none", "running", "success", "failure"}]
      /\ ended \in [Flows -> Nat]
      /\ drive \in [Flows -> {"none", "lookup", "walk", "report", "gone"}]
      /\ tries \in [Nodes -> 0 .. MaxTries] /\ MaxTries \in Nat
      /\ \A n \in Nodes : Child[n] \in Seq(Flows)
  BY LivesTypes DEF Lives
<1>2. Driven /\ Emitting /\ Unborn
  BY DEF Lives
<1>3. ASSUME UNCHANGED <<flow, ended, drive, tries>>,
             rpc' = "emit" => rpc = "emit" /\ rflow' = rflow
      PROVE  Lives' /\ \A g \in Flows : FlowStep(g)
  <2>1. Aside
    BY <1>1, <1>3 DEF Aside
  <2> QED
    BY <2>1, AsideLives DEF FlowStep
<1>4. ASSUME \/ CancelFlag \/ CancelSkip \/ CancelStop \/ CancelList \/ ReapRead
             \/ ReapRuns \/ Boot \/ SweepRead \/ SweepDone
             \/ \E f \in Flows : CancelAsk(f) \/ Age(f)
      PROVE  Lives' /\ \A g \in Flows : FlowStep(g)
  <2>1. UNCHANGED <<flow, ended, drive>>
    BY <1>4 DEF CancelFlag, CancelSkip, CancelStop, CancelList, ReapRead, ReapRuns, Boot,
       SweepRead, SweepDone, CancelAsk, Age, flowVars
  <2>2. UNCHANGED tries
    BY <1>4 DEF CancelFlag, CancelSkip, CancelStop, CancelList, ReapRead, ReapRuns, Boot,
       SweepRead, SweepDone, CancelAsk, Age, stepVars
  <2>3. rpc' = "emit" => rpc = "emit" /\ rflow' = rflow
    BY <1>4 DEF CancelFlag, CancelSkip, CancelStop, CancelList, ReapRead, ReapRuns, Boot,
       SweepRead, SweepDone, CancelAsk, Age, reapVars
  <2> QED
    BY <2>1, <2>2, <2>3, <1>3
<1>5. ASSUME NEW f \in Flows, ReapFlow(f)
      PROVE  Lives' /\ \A g \in Flows : FlowStep(g)
  <2>1. CASE UNCHANGED <<flow, rpc, rflow>>
    <3>1. UNCHANGED <<ended, drive, tries>>
      BY <1>5 DEF ReapFlow, stepVars
    <3> QED
      BY <2>1, <3>1, <1>3
  <2>2. CASE flow[f] = "running" /\ flow' = [flow EXCEPT ![f] = "failure"]
             /\ rpc' = "emit" /\ rflow' = f
    <3>1. UNCHANGED <<ended, drive, tries>>
      BY <1>5 DEF ReapFlow, stepVars
    <3>2. flow'[f] = "failure" /\ \A g \in Flows : g # f => flow'[g] = flow[g]
      BY <2>2, <1>1
    <3>3. ended[f] = 0 /\ drive[f] # "report" /\ drive[f] # "none" /\ "failure" \in Results
      BY <1>2, <2>2 DEF Driven, Results
    <3>4. Driven'
      BY <1>2, <3>1, <3>2, <3>3 DEF Driven
    <3>5. Emitting'
      BY <2>2, <3>1, <3>2, <3>3 DEF Emitting
    <3>6. Unborn'
      <4>1. \A n \in Nodes : \A j \in DOMAIN Child[n] :
              Child[n][j] \in Flows /\ (flow[Child[n][j]] = "none" => Child[n][j] # f)
        BY <1>1, <2>2
      <4> QED
        BY <1>2, <3>1, <3>2, <4>1 DEF Unborn
    <3>7. \A g \in Flows : Keeps(g) \/ Closes(g)
      BY <2>2, <3>1, <3>2, <3>3 DEF Keeps, Closes
    <3> QED
      BY <3>4, <3>5, <3>6, <3>7 DEF Lives, FlowStep
  <2> QED
    BY <1>5, <2>1, <2>2 DEF ReapFlow
<1>6. CASE ReapEmit
  <2>1. /\ rpc = "emit" /\ rpc' = "runs" /\ ended' = [ended EXCEPT ![rflow] = @ + 1]
        /\ UNCHANGED <<flow, drive, tries>>
    BY <1>6 DEF ReapEmit, stepVars
  <2>2. rflow \in Flows /\ flow[rflow] \in Results /\ ended[rflow] = 0 /\ drive[rflow] # "report"
        /\ flow[rflow] # "none" /\ flow[rflow] # "running"
    BY <1>2, <2>1 DEF Emitting, Results
  <2>3. ended'[rflow] = 1 /\ \A g \in Flows : g # rflow => ended'[g] = ended[g]
    BY <1>1, <2>1, <2>2
  <2>4. Driven'
    BY <1>2, <2>1, <2>2, <2>3 DEF Driven
  <2>5. Emitting' /\ Unborn'
    BY <1>2, <2>1 DEF Emitting, Unborn
  <2>6. \A g \in Flows : Keeps(g) \/ Records(g)
    BY <2>1, <2>2, <2>3 DEF Keeps, Records
  <2> QED
    BY <2>4, <2>5, <2>6 DEF Lives, FlowStep
<1>7. CASE Crash
  <2>1. /\ drive' = [f \in Flows |-> IF drive[f] = "none" THEN "none" ELSE "gone"]
        /\ rpc' = "idle" /\ UNCHANGED <<flow, ended, tries>>
    BY <1>7 DEF Crash, flowVars, stepVars
  <2>2. Driven'
    BY <1>2, <2>1 DEF Driven
  <2>3. Emitting' /\ Unborn'
    BY <1>2, <2>1 DEF Emitting, Unborn
  <2>4. \A g \in Flows : Keeps(g)
    BY <2>1 DEF Keeps
  <2> QED
    BY <2>2, <2>3, <2>4 DEF Lives, FlowStep
<1> QED
  BY <1>4, <1>5, <1>6, <1>7 DEF ServerStep

LEMMA LivesStep ==
  ASSUME Lives, [Next]_vars
  PROVE  Lives' /\ \A g \in Flows : FlowStep(g)
<1>1. Typed /\ Typed'
  BY TypedStep DEF Lives
<1>2. CASE UNCHANGED vars
  <2>1. UNCHANGED <<flow, ended, drive, tries, rpc, rflow>>
    BY <1>2 DEF vars, flowVars, stepVars, reapVars
  <2>2. Aside
    BY <1>1, <2>1, LivesTypes DEF Aside
  <2> QED
    BY <1>1, <2>2, AsideLives DEF FlowStep
<1>3. CASE Next
  <2>1. Aside => Lives' /\ \A g \in Flows : FlowStep(g)
    BY <1>1, AsideLives DEF FlowStep
  <2>2. Trigger => Lives' /\ \A g \in Flows : FlowStep(g)
    BY <1>1, LivesTypes, GoroutineLives
  <2>3. ASSUME NEW n \in Nodes, StartArm(n) \/ LeafStep(n)
        PROVE  Lives' /\ \A g \in Flows : FlowStep(g)
    <3>1. CASE DispatchFlow(n)
      BY <1>1, <3>1, DispatchLives DEF FlowStep
    <3>2. CASE ~DispatchFlow(n)
      BY <1>1, <2>1, <2>3, <3>2, AsideSteps
    <3> QED
      BY <3>1, <3>2
  <2>4. ASSUME NEW f \in Flows, Start(f) \/ Finish(f) \/ Report(f)
        PROVE  Lives' /\ \A g \in Flows : FlowStep(g)
    BY <1>1, <2>4, GoroutineLives
  <2>5. ASSUME NEW w \in Walks, NextStep(w) \/ StepOver(w)
        PROVE  Lives' /\ \A g \in Flows : FlowStep(g)
    BY <1>1, <2>1, <2>5, AsideSteps
  <2>6. ASSUME NEW n \in Nodes, NEW k \in Attempts, Claim(n, k) \/ RunEnds(n, k)
        PROVE  Lives' /\ \A g \in Flows : FlowStep(g)
    BY <1>1, <2>1, <2>6, AsideSteps
  <2>7. ServerStep => Lives' /\ \A g \in Flows : FlowStep(g)
    BY <1>1, ServerLives
  <2> QED
    BY <1>3, <2>2, <2>3, <2>4, <2>5, <2>6, <2>7, StepCases
<1> QED
  BY <1>2, <1>3

LEMMA AlwaysLives == Spec => []Lives
<1>1. Init => Lives
  BY InitLives
<1>2. Lives /\ [Next]_vars => Lives'
  BY LivesStep
<1> QED
  BY <1>1, <1>2, PTL DEF Spec

\* A workflow run keeps the contract of a run, whoever of its goroutine, the
\* sweep and the reaper ends it (finishWorkflow, reconcileWorkflowOrphan): one
\* result for good, and one workflow-end row at most, after it.
THEOREM WorkflowsKeepContract == Spec => ImplementsContract
<1> DEFINE life == [f \in Flows |-> IF flow[f] = "none" THEN "queued" ELSE flow[f]]
<1>1. Init => Contract!Init
  BY DEF Init, Contract!Init
<1>2. ASSUME Lives, Lives', [Next]_vars
      PROVE  [Contract!Next]_(Contract!contractVars)
  <2>1. /\ flow \in [Flows -> {"none", "running", "success", "failure"}]
        /\ flow' \in [Flows -> {"none", "running", "success", "failure"}]
    BY <1>2 DEF Lives, Typed, TypeOK
  <2>2. ended' \in [Flows -> {0, 1}]
    <3>1. ended' \in [Flows -> Nat] /\ \A f \in Flows : ended'[f] <= 1
      BY <1>2 DEF Lives, Typed, TypeOK, Driven
    <3>2. \A f \in Flows : ended'[f] \in {0, 1}
      BY <3>1
    <3> QED
      BY <3>1, <3>2
  <2>3. life' \in [Flows -> {"queued", "running"} \union {"success", "failure"}]
    BY <2>1
  <2>4. ASSUME NEW f \in Flows PROVE Contract!Moves(f)
    <3>1. FlowStep(f)
      BY <1>2, LivesStep
    <3>2. /\ life[f] = IF flow[f] = "none" THEN "queued" ELSE flow[f]
          /\ life'[f] = IF flow'[f] = "none" THEN "queued" ELSE flow'[f]
      OBVIOUS
    <3>3. CASE Keeps(f)
      BY <3>2, <3>3 DEF Keeps, Contract!Moves, Contract!Stays
    <3>4. CASE Begins(f)
      BY <3>2, <3>4 DEF Begins, Contract!Moves, Contract!Claims
    <3>5. CASE Closes(f)
      BY <3>2, <3>5 DEF Closes, Results, Contract!Moves, Contract!Ends
    <3>6. CASE Records(f)
      BY <3>2, <3>6 DEF Records, Results, Contract!Moves, Contract!Reports
    <3> QED
      BY <3>1, <3>3, <3>4, <3>5, <3>6 DEF FlowStep
  <2> QED
    BY <2>2, <2>3, <2>4 DEF Contract!Next
<1> QED
  BY <1>1, <1>2, AlwaysLives, PTL DEF Spec, ImplementsContract, Contract!Spec

-----------------------------------------------------------------------------
(* Cancels. *)

Untouched(f) == \A n \in NodesOf[f] : node[n] = "todo"

\* A walk that does not see its cancel func called has not entered a step.
Halting ==
  \A f \in Flows :
    /\ drive[f] \in {"none", "lookup"} => Untouched(f)
    /\ f \in Local /\ told[f] =>
         cancelled[f] /\ (stop[f] \/ drive[f] = "gone" \/ Untouched(f))

Flagged ==
  /\ cpc # "idle" => cflow \in Flows
  /\ cpc \in {"skip", "stop"} => cancelled[cflow]
  /\ cpc = "idle" => ctodo = {}

\* No walk of the API's engine outlives the server, and none starts before it serves.
Served ==
  /\ up # "up" => cpc = "idle" /\ \A f \in Local : drive[f] \in {"none", "gone"}
  /\ up = "sweeping" => \A f \in Local : flow[f] = "running" => f \in rtodo

\* A running sub-workflow of what was cancelled is still on the list of the cancel.
Reached(f, c) ==
  cancelled[c] \/ c \in ctodo \/ (cpc = "flag" /\ cflow = c) \/ (cpc = "list" /\ cflow = f)

Reaching ==
  up = "up" /\ ~May("dropped") =>
    \A f \in Local : told[f] => \A c \in ChildrenOf(f) : flow[c] = "running" => Reached(f, c)

Cancels == Lives /\ Halting /\ Flagged

\* The steps of walks and of runners leave cancels, the reaper and the server alone.
LEMMA Bystanders ==
  ASSUME [Next]_vars, ~ServerStep
  PROVE  UNCHANGED <<cancelled, cancelVars, reapVars, serverVars>>
<1>1. CASE UNCHANGED vars
  BY <1>1 DEF vars, flowVars
<1>2. ASSUME \/ Trigger \/ \E f \in Flows : Start(f) \/ Finish(f) \/ Report(f)
             \/ \E w \in Walks : NextStep(w) \/ StepOver(w)
             \/ \E n \in Nodes : StartArm(n) \/ LeafStep(n)
             \/ \E n \in Nodes, k \in Attempts : Claim(n, k) \/ RunEnds(n, k)
      PROVE  UNCHANGED <<cancelled, cancelVars, reapVars, serverVars>>
  BY <1>2 DEF Trigger, Start, Finish, Report, NextStep, StepOver, StartArm, LeafStep,
     BackoffOver, DispatchJob, WaitForRun, RefuseChild, DispatchFlow, WaitForFlow, Claim, RunEnds,
     flowVars
<1> QED
  BY <1>1, <1>2, StepCases

\* Goroutines only go forward, and neither a flag nor a stopped context is taken back.
LEMMA DriveSteps ==
  ASSUME Lives, [Next]_vars, NEW f \in Flows
  PROVE  /\ drive'[f] \in {"none", "lookup"} => drive[f] \in {"none", "lookup"}
         /\ drive[f] = "gone" => drive'[f] = "gone"
         /\ cancelled[f] => cancelled'[f]
         /\ stop[f] => stop'[f]
         /\ told'[f] # told[f] => CancelStop /\ f = cflow
<1> DEFINE Forward == /\ drive'[f] \in {"none", "lookup"} => drive[f] \in {"none", "lookup"}
                      /\ drive[f] = "gone" => drive'[f] = "gone"
<1>1. /\ drive \in [Flows -> {"none", "lookup", "walk", "report", "gone"}]
      /\ cancelled \in [Flows -> BOOLEAN] /\ stop \in [Flows -> BOOLEAN]
      /\ told \in [Flows -> BOOLEAN]
  BY DEF Lives, Typed, TypeOK
<1>2. ASSUME NEW g \in Flows, flow[g] = "none", Insert(g) PROVE Forward
  <2>1. drive[g] = "none" /\ drive' = [drive EXCEPT ![g] = "lookup"]
    BY <1>2 DEF Lives, Driven, Insert
  <2> QED
    BY <1>1, <2>1
<1>3. UNCHANGED drive => Forward
  OBVIOUS
<1>4. CASE UNCHANGED vars
  BY <1>3, <1>4 DEF vars, flowVars, cancelVars
<1>5. CASE Trigger
  <2>1. scn.top \in Flows /\ flow[scn.top] = "none" /\ Insert(scn.top)
    BY <1>5, LivesTypes DEF Lives, Trigger
  <2>2. UNCHANGED <<cancelled, stop, told>>
    BY <1>5 DEF Trigger, cancelVars
  <2> QED
    BY <2>1, <2>2, <1>2
<1>6. ASSUME NEW g \in Flows, Start(g) \/ Finish(g) \/ Report(g)
      PROVE  Forward /\ UNCHANGED <<cancelled, stop, told>>
  <2>1. UNCHANGED <<cancelled, stop, told>>
    BY <1>6 DEF Start, Finish, Report, flowVars, cancelVars
  <2>2. /\ drive[g] # "gone"
        /\ \E d \in {"walk", "report", "gone"} : drive' = [drive EXCEPT ![g] = d]
    BY <1>6 DEF Start, Finish, Report, Walking
  <2> QED
    BY <1>1, <2>1, <2>2
<1>7. ASSUME NEW n \in Nodes, DispatchFlow(n)
      PROVE  Forward /\ UNCHANGED <<cancelled, stop, told>>
  <2>1. UNCHANGED <<cancelled, stop, told>>
    BY <1>7 DEF DispatchFlow, cancelVars
  <2>2. CASE UNCHANGED drive
    BY <1>3, <2>1, <2>2
  <2>3. CASE Insert(Child[n][tries[n] + 1])
    <3>1. /\ tries[n] + 1 \in DOMAIN Child[n] /\ Child[n][tries[n] + 1] \in Flows
          /\ tries[n] + 1 > tries[n]
      BY <1>7, NextChild, LivesTypes DEF Lives, DispatchFlow
    <3>2. flow[Child[n][tries[n] + 1]] = "none"
      BY <3>1 DEF Lives, Unborn
    <3> QED
      BY <2>1, <2>3, <3>1, <3>2, <1>2
  <2> QED
    BY <1>7, <2>2, <2>3 DEF DispatchFlow
<1>8. ASSUME \/ \E w \in Walks : NextStep(w) \/ StepOver(w)
             \/ \E n \in Nodes : StartArm(n) \/ (LeafStep(n) /\ ~DispatchFlow(n))
             \/ \E n \in Nodes, k \in Attempts : Claim(n, k) \/ RunEnds(n, k)
      PROVE  UNCHANGED <<drive, cancelled, stop, told>>
  BY <1>8 DEF NextStep, StepOver, StartArm, LeafStep, BackoffOver, DispatchJob, WaitForRun,
     RefuseChild, WaitForFlow, Claim, RunEnds, flowVars, cancelVars
<1>9. ASSUME ServerStep, ~CancelFlag, ~CancelStop, ~Crash
      PROVE  UNCHANGED <<drive, cancelled, stop, told>>
  BY <1>9 DEF ServerStep, CancelSkip, CancelList, ReapRead, ReapEmit, ReapRuns, Boot,
     SweepRead, SweepDone, CancelAsk, Age, ReapFlow, flowVars, cancelVars
<1>10. CASE CancelFlag
  <2>1. UNCHANGED <<drive, stop, told>>
        /\ (cancelled' = cancelled \/ cancelled' = [cancelled EXCEPT ![cflow] = TRUE])
    BY <1>10 DEF CancelFlag
  <2> QED
    BY <1>1, <1>3, <2>1
<1>11. CASE CancelStop
  <2>1. /\ \E b \in BOOLEAN : stop' = [stop EXCEPT ![cflow] = @ \/ b]
        /\ told' = [told EXCEPT ![cflow] = TRUE] /\ UNCHANGED <<drive, cancelled>>
    BY <1>11 DEF CancelStop, flowVars
  <2>2. told'[f] # told[f] => f = cflow
    BY <1>1, <2>1
  <2>3. stop[f] => stop'[f]
    BY <1>1, <2>1
  <2> QED
    BY <1>3, <1>11, <2>1, <2>2, <2>3
<1>12. CASE Crash
  <2>1. UNCHANGED <<cancelled, stop, told>>
        /\ drive' = [g \in Flows |-> IF drive[g] = "none" THEN "none" ELSE "gone"]
    BY <1>12 DEF Crash, flowVars
  <2> QED
    BY <2>1
<1>13. ASSUME UNCHANGED <<drive, cancelled, stop, told>>
       PROVE  Forward /\ UNCHANGED <<cancelled, stop, told>>
  BY <1>3, <1>13
<1>14. CASE Next
  BY <1>14, <1>5, <1>6, <1>7, <1>8, <1>9, <1>10, <1>11, <1>12, <1>13, StepCases DEF LeafStep
<1> QED
  BY <1>4, <1>14

\* What an arm not taken skips is of the branch's own flow.
LEMMA SkippedInFlow ==
  ASSUME NEW b \in Nodes, NEW other \in Walks, other \in Opens(b),
         NEW m \in SkippedBy[other]
  PROVE  m \in Nodes /\ FlowOf[m] = FlowOf[b]
<1>1. m \in Nodes /\ Within(m, other)
  BY DEF SkippedBy
<1>2. PICK q \in Elems(Body[other]) : q \in Above[m]
  BY <1>1 DEF Within
<1>3. FlowOf[q] = FlowOf[other] /\ FlowOf[q] = FlowOf[m] /\ FlowOf[other] = FlowOf[b]
  BY <1>1, <1>2, GraphAssumption, PlacesAssumption
<1> QED
  BY <1>1, <1>3

\* A walk enters a step of a flow only if it is walking, and sees no cancel there
\* unless it has entered a step before.
Enters(f) == drive[f] = "walk" /\ (Untouched(f) => ~Halted(f))

LEMMA NodeSteps ==
  ASSUME Typed, [Next]_vars, NEW f \in Flows
  PROVE  (\A n \in NodesOf[f] : node'[n] = node[n]) \/ Enters(f)
<1>1. node \in [Nodes -> {"todo", "in", "go", "wait", "backoff"} \cup Verdicts]
  BY DEF Typed, TypeOK
<1>2. NodesOf[f] = {n \in Nodes : FlowOf[n] = f}
  BY DEF NodesOf
<1>3. CASE UNCHANGED node
  BY <1>3
<1>4. ASSUME NEW w \in Walks, NextStep(w)
      PROVE  (\A n \in NodesOf[f] : node'[n] = node[n]) \/ Enters(f)
  <2> DEFINE n == Current(w)
  <2>1. walk[w] = "on" /\ drive[FlowOf[w]] = "walk"
    BY <1>4 DEF NextStep, Walking
  <2>2. n \in Nodes /\ FlowOf[n] = FlowOf[w] /\ FlowOf[w] \in Flows
    BY <2>1, AtStep
  <2>3. \/ Halted(FlowOf[w]) /\ node' = node
        \/ ~Halted(FlowOf[w]) /\ EnterStep(n)
    BY <1>4 DEF NextStep, stepVars
  <2>4. CASE FlowOf[w] = f
    BY <2>1, <2>3, <2>4 DEF Enters
  <2>5. ASSUME FlowOf[w] # f, EnterStep(n), NEW m \in NodesOf[f]
        PROVE  node'[m] = node[m]
    <3>1. m \in Nodes /\ FlowOf[m] = f /\ m # n
      BY <1>2, <2>2, <2>5
    <3>2. CASE \E s \in {"go", "in"} : node' = [node EXCEPT ![n] = s]
      BY <1>1, <3>1, <3>2
    <3>3. ASSUME NEW arm, NEW other \in Walks, other \in Opens(n), TakeArm(n, arm, other)
          PROVE  node'[m] = node[m]
      <4>1. m \notin SkippedBy[other]
        BY <2>2, <2>5, <3>1, <3>3, SkippedInFlow
      <4>2. node' = [x \in Nodes |-> IF x = n THEN "in"
                                     ELSE IF x \in SkippedBy[other] THEN "skipped" ELSE node[x]]
        BY <3>3 DEF TakeArm
      <4> QED
        BY <3>1, <4>1, <4>2
    <3>4. CASE Kind[n] = "branch" /\ \E passed \in Conditions(n) :
                 IF passed THEN TakeArm(n, Pass[n], Fail[n]) ELSE TakeArm(n, Fail[n], Pass[n])
      <4>1. Opens(n) = {Pass[n], Fail[n]}
        BY <3>4 DEF Opens
      <4>2. Pass[n] \in Walks /\ Fail[n] \in Walks
        BY <2>2, <4>1, GraphAssumption
      <4>3. TakeArm(n, Pass[n], Fail[n]) \/ TakeArm(n, Fail[n], Pass[n])
        BY <3>4
      <4> QED
        BY <3>3, <4>1, <4>2, <4>3
    <3> QED
      BY <2>5, <3>2, <3>4 DEF EnterStep
  <2> QED
    BY <1>3, <2>3, <2>4, <2>5
<1>5. ASSUME NEW p \in Nodes, StartArm(p)
      PROVE  (\A n \in NodesOf[f] : node'[n] = node[n]) \/ Enters(f)
  <2>1. Kind[p] = "parallel" /\ drive[FlowOf[p]] = "walk" /\ node[p] = "in"
    BY <1>5 DEF StartArm, Walking
  <2>2. PICK i \in DOMAIN Arms[p] :
          node' = [node EXCEPT ![Arms[p][i]] = IF Arms[p][i] \in Leaves THEN "go" ELSE "in"]
    BY <1>5 DEF StartArm
  <2>3. Arms[p][i] \in Nodes /\ FlowOf[Arms[p][i]] = FlowOf[p]
    <3>1. Arms[p] \in Seq(Nodes) /\ Arms[p][i] \in Elems(Arms[p])
      BY <2>2, GraphAssumption DEF Elems
    <3> QED
      BY <2>2, <3>1, GraphAssumption
  <2>4. CASE FlowOf[p] = f
    <3>1. ~Untouched(f)
      BY <1>2, <2>1, <2>4 DEF Untouched
    <3> QED
      BY <2>1, <2>4, <3>1 DEF Enters
  <2>5. CASE FlowOf[p] # f
    BY <1>1, <1>2, <2>2, <2>3, <2>5
  <2> QED
    BY <2>4, <2>5
<1>6. ASSUME NEW n \in Nodes, LeafStep(n)
      PROVE  (\A m \in NodesOf[f] : node'[m] = node[m]) \/ Enters(f)
  <2>1. drive[FlowOf[n]] = "walk" /\ node[n] # "todo"
    BY <1>6 DEF LeafStep, BackoffOver, DispatchJob, WaitForRun, RefuseChild, DispatchFlow,
       WaitForFlow, Walking
  <2>2. \A m \in Nodes : m # n => node'[m] = node[m]
    BY <1>1, <1>6 DEF LeafStep, BackoffOver, DispatchJob, WaitForRun, RefuseChild,
       DispatchFlow, WaitForFlow, AttemptOver
  <2>3. CASE FlowOf[n] = f
    <3>1. ~Untouched(f)
      BY <1>2, <2>1, <2>3 DEF Untouched
    <3> QED
      BY <2>1, <2>3, <3>1 DEF Enters
  <2>4. CASE FlowOf[n] # f
    BY <1>2, <2>2, <2>4
  <2> QED
    BY <2>3, <2>4
<1>7. ASSUME \/ UNCHANGED vars
             \/ Trigger \/ \E g \in Flows : Start(g) \/ Finish(g) \/ Report(g)
             \/ \E w \in Walks : StepOver(w)
             \/ \E n \in Nodes, k \in Attempts : Claim(n, k) \/ RunEnds(n, k)
             \/ ServerStep
      PROVE  UNCHANGED node
  BY <1>7 DEF vars, Trigger, Start, Finish, Report, StepOver, Claim, RunEnds, ServerStep,
     CancelFlag, CancelSkip, CancelStop, CancelList, ReapRead, ReapEmit, ReapRuns, Crash, Boot,
     SweepRead, SweepDone, CancelAsk, Age, ReapFlow, stepVars
<1> QED
  BY <1>3, <1>4, <1>5, <1>6, <1>7, StepCases

LEMMA HaltingStep ==
  ASSUME Lives, Halting, Flagged, [Next]_vars
  PROVE  Halting'
<1> SUFFICES ASSUME NEW f \in Flows
             PROVE  /\ drive'[f] \in {"none", "lookup"} => Untouched(f)'
                    /\ f \in Local /\ told'[f] =>
                         cancelled'[f] /\ (stop'[f] \/ drive'[f] = "gone" \/ Untouched(f)')
  BY DEF Halting
<1>1. /\ drive'[f] \in {"none", "lookup"} => drive[f] \in {"none", "lookup"}
      /\ drive[f] = "gone" => drive'[f] = "gone"
      /\ cancelled[f] => cancelled'[f]
      /\ stop[f] => stop'[f]
      /\ told'[f] # told[f] => CancelStop /\ f = cflow
  BY DriveSteps
<1>2. (\A n \in NodesOf[f] : node'[n] = node[n]) \/ Enters(f)
  BY NodeSteps DEF Lives
<1>3. ASSUME Untouched(f), ~Enters(f) PROVE Untouched(f)'
  BY <1>2, <1>3 DEF Untouched
<1>4. drive'[f] \in {"none", "lookup"} => Untouched(f)'
  BY <1>1, <1>3 DEF Halting, Enters
<1>5. CASE f \in Local /\ told[f]
  <2>1. cancelled[f] /\ (stop[f] \/ drive[f] = "gone" \/ Untouched(f))
    BY <1>5 DEF Halting
  <2>2. Untouched(f) => Untouched(f)'
    BY <2>1, <1>3 DEF Enters, Halted
  <2> QED
    BY <1>1, <1>4, <2>1, <2>2
<1>6. CASE f \in Local /\ told'[f] /\ ~told[f]
  <2>1. CancelStop /\ f = cflow
    BY <1>1, <1>6
  <2>2. cpc = "stop" /\ cancelled[f] /\ UNCHANGED <<drive, node>>
        /\ stop' = [stop EXCEPT ![f] = @ \/ (f \in Local /\ drive[f] \in {"walk", "report"})]
    BY <2>1 DEF CancelStop, Flagged, stepVars
  <2>3. drive[f] \in {"walk", "report"} => stop'[f]
    BY <1>6, <2>2 DEF Lives, Typed, TypeOK
  <2>4. drive[f] \in {"none", "lookup", "walk", "report", "gone"}
    BY DEF Lives, Typed, TypeOK
  <2>5. drive[f] \in {"none", "lookup"} => Untouched(f)'
    BY <2>2 DEF Halting, Untouched
  <2> QED
    BY <1>1, <1>4, <2>2, <2>3, <2>4, <2>5
<1> QED
  BY <1>4, <1>5, <1>6

LEMMA FlaggedStep ==
  ASSUME Lives, Flagged, [Next]_vars
  PROVE  Flagged'
<1>1. /\ cancelled \in [Flows -> BOOLEAN] /\ cflow \in Flows \cup {None} /\ ctodo \in SUBSET Flows
  BY DEF Lives, Typed, TypeOK
<1>2. CASE CancelFlag
  <2>1. \/ cpc' = "skip" /\ cancelled' = [cancelled EXCEPT ![cflow] = TRUE]
        \/ cpc' = "list" /\ cancelled' = cancelled
    BY <1>2 DEF CancelFlag
  <2>2. cpc = "flag" /\ UNCHANGED <<cflow, ctodo>>
    BY <1>2 DEF CancelFlag
  <2> QED
    BY <1>1, <2>1, <2>2 DEF Flagged
<1>3. CASE CancelSkip \/ CancelStop
  BY <1>3 DEF CancelSkip, CancelStop, Flagged, flowVars
<1>4. CASE CancelList
  BY <1>1, <1>4 DEF CancelList, Flagged, flowVars, ChildrenOf
<1>5. CASE \E f \in Flows : CancelAsk(f)
  BY <1>5 DEF CancelAsk, Flagged, flowVars
<1>6. CASE Crash
  BY <1>6 DEF Crash, Flagged, flowVars
<1>7. ASSUME UNCHANGED <<cpc, cflow, ctodo, cancelled>> PROVE Flagged'
  BY <1>7 DEF Flagged
<1>8. CASE ~ServerStep
  BY <1>7, <1>8, Bystanders DEF cancelVars
<1>9. ASSUME \/ ReapRead \/ ReapEmit \/ ReapRuns \/ Boot \/ SweepRead \/ SweepDone
             \/ \E f \in Flows : Age(f) \/ ReapFlow(f)
      PROVE  UNCHANGED <<cpc, cflow, ctodo, cancelled>>
  BY <1>9 DEF ReapRead, ReapEmit, ReapRuns, Boot, SweepRead, SweepDone, Age, ReapFlow,
     flowVars, cancelVars
<1> QED
  BY <1>2, <1>3, <1>4, <1>5, <1>6, <1>7, <1>8, <1>9 DEF ServerStep

LEMMA CancelsStep ==
  ASSUME Cancels, [Next]_vars PROVE Cancels'
BY LivesStep, HaltingStep, FlaggedStep DEF Cancels

LEMMA InitCancels ==
  ASSUME Init PROVE Cancels
<1>1. \A f \in Flows : NodesOf[f] \subseteq Nodes
  BY DEF NodesOf
<1>2. Halting
  BY <1>1 DEF Init, Halting, Untouched
<1>3. Flagged
  BY DEF Init, Flagged
<1> QED
  BY <1>2, <1>3, InitLives DEF Cancels

LEMMA AlwaysCancels == Spec => []Cancels
<1>1. Init => Cancels
  BY InitCancels
<1>2. Cancels /\ [Next]_vars => Cancels'
  BY CancelsStep
<1> QED
  BY <1>1, <1>2, PTL DEF Spec

\* A step of a walk whose Cancel has returned is not one the walk may start.
LEMMA ToldIsHalted ==
  ASSUME Cancels, NEW f \in Local, told[f]
  PROVE  /\ f \in Flows /\ Halted(f)
         /\ \A n \in NodesOf[f] : Walking(f) /\ node[n] = "go" => stop[f]
<1>1. f \in Flows
  BY ConstantsAssumption
<1>2. cancelled[f] /\ (stop[f] \/ drive[f] = "gone" \/ Untouched(f))
  BY <1>1 DEF Cancels, Halting
<1> QED
  BY <1>1, <1>2 DEF Halted, Untouched, Walking

\* How the row of a workflow run comes to be.
LEMMA Births ==
  ASSUME Lives, [Next]_vars, NEW c \in Flows, flow[c] = "none", flow'[c] # "none"
  PROVE  \/ Trigger /\ c = scn.top
         \/ \E n \in Nodes : /\ DispatchFlow(n) /\ ~stop[FlowOf[n]] /\ node[n] = "go"
                             /\ Walking(FlowOf[n])
                             /\ c = Child[n][tries[n] + 1] /\ c \in Elems(Child[n])
<1>1. flow \in [Flows -> {"none", "running", "success", "failure"}]
  BY LivesTypes DEF Lives
<1>2. CASE Trigger
  BY <1>1, <1>2 DEF Trigger, Insert
<1>3. ASSUME NEW n \in Nodes, DispatchFlow(n)
      PROVE  /\ ~stop[FlowOf[n]] /\ node[n] = "go" /\ Walking(FlowOf[n])
             /\ c = Child[n][tries[n] + 1] /\ c \in Elems(Child[n])
  <2>1. /\ Kind[n] = "workflow" /\ node[n] = "go" /\ Descends(n) /\ Walking(FlowOf[n])
        /\ \/ ~stop[FlowOf[n]] /\ flow' = [flow EXCEPT ![Child[n][tries[n] + 1]] = "running"]
           \/ flow' = flow
    BY <1>3 DEF DispatchFlow, Insert
  <2>2. Child[n][tries[n] + 1] \in Elems(Child[n])
    BY <2>1, NextChild DEF Lives
  <2> QED
    BY <1>1, <2>1, <2>2
<1>4. ASSUME \/ UNCHANGED vars
             \/ \E f \in Flows : Start(f) \/ Report(f)
             \/ \E w \in Walks : NextStep(w) \/ StepOver(w)
             \/ \E n \in Nodes : StartArm(n) \/ (LeafStep(n) /\ ~DispatchFlow(n))
             \/ \E n \in Nodes, k \in Attempts : Claim(n, k) \/ RunEnds(n, k)
      PROVE  UNCHANGED flow
  BY <1>4 DEF vars, Start, Report, NextStep, StepOver, StartArm, LeafStep,
     BackoffOver, DispatchJob, WaitForRun, RefuseChild, WaitForFlow, Claim, RunEnds, flowVars
<1>5. ASSUME NEW f \in Flows, Finish(f) \/ ReapFlow(f) PROVE flow'[c] = "none"
  BY <1>1, <1>5 DEF Finish, ReapFlow
<1>6. ASSUME ServerStep, ~\E f \in Flows : ReapFlow(f) PROVE UNCHANGED flow
  BY <1>6 DEF ServerStep, CancelFlag, CancelSkip, CancelStop, CancelList, ReapRead, ReapEmit,
     ReapRuns, Crash, Boot, SweepRead, SweepDone, CancelAsk, Age, flowVars
<1> QED
  BY <1>2, <1>3, <1>4, <1>5, <1>6, StepCases

\* A flow is called by one step.
LEMMA CallerIs ==
  ASSUME NEW n \in Nodes, NEW c \in Elems(Child[n]), NEW f \in CallerOf[c], c \in Flows
  PROVE  f = FlowOf[n]
<1>1. PICK m \in Nodes : c \in Elems(Child[m]) /\ f = FlowOf[m]
  BY DEF CallerOf
<1>2. PICK i \in DOMAIN Child[n], j \in DOMAIN Child[m] : Child[n][i] = c /\ Child[m][j] = c
  BY <1>1 DEF Elems
<1>3. m = n
  BY <1>2, ConstantsAssumption
<1> QED
  BY <1>1, <1>3

LEMMA TopHasNoCaller ==
  ASSUME Typed PROVE CallerOf[scn.top] = {}
<1>1. \A n \in Nodes : scn.top \notin Elems(Child[n])
  BY TopIsNoChild DEF Elems
<1> QED
  BY <1>1, LivesTypes DEF CallerOf

\* No run of a job begins in a flow whose cancel has returned.
LEMMA NoNewRun ==
  ASSUME Cancels, [Next]_vars, NEW f \in Local, told[f], NEW n \in Jobs[f], NEW k \in Attempts,
         row[n][k] = "none"
  PROVE  row'[n][k] = "none"
<1>1. row \in [Nodes -> [Attempts -> {"none"} \cup Live \cup Over]] /\ Typed
  BY DEF Cancels, Lives, Typed, TypeOK
<1>2. f \in Flows
  BY ToldIsHalted
<1>3. n \in Nodes /\ FlowOf[n] = f /\ Kind[n] = "job" /\ n \in NodesOf[f]
  BY <1>2 DEF Jobs, NodesOf
<1>4. ASSUME NEW w \in Walks, NextStep(w) PROVE row'[n] = row[n]
  <2> DEFINE m == Current(w)
  <2>1. walk[w] = "on"
    BY <1>4 DEF NextStep
  <2>2. m \in Nodes /\ FlowOf[m] = FlowOf[w]
    BY <1>1, <2>1, AtStep
  <2>3. \/ row' = row
        \/ ~Halted(FlowOf[w]) /\ EnterStep(m)
    BY <1>4 DEF NextStep, stepVars
  <2>4. ASSUME ~Halted(FlowOf[w]), EnterStep(m) PROVE row'[n] = row[n]
    <3>1. FlowOf[m] # f
      BY <2>2, <2>4, ToldIsHalted
    <3>2. ASSUME NEW arm, NEW other \in Walks, other \in Opens(m), TakeArm(m, arm, other)
          PROVE  row'[n] = row[n]
      <4>1. n \notin SkippedBy[other]
        BY <1>3, <2>2, <3>1, <3>2, SkippedInFlow
      <4>2. row' = [x \in Nodes |-> IF x \in SkippedBy[other]
                                    THEN [row[x] EXCEPT ![1] = "skipped"] ELSE row[x]]
        BY <3>2 DEF TakeArm
      <4> QED
        BY <1>3, <4>1, <4>2
    <3>3. CASE row' = row
      BY <3>3
    <3>4. CASE Kind[m] = "branch" /\ \E passed \in Conditions(m) :
                 IF passed THEN TakeArm(m, Pass[m], Fail[m]) ELSE TakeArm(m, Fail[m], Pass[m])
      <4>1. Opens(m) = {Pass[m], Fail[m]}
        BY <3>4 DEF Opens
      <4>2. Pass[m] \in Walks /\ Fail[m] \in Walks
        BY <2>2, <4>1, GraphAssumption
      <4>3. TakeArm(m, Pass[m], Fail[m]) \/ TakeArm(m, Fail[m], Pass[m])
        BY <3>4
      <4> QED
        BY <3>2, <4>1, <4>2, <4>3
    <3> QED
      BY <2>4, <3>3, <3>4 DEF EnterStep
  <2> QED
    BY <2>3, <2>4
<1>5. ASSUME NEW m \in Nodes, DispatchJob(m) PROVE row'[n][k] = "none"
  <2>1. /\ Walking(FlowOf[m]) /\ node[m] = "go"
        /\ \/ row' = row
           \/ /\ ~stop[FlowOf[m]]
              /\ \E s : row' = [row EXCEPT ![m] = [@ EXCEPT ![tries[m] + 1] = s]]
    BY <1>5 DEF DispatchJob
  <2>2. CASE m = n
    BY <1>3, <2>1, <2>2, ToldIsHalted
  <2>3. CASE m # n
    BY <1>1, <1>3, <2>1, <2>3
  <2> QED
    BY <2>2, <2>3
<1>6. ASSUME NEW m \in Nodes, RefuseChild(m) PROVE row'[n][k] = "none"
  <2>1. m # n /\ (row' = row \/ row' = [row EXCEPT ![m] = [@ EXCEPT ![1] = "skipped"]])
    BY <1>3, <1>6 DEF RefuseChild
  <2> QED
    BY <1>1, <1>3, <2>1
<1>7. ASSUME NEW m \in Nodes, NEW j \in Attempts, Claim(m, j) \/ RunEnds(m, j)
      PROVE  row'[n][k] = "none"
  <2>1. row[m][j] # "none" /\ \E s : row' = [row EXCEPT ![m] = [@ EXCEPT ![j] = s]]
    BY <1>7 DEF Claim, RunEnds
  <2> QED
    BY <1>1, <1>3, <2>1
<1>8. CASE CancelSkip \/ ReapRuns
  BY <1>1, <1>3, <1>8 DEF CancelSkip, ReapRuns, Live
<1>9. ASSUME \/ UNCHANGED vars
             \/ Trigger \/ \E g \in Flows : Start(g) \/ Finish(g) \/ Report(g)
             \/ \E w \in Walks : StepOver(w)
             \/ \E m \in Nodes : \/ StartArm(m) \/ BackoffOver(m) \/ WaitForRun(m)
                                 \/ DispatchFlow(m) \/ WaitForFlow(m)
             \/ ServerStep /\ ~CancelSkip /\ ~ReapRuns
      PROVE  UNCHANGED row
  BY <1>9 DEF vars, Trigger, Start, Finish, Report, StepOver, StartArm, BackoffOver, WaitForRun,
     DispatchFlow, WaitForFlow, ServerStep, CancelFlag, CancelStop, CancelList, ReapRead,
     ReapEmit, Crash, Boot, SweepRead, SweepDone, CancelAsk, Age, ReapFlow, stepVars
<1> QED
  BY <1>4, <1>5, <1>6, <1>7, <1>8, <1>9, StepCases DEF LeafStep

\* No sub-workflow begins under it either.
LEMMA NoNewChild ==
  ASSUME Cancels, [Next]_vars, NEW f \in Local, told[f], NEW c \in Flows, c \notin ChildrenOf(f)
  PROVE  c \notin ChildrenOf(f)'
<1>1. SUFFICES ASSUME f \in CallerOf[c], flow[c] = "none", flow'[c] # "none" PROVE FALSE
  BY DEF ChildrenOf
<1>2. c # scn.top
  BY <1>1, TopHasNoCaller DEF Cancels, Lives
<1>3. PICK n \in Nodes : /\ ~stop[FlowOf[n]] /\ node[n] = "go" /\ Walking(FlowOf[n])
                         /\ c \in Elems(Child[n])
  BY <1>1, <1>2, Births DEF Cancels
<1>4. FlowOf[n] = f /\ f \in Flows
  BY <1>1, <1>3, CallerIs, ToldIsHalted
<1>5. n \in NodesOf[f]
  BY <1>4 DEF NodesOf
<1> QED
  BY <1>3, <1>4, <1>5, ToldIsHalted

\* When Cancel has returned for a workflow of the API's engine, none of its steps
\* starts any more: not one that a walk had decided on before it looked at the
\* flag, not a retry, not an arm that waited for its slot, and not by a walk that
\* had yet to register its cancel func (registerCancel, engine.go).
THEOREM CancelHolds == Spec => CancelHalts
<1>1. ASSUME Cancels, [Next]_vars
      PROVE  \A f \in Local : told[f] =>
               /\ \A n \in Jobs[f] : \A k \in Attempts :
                    row[n][k] = "none" => row'[n][k] = "none"
               /\ \A c \in Flows \ ChildrenOf(f) : c \notin ChildrenOf(f)'
  BY <1>1, NoNewRun, NoNewChild
<1> QED
  BY <1>1, AlwaysCancels, PTL DEF Spec, CancelHalts

Reaches == Cancels /\ Served /\ Reaching

\* The API's engine starts nothing before it serves.
LEMMA NoBirth ==
  ASSUME Lives, Served, [Next]_vars, up # "up", NEW f \in Local, flow[f] = "none"
  PROVE  flow'[f] = "none"
<1> SUFFICES ASSUME flow'[f] # "none" PROVE FALSE
  OBVIOUS
<1>1. f \in Flows
  BY ConstantsAssumption
<1>2. CASE Trigger /\ f = scn.top
  BY <1>2 DEF Trigger
<1>3. ASSUME NEW n \in Nodes, Walking(FlowOf[n]), f \in Elems(Child[n]) PROVE FALSE
  <2>1. FlowOf[n] \in Local
    BY <1>3, ConstantsAssumption
  <2> QED
    BY <1>3, <2>1 DEF Walking, Served
<1> QED
  BY <1>1, <1>2, <1>3, Births

LEMMA ServedStep ==
  ASSUME Lives, Lives', Served, [Next]_vars
  PROVE  Served'
<1>1. /\ up \in {"down", "booting", "sweeping", "up"}
      /\ flow \in [Flows -> {"none", "running", "success", "failure"}]
      /\ Local \subseteq Flows /\ rtodo \in SUBSET Flows
  BY ConstantsAssumption DEF Lives, Typed, TypeOK
<1>2. \/ UNCHANGED up
      \/ Crash
      \/ Boot
      \/ SweepRead
      \/ SweepDone
  <2>1. ASSUME \/ CancelFlag \/ CancelSkip \/ CancelStop \/ CancelList
               \/ ReapRead \/ ReapEmit \/ ReapRuns
               \/ \E f \in Flows : CancelAsk(f) \/ Age(f) \/ ReapFlow(f)
        PROVE  UNCHANGED up
    BY <2>1 DEF CancelFlag, CancelSkip, CancelStop, CancelList, ReapRead, ReapEmit, ReapRuns,
       CancelAsk, Age, ReapFlow, serverVars
  <2>2. ~ServerStep => UNCHANGED up
    BY Bystanders DEF serverVars
  <2> QED
    BY <2>1, <2>2 DEF ServerStep
<1>3. CASE Crash
  BY <1>1, <1>3 DEF Crash, Served
<1>4. CASE SweepDone
  BY <1>4 DEF SweepDone, Served
<1>5. ASSUME up # "up", NEW f \in Local, ~Crash PROVE drive'[f] \in {"none", "gone"}
  <2>1. f \in Flows /\ drive[f] \in {"none", "gone"}
    BY <1>1, <1>5 DEF Served
  <2>2. drive[f] = "gone" => drive'[f] = "gone"
    BY <2>1, DriveSteps
  <2>3. drive[f] = "none" => flow[f] = "none"
    BY <2>1 DEF Lives, Driven
  <2>4. flow[f] = "none" => flow'[f] = "none"
    BY <1>5, NoBirth
  <2>5. flow'[f] = "none" => drive'[f] = "none"
    BY <2>1 DEF Lives, Driven
  <2> QED
    BY <2>1, <2>2, <2>3, <2>4, <2>5
<1>6. ASSUME up # "up", ~SweepDone PROVE cpc' = "idle"
  <2>1. cpc = "idle"
    BY <1>6 DEF Served
  <2>2. ~ServerStep => UNCHANGED cpc
    BY Bystanders DEF cancelVars
  <2>3. ASSUME ServerStep PROVE cpc' = "idle"
    BY <1>6, <2>1, <2>3 DEF ServerStep, CancelFlag, CancelSkip, CancelStop, CancelList, ReapRead,
       ReapEmit, ReapRuns, Crash, Boot, SweepRead, CancelAsk, Age, ReapFlow, cancelVars
  <2> QED
    BY <2>1, <2>2, <2>3
<1>7. ASSUME up = "sweeping", up' = up, NEW f \in Local, flow'[f] = "running"
      PROVE  f \in rtodo'
  <2>1. f \in Flows /\ flow[f] = "running"
    <3>1. FlowStep(f) /\ f \in Flows
      BY <1>1, LivesStep
    <3>2. flow[f] # "none"
      BY <1>7, NoBirth
    <3> QED
      BY <1>7, <3>1, <3>2 DEF FlowStep, Keeps, Begins, Closes, Records, Results
  <2>2. f \in rtodo
    BY <1>7, <2>1 DEF Served
  <2>3. ~ServerStep => UNCHANGED rtodo
    BY Bystanders DEF reapVars
  <2>5. ASSUME ServerStep, ~\E g \in Flows : ReapFlow(g) PROVE UNCHANGED rtodo
    BY <1>7, <2>5 DEF ServerStep, CancelFlag, CancelSkip, CancelStop, CancelList, ReapRead,
       ReapEmit, ReapRuns, Crash, Boot, SweepRead, SweepDone, CancelAsk, Age, reapVars
  <2>6. ASSUME NEW g \in Flows, ReapFlow(g) PROVE f \in rtodo'
    <3>1. rtodo' = rtodo \ {g} /\ (flow[g] = "running" => flow' = [flow EXCEPT ![g] = "failure"])
      BY <2>6 DEF ReapFlow
    <3>2. f # g
      BY <1>1, <1>7, <2>1, <3>1
    <3> QED
      BY <2>2, <3>1, <3>2
  <2> QED
    BY <2>2, <2>3, <2>5, <2>6
<1>8. CASE UNCHANGED up
  <2>1. ~Crash /\ ~SweepDone
    BY <1>8 DEF Crash, SweepDone
  <2> QED
    BY <1>5, <1>6, <1>7, <1>8, <2>1 DEF Served
<1>9. CASE Boot
  <2>1. up = "down" /\ up' = "booting" /\ ~Crash /\ ~SweepDone
    BY <1>9 DEF Boot, Crash, SweepDone
  <2> QED
    BY <1>5, <1>6, <2>1 DEF Served
<1>10. CASE SweepRead
  <2>1. /\ up = "booting" /\ up' = "sweeping" /\ ~Crash /\ ~SweepDone
        /\ rtodo' = {f \in Flows : flow[f] = "running"} /\ flow' = flow
    BY <1>10 DEF SweepRead, Crash, SweepDone, flowVars
  <2>2. \A f \in Local : flow'[f] = "running" => f \in rtodo'
    BY <1>1, <2>1
  <2> QED
    BY <1>5, <1>6, <2>1, <2>2 DEF Served
<1> QED
  BY <1>2, <1>3, <1>4, <1>8, <1>9, <1>10

\* The children of a flow of the API's engine are its own.
LEMMA LocalChildren ==
  ASSUME NEW f \in Local, NEW c \in ChildrenOf(f)
  PROVE  c \in Local /\ c \in Flows
<1>1. PICK n \in Nodes : f = FlowOf[n] /\ c \in Elems(Child[n])
  BY DEF ChildrenOf, CallerOf
<1>2. c \in Local
  BY <1>1, ConstantsAssumption
<1> QED
  BY <1>2, ConstantsAssumption

LEMMA ReachingStep ==
  ASSUME Cancels, Served, Reaching, [Next]_vars
  PROVE  Reaching'
<1>1. /\ flow \in [Flows -> {"none", "running", "success", "failure"}]
      /\ cancelled \in [Flows -> BOOLEAN] /\ Local \subseteq Flows
      /\ told \in [Flows -> BOOLEAN]
  BY ConstantsAssumption DEF Cancels, Lives, Typed, TypeOK
<1>2. Cancels /\ Lives /\ Typed
  BY DEF Cancels, Lives
<1> SUFFICES ASSUME up' = "up", ~May("dropped")', NEW f \in Local, told'[f],
                    NEW c \in ChildrenOf(f)', flow'[c] = "running"
             PROVE  Reached(f, c)'
  BY DEF Reaching
<1>3. c \in Flows /\ f \in Flows /\ f \in CallerOf[c]
  BY <1>1 DEF ChildrenOf
<1>4. FlowStep(c)
  BY <1>2, <1>3, LivesStep
<1>5. CASE ~told[f]
  <2>1. CancelStop /\ f = cflow
    BY <1>1, <1>2, <1>3, <1>5, DriveSteps
  <2>2. cpc' = "list" /\ cflow' = cflow
    BY <2>1 DEF CancelStop
  <2> QED
    BY <2>1, <2>2 DEF Reached
<1>6. CASE told[f]
  <2>1. c \in ChildrenOf(f)
    BY <1>2, <1>3, <1>6, NoNewChild
  <2>2. flow[c] = "running"
    BY <1>4, <2>1 DEF FlowStep, Keeps, Begins, Closes, Records, Results, ChildrenOf
  <2>3. cancelled[c] => cancelled'[c]
    BY <1>2, <1>3, DriveSteps
  <2>4. up = "up" /\ ~May("dropped")
    <3>1. scn' = scn
      <4>1. ~ServerStep => UNCHANGED scn
        BY Bystanders DEF serverVars
      <4>2. ServerStep => UNCHANGED scn
        BY DEF ServerStep, CancelFlag, CancelSkip, CancelStop, CancelList, ReapRead,
           ReapEmit, ReapRuns, Crash, Boot, SweepRead, SweepDone, CancelAsk, Age, ReapFlow, serverVars
      <4> QED
        BY <4>1, <4>2
    <3>2. ~SweepDone
      <4>1. SweepDone => up = "sweeping" /\ rtodo = {}
        BY DEF SweepDone
      <4>2. c \in Local
        BY <2>1, LocalChildren
      <4> QED
        BY <4>1, <4>2, <2>2 DEF Served
    <3>3. up' = up \/ up' # "up"
      <4>1. ~ServerStep => UNCHANGED up
        BY Bystanders DEF serverVars
      <4>2. ServerStep => up' = up \/ up' # "up"
        BY <3>2 DEF ServerStep, CancelFlag, CancelSkip, CancelStop, CancelList, ReapRead,
           ReapEmit, ReapRuns, Crash, Boot, SweepRead, CancelAsk, Age, ReapFlow, serverVars
      <4> QED
        BY <4>1, <4>2
    <3> QED
      BY <3>1, <3>3 DEF May
  <2>5. Reached(f, c)
    BY <1>6, <2>1, <2>2, <2>4 DEF Reaching
  <2>6. CASE CancelList
    <3>1. ASSUME c \in ctodo \cup ChildrenOf(cflow) PROVE Reached(f, c)'
      <4>1. PICK d \in ctodo \cup ChildrenOf(cflow) :
              cpc' = "flag" /\ cflow' = d /\ ctodo' = (ctodo \cup ChildrenOf(cflow)) \ {d}
        BY <2>4, <2>6, <3>1 DEF CancelList
      <4> QED
        BY <3>1, <4>1 DEF Reached
    <3>2. cpc = "list"
      BY <2>6 DEF CancelList
    <3> QED
      BY <2>1, <2>3, <2>5, <3>1, <3>2 DEF Reached
  <2>7. CASE CancelFlag
    <3>1. /\ cpc = "flag" /\ UNCHANGED <<cflow, ctodo>>
          /\ \/ cancelled' = [cancelled EXCEPT ![cflow] = TRUE]
             \/ ~(flow[cflow] = "running" /\ ~cancelled[cflow])
      BY <2>7 DEF CancelFlag
    <3>2. cflow = c => cancelled'[c]
      BY <1>1, <1>3, <2>2, <2>3, <3>1
    <3> QED
      BY <2>3, <2>5, <3>1, <3>2 DEF Reached
  <2>8. CASE CancelSkip \/ CancelStop
    <3>1. cpc \in {"skip", "stop"} /\ UNCHANGED ctodo
      BY <2>8 DEF CancelSkip, CancelStop
    <3> QED
      BY <2>3, <2>5, <3>1 DEF Reached
  <2>9. CASE \E g \in Flows : CancelAsk(g)
    <3>1. cpc = "idle" /\ ctodo = {}
      BY <1>2, <2>9 DEF CancelAsk, Cancels, Flagged
    <3> QED
      BY <2>3, <2>5, <3>1 DEF Reached
  <2>10. ASSUME UNCHANGED <<cpc, cflow, ctodo>> PROVE Reached(f, c)'
    BY <2>3, <2>5, <2>10 DEF Reached
  <2>11. ~ServerStep => UNCHANGED <<cpc, cflow, ctodo>>
    BY Bystanders DEF cancelVars
  <2>12. ASSUME \/ ReapRead \/ ReapEmit \/ ReapRuns \/ Boot \/ SweepRead \/ SweepDone
                \/ \E g \in Flows : Age(g) \/ ReapFlow(g)
         PROVE  UNCHANGED <<cpc, cflow, ctodo>>
    BY <2>12 DEF ReapRead, ReapEmit, ReapRuns, Boot, SweepRead, SweepDone, Age, ReapFlow, cancelVars
  <2>13. ~Crash
    BY DEF Crash
  <2> QED
    BY <2>6, <2>7, <2>8, <2>9, <2>10, <2>11, <2>12, <2>13 DEF ServerStep
<1> QED
  BY <1>1, <1>3, <1>5, <1>6

\* When a cancel is over (CancelTree has listed no more children), every
\* sub-workflow of what it cancelled is over or cancelled itself, however many
\* began while it went down the tree; unless the request was dropped on the way.
THEOREM CancelGoesDown == Spec => []CancelReachesAll
<1>1. Init => Reaches
  <2>1. Init => Cancels
    BY InitCancels
  <2>2. Init => Served
    BY DEF Init, Served
  <2>3. Init => Reaching
    BY ConstantsAssumption DEF Init, Reaching
  <2> QED
    BY <2>1, <2>2, <2>3 DEF Reaches
<1>2. Reaches /\ [Next]_vars => Reaches'
  BY CancelsStep, ServedStep, ReachingStep DEF Reaches, Cancels
<1>3. Reaches => CancelReachesAll
  <2>1. ASSUME Reaches, up = "up", cpc = "idle", ~May("dropped"), NEW f \in Local, told[f],
               NEW c \in ChildrenOf(f), flow[c] = "running"
        PROVE  cancelled[c]
    <3>1. Reached(f, c)
      BY <2>1 DEF Reaches, Reaching
    <3> QED
      BY <2>1, <3>1 DEF Reaches, Cancels, Flagged, Reached
  <2> QED
    BY <2>1 DEF CancelReachesAll
<1> QED
  BY <1>1, <1>2, <1>3, PTL DEF Spec

-----------------------------------------------------------------------------
(* The shape of a walk. *)

Sub(p) == {m \in Nodes : p \in Above[m]}

\* Nothing below a step has begun.
Cold(p) ==
  \A m \in Sub(p) : /\ node[m] \in {"todo", "skipped"} /\ tries[m] = 0
                    /\ \A v \in Opens(m) : walk[v] = "off"

\* Nothing below a step goes on.
Quiet(p) ==
  \A m \in Sub(p) : /\ node[m] \notin {"go", "wait", "backoff"}
                    /\ \A v \in Opens(m) : walk[v] # "on"
                    /\ node[m] = "in" => \A a \in Elems(Arms[m]) : Started(a)

\* A walk has finished what is before its step and not begun what is after it.
InTurn ==
  \A w \in Walks :
    /\ walk[w] = "off" => pos[w] = 1
    /\ \A i \in DOMAIN Body[w] :
         /\ walk[w] = "off" \/ i > pos[w] => Cold(Body[w][i])
         /\ walk[w] \in {"success", "danger"} \/ i < pos[w] => Quiet(Body[w][i])

Containers ==
  \A n \in Nodes :
    /\ node[n] = "todo" => Cold(n)
    /\ n \notin Leaves => node[n] \in {"todo", "in"} /\ tries[n] = 0
    /\ Kind[n] = "branch" => walk[Pass[n]] = "off" \/ walk[Fail[n]] = "off"

Unwalked == \A f \in Flows : drive[f] \in {"none", "lookup"} => walk[f] = "off"

Shape == Typed /\ InTurn /\ Containers /\ Unwalked

\* The tree of steps.
LEMMA Tree ==
  /\ \A n \in Nodes : n \in Above[n] /\ Above[n] \subseteq Nodes /\ n \in Sub(n)
  /\ \A n \in Nodes, w \in Walks : \A i \in DOMAIN Body[w] : Body[w][i] = n =>
       \A p \in Above[n] : p # n => \E o \in Nodes : w \in Opens(o) /\ p \in Above[o]
  /\ \A n, q \in Nodes : \A i \in DOMAIN Arms[q] : Arms[q][i] = n =>
       \A p \in Above[n] : p # n => p \in Above[q]
  /\ \A p, x \in Nodes : x \in Sub(p) /\ x # p =>
       \E q \in Nodes : Contains(p, q) /\ x \in Sub(q)
<1>1. \A n \in Nodes : n \in Above[n] /\ Above[n] \subseteq Nodes
  BY GraphAssumption
<1>2. ASSUME NEW n \in Nodes, NEW p \in Above[n], p # n
      PROVE  \E q \in Nodes : Contains(q, n) /\ p \in Above[q]
  BY <1>2, GraphAssumption
<1>3. ASSUME NEW n \in Nodes, NEW w \in Walks, NEW i \in DOMAIN Body[w], Body[w][i] = n,
             NEW p \in Above[n], p # n
      PROVE  \E o \in Nodes : w \in Opens(o) /\ p \in Above[o]
  <2>1. PICK q \in Nodes : Contains(q, n) /\ p \in Above[q]
    BY <1>2, <1>3
  <2>2. n \in Elems(Body[w])
    BY <1>3 DEF Elems
  <2>3. n \notin Elems(Arms[q])
    <3>1. Elems(Arms[q]) \cap Elems(Body[w]) = {}
      BY PlacesAssumption
    <3> QED
      BY <2>2, <3>1
  <2>4. PICK v \in Opens(q) : n \in Elems(Body[v])
    BY <2>1, <2>3 DEF Contains
  <2>5. v \in Walks
    BY GraphAssumption
  <2>6. PICK j \in DOMAIN Body[v] : Body[v][j] = n
    BY <2>4 DEF Elems
  <2>7. v = w
    BY <1>3, <2>5, <2>6, PlacesAssumption
  <2> QED
    BY <2>1, <2>7
<1>4. ASSUME NEW n \in Nodes, NEW q \in Nodes, NEW i \in DOMAIN Arms[q], Arms[q][i] = n,
             NEW p \in Above[n], p # n
      PROVE  p \in Above[q]
  <2>1. PICK r \in Nodes : Contains(r, n) /\ p \in Above[r]
    BY <1>2, <1>4
  <2>2. n \in Elems(Arms[q])
    BY <1>4 DEF Elems
  <2>3. \A v \in Opens(r) : n \notin Elems(Body[v])
    BY <2>2, GraphAssumption, PlacesAssumption
  <2>4. n \in Elems(Arms[r])
    BY <2>1, <2>3 DEF Contains
  <2>5. PICK j \in DOMAIN Arms[r] : Arms[r][j] = n
    BY <2>4 DEF Elems
  <2>6. r = q
    BY <1>4, <2>5, PlacesAssumption
  <2> QED
    BY <2>1, <2>6
<1>5. ASSUME NEW p \in Nodes, NEW x \in Sub(p), x # p
      PROVE  \E q \in Nodes : Contains(p, q) /\ x \in Sub(q)
  <2>1. x \in Nodes /\ p \in Above[x]
    BY DEF Sub
  <2>2. \E q \in Nodes : Contains(p, q) /\ q \in Above[x]
    BY <1>5, <2>1, PlacesAssumption
  <2> QED
    BY <2>1, <2>2 DEF Sub
<1> QED
  BY <1>1, <1>3, <1>4, <1>5 DEF Sub

LEMMA ShapeTypes ==
  ASSUME Shape
  PROVE  /\ node \in [Nodes -> {"todo", "in", "go", "wait", "backoff"} \cup Verdicts]
         /\ tries \in [Nodes -> 0 .. MaxTries] /\ MaxTries \in Nat
         /\ walk \in [Walks -> {"off", "on", "success", "danger"}]
         /\ pos \in [Walks -> Nat \ {0}]
         /\ \A w \in Walks : Body[w] \in Seq(Nodes)
         /\ \A w \in Walks : \A i \in DOMAIN Body[w] :
              i \in Nat /\ Body[w][i] \in Nodes /\ Body[w][i] \in Elems(Body[w])
         /\ \A n \in Nodes : Opens(n) \subseteq Walks /\ Elems(Arms[n]) \subseteq Nodes
<1>1. \A w \in Walks : Body[w] \in Seq(Nodes)
  BY GraphAssumption
<1>2. \A w \in Walks : \A i \in DOMAIN Body[w] :
        i \in Nat /\ Body[w][i] \in Nodes /\ Body[w][i] \in Elems(Body[w])
  BY <1>1 DEF Elems
<1>3. \A n \in Nodes : Elems(Arms[n]) \subseteq Nodes
  <2>1. \A n \in Nodes : Arms[n] \in Seq(Nodes)
    BY GraphAssumption
  <2> QED
    BY <2>1 DEF Elems
<1> QED
  BY <1>1, <1>2, <1>3, GraphAssumption, ConstantsAssumption DEF Shape, Typed, TypeOK

\* The walks a step is in are at it, and what contains it has begun and goes on.
OnPath(n) ==
  /\ \A w \in Walks : \A i \in DOMAIN Body[w] :
       Body[w][i] \in Above[n] => walk[w] = "on" /\ pos[w] = i
  /\ \A p \in Above[n] : p # n => ~Cold(p)

LEMMA PathFromAbove ==
  ASSUME Shape, NEW n \in Nodes,
         \A p \in Above[n] : p # n => ~Cold(p) /\ ~Quiet(p),
         \A w \in Walks : \A i \in DOMAIN Body[w] :
           Body[w][i] = n => walk[w] = "on" /\ pos[w] = i
  PROVE  OnPath(n)
<1>1. ASSUME NEW w \in Walks, NEW i \in DOMAIN Body[w], Body[w][i] \in Above[n], Body[w][i] # n
      PROVE  walk[w] = "on" /\ pos[w] = i
  <2>1. ~Cold(Body[w][i]) /\ ~Quiet(Body[w][i])
    BY <1>1
  <2>2. ~(walk[w] = "off" \/ i > pos[w]) /\ ~(walk[w] \in {"success", "danger"} \/ i < pos[w])
    BY <2>1 DEF Shape, InTurn
  <2>3. i \in Nat /\ pos[w] \in Nat /\ walk[w] \in {"off", "on", "success", "danger"}
    BY ShapeTypes
  <2> QED
    BY <2>2, <2>3
<1> QED
  BY <1>1 DEF OnPath

\* A step that a walk is at and has not entered is on its path.
LEMMA EnteredOnPath ==
  ASSUME Shape, NEW w \in Walks, walk[w] = "on"
  PROVE  /\ Current(w) \in Nodes /\ pos[w] \in DOMAIN Body[w]
         /\ OnPath(Current(w))
<1> DEFINE n == Current(w)
<1>1. n \in Nodes /\ pos[w] \in DOMAIN Body[w] /\ Body[w][pos[w]] = n
  BY AtStep DEF Shape, Current
<1>2. ASSUME NEW p \in Above[n], p # n PROVE ~Cold(p) /\ ~Quiet(p)
  <2>1. PICK o \in Nodes : w \in Opens(o) /\ p \in Above[o]
    BY <1>1, <1>2, Tree
  <2>2. o \in Sub(p)
    BY <2>1 DEF Sub
  <2> QED
    BY <2>1, <2>2 DEF Cold, Quiet
<1>3. \A v \in Walks : \A i \in DOMAIN Body[v] : Body[v][i] = n => walk[v] = "on" /\ pos[v] = i
  BY <1>1, PlacesAssumption
<1> QED
  BY <1>1, <1>2, <1>3, PathFromAbove

\* A leaf under way is.
LEMMA BusyOnPath ==
  ASSUME Shape, NEW n \in Nodes, node[n] \in {"go", "wait", "backoff"}
  PROVE  OnPath(n)
<1>1. ASSUME NEW p \in Above[n] PROVE ~Cold(p) /\ ~Quiet(p)
  <2>1. n \in Sub(p)
    BY DEF Sub
  <2> QED
    BY <2>1 DEF Cold, Quiet
<1>2. ASSUME NEW w \in Walks, NEW i \in DOMAIN Body[w], Body[w][i] = n
      PROVE  walk[w] = "on" /\ pos[w] = i
  <2>1. n \in Above[n]
    BY Tree
  <2>2. ~Cold(n) /\ ~Quiet(n)
    BY <1>1, <2>1
  <2>3. ~(walk[w] = "off" \/ i > pos[w]) /\ ~(walk[w] \in {"success", "danger"} \/ i < pos[w])
    BY <1>2, <2>2 DEF Shape, InTurn
  <2>4. i \in Nat /\ pos[w] \in Nat /\ walk[w] \in {"off", "on", "success", "danger"}
    BY ShapeTypes
  <2> QED
    BY <2>3, <2>4
<1> QED
  BY <1>1, <1>2, PathFromAbove

\* So is an arm that its parallel step may still start.
LEMMA ArmOnPath ==
  ASSUME Shape, NEW q \in Nodes, node[q] = "in", NEW i \in DOMAIN Arms[q],
         ~Started(Arms[q][i])
  PROVE  Arms[q][i] \in Nodes /\ OnPath(Arms[q][i])
<1> DEFINE a == Arms[q][i]
<1>1. a \in Elems(Arms[q]) /\ a \in Nodes
  BY ShapeTypes DEF Elems
<1>2. ASSUME NEW p \in Above[a], p # a PROVE ~Cold(p) /\ ~Quiet(p)
  <2>1. p \in Above[q]
    BY <1>1, <1>2, Tree
  <2>2. q \in Sub(p)
    BY <2>1 DEF Sub
  <2> QED
    BY <1>1, <2>2 DEF Cold, Quiet
<1>3. ASSUME NEW w \in Walks, NEW j \in DOMAIN Body[w] PROVE Body[w][j] # a
  <2>1. Elems(Arms[q]) \cap Elems(Body[w]) = {}
    BY PlacesAssumption
  <2>2. Body[w][j] \in Elems(Body[w])
    BY DEF Elems
  <2> QED
    BY <1>1, <2>1, <2>2
<1> QED
  BY <1>1, <1>2, <1>3, PathFromAbove

\* A branch leaves one of its arms closed, and m in it.
Skips(n, m) ==
  Kind[n] = "branch" /\ \E w \in Opens(n) : walk'[w] = "off" /\ m \in SkippedBy[w]

\* A step enters n or brings it on: below it, it only marks what a branch skips.
Touch(n) ==
  /\ \A m \in Nodes : m # n =>
       /\ tries'[m] = tries[m]
       /\ \/ node'[m] = node[m]
          \/ Skips(n, m) /\ m \in Sub(n) /\ Kind[m] = "job" /\ node[m] = "todo" /\ node'[m] = "skipped"
  /\ node'[n] # "todo"
  /\ n \notin Leaves => node'[n] = "in" /\ tries'[n] = tries[n]
  /\ \A w \in Walks : \/ walk'[w] = walk[w]
                      \/ w \in Opens(n) /\ walk[w] = "off" /\ walk'[w] = Opened(w)
  /\ Kind[n] = "branch" =>
       \E other \in Opens(n) :
         /\ walk'[other] = "off"
         /\ \A w \in Opens(n) : w # other => walk'[w] # "off"
         /\ \A m \in SkippedBy[other] : row'[m][1] = "skipped"
  /\ pos' = pos
  /\ LeafStep(n) \/ (node[n] = "todo" /\ tries' = tries /\ node'[n] \in {"go", "in"})

\* It leaves what is not above it as cold, or as quiet, as it was.
LEMMA KeptAside ==
  ASSUME Shape, NEW n \in Nodes, Touch(n), NEW p \in Nodes, p \notin Above[n]
  PROVE  (Cold(p) => Cold(p)') /\ (Quiet(p) => Quiet(p)')
<1>1. ASSUME NEW m \in Sub(p)
      PROVE  /\ m \in Nodes /\ m # n /\ tries'[m] = tries[m]
             /\ node'[m] = node[m] \/ node'[m] = "skipped"
             /\ \A v \in Opens(m) : walk'[v] = walk[v]
  <2>1. m \in Nodes /\ m # n
    BY DEF Sub
  <2>2. \A v \in Opens(m) : v \in Walks /\ v \notin Opens(n)
    BY <2>1, ShapeTypes, PlacesAssumption
  <2> QED
    BY <2>1, <2>2 DEF Touch
<1>2. ASSUME NEW a \in Nodes, Started(a) PROVE Started(a)'
  BY <1>2 DEF Touch, Started
<1>3. ASSUME Cold(p) PROVE Cold(p)'
  BY <1>1, <1>3 DEF Cold
<1>4. ASSUME Quiet(p) PROVE Quiet(p)'
  <2>1. \A m \in Sub(p) : \A a \in Elems(Arms[m]) : a \in Nodes
    BY <1>1, ShapeTypes
  <2> QED
    BY <1>1, <1>2, <1>4, <2>1 DEF Quiet
<1> QED
  BY <1>3, <1>4

\* A list that is opened empty has no steps.
LEMMA OpenedEmpty ==
  ASSUME NEW w \in Walks
  PROVE  /\ Opened(w) \in {"on", "success"}
         /\ Opened(w) # "on" => DOMAIN Body[w] = {}
<1>1. Body[w] = <<>> => DOMAIN Body[w] = {}
  OBVIOUS
<1> QED
  BY <1>1 DEF Opened

LEMMA TouchShape ==
  ASSUME Lives, Shape, [Next]_vars, Typed', NEW n \in Nodes, OnPath(n), Touch(n)
  PROVE  Shape'
<1>1. ASSUME NEW w \in Walks
      PROVE  /\ pos'[w] = pos[w] /\ (walk'[w] = "off" => walk[w] = "off")
             /\ walk'[w] \in {"success", "danger"} /\ DOMAIN Body[w] # {} =>
                  walk[w] \in {"success", "danger"}
  BY <1>1, OpenedEmpty DEF Touch
<1>2. ASSUME NEW w \in Walks, NEW i \in DOMAIN Body[w]
      PROVE  /\ Body[w][i] \in Nodes
             /\ walk'[w] = "off" \/ i > pos'[w] => Cold(Body[w][i])'
             /\ walk'[w] \in {"success", "danger"} \/ i < pos'[w] => Quiet(Body[w][i])'
  <2>1. Body[w][i] \in Nodes /\ i \in Nat /\ pos[w] \in Nat
    BY ShapeTypes
  <2>2. ASSUME Body[w][i] \in Above[n]
        PROVE  /\ ~(walk'[w] = "off" \/ i > pos'[w])
               /\ ~(walk'[w] \in {"success", "danger"} \/ i < pos'[w])
    <3>1. walk[w] = "on" /\ pos[w] = i
      BY <2>2 DEF OnPath
    <3> QED
      BY <1>1, <2>1, <3>1
  <2>3. CASE Body[w][i] \in Above[n]
    BY <2>1, <2>2, <2>3
  <2>4. CASE Body[w][i] \notin Above[n]
    <3>1. walk'[w] = "off" \/ i > pos'[w] => Cold(Body[w][i])
      BY <1>1 DEF Shape, InTurn
    <3>2. walk'[w] \in {"success", "danger"} \/ i < pos'[w] => Quiet(Body[w][i])
      BY <1>1 DEF Shape, InTurn
    <3> QED
      BY <2>1, <2>4, <3>1, <3>2, KeptAside
  <2> QED
    BY <2>3, <2>4
<1>3. InTurn'
  <2>1. \A w \in Walks : walk'[w] = "off" => pos'[w] = 1
    BY <1>1 DEF Shape, InTurn
  <2> QED
    BY <1>2, <2>1 DEF InTurn
<1>4. ASSUME NEW m \in Nodes, node'[m] = "todo" PROVE Cold(m)'
  <2>1. m # n /\ node[m] = "todo"
    BY <1>4 DEF Touch
  <2>2. Cold(m)
    BY <2>1 DEF Shape, Containers
  <2>3. m \notin Above[n]
    BY <2>1, <2>2 DEF OnPath
  <2> QED
    BY <2>2, <2>3, KeptAside
<1>5. ASSUME NEW m \in Nodes, m \notin Leaves
      PROVE  node'[m] \in {"todo", "in"} /\ tries'[m] = 0
  <2>1. node[m] \in {"todo", "in"} /\ tries[m] = 0 /\ Kind[m] # "job"
    BY <1>5 DEF Shape, Containers, Leaves
  <2> QED
    BY <1>5, <2>1 DEF Touch
<1>6. ASSUME NEW m \in Nodes, Kind[m] = "branch"
      PROVE  walk'[Pass[m]] = "off" \/ walk'[Fail[m]] = "off"
  <2>1. CASE m = n
    BY <1>6, <2>1 DEF Touch, Opens
  <2>2. CASE m # n
    <3>1. Pass[m] \in Opens(m) /\ Fail[m] \in Opens(m)
      BY <1>6 DEF Opens
    <3>2. \A v \in Opens(m) : v \in Walks /\ v \notin Opens(n)
      BY <2>2, ShapeTypes, PlacesAssumption
    <3>3. walk'[Pass[m]] = walk[Pass[m]] /\ walk'[Fail[m]] = walk[Fail[m]]
      BY <3>1, <3>2 DEF Touch
    <3> QED
      BY <1>6, <3>3 DEF Shape, Containers
  <2> QED
    BY <2>1, <2>2
<1>7. ASSUME NEW f \in Flows, drive'[f] \in {"none", "lookup"} PROVE walk'[f] = "off"
  <2>1. f \in Walks /\ f \notin Opens(n)
    BY GraphAssumption, PlacesAssumption
  <2>2. drive[f] \in {"none", "lookup"}
    BY <1>7, DriveSteps
  <2> QED
    BY <2>1, <2>2 DEF Touch, Shape, Unwalked
<1> QED
  BY <1>3, <1>4, <1>5, <1>6, <1>7 DEF Shape, Containers, Unwalked

LEMMA ColdIsQuiet ==
  ASSUME Shape, NEW p \in Nodes, Cold(p)
  PROVE  Quiet(p)
BY DEF Cold, Quiet

\* What is below a step is the step, or below what it contains.
LEMMA QuietParts ==
  ASSUME Shape, NEW p \in Nodes, \A q \in Nodes : Contains(p, q) => Quiet(q),
         node[p] \notin {"go", "wait", "backoff"}, \A v \in Opens(p) : walk[v] # "on",
         node[p] = "in" => \A a \in Elems(Arms[p]) : Started(a)
  PROVE  Quiet(p)
<1>1. ASSUME NEW m \in Sub(p), m # p
      PROVE  /\ node[m] \notin {"go", "wait", "backoff"}
             /\ \A v \in Opens(m) : walk[v] # "on"
             /\ node[m] = "in" => \A a \in Elems(Arms[m]) : Started(a)
  <2>0. m \in Nodes
    BY DEF Sub
  <2>1. PICK q \in Nodes : Contains(p, q) /\ m \in Sub(q)
    BY <1>1, <2>0, Tree
  <2>2. Quiet(q)
    BY <2>1
  <2> QED
    BY <2>1, <2>2 DEF Quiet
<1> QED
  BY <1>1 DEF Quiet

\* A walk that is over has left nothing going on, and neither has one not begun.
LEMMA QuietWalk ==
  ASSUME Shape, NEW w \in Walks, walk[w] # "on", NEW q \in Elems(Body[w])
  PROVE  Quiet(q)
<1>1. PICK i \in DOMAIN Body[w] : Body[w][i] = q
  BY DEF Elems
<1>2. walk[w] = "off" \/ walk[w] \in {"success", "danger"}
  BY ShapeTypes
<1>3. q \in Nodes
  BY <1>1, ShapeTypes
<1> QED
  BY <1>1, <1>2, <1>3, ColdIsQuiet DEF Shape, InTurn

\* A leaf or a sequence that has a result has nothing going on below it.
LEMMA ChainOver ==
  ASSUME Shape, NEW n \in Nodes, n \in Leaves \/ Kind[n] = "sequence",
         LeafOrSequence(n) # "pending"
  PROVE  Quiet(n) /\ Started(n)
<1>1. CASE n \in Leaves
  <2>1. Opens(n) = {} /\ Elems(Arms[n]) = {}
    <3>1. Kind[n] # "parallel" /\ Arms[n] = <<>>
      BY <1>1, GraphAssumption DEF Leaves
    <3> QED
      BY <1>1, <3>1 DEF Leaves, Opens, Elems
  <2>2. node[n] \in Verdicts
    BY <1>1 DEF LeafOrSequence
  <2>3. \A q \in Nodes : ~Contains(n, q)
    BY <2>1 DEF Contains
  <2>4. Quiet(n)
    BY <2>1, <2>2, <2>3, QuietParts DEF Verdicts
  <2> QED
    BY <2>2, <2>4 DEF Started, Verdicts
<1>2. CASE Kind[n] = "sequence"
  <2>1. Opens(n) = {n} /\ Elems(Arms[n]) = {} /\ n \notin Leaves
    <3>1. Arms[n] = <<>>
      BY <1>2, GraphAssumption
    <3> QED
      BY <1>2, <3>1 DEF Leaves, Opens, Elems
  <2>2. n \in Walks
    BY <2>1, ShapeTypes
  <2>3. walk[n] \in {"success", "danger"}
    BY <2>1, <2>2, ShapeTypes DEF LeafOrSequence, Verdicts
  <2>4. ASSUME NEW q \in Nodes, Contains(n, q) PROVE Quiet(q)
    <3>1. q \in Elems(Body[n])
      BY <2>1, <2>4 DEF Contains
    <3> QED
      BY <2>2, <2>3, <3>1, QuietWalk
  <2>5. node[n] \in {"todo", "in"}
    BY <2>1 DEF Shape, Containers
  <2>6. Quiet(n)
    BY <2>1, <2>3, <2>4, <2>5, QuietParts
  <2>7. node[n] # "todo"
    <3>1. ASSUME node[n] = "todo" PROVE walk[n] = "off"
      BY <2>1, <3>1, Tree DEF Shape, Containers, Cold
    <3> QED
      BY <2>3, <3>1
  <2> QED
    BY <2>6, <2>7 DEF Started
<1> QED
  BY <1>1, <1>2

\* So has any step.
LEMMA ResultQuiet ==
  ASSUME Shape, NEW n \in Nodes, Result(n) # "pending"
  PROVE  Quiet(n)
<1>0. Kind[n] \in {"job", "workflow", "sequence", "parallel", "branch"}
  <2>1. Kind \in [Nodes -> Kinds]
    BY GraphAssumption
  <2> QED
    BY <2>1 DEF Kinds
<1>1. CASE n \in Leaves \/ Kind[n] = "sequence"
  <2>1. Result(n) = LeafOrSequence(n)
    BY <1>1, Zenon DEF Result, Leaves
  <2> QED
    BY <1>1, <2>1, ChainOver
<1>2. CASE Kind[n] = "parallel"
  <2>1. n \notin Leaves /\ Opens(n) = {}
    BY <1>2 DEF Leaves, Opens
  <2>2. ASSUME NEW a \in Elems(Arms[n]) PROVE Quiet(a) /\ Started(a) /\ a \in Nodes
    <3>1. a \in Nodes /\ LeafOrSequence(a) # "pending"
      BY <1>2, <2>1, ShapeTypes DEF Result
    <3>2. Kind[a] \in {"job", "sequence"}
      BY <1>2, GraphAssumption DEF Validated
    <3> QED
      BY <3>1, <3>2, ChainOver DEF Leaves
  <2>3. \A q \in Nodes : Contains(n, q) => Quiet(q)
    BY <2>1, <2>2 DEF Contains
  <2>4. node[n] \in {"todo", "in"}
    BY <2>1 DEF Shape, Containers
  <2> QED
    BY <2>1, <2>2, <2>3, <2>4, QuietParts
<1>3. CASE Kind[n] = "branch"
  <2>1. n \notin Leaves /\ Opens(n) = {Pass[n], Fail[n]} /\ Kind[n] # "sequence"
    BY <1>3 DEF Leaves, Opens
  <2>2. Elems(Arms[n]) = {}
    <3>1. Arms[n] = <<>>
      BY <1>3, GraphAssumption
    <3> QED
      BY <3>1 DEF Elems
  <2>3. Opens(n) \subseteq Walks
    BY ShapeTypes
  <2>4. PICK w \in Opens(n) : walk[w] \in Verdicts
    BY <1>3, <2>1 DEF Result
  <2>5. walk[Pass[n]] = "off" \/ walk[Fail[n]] = "off"
    BY <1>3 DEF Shape, Containers
  <2>6. \A v \in Opens(n) : walk[v] # "on"
    BY <2>1, <2>4, <2>5 DEF Verdicts
  <2>7. ASSUME NEW q \in Nodes, Contains(n, q) PROVE Quiet(q)
    <3>1. PICK v \in Opens(n) : q \in Elems(Body[v])
      BY <2>2, <2>7 DEF Contains
    <3> QED
      BY <2>3, <2>6, <3>1, QuietWalk
  <2>8. node[n] \in {"todo", "in"}
    BY <2>1 DEF Shape, Containers
  <2> QED
    BY <2>2, <2>6, <2>7, <2>8, QuietParts
<1> QED
  BY <1>0, <1>1, <1>2, <1>3 DEF Leaves

-----------------------------------------------------------------------------
(* Each step keeps the shape. *)

\* A leaf that is tried.
LEMMA LeafTouches ==
  ASSUME Lives, Shape, NEW n \in Nodes, LeafStep(n)
  PROVE  Touch(n) /\ OnPath(n)
<1>1. node[n] \in {"go", "wait", "backoff"}
  BY DEF LeafStep, BackoffOver, DispatchJob, WaitForRun, RefuseChild, DispatchFlow, WaitForFlow
<1>2. n \in Leaves /\ Kind[n] # "branch"
  BY <1>1 DEF Shape, Containers, Leaves
<1>3. UNCHANGED walkVars
  BY DEF LeafStep, BackoffOver, DispatchJob, WaitForRun, RefuseChild, DispatchFlow, WaitForFlow
<1>4. \E v \in Verdicts \cup {"go", "wait", "backoff"} : node' = [node EXCEPT ![n] = v]
  <2>1. ASSUME NEW k, NEW verdict \in Verdicts, NEW refused, AttemptOver(n, k, verdict, refused)
        PROVE  \E v \in Verdicts \cup {"go", "wait", "backoff"} : node' = [node EXCEPT ![n] = v]
    BY <2>1 DEF AttemptOver
  <2>2. CASE BackoffOver(n)
    BY <2>2 DEF BackoffOver, Verdicts
  <2>3. CASE WaitForRun(n)
    <3>1. ASSUME row[n][tries[n]] \in Over PROVE VerdictOf(row[n][tries[n]]) \in Verdicts
      BY <3>1 DEF Over, VerdictOf, Verdicts
    <3> QED
      BY <2>1, <2>3, <3>1 DEF WaitForRun, Verdicts
  <2>4. CASE DispatchJob(n)
    BY <2>1, <2>4 DEF DispatchJob, Verdicts
  <2>5. CASE RefuseChild(n)
    BY <2>1, <2>5 DEF RefuseChild, Verdicts
  <2>6. CASE DispatchFlow(n)
    BY <2>1, <2>6 DEF DispatchFlow, Verdicts
  <2>7. CASE WaitForFlow(n)
    BY <2>1, <2>7 DEF WaitForFlow, Verdicts
  <2> QED
    BY <2>2, <2>3, <2>4, <2>5, <2>6, <2>7 DEF LeafStep
<1>5. tries' = tries \/ tries' = [tries EXCEPT ![n] = tries[n] + 1]
  BY DEF LeafStep, BackoffOver, DispatchJob, WaitForRun, RefuseChild, DispatchFlow, WaitForFlow
<1>6. /\ \A m \in Nodes : m # n => node'[m] = node[m] /\ tries'[m] = tries[m]
      /\ node'[n] # "todo"
  BY <1>4, <1>5, ShapeTypes DEF Verdicts
<1> QED
  BY <1>1, <1>2, <1>3, <1>6, BusyOnPath DEF Touch, walkVars

\* An arm that is started.
LEMMA ArmTouches ==
  ASSUME Lives, Shape, NEW p \in Nodes, StartArm(p)
  PROVE  \E n \in Nodes : Touch(n) /\ OnPath(n) /\ n \in Elems(Arms[p])
<1>1. PICK i \in DOMAIN Arms[p] :
        /\ ~Started(Arms[p][i])
        /\ node' = [node EXCEPT ![Arms[p][i]] = IF Arms[p][i] \in Leaves THEN "go" ELSE "in"]
        /\ walk' = IF Arms[p][i] \in Leaves THEN walk
                   ELSE [walk EXCEPT ![Arms[p][i]] = Opened(Arms[p][i])]
  BY DEF StartArm
<1> DEFINE n == Arms[p][i]
<1>2. node[p] = "in" /\ Kind[p] = "parallel" /\ tries' = tries /\ pos' = pos
  BY DEF StartArm
<1>3. n \in Nodes /\ OnPath(n)
  BY <1>1, <1>2, ArmOnPath
<1>4. n \in Elems(Arms[p])
  BY DEF Elems
<1>5. Kind[n] \in {"job", "sequence"}
  BY <1>2, <1>4, GraphAssumption DEF Validated
<1>6. /\ \A m \in Nodes : m # n => node'[m] = node[m]
      /\ node'[n] = IF n \in Leaves THEN "go" ELSE "in"
  BY <1>1, <1>3, ShapeTypes
<1>7. \A w \in Walks : \/ walk'[w] = walk[w]
                       \/ w \in Opens(n) /\ walk[w] = "off" /\ walk'[w] = Opened(w)
  <2>1. CASE n \in Leaves
    BY <1>1, <2>1
  <2>2. CASE n \notin Leaves
    <3>1. Opens(n) = {n} /\ n \in Walks
      BY <1>3, <1>5, <2>2, ShapeTypes DEF Leaves, Opens
    <3>2. walk[n] = "off"
      BY <1>1, <1>3, <3>1, Tree DEF Started, Shape, Containers, Cold
    <3> QED
      BY <1>1, <2>2, <3>1, <3>2, ShapeTypes
  <2> QED
    BY <2>1, <2>2
<1>8. Touch(n)
  BY <1>1, <1>2, <1>3, <1>5, <1>6, <1>7 DEF Touch, Started
<1> QED
  BY <1>3, <1>4, <1>8

\* What is within a walk that a container opens lies below the container.
LEMMA WithinBelow ==
  ASSUME NEW b \in Nodes, NEW w \in Opens(b), NEW m \in Nodes, Within(m, w)
  PROVE  m \in Sub(b)
<1>1. PICK q \in Elems(Body[w]) : q \in Above[m]
  BY DEF Within
<1>2. q \in Nodes /\ Contains(b, q)
  BY <1>1, Tree DEF Contains
<1>3. b \in Above[q]
  <2>1. Above[q] = {q} \cup UNION {Above[p] : p \in {r \in Nodes : Contains(r, q)}}
    BY <1>2, GraphAssumption
  <2>2. b \in Above[b]
    BY Tree
  <2> QED
    BY <1>2, <2>1, <2>2
<1>4. b \in Above[m]
  BY <1>1, <1>3, PlacesAssumption
<1> QED
  BY <1>4 DEF Sub

LEMMA SkippedBelow ==
  ASSUME NEW b \in Nodes, Kind[b] = "branch", NEW other \in Opens(b), NEW m \in SkippedBy[other]
  PROVE  m \in Nodes /\ m \in Sub(b) /\ m # b /\ Kind[m] = "job" /\ Within(m, other)
<1>1. other \in Walks
  BY GraphAssumption
<1>2. m \in Nodes /\ Kind[m] = "job" /\ Within(m, other)
  BY <1>1 DEF SkippedBy
<1> QED
  BY <1>2, WithinBelow

\* A branch takes an arm: what it skips lies below it.
LEMMA ArmTaken ==
  ASSUME Lives, Shape, NEW b \in Nodes, Kind[b] = "branch", node[b] = "todo",
         NEW arm, NEW other, arm # other, {arm, other} = {Pass[b], Fail[b]},
         TakeArm(b, arm, other), pos' = pos
  PROVE  Touch(b)
<1>1. Opens(b) = {arm, other} /\ arm \in Walks /\ other \in Walks /\ b \notin Leaves
  <2>1. Opens(b) = {arm, other} /\ b \notin Leaves
    BY DEF Opens, Leaves
  <2> QED
    BY <2>1, ShapeTypes
<1>2. walk[arm] = "off" /\ walk[other] = "off"
  <2>1. Cold(b) /\ b \in Sub(b)
    BY Tree DEF Shape, Containers
  <2> QED
    BY <1>1, <2>1 DEF Cold
<1>3. walk'[arm] = Opened(arm) /\ \A w \in Walks : w # arm => walk'[w] = walk[w]
  BY <1>1, ShapeTypes DEF TakeArm
<1>4. \A m \in SkippedBy[other] : m \in Nodes /\ m \in Sub(b) /\ Kind[m] = "job"
  <2>1. other \in Opens(b)
    BY <1>1
  <2> QED
    BY <2>1, SkippedBelow
<1>5. walk'[other] = "off"
  BY <1>1, <1>2, <1>3
<1>6. \A m \in Nodes : m # b =>
        /\ tries'[m] = tries[m]
        /\ \/ node'[m] = node[m]
           \/ Skips(b, m) /\ m \in Sub(b) /\ Kind[m] = "job" /\ node[m] = "todo" /\ node'[m] = "skipped"
  <2>1. \A m \in Sub(b) : node[m] \in {"todo", "skipped"}
    BY DEF Shape, Containers, Cold
  <2> QED
    BY <1>1, <1>4, <1>5, <2>1 DEF TakeArm, Skips
<1>7. node'[b] = "in" /\ tries' = tries
  BY DEF TakeArm
<1>8. walk'[arm] # "off"
  BY <1>1, <1>3, OpenedEmpty
<1>9. \A m \in SkippedBy[other] : row'[m][1] = "skipped"
  <2>1. row \in [Nodes -> [Attempts -> {"none"} \cup Live \cup Over]] /\ 1 \in Attempts
    BY ConstantsAssumption DEF Lives, Typed, TypeOK, Attempts
  <2>2. ASSUME NEW m \in SkippedBy[other] PROVE row'[m][1] = "skipped"
    <3>1. m \in Nodes
      BY <1>4
    <3>2. row'[m] = [row[m] EXCEPT ![1] = "skipped"]
      BY <3>1 DEF TakeArm
    <3>3. DOMAIN row[m] = Attempts
      BY <2>1, <3>1
    <3> QED
      BY <2>1, <3>2, <3>3
  <2> QED
    BY <2>2
<1> QED
  BY <1>1, <1>2, <1>3, <1>6, <1>7, <1>5, <1>8, <1>9 DEF Touch

\* A step that a walk enters.
LEMMA EntryTouches ==
  ASSUME Lives, Shape, NEW w \in Walks, NextStep(w), ~Halted(FlowOf[w])
  PROVE  \E n \in Nodes : Touch(n) /\ OnPath(n) /\ n \in Elems(Body[w])
<1> DEFINE n == Current(w)
<1>1. n \in Nodes /\ OnPath(n) /\ n \in Elems(Body[w])
  BY EnteredOnPath DEF NextStep, Current, Elems
<1>2. node[n] = "todo" /\ EnterStep(n) /\ pos' = pos
  BY DEF NextStep
<1>3. CASE n \in Leaves /\ node' = [node EXCEPT ![n] = "go"] /\ UNCHANGED <<walk, row, tries>>
  <2>1. /\ \A m \in Nodes : m # n => node'[m] = node[m]
        /\ node'[n] = "go"
    BY <1>1, <1>3, ShapeTypes
  <2>2. Kind[n] # "branch"
    BY <1>3 DEF Leaves
  <2> QED
    BY <1>1, <1>2, <1>3, <2>1, <2>2 DEF Touch
<1>4. CASE /\ Kind[n] = "sequence" /\ node' = [node EXCEPT ![n] = "in"]
           /\ walk' = [walk EXCEPT ![n] = Opened(n)] /\ UNCHANGED <<row, tries>>
  <2>1. /\ \A m \in Nodes : m # n => node'[m] = node[m]
        /\ node'[n] = "in"
    BY <1>1, <1>4, ShapeTypes
  <2>2. Opens(n) = {n} /\ n \in Walks
    BY <1>1, <1>4, ShapeTypes DEF Opens
  <2>3. walk[n] = "off"
    BY <1>1, <1>2, <2>2, Tree DEF Shape, Containers, Cold
  <2>4. walk'[n] = Opened(n) /\ \A v \in Walks : v # n => walk'[v] = walk[v]
    BY <1>4, <2>2, ShapeTypes
  <2> QED
    BY <1>1, <1>2, <1>4, <2>1, <2>2, <2>3, <2>4 DEF Touch
<1>5. CASE /\ Kind[n] = "parallel" /\ node' = [node EXCEPT ![n] = "in"]
           /\ UNCHANGED <<walk, row, tries>>
  <2>1. /\ \A m \in Nodes : m # n => node'[m] = node[m]
        /\ node'[n] = "in"
    BY <1>1, <1>5, ShapeTypes
  <2> QED
    BY <1>1, <1>2, <1>5, <2>1 DEF Touch
<1>6. CASE /\ Kind[n] = "branch"
           /\ TakeArm(n, Pass[n], Fail[n]) \/ TakeArm(n, Fail[n], Pass[n])
  <2>1. Pass[n] # Fail[n]
    BY <1>1, <1>6, GraphAssumption DEF Validated
  <2>2. Touch(n)
    BY <1>1, <1>2, <1>6, <2>1, ArmTaken
  <2> QED
    BY <1>1, <2>2
<1> QED
  BY <1>2, <1>3, <1>4, <1>5, <1>6 DEF EnterStep

\* A walk that halts before a step, or leaves one that is over.
LEMMA WalkEndsShape ==
  ASSUME Lives, Shape, [Next]_vars, Typed', NEW w \in Walks,
         \/ NextStep(w) /\ Halted(FlowOf[w])
         \/ StepOver(w)
  PROVE  Shape'
<1>1. /\ walk[w] = "on" /\ UNCHANGED <<node, tries, drive>>
      /\ \/ walk' = [walk EXCEPT ![w] = "danger"] /\ pos' = pos
         \/ walk' = [walk EXCEPT ![w] = "success"] /\ pos' = pos /\ pos[w] = Len(Body[w])
         \/ walk' = walk /\ pos' = [pos EXCEPT ![w] = @ + 1]
  BY DEF NextStep, StepOver, stepVars
<1>2. Quiet(Current(w))
  <2>1. CASE StepOver(w)
    <3>1. Current(w) \in Nodes
      BY <2>1, AtStep DEF Shape, StepOver
    <3> QED
      BY <2>1, <3>1, ResultQuiet DEF StepOver
  <2>2. CASE NextStep(w)
    <3>1. Current(w) \in Nodes /\ node[Current(w)] = "todo"
      BY <2>2, AtStep DEF Shape, NextStep
    <3> QED
      BY <3>1, ColdIsQuiet DEF Shape, Containers
  <2> QED
    BY <2>1, <2>2
<1>3. /\ pos[w] \in DOMAIN Body[w] /\ Body[w][pos[w]] = Current(w) /\ Body[w] \in Seq(Nodes)
  BY <1>1, AtStep DEF Shape, Current
<1>4. /\ \A v \in Walks : v # w => walk'[v] = walk[v] /\ pos'[v] = pos[v]
      /\ walk'[w] # "off"
      /\ \/ walk'[w] = "danger" /\ pos'[w] = pos[w]
         \/ walk'[w] = "success" /\ pos'[w] = pos[w] /\ pos[w] = Len(Body[w])
         \/ walk'[w] = "on" /\ pos'[w] = pos[w] + 1
  BY <1>1, ShapeTypes
<1>5. \A v \in Walks : walk'[v] = "off" <=> walk[v] = "off"
  BY <1>1, <1>4
<1>6. ASSUME NEW p \in Nodes PROVE (Cold(p) => Cold(p)') /\ (Quiet(p) => Quiet(p)')
  <2>1. \A m \in Sub(p) : Opens(m) \subseteq Walks
    BY ShapeTypes DEF Sub
  <2>2. \A v \in Walks : walk'[v] = "on" => walk[v] = "on"
    BY <1>1, <1>4
  <2> QED
    BY <1>1, <1>5, <2>1, <2>2 DEF Cold, Quiet, Started
<1>7. ASSUME NEW i \in DOMAIN Body[w]
      PROVE  /\ i > pos'[w] => Cold(Body[w][i])
             /\ walk'[w] \in {"success", "danger"} \/ i < pos'[w] => Quiet(Body[w][i])
  <2>1. i \in Nat /\ pos[w] \in Nat /\ Body[w][i] \in Nodes /\ i <= Len(Body[w])
    BY <1>3, ShapeTypes
  <2>2. i > pos[w] => Cold(Body[w][i]) /\ Quiet(Body[w][i])
    BY <2>1, ColdIsQuiet DEF Shape, InTurn
  <2>3. i < pos[w] => Quiet(Body[w][i])
    BY DEF Shape, InTurn
  <2>4. i = pos[w] => Quiet(Body[w][i])
    BY <1>2, <1>3
  <2> QED
    BY <1>4, <2>1, <2>2, <2>3, <2>4
<1>8. ASSUME NEW v \in Walks, NEW i \in DOMAIN Body[v]
      PROVE  /\ walk'[v] = "off" \/ i > pos'[v] => Cold(Body[v][i])'
             /\ walk'[v] \in {"success", "danger"} \/ i < pos'[v] => Quiet(Body[v][i])'
  <2>1. Body[v][i] \in Nodes
    BY ShapeTypes
  <2>2. /\ walk'[v] = "off" \/ i > pos'[v] => Cold(Body[v][i])
        /\ walk'[v] \in {"success", "danger"} \/ i < pos'[v] => Quiet(Body[v][i])
    <3>1. CASE v = w
      BY <1>4, <1>7, <3>1
    <3>2. CASE v # w
      BY <1>4, <3>2 DEF Shape, InTurn
    <3> QED
      BY <3>1, <3>2
  <2> QED
    BY <1>6, <2>1, <2>2
<1>9. InTurn'
  <2>1. \A v \in Walks : walk'[v] = "off" => pos'[v] = 1
    BY <1>4, <1>5 DEF Shape, InTurn
  <2> QED
    BY <1>8, <2>1 DEF InTurn
<1>10. Containers'
  <2>1. \A n \in Nodes : Kind[n] = "branch" => Pass[n] \in Walks /\ Fail[n] \in Walks
    BY ShapeTypes DEF Opens
  <2> QED
    BY <1>1, <1>5, <1>6, <2>1 DEF Shape, Containers
<1>11. Unwalked'
  <2>1. Flows \subseteq Walks
    BY GraphAssumption
  <2> QED
    BY <1>1, <1>5, <2>1 DEF Shape, Unwalked
<1> QED
  BY <1>9, <1>10, <1>11 DEF Shape

\* A flow's own list is opened by its goroutine and by no step.
LEMMA StartShape ==
  ASSUME Lives, Shape, [Next]_vars, Typed', NEW f \in Flows, Start(f)
  PROVE  Shape'
<1>1. /\ f \in Walks /\ drive[f] = "lookup" /\ UNCHANGED <<node, tries, pos>>
      /\ walk' = [walk EXCEPT ![f] = Opened(f)] /\ drive' = [drive EXCEPT ![f] = "walk"]
  BY GraphAssumption DEF Start, stepVars
<1>2. walk[f] = "off" /\ pos[f] = 1
  BY <1>1 DEF Shape, Unwalked, InTurn
<1>3. walk'[f] = Opened(f) /\ \A v \in Walks : v # f => walk'[v] = walk[v]
  BY <1>1, ShapeTypes
<1>4. ASSUME NEW m \in Nodes, NEW v \in Opens(m) PROVE walk'[v] = walk[v]
  BY <1>3, ShapeTypes, PlacesAssumption
<1>5. ASSUME NEW p \in Nodes PROVE (Cold(p) => Cold(p)') /\ (Quiet(p) => Quiet(p)')
  BY <1>1, <1>4 DEF Cold, Quiet, Started, Sub
<1>6. ASSUME NEW v \in Walks, NEW i \in DOMAIN Body[v]
      PROVE  /\ walk'[v] = "off" \/ i > pos'[v] => Cold(Body[v][i])'
             /\ walk'[v] \in {"success", "danger"} \/ i < pos'[v] => Quiet(Body[v][i])'
  <2>1. Body[v][i] \in Nodes /\ i \in DOMAIN Body[v] /\ i \in Nat /\ i >= 1
    <3>1. Body[v] \in Seq(Nodes)
      BY ShapeTypes
    <3> QED
      BY <3>1, ShapeTypes
  <2>2. /\ walk'[v] = "off" \/ i > pos'[v] => Cold(Body[v][i])
        /\ walk'[v] \in {"success", "danger"} \/ i < pos'[v] => Quiet(Body[v][i])
    <3>1. CASE v = f
      <4>1. Cold(Body[v][i])
        BY <1>2, <3>1 DEF Shape, InTurn
      <4>2. walk'[f] = "on"
        BY <1>3, <3>1, OpenedEmpty
      <4> QED
        BY <1>1, <1>2, <2>1, <3>1, <4>1, <4>2
    <3>2. CASE v # f
      BY <1>1, <1>3, <3>2 DEF Shape, InTurn
    <3> QED
      BY <3>1, <3>2
  <2> QED
    BY <1>5, <2>1, <2>2
<1>7. InTurn'
  <2>1. walk'[f] # "off"
    BY <1>1, <1>3, OpenedEmpty
  <2>2. \A v \in Walks : walk'[v] = "off" => pos'[v] = 1
    BY <1>1, <1>3, <2>1 DEF Shape, InTurn
  <2> QED
    BY <1>6, <2>2 DEF InTurn
<1>8. Containers'
  <2>1. \A n \in Nodes : Kind[n] = "branch" =>
          walk'[Pass[n]] = walk[Pass[n]] /\ walk'[Fail[n]] = walk[Fail[n]]
    BY <1>4 DEF Opens
  <2> QED
    BY <1>1, <1>5, <2>1 DEF Shape, Containers
<1>9. Unwalked'
  <2>1. drive \in [Flows -> {"none", "lookup", "walk", "report", "gone"}] /\ Flows \subseteq Walks
    BY GraphAssumption DEF Lives, Typed, TypeOK
  <2> QED
    BY <1>1, <1>3, <2>1 DEF Shape, Unwalked
<1> QED
  BY <1>7, <1>8, <1>9 DEF Shape

LEMMA KeptShape ==
  ASSUME Lives, Shape, [Next]_vars, Typed', UNCHANGED <<node, tries, walk, pos>>
  PROVE  Shape'
<1>1. ASSUME NEW p PROVE Cold(p)' = Cold(p) /\ Quiet(p)' = Quiet(p)
  BY DEF Cold, Quiet, Started
<1>2. InTurn' /\ Containers'
  BY <1>1 DEF Shape, InTurn, Containers
<1>3. Unwalked'
  BY DriveSteps DEF Shape, Unwalked
<1> QED
  BY <1>2, <1>3 DEF Shape

\* The other steps change neither steps nor walks.
LEMMA AsideKeep ==
  ASSUME \/ UNCHANGED vars \/ Trigger \/ ServerStep
         \/ \E f \in Flows : Finish(f) \/ Report(f)
         \/ \E n \in Nodes, k \in Attempts : Claim(n, k) \/ RunEnds(n, k)
  PROVE  UNCHANGED <<node, tries, walk, pos>>
<1>1. UNCHANGED vars => UNCHANGED <<node, tries, walk, pos>>
  BY DEF vars, walkVars, stepVars
<1>2. ServerStep => UNCHANGED <<node, tries, walk, pos>>
  BY DEF ServerStep, CancelFlag, CancelSkip, CancelStop, CancelList, ReapRead, ReapEmit,
     ReapRuns, Crash, Boot, SweepRead, SweepDone, CancelAsk, Age, ReapFlow, walkVars, stepVars
<1>3. ASSUME NEW f \in Flows, Finish(f) \/ Report(f) PROVE UNCHANGED <<node, tries, walk, pos>>
  BY <1>3 DEF Finish, Report, walkVars, stepVars
<1>4. ASSUME NEW n \in Nodes, NEW k \in Attempts, Claim(n, k) \/ RunEnds(n, k)
      PROVE  UNCHANGED <<node, tries, walk, pos>>
  BY <1>4 DEF Claim, RunEnds, walkVars
<1>5. Trigger => UNCHANGED <<node, tries, walk, pos>>
  BY DEF Trigger, walkVars, stepVars
<1> QED
  BY <1>1, <1>2, <1>3, <1>4, <1>5

LEMMA ShapeStep ==
  ASSUME Lives, Shape, [Next]_vars, Typed'
  PROVE  Shape'
<1>1. ASSUME NEW w \in Walks, NextStep(w) PROVE Shape'
  BY <1>1, EntryTouches, WalkEndsShape, TouchShape
<1>2. ASSUME NEW n \in Nodes, StartArm(n) \/ LeafStep(n) PROVE Shape'
  BY <1>2, ArmTouches, LeafTouches, TouchShape
<1> QED
  BY <1>1, <1>2, AsideKeep, KeptShape, StartShape, WalkEndsShape, StepCases

LEMMA InitShape ==
  ASSUME Init, Typed PROVE Shape
<1>1. /\ \A n \in Nodes : node[n] = "todo" /\ tries[n] = 0 /\ Opens(n) \subseteq Walks
      /\ \A w \in Walks : walk[w] = "off" /\ pos[w] = 1
  BY GraphAssumption DEF Init
<1>2. \A p \in Nodes : Cold(p)
  BY <1>1 DEF Cold, Sub
<1>3. \A w \in Walks : \A i \in DOMAIN Body[w] :
        Body[w][i] \in Nodes /\ i \in Nat /\ i >= 1
  <2>1. \A w \in Walks : Body[w] \in Seq(Nodes)
    BY GraphAssumption
  <2> QED
    BY <2>1
<1>4. InTurn
  BY <1>1, <1>2, <1>3 DEF InTurn
<1>5. Containers
  <2>1. \A n \in Nodes : Kind[n] = "branch" => Pass[n] \in Walks
    BY <1>1 DEF Opens
  <2> QED
    BY <1>1, <1>2, <2>1 DEF Containers
<1>6. Unwalked
  <2>1. Flows \subseteq Walks
    BY GraphAssumption
  <2> QED
    BY <1>1, <2>1 DEF Unwalked
<1> QED
  BY <1>4, <1>5, <1>6 DEF Shape

LEMMA AlwaysShape == Spec => []Shape
<1>1. Init => Shape
  BY InitShape, TypeInit
<1>2. Lives /\ Typed' /\ Shape /\ [Next]_vars => Shape'
  BY ShapeStep
<1> QED
  BY <1>1, <1>2, AlwaysLives, AlwaysTyped, PTL DEF Spec

-----------------------------------------------------------------------------
(* Rows. *)

NoFault == ~May("timeout") /\ ~May("dbError")

\* A live run is that of the attempt under way, or one a stopped walk has left.
RowsInTurn ==
  \A n \in Nodes : \A k \in Attempts :
    /\ k > tries[n] => row[n][k] \in {"none", "skipped"}
    /\ Kind[n] = "job" /\ k > tries[n] /\ row[n][k] = "skipped" => node[n] = "skipped"
    /\ row[n][k] \in Live => Kind[n] = "job"
    /\ NoFault /\ row[n][k] \in Live =>
         k = tries[n] /\ (node[n] = "wait" \/ (stop[FlowOf[n]] /\ node[n] \notin {"go", "backoff"}))

ArmsBound == \A p \in Nodes : Cardinality(InFlight(p)) <= scn.width

\* What a step does to steps and walks.
LEMMA MoveCases ==
  ASSUME Lives, Shape, [Next]_vars
  PROVE  \/ \E n \in Nodes :
               /\ Touch(n) /\ OnPath(n)
               /\ \/ LeafStep(n)
                  \/ \E w \in Walks : n \in Elems(Body[w])
                  \/ \E p \in Nodes : StartArm(p) /\ n \in Elems(Arms[p])
         \/ /\ UNCHANGED <<node, tries>>
            /\ \A w \in Walks : \/ walk'[w] = walk[w] \/ walk[w] = "on"
                                \/ w \in Flows /\ walk[w] = "off" /\ walk'[w] = Opened(w)
<1>1. ASSUME NEW w \in Walks, (NextStep(w) /\ Halted(FlowOf[w])) \/ StepOver(w)
      PROVE  /\ UNCHANGED <<node, tries>>
             /\ \A v \in Walks : walk'[v] = walk[v] \/ walk[v] = "on"
  <2>1. /\ walk[w] = "on" /\ UNCHANGED <<node, tries>>
        /\ walk' = walk \/ \E r : walk' = [walk EXCEPT ![w] = r]
    BY <1>1 DEF NextStep, StepOver, stepVars
  <2> QED
    BY <2>1, ShapeTypes
<1>2. ASSUME NEW f \in Flows, Start(f)
      PROVE  /\ UNCHANGED <<node, tries>>
             /\ \A w \in Walks : walk'[w] = walk[w] \/ (w = f /\ walk[w] = "off" /\ walk'[w] = Opened(w))
  <2>1. f \in Walks /\ walk' = [walk EXCEPT ![f] = Opened(f)] /\ UNCHANGED <<node, tries>>
    BY <1>2, GraphAssumption DEF Start, stepVars
  <2>2. walk[f] = "off"
    BY <1>2 DEF Start, Shape, Unwalked
  <2> QED
    BY <2>1, <2>2, ShapeTypes
<1>3. ASSUME NEW w \in Walks, NextStep(w), ~Halted(FlowOf[w])
      PROVE  \E n \in Nodes : Touch(n) /\ OnPath(n) /\ \E v \in Walks : n \in Elems(Body[v])
  BY <1>3, EntryTouches
<1>4. ASSUME NEW n \in Nodes, StartArm(n) \/ LeafStep(n)
      PROVE  \E m \in Nodes :
               /\ Touch(m) /\ OnPath(m)
               /\ LeafStep(m) \/ \E p \in Nodes : StartArm(p) /\ m \in Elems(Arms[p])
  BY <1>4, ArmTouches, LeafTouches
<1>5. ASSUME \/ UNCHANGED vars \/ Trigger \/ ServerStep
             \/ \E f \in Flows : Finish(f) \/ Report(f)
             \/ \E n \in Nodes, k \in Attempts : Claim(n, k) \/ RunEnds(n, k)
      PROVE  UNCHANGED <<node, tries, walk, pos>>
  BY <1>5, AsideKeep
<1> QED
  BY <1>1, <1>2, <1>3, <1>4, <1>5, StepCases

\* What a step does to a row.
LEMMA RowSteps ==
  ASSUME Lives, Flagged, Shape, [Next]_vars, NEW n \in Nodes, NEW k \in Attempts
  PROVE  \/ row'[n][k] = row[n][k]
         \/ row'[n][k] = "skipped" /\ row[n][k] = "queued" /\ cancelled[FlowOf[n]]
         \/ row'[n][k] = "skipped" /\ Kind[n] = "workflow"
         \/ /\ row'[n][k] = "skipped" /\ k = 1 /\ tries[n] = 0
            /\ node[n] \in {"todo", "skipped"} /\ node'[n] = "skipped"
         \/ row[n][k] \in Live /\ row'[n][k] \in {"success", "failure"}
         \/ row[n][k] = "queued" /\ row'[n][k] = "running"
         \/ /\ DispatchJob(n) /\ k = tries[n] + 1 /\ ~stop[FlowOf[n]]
            /\ row'[n][k] \in {"queued", "refused"}
<1>1. row \in [Nodes -> [Attempts -> {"none"} \cup Live \cup Over]]
  BY DEF Lives, Typed, TypeOK
<1>2. CASE UNCHANGED row
  BY <1>2
<1>3. ASSUME NEW w \in Walks, NextStep(w), row' # row
      PROVE  \/ row'[n][k] = row[n][k]
             \/ /\ row'[n][k] = "skipped" /\ k = 1 /\ tries[n] = 0
                /\ node[n] \in {"todo", "skipped"} /\ node'[n] = "skipped"
  <2> DEFINE b == Current(w)
  <2>1. node[b] = "todo" /\ Kind[b] = "branch"
        /\ (TakeArm(b, Pass[b], Fail[b]) \/ TakeArm(b, Fail[b], Pass[b]))
    BY <1>3 DEF NextStep, EnterStep, stepVars
  <2>2. b \in Nodes /\ Pass[b] \in Opens(b) /\ Fail[b] \in Opens(b)
    BY <1>3, <2>1, AtStep DEF Shape, NextStep, Opens
  <2>3. PICK other \in Opens(b) : \E arm : TakeArm(b, arm, other)
    BY <2>1, <2>2
  <2>4. row'[n] = IF n \in SkippedBy[other] THEN [row[n] EXCEPT ![1] = "skipped"] ELSE row[n]
    BY <2>3 DEF TakeArm
  <2>5. CASE n \notin SkippedBy[other]
    BY <2>4, <2>5
  <2>6. CASE n \in SkippedBy[other]
    <3>1. n \in Sub(b) /\ n # b
      BY <2>1, <2>2, <2>3, <2>6, SkippedBelow
    <3>2. node[n] \in {"todo", "skipped"} /\ tries[n] = 0
      BY <2>1, <2>2, <3>1 DEF Shape, Containers, Cold
    <3>3. node'[n] = "skipped"
      BY <2>3, <2>6, <3>1 DEF TakeArm, Sub
    <3> QED
      BY <1>1, <2>4, <2>6, <3>2, <3>3
  <2> QED
    BY <2>5, <2>6
<1>4. CASE DispatchJob(n)
  <2>1. CASE row' = row
    BY <1>2, <2>1
  <2>2. CASE row' # row
    <3>1. /\ ~stop[FlowOf[n]]
          /\ \E s \in {"queued", "refused"} : row' = [row EXCEPT ![n][tries[n] + 1] = s]
      BY <1>4, <2>2 DEF DispatchJob
    <3>2. PICK s \in {"queued", "refused"} :
            row' = [row EXCEPT ![n] = [@ EXCEPT ![tries[n] + 1] = s]]
      BY <3>1
    <3>3. row'[n] = [row[n] EXCEPT ![tries[n] + 1] = s]
      BY <1>1, <3>2
    <3>4. k = tries[n] + 1 => row'[n][k] = s
      BY <1>1, <3>3
    <3>5. k # tries[n] + 1 => row'[n][k] = row[n][k]
      BY <1>1, <3>3
    <3> QED
      BY <1>4, <3>1, <3>4, <3>5
  <2> QED
    BY <2>1, <2>2
<1>5. ASSUME NEW m \in Nodes, m # n, DispatchJob(m) \/ RefuseChild(m)
      PROVE  row'[n][k] = row[n][k]
  <2>1. row' = row \/ \E r : row' = [row EXCEPT ![m] = r]
    BY <1>5 DEF DispatchJob, RefuseChild
  <2> QED
    BY <1>1, <1>5, <2>1
<1>6. ASSUME RefuseChild(n)
      PROVE  row'[n][k] = row[n][k] \/ (row'[n][k] = "skipped" /\ Kind[n] = "workflow")
  <2>1. CASE row' = row
    BY <2>1
  <2>2. CASE row' # row
    <3>1. row' = [row EXCEPT ![n] = [@ EXCEPT ![1] = "skipped"]] /\ Kind[n] = "workflow"
      BY <1>6, <2>2 DEF RefuseChild
    <3>2. row'[n] = [row[n] EXCEPT ![1] = "skipped"]
      BY <1>1, <3>1
    <3> QED
      BY <1>1, <3>1, <3>2
  <2> QED
    BY <2>1, <2>2
<1>7. ASSUME NEW m \in Nodes, NEW j \in Attempts, Claim(m, j) \/ RunEnds(m, j)
      PROVE  \/ row'[n][k] = row[n][k]
             \/ row[n][k] \in Live /\ row'[n][k] \in {"success", "failure"}
             \/ row[n][k] = "queued" /\ row'[n][k] = "running"
  <2>1. PICK s : /\ row' = [row EXCEPT ![m] = [@ EXCEPT ![j] = s]]
                 /\ \/ row[m][j] = "queued" /\ s = "running"
                    \/ row[m][j] = "running" /\ s \in {"success", "failure"}
    BY <1>7 DEF Claim, RunEnds
  <2>2. CASE m = n /\ j = k
    <3>1. row'[n][k] = s
      BY <1>1, <2>1, <2>2
    <3> QED
      BY <2>1, <2>2, <3>1 DEF Live
  <2>3. CASE m = n /\ j # k
    <3>1. row'[n] = [row[n] EXCEPT ![j] = s]
      BY <1>1, <2>1, <2>3
    <3> QED
      BY <1>1, <2>3, <3>1
  <2>4. CASE m # n
    BY <1>1, <2>1, <2>4
  <2> QED
    BY <2>2, <2>3, <2>4
<1>8. CASE CancelSkip
  <2>1. CASE row' = row
    BY <2>1
  <2>2. CASE row' # row
    <3>1. /\ row'[n] = IF n \in Jobs[cflow]
                       THEN [i \in Attempts |-> IF row[n][i] = "queued" THEN "skipped" ELSE row[n][i]]
                       ELSE row[n]
          /\ cpc = "skip"
      BY <1>8, <2>2 DEF CancelSkip
    <3>2. cflow \in Flows /\ cancelled[cflow]
      BY <3>1 DEF Flagged
    <3>3. n \in Jobs[cflow] => FlowOf[n] = cflow
      BY <3>2 DEF Jobs, NodesOf
    <3> QED
      BY <3>1, <3>2, <3>3
  <2> QED
    BY <2>1, <2>2
<1>9. CASE ReapRuns
  <2>1. row'[n] = IF n \in Jobs[rflow]
                  THEN [i \in Attempts |-> IF row[n][i] \in Live THEN "failure" ELSE row[n][i]]
                  ELSE row[n]
    BY <1>9 DEF ReapRuns
  <2> QED
    BY <2>1
<1>10. ASSUME \/ UNCHANGED vars \/ Trigger \/ (ServerStep /\ ~CancelSkip /\ ~ReapRuns)
              \/ \E f \in Flows : Start(f) \/ Finish(f) \/ Report(f)
              \/ \E w \in Walks : StepOver(w)
              \/ \E m \in Nodes : StartArm(m) \/ (LeafStep(m) /\ ~DispatchJob(m) /\ ~RefuseChild(m))
       PROVE  UNCHANGED row
  BY <1>10 DEF vars, Trigger, ServerStep, Start, Finish, Report, StepOver, StartArm, LeafStep,
     BackoffOver, WaitForRun, DispatchFlow, WaitForFlow, CancelFlag, CancelStop, CancelList,
     ReapRead, ReapEmit, Crash, Boot, SweepRead, SweepDone, CancelAsk, Age, ReapFlow, stepVars
<1> QED
  BY <1>2, <1>3, <1>4, <1>5, <1>6, <1>7, <1>8, <1>9, <1>10, StepCases

LEMMA ScenarioKept ==
  ASSUME [Next]_vars PROVE scn' = scn
<1>1. ServerStep => scn' = scn
  BY DEF ServerStep, CancelFlag, CancelSkip, CancelStop, CancelList, ReapRead, ReapEmit,
     ReapRuns, Crash, Boot, SweepRead, SweepDone, CancelAsk, Age, ReapFlow, serverVars
<1> QED
  BY <1>1, Bystanders DEF serverVars

\* Only the dispatch of a step counts an attempt.
LEMMA TriesSteps ==
  ASSUME Lives, Shape, [Next]_vars, NEW n \in Nodes
  PROVE  \/ tries'[n] = tries[n]
         \/ LeafStep(n) /\ node[n] = "go" /\ tries'[n] = tries[n] + 1
<1>1. ASSUME Touch(n), LeafStep(n)
      PROVE  tries'[n] = tries[n] \/ (node[n] = "go" /\ tries'[n] = tries[n] + 1)
  <2>1. tries' = tries \/ (node[n] = "go" /\ tries' = [tries EXCEPT ![n] = tries[n] + 1])
    BY <1>1 DEF LeafStep, BackoffOver, DispatchJob, WaitForRun, RefuseChild, DispatchFlow, WaitForFlow
  <2> QED
    BY <2>1, ShapeTypes
<1> QED
  BY <1>1, MoveCases DEF Touch

\* A step that is over, or a live one that is not tried, goes back to no start.
LEMMA NodeStays ==
  ASSUME Lives, Shape, [Next]_vars, NEW n \in Nodes,
         node[n] \notin {"todo", "go", "wait", "backoff"} \/ (node[n] # "todo" /\ ~LeafStep(n))
  PROVE  node'[n] = node[n]
<1>1. LeafStep(n) => node[n] \in {"go", "wait", "backoff"}
  BY DEF LeafStep, BackoffOver, DispatchJob, WaitForRun, RefuseChild, DispatchFlow, WaitForFlow
<1> QED
  BY <1>1, MoveCases DEF Touch

LEMMA RowsStep ==
  ASSUME Lives, Flagged, Shape, RowsInTurn, [Next]_vars
  PROVE  RowsInTurn'
<1> SUFFICES ASSUME NEW n \in Nodes, NEW k \in Attempts
             PROVE  /\ k > tries'[n] => row'[n][k] \in {"none", "skipped"}
                    /\ Kind[n] = "job" /\ k > tries'[n] /\ row'[n][k] = "skipped" => node'[n] = "skipped"
                    /\ row'[n][k] \in Live => Kind[n] = "job"
                    /\ NoFault' /\ row'[n][k] \in Live =>
                         /\ k = tries'[n]
                         /\ \/ node'[n] = "wait"
                            \/ stop'[FlowOf[n]] /\ node'[n] \notin {"go", "backoff"}
  BY DEF RowsInTurn
<1>1. /\ k > tries[n] => row[n][k] \in {"none", "skipped"}
      /\ Kind[n] = "job" /\ k > tries[n] /\ row[n][k] = "skipped" => node[n] = "skipped"
      /\ row[n][k] \in Live => Kind[n] = "job"
      /\ NoFault /\ row[n][k] \in Live =>
           k = tries[n] /\ (node[n] = "wait" \/ (stop[FlowOf[n]] /\ node[n] \notin {"go", "backoff"}))
  BY DEF RowsInTurn
<1>2. tries[n] \in Nat /\ tries'[n] \in {tries[n], tries[n] + 1} /\ k \in Nat /\ k >= 1
      /\ FlowOf[n] \in Flows
  BY TriesSteps, ShapeTypes, GraphAssumption DEF Attempts
<1>3. NoFault' = NoFault
  BY ScenarioKept DEF NoFault, May
<1>4. DispatchJob(n) => tries'[n] = tries[n] + 1 /\ Kind[n] = "job"
  BY ShapeTypes DEF DispatchJob
<1>5. k > tries'[n] => row'[n][k] \in {"none", "skipped"}
  BY <1>1, <1>2, <1>4, RowSteps DEF Live
<1>6. ASSUME Kind[n] = "job", k > tries'[n], row'[n][k] = "skipped" PROVE node'[n] = "skipped"
  <2>1. (k > tries[n] /\ ~DispatchJob(n)) \/ k # tries[n] + 1
    BY <1>2, <1>4, <1>6
  <2>2. row[n][k] = "skipped" => node'[n] = "skipped"
    BY <1>1, <1>2, <1>6, NodeStays
  <2> QED
    BY <1>1, <1>2, <1>4, <1>6, <2>2, RowSteps DEF Live
<1>7. row'[n][k] \in Live => Kind[n] = "job"
  BY <1>1, <1>4, RowSteps DEF Live
<1>8. ASSUME NoFault, row[n][k] \in Live
      PROVE  /\ k = tries'[n]
             /\ node'[n] = "wait" \/ (stop'[FlowOf[n]] /\ node'[n] \notin {"go", "backoff"})
  <2>1. Kind[n] = "job" /\ k = tries[n] /\ node[n] # "go"
        /\ (node[n] = "wait" \/ (stop[FlowOf[n]] /\ node[n] \notin {"go", "backoff"}))
    BY <1>1, <1>8
  <2>2. tries'[n] = tries[n]
    BY <2>1, TriesSteps
  <2>3. stop[FlowOf[n]] => stop'[FlowOf[n]]
    BY <1>2, DriveSteps
  <2>4. node[n] # "todo"
    BY <1>2, <2>1 DEF Lives, Typed, Attempted
  <2>5. CASE ~LeafStep(n)
    BY <2>1, <2>2, <2>3, <2>4, <2>5, NodeStays
  <2>6. CASE LeafStep(n)
    <3>1. node[n] \in {"go", "wait", "backoff"}
      BY <2>6 DEF LeafStep, BackoffOver, DispatchJob, WaitForRun, RefuseChild, DispatchFlow, WaitForFlow
    <3>2. node[n] = "wait" /\ WaitForRun(n)
      BY <2>1, <2>6, <3>1 DEF LeafStep, BackoffOver, DispatchJob, RefuseChild, DispatchFlow, WaitForFlow
    <3>3. row[n][tries[n]] \notin Over
      BY <1>8, <2>1 DEF Live, Over
    <3>4. stop[FlowOf[n]] /\ AttemptOver(n, tries[n], "danger", FALSE)
      BY <1>8, <3>2, <3>3 DEF WaitForRun, NoFault
    <3>5. node'[n] = "danger"
      BY <3>4, ShapeTypes DEF AttemptOver
    <3> QED
      BY <2>1, <2>2, <2>3, <3>4, <3>5
  <2> QED
    BY <2>5, <2>6
<1>9. ASSUME NoFault, DispatchJob(n), k = tries[n] + 1, row'[n][k] \in Live, row[n][k] \notin Live
      PROVE  k = tries'[n] /\ node'[n] = "wait"
  <2>1. row' # row
    BY <1>9
  <2>2. node' = [node EXCEPT ![n] = "wait"]
    BY <1>9, <2>1 DEF DispatchJob, NoFault
  <2> QED
    BY <1>4, <1>9, <2>2, ShapeTypes
<1>10. NoFault /\ row'[n][k] \in Live =>
         /\ k = tries'[n]
         /\ node'[n] = "wait" \/ (stop'[FlowOf[n]] /\ node'[n] \notin {"go", "backoff"})
  BY <1>8, <1>9, RowSteps DEF Live
<1> QED
  BY <1>3, <1>5, <1>6, <1>7, <1>10

LEMMA AlwaysRows == Spec => []RowsInTurn
<1>1. Init => RowsInTurn
  BY DEF Init, RowsInTurn, Live
<1>2. Lives /\ Flagged /\ Shape /\ RowsInTurn /\ [Next]_vars => RowsInTurn'
  BY RowsStep
<1>3. Cancels => Flagged
  BY DEF Cancels
<1> QED
  BY <1>1, <1>2, <1>3, AlwaysLives, AlwaysCancels, AlwaysShape, PTL DEF Spec

-----------------------------------------------------------------------------
(* Order. *)

\* A run of a step starts when what is before it is over, and nothing before it
\* starts again.
LEMMA OrderStep ==
  ASSUME Lives, Flagged, Shape, RowsInTurn, [Next]_vars, RowsInTurn', StepsInOrder
  PROVE  StepsInOrder'
<1> SUFFICES ASSUME NoFault
             PROVE  /\ \A n \in Nodes : Ran(n)' =>
                         \A m \in Earlier[n] : \A k \in Attempts : row'[m][k] \notin Live
                    /\ \A n \in Nodes : \A k \in Attempts : k < tries'[n] => row'[n][k] \notin Live
  BY ScenarioKept DEF StepsInOrder, NoFault, May, Ran
<1>1. ASSUME NEW n \in Nodes, NEW k \in Attempts, k < tries'[n] PROVE row'[n][k] \notin Live
  <2>1. NoFault'
    BY ScenarioKept DEF NoFault, May
  <2> QED
    BY <1>1, <2>1, ShapeTypes DEF RowsInTurn, Attempts
<1>2. ASSUME NEW n \in Nodes, Ran(n)', NEW m \in Earlier[n], NEW k \in Attempts,
             row'[m][k] \in Live
      PROVE  FALSE
  <2>1. m \in Nodes
    BY DEF Earlier
  <2>2. PICK w \in Walks : \E i, j \in DOMAIN Body[w] :
          i < j /\ Body[w][i] \in Above[m] /\ Body[w][j] \in Above[n]
    BY DEF Earlier
  <2>3. PICK i \in DOMAIN Body[w], j \in DOMAIN Body[w] :
          i < j /\ Body[w][i] \in Above[m] /\ Body[w][j] \in Above[n]
    BY <2>2
  <2>4. /\ i \in Nat /\ j \in Nat /\ pos[w] \in Nat
        /\ m \in Sub(Body[w][i]) /\ n \in Sub(Body[w][j])
    BY <2>1, <2>3, ShapeTypes DEF Sub
  <2>5. FlowOf[m] = FlowOf[n]
    <3>1. FlowOf[Body[w][i]] = FlowOf[w] /\ FlowOf[Body[w][j]] = FlowOf[w]
      BY ShapeTypes, GraphAssumption
    <3> QED
      BY <2>1, <2>3, <3>1, PlacesAssumption
  <2>6. CASE Ran(n)
    <3>1. row[m][k] \notin Live
      BY <2>6 DEF StepsInOrder, NoFault
    <3>2. DispatchJob(m)
      BY <1>2, <2>1, <3>1, RowSteps DEF Live
    <3>3. OnPath(m)
      BY <2>1, <3>2, BusyOnPath DEF DispatchJob
    <3>4. walk[w] = "on" /\ pos[w] = i
      BY <2>3, <3>3 DEF OnPath
    <3>5. Cold(Body[w][j])
      BY <2>3, <2>4, <3>4 DEF Shape, InTurn
    <3>6. tries[n] = 0
      BY <2>4, <3>5 DEF Cold
    <3>7. \A l \in Attempts : row[n][l] \in {"none", "skipped"}
      BY <3>6 DEF RowsInTurn, Attempts
    <3> QED
      BY <2>6, <3>7 DEF Ran
  <2>7. CASE ~Ran(n)
    <3>1. PICK l \in Attempts : row'[n][l] \notin {"none", "skipped", "refused"}
      BY <1>2 DEF Ran
    <3>2. row[n][l] \in {"none", "skipped", "refused"}
      BY <2>7 DEF Ran
    <3>3. DispatchJob(n) /\ ~stop[FlowOf[n]] /\ row'[n][l] # row[n][l]
      BY <3>1, <3>2, RowSteps DEF Live
    <3>4. OnPath(n)
      BY <3>3, BusyOnPath DEF DispatchJob
    <3>5. walk[w] = "on" /\ pos[w] = j
      BY <2>3, <3>4 DEF OnPath
    <3>6. Quiet(Body[w][i])
      BY <2>3, <2>4, <3>5 DEF Shape, InTurn
    <3>7. node[m] \notin {"go", "wait", "backoff"}
      BY <2>4, <3>6 DEF Quiet
    <3>8. row[m][k] \notin Live
      BY <2>1, <2>5, <3>3, <3>7 DEF RowsInTurn
    <3>9. DispatchJob(m)
      BY <1>2, <2>1, <3>8, RowSteps DEF Live
    <3> QED
      BY <3>7, <3>9 DEF DispatchJob
  <2> QED
    BY <2>6, <2>7
<1> QED
  BY <1>1, <1>2

\* A step runs when every attempt of every step before it is over, and its own
\* earlier attempts are: the walks do what a definition's order says, whatever is
\* retried, branched, run side by side, cancelled or reaped.
THEOREM OrderIsKept == Spec => []StepsInOrder
<1>1. Init => StepsInOrder
  BY DEF Init, StepsInOrder, Live, Earlier
<1>2. Lives /\ Flagged /\ Shape /\ RowsInTurn /\ RowsInTurn' /\ StepsInOrder /\ [Next]_vars
        => StepsInOrder'
  BY OrderStep
<1>3. Cancels => Flagged
  BY DEF Cancels
<1> QED
  BY <1>1, <1>2, <1>3, AlwaysLives, AlwaysCancels, AlwaysShape, AlwaysRows, PTL DEF Spec

-----------------------------------------------------------------------------
(* Slots. *)

LEMMA ArmsFinite ==
  ASSUME NEW p \in Nodes, NEW S \in SUBSET Elems(Arms[p])
  PROVE  IsFiniteSet(S) /\ Cardinality(S) \in Nat
<1>1. Arms[p] \in Seq(Nodes)
  BY GraphAssumption
<1>2. /\ DOMAIN Arms[p] = 1 .. Len(Arms[p]) /\ Len(Arms[p]) \in Nat
      /\ Arms[p] \in [1 .. Len(Arms[p]) -> Elems(Arms[p])]
  BY <1>1 DEF Elems
<1>3. Arms[p] \in Surjection(1 .. Len(Arms[p]), Elems(Arms[p]))
  <2>1. \A t \in Elems(Arms[p]) : \E i \in 1 .. Len(Arms[p]) : Arms[p][i] = t
    BY <1>2 DEF Elems
  <2> DEFINE D == 1 .. Len(Arms[p])
             E == Elems(Arms[p])
  <2>2. Arms[p] \in [D -> E] /\ \A t \in E : \E i \in D : Arms[p][i] = t
    BY <1>2, <2>1
  <2> HIDE DEF D, E
  <2>3. Arms[p] \in Surjection(D, E)
    BY <2>2, Zenon DEF Surjection
  <2> QED
    BY <2>3, Zenon DEF D, E
<1>4. IsFiniteSet(1 .. Len(Arms[p]))
  <2>1. 1 \in Int /\ Len(Arms[p]) \in Int
    BY <1>2
  <2> QED
    BY <2>1, FS_Interval
<1>5. IsFiniteSet(Elems(Arms[p]))
  BY <1>3, <1>4, FS_Surjection DEF ExistsSurjection
<1>6. IsFiniteSet(S)
  BY <1>5, FS_Subset
<1> QED
  BY <1>6, FS_CardinalityType

\* Only the dispatch loop of a parallel step brings one of its arms into flight.
LEMMA FlightSteps ==
  ASSUME Lives, Shape, [Next]_vars, NEW p \in Nodes
  PROVE  \/ InFlight(p)' \subseteq InFlight(p)
         \/ HasSlot(p) /\ \E n : InFlight(p)' \subseteq InFlight(p) \cup {n}
<1>0. \A a \in Elems(Arms[p]) : a \in Nodes /\ (a \notin Leaves => a \in Walks)
  <2>1. ASSUME NEW a \in Elems(Arms[p]) PROVE a \in Nodes /\ Kind[a] \in {"job", "sequence"}
    <3>1. Kind[p] = "parallel"
      <4>1. Kind[p] # "parallel" => Arms[p] = <<>>
        BY GraphAssumption
      <4> QED
        BY <4>1 DEF Elems
    <3> QED
      BY <3>1, ShapeTypes, GraphAssumption DEF Validated
  <2>2. ASSUME NEW a \in Elems(Arms[p]), a \notin Leaves
        PROVE  a \in Walks
    <3>1. Opens(a) = {a} /\ a \in Nodes
      BY <2>1, <2>2 DEF Leaves, Opens
    <3> QED
      BY <3>1, ShapeTypes
  <2> QED
    BY <2>1, <2>2
<1> DEFINE Goes(a) == node[a] # "todo" /\ IF a \in Leaves THEN node[a] \notin Verdicts
                                                         ELSE walk[a] \notin Verdicts
           Went(a) == node'[a] # "todo" /\ IF a \in Leaves THEN node'[a] \notin Verdicts
                                                          ELSE walk'[a] \notin Verdicts
<1>00. /\ InFlight(p) = {a \in Elems(Arms[p]) : Goes(a)}
       /\ InFlight(p)' = {a \in Elems(Arms[p]) : Went(a)}
  BY DEF InFlight, Started, LeafOrSequence, Verdicts
<1>1. ASSUME NEW a \in InFlight(p)', a \notin InFlight(p), Started(a) PROVE FALSE
  <2>0. a \in Elems(Arms[p]) /\ Went(a) /\ ~Goes(a)
    BY <1>00, <1>1, Zenon
  <2>1. a \in Nodes /\ node[a] # "todo"
    BY <1>0, <1>1, <2>0, Zenon DEF Started
  <2>2. CASE a \in Leaves
    <3>1. node[a] \in Verdicts /\ node'[a] \notin Verdicts
      BY <2>0, <2>1, <2>2
    <3> QED
      BY <2>1, <3>1, NodeStays DEF Verdicts
  <2>3. CASE a \notin Leaves
    <3>1. walk[a] \in Verdicts /\ walk'[a] \notin Verdicts
      BY <2>0, <2>1, <2>3
    <3>2. walk'[a] = walk[a] \/ walk[a] \in {"on", "off"}
      <4>1. a \in Walks
        BY <1>0, <2>0, <2>3, Zenon
      <4> QED
        BY <4>1, MoveCases DEF Touch
    <3> QED
      BY <3>1, <3>2 DEF Verdicts
  <2> QED
    BY <2>2, <2>3
<1>2. ASSUME NEW a \in InFlight(p)', ~Started(a), NEW n \in Nodes, Touch(n)
      PROVE  a = n
  <2>0. a \in Elems(Arms[p]) /\ Went(a)
    BY <1>00, <1>2, Zenon
  <2>1. a \in Elems(Arms[p]) /\ a \in Nodes /\ Went(a) /\ node[a] = "todo"
    BY <1>0, <1>2, <2>0, Zenon DEF Started
  <2>2. a # n => node'[a] = "skipped" /\ Kind[a] = "job"
    BY <1>2, <2>1 DEF Touch
  <2>3. node'[a] = "skipped" /\ Kind[a] = "job" => ~Went(a)
    BY <2>1 DEF Leaves, Verdicts
  <2> QED
    BY <2>1, <2>2, <2>3
<1>3. CASE UNCHANGED node
  BY <1>00, <1>1, <1>3 DEF Started
<1>4. ASSUME NEW n \in Nodes, Touch(n), ~(InFlight(p)' \subseteq InFlight(p)),
             \/ LeafStep(n)
             \/ \E w \in Walks : n \in Elems(Body[w])
             \/ \E q \in Nodes : StartArm(q) /\ n \in Elems(Arms[q])
      PROVE  HasSlot(p) /\ InFlight(p)' \subseteq InFlight(p) \cup {n}
  <2>1. InFlight(p)' \subseteq InFlight(p) \cup {n}
    BY <1>1, <1>2, <1>4
  <2>2. n \in InFlight(p)' /\ n \notin InFlight(p) /\ ~Started(n)
    BY <1>1, <1>4, <2>1
  <2>3. n \in Elems(Arms[p])
    BY <2>2 DEF InFlight
  <2>4. ~LeafStep(n)
    BY <2>2 DEF Started, LeafStep, BackoffOver, DispatchJob, WaitForRun, RefuseChild,
       DispatchFlow, WaitForFlow
  <2>5. \A w \in Walks : n \notin Elems(Body[w])
    BY <2>3, PlacesAssumption
  <2>6. PICK q \in Nodes : StartArm(q) /\ n \in Elems(Arms[q])
    BY <1>4, <2>4, <2>5
  <2>7. q = p
    <3>1. PICK i \in DOMAIN Arms[p] : Arms[p][i] = n
      BY <2>3 DEF Elems
    <3>2. PICK j \in DOMAIN Arms[q] : Arms[q][j] = n
      BY <2>6 DEF Elems
    <3> QED
      BY <3>1, <3>2, PlacesAssumption
  <2> QED
    BY <2>1, <2>6, <2>7 DEF StartArm
<1> QED
  BY <1>3, <1>4, MoveCases

LEMMA ArmsStep ==
  ASSUME Lives, Shape, ArmsBound, [Next]_vars
  PROVE  ArmsBound'
<1> SUFFICES ASSUME NEW p \in Nodes PROVE Cardinality(InFlight(p)') <= scn.width
  BY ScenarioKept DEF ArmsBound
<1>1. InFlight(p) \subseteq Elems(Arms[p]) /\ InFlight(p)' \subseteq Elems(Arms[p])
  BY DEF InFlight
<1>2. scn.width \in Nat
  BY ConstantsAssumption DEF Lives, Typed, TypeOK
<1>3. IsFiniteSet(InFlight(p)) /\ Cardinality(InFlight(p)) \in Nat
      /\ Cardinality(InFlight(p)') \in Nat
  BY <1>1, ArmsFinite
<1>4. Cardinality(InFlight(p)) <= scn.width
  BY DEF ArmsBound
<1>5. CASE InFlight(p)' \subseteq InFlight(p)
  <2>1. Cardinality(InFlight(p)') <= Cardinality(InFlight(p))
    BY <1>3, <1>5, FS_Subset
  <2> QED
    BY <1>2, <1>3, <1>4, <2>1
<1>6. ASSUME HasSlot(p), NEW n, InFlight(p)' \subseteq InFlight(p) \cup {n}
      PROVE  Cardinality(InFlight(p)') <= scn.width
  <2> DEFINE S == InFlight(p) \cup {n}
  <2>1. IsFiniteSet(S) /\ Cardinality(S) <= Cardinality(InFlight(p)) + 1 /\ Cardinality(S) \in Nat
    BY <1>3, FS_AddElement, FS_CardinalityType
  <2>2. Cardinality(InFlight(p)') <= Cardinality(S)
    BY <1>6, <2>1, FS_Subset
  <2>3. Cardinality(InFlight(p)) < scn.width
    BY <1>6 DEF HasSlot
  <2> QED
    BY <1>2, <1>3, <2>1, <2>2, <2>3
<1> QED
  BY <1>5, <1>6, FlightSteps

LEMMA AlwaysArms == Spec => []ArmsBound
<1>1. ASSUME Init PROVE ArmsBound
  <2>1. \A p \in Nodes : InFlight(p) = {}
    <3>1. \A p \in Nodes : Arms[p] \in Seq(Nodes)
      BY GraphAssumption
    <3> QED
      BY <1>1, <3>1 DEF Init, InFlight, Started, Elems
  <2>2. scn.width \in Nat
    BY <1>1, ConstantsAssumption DEF Init
  <2> QED
    BY <2>1, <2>2, FS_EmptySet DEF ArmsBound
<1>2. Lives /\ Shape /\ ArmsBound /\ [Next]_vars => ArmsBound'
  BY ArmsStep
<1> QED
  BY <1>1, <1>2, AlwaysLives, AlwaysShape, PTL DEF Spec

\* The arms below which a run is live.
LiveArms(p) ==
  {a \in Elems(Arms[p]) : \E n \in Nodes : a \in Above[n] /\ \E k \in Attempts : row[n][k] \in Live}

\* While its walk is not stopped, an arm with a live run holds a slot.
SlotHeld ==
  \A p \in Nodes : NoFault /\ ~stop[FlowOf[p]] => LiveArms(p) \subseteq InFlight(p)

LEMMA LiveInFlight ==
  ASSUME Shape, RowsInTurn, NoFault, NEW p \in Nodes, ~stop[FlowOf[p]]
  PROVE  LiveArms(p) \subseteq InFlight(p)
<1>1. ASSUME NEW a \in Elems(Arms[p]), NEW n \in Nodes, a \in Above[n],
             NEW k \in Attempts, row[n][k] \in Live
      PROVE  a \in InFlight(p)
  <2>1. a \in Nodes /\ FlowOf[a] = FlowOf[p] /\ FlowOf[n] = FlowOf[a]
    <3>1. a \in Nodes
      BY ShapeTypes
    <3>2. FlowOf[a] = FlowOf[p]
      BY GraphAssumption
    <3> QED
      BY <1>1, <3>1, <3>2, PlacesAssumption
  <2>2. node[n] = "wait"
    BY <1>1, <2>1 DEF RowsInTurn
  <2>3. n \in Sub(a)
    BY <1>1 DEF Sub
  <2>4. ~Cold(a) /\ ~Quiet(a)
    BY <2>2, <2>3 DEF Cold, Quiet
  <2>5. Started(a)
    BY <2>1, <2>4 DEF Started, Shape, Containers
  <2>6. Kind[a] \in {"job", "sequence"}
    <3>1. Kind[p] = "parallel"
      <4>1. Kind[p] # "parallel" => Arms[p] = <<>>
        BY GraphAssumption
      <4> QED
        BY <4>1 DEF Elems
    <3> QED
      BY <3>1, GraphAssumption DEF Validated
  <2>7. LeafOrSequence(a) = "pending"
    BY <2>1, <2>4, <2>6, ChainOver DEF Leaves
  <2> QED
    BY <2>5, <2>7 DEF InFlight
<1> QED
  BY <1>1 DEF LiveArms

LEMMA SlotsStep ==
  ASSUME Lives, Flagged, Shape, RowsInTurn, [Next]_vars, SlotHeld', ArmsBound',
         ParallelBound
  PROVE  ParallelBound'
<1> SUFFICES ASSUME NoFault, NoFault', NEW p \in Nodes
             PROVE  Cardinality(LiveArms(p)') <= scn.width
  BY ScenarioKept DEF ParallelBound, NoFault, May, LiveArms
<1>1. LiveArms(p) \subseteq Elems(Arms[p]) /\ LiveArms(p)' \subseteq Elems(Arms[p])
      /\ InFlight(p)' \subseteq Elems(Arms[p])
  BY DEF LiveArms, InFlight
<1>2. /\ scn.width \in Nat /\ scn' = scn
      /\ Cardinality(LiveArms(p)) \in Nat /\ IsFiniteSet(LiveArms(p))
      /\ Cardinality(LiveArms(p)') \in Nat
      /\ Cardinality(InFlight(p)') \in Nat /\ IsFiniteSet(InFlight(p)')
  <2>1. scn.width \in Nat
    BY ConstantsAssumption DEF Lives, Typed, TypeOK
  <2>2. /\ Cardinality(LiveArms(p)) \in Nat /\ IsFiniteSet(LiveArms(p))
        /\ Cardinality(LiveArms(p)') \in Nat
        /\ Cardinality(InFlight(p)') \in Nat /\ IsFiniteSet(InFlight(p)')
    BY <1>1, ArmsFinite, Zenon
  <2> QED
    BY <2>1, <2>2, ScenarioKept
<1>3. CASE ~stop'[FlowOf[p]]
  <2>1. LiveArms(p)' \subseteq InFlight(p)'
    BY <1>3 DEF SlotHeld
  <2>2. Cardinality(LiveArms(p)') <= Cardinality(InFlight(p)')
    BY <1>2, <2>1, FS_Subset
  <2>3. Cardinality(InFlight(p)') <= scn.width
    BY <1>2 DEF ArmsBound
  <2> QED
    BY <1>2, <2>2, <2>3
<1>4. CASE stop'[FlowOf[p]]
  <2>1. LiveArms(p)' \subseteq LiveArms(p)
    <3>1. ASSUME NEW a \in Elems(Arms[p]), NEW n \in Nodes, a \in Above[n],
                 NEW k \in Attempts, row'[n][k] \in Live, row[n][k] \notin Live
          PROVE  FALSE
      <4>1. DispatchJob(n) /\ ~stop[FlowOf[n]]
        BY <3>1, RowSteps DEF Live
      <4>2. FlowOf[n] = FlowOf[p]
        <5>1. a \in Nodes
          BY ShapeTypes
        <5>2. FlowOf[a] = FlowOf[p]
          BY GraphAssumption
        <5> QED
          BY <3>1, <5>1, <5>2, PlacesAssumption
      <4> QED
        BY <1>4, <4>1, <4>2 DEF DispatchJob
    <3> QED
      BY <3>1 DEF LiveArms
  <2>2. Cardinality(LiveArms(p)') <= Cardinality(LiveArms(p))
    BY <1>2, <2>1, FS_Subset
  <2>3. Cardinality(LiveArms(p)) <= scn.width
    BY DEF ParallelBound, NoFault, LiveArms
  <2> QED
    BY <1>2, <2>2, <2>3
<1> QED
  BY <1>3, <1>4

\* At most settings.maxConcurrent arms of a parallel step have a live run, whatever
\* the arms are, and a cancelled step's arms included.
THEOREM SlotsAreKept == Spec => []ParallelBound
<1>1. ASSUME Init PROVE ParallelBound
  <2>1. \A p \in Nodes : LiveArms(p) = {}
    BY <1>1 DEF Init, LiveArms, Live
  <2>2. scn.width \in Nat
    BY <1>1, ConstantsAssumption DEF Init
  <2> QED
    BY <2>1, <2>2, FS_EmptySet DEF ParallelBound, LiveArms
<1>2. Lives /\ Flagged /\ Shape /\ RowsInTurn /\ SlotHeld' /\ ArmsBound' /\ ParallelBound
        /\ [Next]_vars => ParallelBound'
  BY SlotsStep
<1>3. Cancels => Flagged
  BY DEF Cancels
<1>4. Shape /\ RowsInTurn => SlotHeld
  BY LiveInFlight DEF SlotHeld
<1> QED
  BY <1>1, <1>2, <1>3, <1>4, AlwaysLives, AlwaysCancels, AlwaysShape, AlwaysRows,
     AlwaysArms, PTL DEF Spec

-----------------------------------------------------------------------------
(* Results. *)

Good(m) == \/ Shown(m) = "success"
           \/ Shown(m) = "skipped" /\ NotTaken(m)
           \/ m \in Tolerated /\ tries[m] > 0

\* What a walk has passed without a halt did its work.
Passed ==
  \A w \in Walks : \A i \in DOMAIN Body[w] :
    walk[w] = "success" \/ i < pos[w] =>
      cancelled[FlowOf[w]] \/ \A m \in Sub(Body[w][i]) : Kind[m] = "job" => Good(m)

Verdict ==
  \A n \in Nodes :
    /\ node[n] \in {"wait", "backoff", "danger", "success"} => tries[n] > 0
    /\ Kind[n] = "job" /\ node[n] = "success" => Shown(n) = "success"
    /\ Kind[n] = "job" /\ node[n] = "skipped" =>
         cancelled[FlowOf[n]] \/ (Shown(n) = "skipped" /\ NotTaken(n))
    /\ Kind[n] = "job" /\ NotTaken(n) => Shown(n) = "skipped" /\ tries[n] = 0
    /\ Kind[n] = "job" /\ tries[n] > 0 /\ Shown(n) = "skipped" => cancelled[FlowOf[n]]

Ending == \A f \in Flows : flow[f] = "success" => walk[f] = "success"

\* A walk that has begun stays so.
LEMMA NeverOff ==
  ASSUME Lives, Shape, [Next]_vars, NEW w \in Walks, walk'[w] = "off"
  PROVE  walk[w] = "off"
<1>1. CASE \E n \in Nodes : Touch(n)
  BY <1>1, OpenedEmpty DEF Touch
<1>2. ASSUME NEW v \in Walks, (NextStep(v) /\ Halted(FlowOf[v])) \/ StepOver(v)
      PROVE  walk[w] = "off"
  <2>1. walk' = walk \/ \E r \in {"success", "danger"} : walk' = [walk EXCEPT ![v] = r]
    BY <1>2 DEF NextStep, StepOver
  <2> QED
    BY <2>1, ShapeTypes
<1>3. ASSUME NEW f \in Flows, Start(f) PROVE walk[w] = "off"
  <2>1. walk' = [walk EXCEPT ![f] = Opened(f)] /\ f \in Walks
    BY <1>3, GraphAssumption DEF Start
  <2> QED
    BY <2>1, ShapeTypes, OpenedEmpty
<1> QED
  BY <1>1, <1>2, <1>3, AsideKeep, EntryTouches, ArmTouches, LeafTouches, StepCases

\* The row that tells how a step ended stays, unless the step is dispatched.
LEMMA ShownKept ==
  ASSUME Lives, Flagged, Shape, RowsInTurn, [Next]_vars, NEW m \in Nodes, Kind[m] = "job",
         node[m] # "go", Shown(m) \in {"success", "skipped"}
  PROVE  Shown(m)' = Shown(m) /\ tries'[m] = tries[m]
<1> DEFINE k == IF tries[m] = 0 THEN 1 ELSE tries[m]
<1>1. tries'[m] = tries[m]
  BY TriesSteps
<1>2. k \in Attempts /\ tries[m] \in Nat
  BY ShapeTypes, ConstantsAssumption DEF Attempts
<1>3. Shown(m) = row[m][k] /\ Shown(m)' = row'[m][k]
  BY <1>1 DEF Shown
<1>4. row[m][k] \in {"success", "skipped"}
  BY <1>3
<1>5. tries[m] = 0 => row[m][k] # "success"
  BY <1>2 DEF RowsInTurn
<1>6. ~DispatchJob(m)
  BY DEF DispatchJob
<1> HIDE DEF k
<1>7. row'[m][k] = row[m][k]
  BY <1>2, <1>4, <1>5, <1>6, RowSteps DEF Live
<1> QED
  BY <1>1, <1>3, <1>7

\* An arm not taken is never opened.
LEMMA NotTakenKept ==
  ASSUME Lives, Shape, [Next]_vars, NEW m \in Nodes, NotTaken(m)
  PROVE  NotTaken(m)'
<1>1. PICK b \in Nodes : Kind[b] = "branch" /\ node[b] = "in" /\
        \E w \in Opens(b) : walk[w] = "off" /\ Within(m, w)
  BY DEF NotTaken
<1>2. PICK w \in Opens(b) : walk[w] = "off" /\ Within(m, w)
  BY <1>1
<1>3. node'[b] = "in"
  BY <1>1, NodeStays
<1>4. w \in Walks /\ w \notin Flows
  BY ShapeTypes, PlacesAssumption
<1>5. ASSUME NEW n \in Nodes, Touch(n), w \in Opens(n) PROVE FALSE
  <2>1. n = b
    BY <1>5, PlacesAssumption
  <2>2. ~LeafStep(b)
    BY <1>1 DEF LeafStep, BackoffOver, DispatchJob, WaitForRun, RefuseChild, DispatchFlow, WaitForFlow
  <2> QED
    BY <1>1, <1>5, <2>1, <2>2 DEF Touch
<1>6. walk'[w] = "off"
  BY <1>2, <1>4, <1>5, MoveCases DEF Touch
<1>7. Within(m, w)'
  BY <1>2 DEF Within
<1> QED
  BY <1>1, <1>3, <1>6, <1>7 DEF NotTaken

\* A job that turns out not to be taken has its row at once.
LEMMA NewlySkipped ==
  ASSUME Lives, Shape, [Next]_vars, NEW m \in Nodes, Kind[m] = "job",
         NotTaken(m)', ~NotTaken(m)
  PROVE  row'[m][1] = "skipped" /\ tries'[m] = 0 /\ Shown(m)' = "skipped"
<1>1. PICK b \in Nodes : Kind[b] = "branch" /\ node'[b] = "in" /\
        \E w \in Opens(b) : walk'[w] = "off" /\ Within(m, w)'
  BY DEF NotTaken
<1>2. PICK w \in Opens(b) : walk'[w] = "off" /\ Within(m, w)
  BY <1>1 DEF Within
<1>3. w \in Walks
  BY ShapeTypes
<1>4. walk[w] = "off"
  BY <1>2, <1>3, NeverOff
<1>5. node[b] # "in"
  BY <1>1, <1>2, <1>4 DEF NotTaken
<1>6. PICK n \in Nodes : Touch(n)
  BY <1>1, <1>5, MoveCases
<1>7. n = b
  BY <1>1, <1>5, <1>6 DEF Touch
<1>8. b \notin Leaves /\ node[b] = "todo"
  <2>1. b \notin Leaves
    BY <1>1 DEF Leaves
  <2> QED
    BY <1>5, <2>1 DEF Shape, Containers
<1>9. m \in SkippedBy[w]
  BY <1>2, <1>3 DEF SkippedBy
<1>10. row'[m][1] = "skipped"
  <2>0. Touch(b) /\ Kind[b] = "branch"
    BY <1>1, <1>6, <1>7
  <2>1. PICK other \in Opens(b) :
          /\ walk'[other] = "off"
          /\ \A v \in Opens(b) : v # other => walk'[v] # "off"
          /\ \A o \in SkippedBy[other] : row'[o][1] = "skipped"
    BY <2>0 DEF Touch
  <2>2. w = other
    BY <1>2, <2>1
  <2> QED
    BY <1>9, <2>1, <2>2
<1>11. m \in Sub(b) /\ m # b
  BY <1>1, <1>9, SkippedBelow
<1>12. tries[m] = 0
  BY <1>8, <1>11 DEF Shape, Containers, Cold
<1>13. tries'[m] = 0
  BY <1>6, <1>7, <1>11, <1>12 DEF Touch
<1> QED
  BY <1>10, <1>13 DEF Shown

LEMMA GoodKept ==
  ASSUME Lives, Flagged, Shape, RowsInTurn, [Next]_vars, NEW m \in Nodes, Kind[m] = "job",
         node[m] # "go", Good(m)
  PROVE  Good(m)'
<1>1. CASE Shown(m) = "success"
  BY <1>1, ShownKept DEF Good
<1>2. CASE Shown(m) = "skipped" /\ NotTaken(m)
  BY <1>2, ShownKept, NotTakenKept DEF Good
<1>3. CASE m \in Tolerated /\ tries[m] > 0
  <2>1. tries'[m] > 0 /\ (m \in Tolerated)'
    BY <1>3, TriesSteps DEF Tolerated, BranchRefs, Runner, Within
  <2> QED
    BY <2>1 DEF Good
<1> QED
  BY <1>1, <1>2, <1>3 DEF Good

\* What a step of a leaf leaves it at.
LEMMA LeafVerdicts ==
  ASSUME Lives, Flagged, Shape, RowsInTurn, Verdict, NEW n \in Nodes, LeafStep(n)
  PROVE  /\ node'[n] # "go" => tries'[n] > 0
         /\ Kind[n] = "job" /\ node'[n] = "success" =>
              row' = row /\ tries'[n] = tries[n] /\ row[n][tries[n]] = "success"
         /\ Kind[n] = "job" /\ node'[n] = "skipped" =>
              tries[n] > 0 /\ row[n][tries[n]] = "skipped"
<1>1. tries[n] \in Nat /\ node \in [Nodes -> {"todo", "in", "go", "wait", "backoff"} \cup Verdicts]
      /\ tries \in [Nodes -> 0 .. MaxTries]
  BY ShapeTypes
<1>2. node[n] \in {"wait", "backoff"} => tries[n] > 0
  BY DEF Verdict
<1>3. CASE BackoffOver(n)
  <2>1. node'[n] \in {"danger", "go"} /\ tries' = tries /\ node[n] = "backoff"
    BY <1>1, <1>3 DEF BackoffOver
  <2> QED
    BY <1>2, <2>1
<1>4. CASE WaitForRun(n)
  <2>1. tries' = tries /\ row' = row /\ node[n] = "wait"
    BY <1>4 DEF WaitForRun
  <2>2. \/ row[n][tries[n]] \in Over /\ AttemptOver(n, tries[n], VerdictOf(row[n][tries[n]]), row[n][tries[n]] = "refused")
        \/ AttemptOver(n, tries[n], "danger", FALSE)
    BY <1>4 DEF WaitForRun
  <2>3. \/ row[n][tries[n]] \in Over /\ node'[n] \in {"backoff", VerdictOf(row[n][tries[n]])}
        \/ node'[n] \in {"backoff", "danger"}
    BY <1>1, <2>2 DEF AttemptOver
  <2>4. /\ node'[n] = "success" => row[n][tries[n]] = "success"
        /\ node'[n] = "skipped" => row[n][tries[n]] = "skipped"
    BY <2>3 DEF VerdictOf, Over
  <2> QED
    BY <1>2, <2>1, <2>4
<1>5. CASE DispatchJob(n) \/ RefuseChild(n)
  <2>1. tries'[n] = tries[n] + 1
    BY <1>1, <1>5 DEF DispatchJob, RefuseChild
  <2>2. node'[n] \in {"wait", "backoff", "danger"}
    BY <1>1, <1>5 DEF DispatchJob, RefuseChild, AttemptOver
  <2> QED
    BY <1>1, <2>1, <2>2
<1>6. CASE DispatchFlow(n)
  <2>1. tries'[n] = tries[n] + 1 /\ Kind[n] # "job"
    BY <1>1, <1>6 DEF DispatchFlow
  <2> QED
    BY <1>1, <2>1
<1>7. CASE WaitForFlow(n)
  <2>1. tries' = tries /\ Kind[n] # "job" /\ node[n] = "wait"
    BY <1>7 DEF WaitForFlow
  <2> QED
    BY <1>2, <2>1
<1> QED
  BY <1>3, <1>4, <1>5, <1>6, <1>7 DEF LeafStep

LEMMA VerdictStep ==
  ASSUME Lives, Flagged, Shape, RowsInTurn, Verdict, [Next]_vars, Typed'
  PROVE  Verdict'
<1> SUFFICES ASSUME NEW n \in Nodes
             PROVE  /\ node'[n] \in {"wait", "backoff", "danger", "success"} => tries'[n] > 0
                    /\ Kind[n] = "job" /\ node'[n] = "success" => Shown(n)' = "success"
                    /\ Kind[n] = "job" /\ node'[n] = "skipped" =>
                         cancelled'[FlowOf[n]] \/ (Shown(n)' = "skipped" /\ NotTaken(n)')
                    /\ Kind[n] = "job" /\ NotTaken(n)' => Shown(n)' = "skipped" /\ tries'[n] = 0
                    /\ Kind[n] = "job" /\ tries'[n] > 0 /\ Shown(n)' = "skipped" =>
                         cancelled'[FlowOf[n]]
  BY DEF Verdict
<1>1. /\ node[n] \in {"wait", "backoff", "danger", "success"} => tries[n] > 0
      /\ Kind[n] = "job" /\ node[n] = "success" => Shown(n) = "success"
      /\ Kind[n] = "job" /\ node[n] = "skipped" =>
           cancelled[FlowOf[n]] \/ (Shown(n) = "skipped" /\ NotTaken(n))
      /\ Kind[n] = "job" /\ NotTaken(n) => Shown(n) = "skipped" /\ tries[n] = 0
      /\ Kind[n] = "job" /\ tries[n] > 0 /\ Shown(n) = "skipped" => cancelled[FlowOf[n]]
  BY DEF Verdict
<1>2. /\ tries[n] \in Nat /\ tries'[n] \in {tries[n], tries[n] + 1}
      /\ cancelled[FlowOf[n]] => cancelled'[FlowOf[n]]
  <2>1. FlowOf[n] \in Flows
    BY GraphAssumption
  <2> QED
    BY <2>1, TriesSteps, ShapeTypes, DriveSteps
<1>3. \/ node'[n] = node[n]
      \/ LeafStep(n)
      \/ node[n] = "todo" /\ node'[n] \in {"go", "in"}
      \/ \E b \in Nodes : /\ Touch(b) /\ b # n /\ Skips(b, n) /\ n \in Sub(b)
                          /\ node[n] = "todo" /\ node'[n] = "skipped"
  BY MoveCases DEF Touch
<1>4. node'[n] \in {"wait", "backoff", "danger", "success"} => tries'[n] > 0
  BY <1>1, <1>2, <1>3, LeafVerdicts
<1>5. ASSUME Kind[n] = "job", node'[n] = "success" PROVE Shown(n)' = "success"
  <2>1. CASE node'[n] = node[n]
    BY <1>1, <1>5, <2>1, ShownKept
  <2>2. CASE LeafStep(n)
    <3>1. row' = row /\ tries'[n] = tries[n] /\ row[n][tries[n]] = "success" /\ tries'[n] > 0
      BY <1>4, <1>5, <2>2, LeafVerdicts
    <3> QED
      BY <3>1 DEF Shown
  <2> QED
    BY <1>3, <1>5, <2>1, <2>2
<1>6. ASSUME Kind[n] = "job", NotTaken(n)' PROVE Shown(n)' = "skipped" /\ tries'[n] = 0
  <2>1. CASE NotTaken(n)
    <3>1. node[n] # "go"
      <4>1. PICK b \in Nodes : \E w \in Opens(b) : walk[w] = "off" /\ Within(n, w)
        BY <2>1 DEF NotTaken
      <4>2. PICK w \in Opens(b) : walk[w] = "off" /\ Within(n, w)
        BY <4>1
      <4>3. PICK q \in Above[n] : q \in Elems(Body[w])
        BY <4>2 DEF Within
      <4>4. PICK i \in DOMAIN Body[w] : Body[w][i] = q
        BY <4>3 DEF Elems
      <4>5. w \in Walks
        BY ShapeTypes
      <4>6. OnPath(n) => walk[w] = "on"
        BY <4>3, <4>4, <4>5 DEF OnPath
      <4> QED
        BY <4>2, <4>6, BusyOnPath
    <3> QED
      BY <1>1, <1>6, <2>1, <3>1, ShownKept
  <2>2. CASE ~NotTaken(n)
    BY <1>6, <2>2, NewlySkipped
  <2> QED
    BY <2>1, <2>2
<1>7. ASSUME Kind[n] = "job", node'[n] = "skipped"
      PROVE  cancelled'[FlowOf[n]] \/ (Shown(n)' = "skipped" /\ NotTaken(n)')
  <2>1. CASE node'[n] = node[n]
    BY <1>1, <1>2, <1>7, <2>1, ShownKept, NotTakenKept
  <2>2. CASE LeafStep(n)
    <3>1. tries[n] > 0 /\ Shown(n) = "skipped"
      BY <1>7, <2>2, LeafVerdicts DEF Shown
    <3> QED
      BY <1>1, <1>2, <1>7, <3>1
  <2>3. ASSUME NEW b \in Nodes, Touch(b), Skips(b, n)
        PROVE  NotTaken(n)'
    <3>1. Kind[b] = "branch" /\ b \notin Leaves
      BY <2>3 DEF Skips, Leaves
    <3>2. PICK w \in Opens(b) : walk'[w] = "off" /\ n \in SkippedBy[w]
      BY <2>3 DEF Skips
    <3>3. Within(n, w)'
      BY <3>1, <3>2, SkippedBelow DEF Within
    <3>4. node'[b] = "in"
      BY <2>3, <3>1 DEF Touch
    <3> QED
      BY <3>1, <3>2, <3>3, <3>4 DEF NotTaken
  <2> QED
    BY <1>3, <1>6, <1>7, <2>1, <2>2, <2>3
<1>8. ASSUME Kind[n] = "job", tries'[n] > 0, Shown(n)' = "skipped" PROVE cancelled'[FlowOf[n]]
  <2> DEFINE k == tries'[n]
  <2>1. row'[n][k] = "skipped" /\ k > 0
    BY <1>2, <1>8 DEF Shown
  <2>2. k \in Attempts
    <3>1. k <= MaxTries
      BY DEF Typed, TypeOK
    <3> QED
      BY <1>2, <2>1, <3>1, ConstantsAssumption DEF Attempts
  <2>3. ASSUME row[n][k] = "skipped" PROVE cancelled[FlowOf[n]]
    <3>1. CASE k = tries[n]
      BY <1>1, <1>8, <2>1, <2>3, <3>1 DEF Shown
    <3>2. CASE k = tries[n] + 1
      <4>1. node[n] = "skipped"
        BY <1>2, <1>8, <2>2, <2>3, <3>2 DEF RowsInTurn
      <4>2. node[n] = "go"
        BY <1>2, <3>2, TriesSteps
      <4> QED
        BY <4>1, <4>2
    <3> QED
      BY <1>2, <3>1, <3>2
  <2>4. tries[n] = 0 => node[n] = "go"
    BY <2>1, TriesSteps
  <2> HIDE DEF k
  <2> QED
    BY <1>2, <1>8, <2>1, <2>2, <2>3, <2>4, RowSteps
<1> QED
  BY <1>4, <1>5, <1>6, <1>7, <1>8

\* What a walk that succeeded has in it is good.
LEMMA WalkGood ==
  ASSUME Shape, Passed, NEW w \in Walks, walk[w] = "success", NEW q \in Elems(Body[w]),
         ~cancelled[FlowOf[w]], NEW m \in Sub(q), Kind[m] = "job"
  PROVE  Good(m)
<1>1. PICK i \in DOMAIN Body[w] : Body[w][i] = q
  BY DEF Elems
<1> QED
  BY <1>1 DEF Passed

\* So is a leaf or a sequence that ended and does not halt its walk.
LEMMA ChainGood ==
  ASSUME Shape, Passed, Verdict, NEW n \in Nodes, n \in Leaves \/ Kind[n] = "sequence",
         LeafOrSequence(n) # "pending", ~Fatal(n, LeafOrSequence(n)),
         ~cancelled[FlowOf[n]], NEW m \in Sub(n), Kind[m] = "job"
  PROVE  Good(m)
<1>1. CASE n \in Leaves
  <2>1. Opens(n) = {} /\ Elems(Arms[n]) = {}
    <3>1. Kind[n] # "parallel" /\ Arms[n] = <<>>
      BY <1>1, GraphAssumption DEF Leaves
    <3> QED
      BY <1>1, <3>1 DEF Leaves, Opens, Elems
  <2>2. m = n
    <3>1. \A q \in Nodes : ~Contains(n, q)
      BY <2>1 DEF Contains
    <3>2. m \in Nodes
      BY DEF Sub
    <3> QED
      BY <3>1, <3>2, Tree
  <2>3. node[n] \in Verdicts /\ (node[n] = "danger" => n \in Tolerated)
    BY <1>1 DEF LeafOrSequence, Fatal
  <2> QED
    BY <2>2, <2>3 DEF Good, Verdict, Verdicts
<1>2. CASE Kind[n] = "sequence"
  <2>1. Opens(n) = {n} /\ Elems(Arms[n]) = {} /\ n \notin Leaves
    <3>1. Arms[n] = <<>>
      BY <1>2, GraphAssumption
    <3> QED
      BY <1>2, <3>1 DEF Leaves, Opens, Elems
  <2>2. n \in Walks
    BY <2>1, ShapeTypes
  <2>3. walk[n] = "success"
    <3>1. walk[n] \in {"success", "danger"} /\ LeafOrSequence(n) = walk[n]
      BY <2>1, <2>2, ShapeTypes DEF LeafOrSequence, Verdicts
    <3> QED
      BY <2>1, <3>1 DEF Fatal
  <2>4. m \in Nodes /\ m # n
    BY <1>2 DEF Sub
  <2>5. PICK q \in Nodes : Contains(n, q) /\ m \in Sub(q)
    BY <2>4, Tree
  <2>6. q \in Elems(Body[n])
    BY <2>1, <2>5 DEF Contains
  <2> QED
    BY <2>2, <2>3, <2>5, <2>6, WalkGood
<1> QED
  BY <1>1, <1>2

\* So is any step that its walk leaves for the next.
LEMMA ResultGood ==
  ASSUME Shape, Passed, Verdict, NEW n \in Nodes, node[n] # "todo",
         Result(n) # "pending", ~Fatal(n, Result(n)),
         ~cancelled[FlowOf[n]], NEW m \in Sub(n), Kind[m] = "job"
  PROVE  Good(m)
<1>0. Kind[n] \in {"job", "workflow", "sequence", "parallel", "branch"}
  <2>1. Kind \in [Nodes -> Kinds]
    BY GraphAssumption
  <2> QED
    BY <2>1 DEF Kinds
<1>1. CASE n \in Leaves \/ Kind[n] = "sequence"
  <2>1. Result(n) = LeafOrSequence(n)
    BY <1>1, Zenon DEF Result, Leaves
  <2> QED
    BY <1>1, <2>1, ChainGood
<1>2. CASE Kind[n] = "parallel"
  <2>1. n \notin Leaves /\ Opens(n) = {} /\ m \in Nodes /\ m # n
    BY <1>2 DEF Leaves, Opens, Sub
  <2>2. PICK a \in Nodes : Contains(n, a) /\ m \in Sub(a)
    BY <2>1, Tree
  <2>3. a \in Elems(Arms[n])
    BY <2>1, <2>2 DEF Contains
  <2>4. LeafOrSequence(a) # "pending"
    BY <1>2, <2>1, <2>3 DEF Result
  <2>5. ~Fatal(a, LeafOrSequence(a))
    <3>1. ~\E x \in Elems(Arms[n]) : LeafOrSequence(x) = "pending"
      BY <1>2, <2>1 DEF Result
    <3>2. ASSUME \E x \in Elems(Arms[n]) : Fatal(x, LeafOrSequence(x)) PROVE FALSE
      <4>1. Result(n) = "danger"
        BY <1>2, <2>1, <3>1, <3>2 DEF Result
      <4> QED
        BY <2>1, <4>1 DEF Fatal
    <3> QED
      BY <2>3, <3>2
  <2>6. Kind[a] \in {"job", "sequence"}
    BY <1>2, <2>3, GraphAssumption DEF Validated
  <2>7. FlowOf[a] = FlowOf[n]
    BY <2>3, GraphAssumption
  <2> QED
    BY <2>2, <2>4, <2>5, <2>6, <2>7, ChainGood DEF Leaves
<1>3. CASE Kind[n] = "branch"
  <2>1. n \notin Leaves /\ Opens(n) = {Pass[n], Fail[n]} /\ Kind[n] # "sequence"
        /\ m \in Nodes /\ m # n /\ node[n] = "in"
    <3>1. n \notin Leaves /\ Opens(n) = {Pass[n], Fail[n]} /\ m \in Nodes /\ m # n
      BY <1>3 DEF Leaves, Opens, Sub
    <3> QED
      BY <1>3, <3>1 DEF Shape, Containers
  <2>2. Elems(Arms[n]) = {}
    <3>1. Arms[n] = <<>>
      BY <1>3, GraphAssumption
    <3> QED
      BY <3>1 DEF Elems
  <2>3. /\ \E w \in Opens(n) : walk[w] \in Verdicts
        /\ Result(n) = walk[CHOOSE w \in Opens(n) : walk[w] \in Verdicts]
    BY <1>3, <2>1 DEF Result
  <2>4. PICK w \in Opens(n) : walk[w] \in Verdicts /\ Result(n) = walk[w]
    BY <2>3
  <2>5. \A v \in Opens(n) : v \in Walks /\ FlowOf[v] = FlowOf[n]
    BY ShapeTypes, GraphAssumption
  <2>6. walk[w] = "success"
    <3>1. walk[w] \in {"success", "danger"}
      BY <2>4, <2>5, ShapeTypes DEF Verdicts
    <3> QED
      BY <2>1, <2>4, <3>1 DEF Fatal
  <2>7. \A v \in Opens(n) : v # w => walk[v] = "off"
    <3>1. walk[Pass[n]] = "off" \/ walk[Fail[n]] = "off"
      BY <1>3 DEF Shape, Containers
    <3> QED
      BY <2>1, <2>6, <3>1
  <2>8. PICK q \in Nodes : Contains(n, q) /\ m \in Sub(q)
    BY <2>1, Tree
  <2>9. PICK v \in Opens(n) : q \in Elems(Body[v])
    BY <2>2, <2>8 DEF Contains
  <2>10. CASE v = w
    BY <2>5, <2>6, <2>8, <2>9, <2>10, WalkGood
  <2>11. CASE v # w
    <3>1. walk[v] = "off"
      BY <2>7, <2>11
    <3>2. Within(m, v)
      BY <2>8, <2>9 DEF Sub, Within
    <3>3. NotTaken(m)
      BY <1>3, <2>1, <3>1, <3>2 DEF NotTaken
    <3> QED
      BY <2>1, <3>3 DEF Verdict, Good
  <2> QED
    BY <2>10, <2>11
<1> QED
  BY <1>0, <1>1, <1>2, <1>3 DEF Leaves

\* A walk passes a step only by leaving it for the next.
LEMMA PassSteps ==
  ASSUME Lives, Shape, [Next]_vars, NEW w \in Walks, NEW i \in DOMAIN Body[w],
         walk'[w] = "success" \/ i < pos'[w], ~(walk[w] = "success" \/ i < pos[w])
  PROVE  StepOver(w) /\ i = pos[w] /\ ~Fatal(Current(w), Result(Current(w)))
<1>0. i \in Nat /\ pos[w] \in Nat /\ i <= Len(Body[w])
  <2>1. Body[w] \in Seq(Nodes)
    BY ShapeTypes
  <2> QED
    BY <2>1, ShapeTypes
<1>1. ASSUME NEW n \in Nodes, Touch(n) PROVE FALSE
  BY <1>1, OpenedEmpty DEF Touch
<1>2. ASSUME UNCHANGED <<node, tries, walk, pos>> PROVE FALSE
  BY <1>2
<1>3. ASSUME NEW f \in Flows, Start(f) PROVE FALSE
  <2>1. walk' = [walk EXCEPT ![f] = Opened(f)] /\ f \in Walks /\ pos' = pos
    BY <1>3, GraphAssumption DEF Start
  <2>2. walk'[w] = walk[w] \/ (w = f /\ walk'[w] = Opened(w))
    BY <2>1, ShapeTypes
  <2> QED
    BY <2>1, <2>2, OpenedEmpty
<1>4. ASSUME NEW v \in Walks, NextStep(v), Halted(FlowOf[v]) PROVE FALSE
  <2>1. walk' = [walk EXCEPT ![v] = "danger"] /\ pos' = pos
    BY <1>4 DEF NextStep
  <2> QED
    BY <2>1, ShapeTypes
<1>5. ASSUME NEW v \in Walks, StepOver(v)
      PROVE  v = w /\ i = pos[w] /\ ~Fatal(Current(w), Result(Current(w)))
  <2>1. \/ walk' = [walk EXCEPT ![v] = "danger"] /\ pos' = pos
        \/ /\ ~Fatal(Current(v), Result(Current(v)))
           /\ \/ walk' = [walk EXCEPT ![v] = "success"] /\ pos' = pos /\ pos[v] = Len(Body[v])
              \/ walk' = walk /\ pos' = [pos EXCEPT ![v] = @ + 1]
    BY <1>5 DEF StepOver
  <2>2. v = w
    BY <2>1, ShapeTypes
  <2>3. /\ ~Fatal(Current(w), Result(Current(w)))
        /\ \/ walk'[w] = "success" /\ pos' = pos /\ pos[w] = Len(Body[w])
           \/ walk' = walk /\ pos'[w] = pos[w] + 1
    BY <2>1, <2>2, ShapeTypes
  <2> QED
    BY <1>0, <2>2, <2>3
<1> QED
  BY <1>1, <1>2, <1>3, <1>4, <1>5, AsideKeep, EntryTouches, ArmTouches, LeafTouches, StepCases

LEMMA PassedStep ==
  ASSUME Lives, Flagged, Shape, RowsInTurn, Verdict, Passed, [Next]_vars
  PROVE  Passed'
<1> SUFFICES ASSUME NEW w \in Walks, NEW i \in DOMAIN Body[w],
                    walk'[w] = "success" \/ i < pos'[w], ~cancelled'[FlowOf[w]],
                    NEW m \in Sub(Body[w][i]), Kind[m] = "job"
             PROVE  Good(m)'
  BY DEF Passed, Sub
<1>1. ~cancelled[FlowOf[w]]
  <2>1. FlowOf[w] \in Flows
    BY GraphAssumption
  <2> QED
    BY <2>1, DriveSteps
<1>2. m \in Nodes /\ Body[w][i] \in Nodes
  BY ShapeTypes DEF Sub
<1>3. Good(m) /\ Quiet(Body[w][i])
  <2>1. CASE walk[w] = "success" \/ i < pos[w]
    BY <1>1, <2>1 DEF Passed, Shape, InTurn
  <2>2. CASE ~(walk[w] = "success" \/ i < pos[w])
    <3>1. StepOver(w) /\ i = pos[w] /\ ~Fatal(Current(w), Result(Current(w)))
      BY <2>2, PassSteps
    <3>2. /\ Current(w) = Body[w][i] /\ node[Current(w)] # "todo"
          /\ Result(Current(w)) # "pending" /\ walk[w] = "on"
      BY <3>1 DEF StepOver, Current
    <3>3. FlowOf[Body[w][i]] = FlowOf[w]
      BY ShapeTypes, GraphAssumption
    <3> QED
      BY <1>1, <1>2, <3>1, <3>2, <3>3, ResultGood, ResultQuiet
  <2> QED
    BY <2>1, <2>2
<1>4. node[m] # "go"
  BY <1>3 DEF Quiet
<1> QED
  BY <1>2, <1>3, <1>4, GoodKept

LEMMA EndingStep ==
  ASSUME Lives, Shape, Ending, [Next]_vars, NEW f \in Flows, flow'[f] = "success"
  PROVE  walk'[f] = "success"
<1>0. f \in Walks /\ flow \in [Flows -> {"none", "running", "success", "failure"}]
  BY GraphAssumption DEF Lives, Typed, TypeOK
<1>1. ASSUME walk[f] = "success" PROVE walk'[f] = "success"
  <2>1. ASSUME NEW v \in Walks, (NextStep(v) /\ Halted(FlowOf[v])) \/ StepOver(v)
        PROVE  walk'[f] = walk[f]
    <3>1. walk[v] = "on" /\ (walk' = walk \/ \E r : walk' = [walk EXCEPT ![v] = r])
      BY <2>1 DEF NextStep, StepOver
    <3> QED
      BY <1>0, <1>1, <3>1, ShapeTypes
  <2> QED
    BY <1>0, <1>1, <2>1, MoveCases DEF Touch
<1>2. CASE flow[f] = "success"
  BY <1>1, <1>2 DEF Ending
<1>3. CASE flow[f] # "success"
  <2>1. ASSUME NEW g \in Flows, Finish(g) PROVE walk[f] = "success"
    <3>1. /\ walk[g] \in {"success", "danger"}
          /\ \/ flow' = [flow EXCEPT ![g] = IF walk[g] = "danger" THEN "failure" ELSE "success"]
             \/ flow' = flow
      BY <2>1 DEF Finish
    <3> QED
      BY <1>0, <1>3, <3>1
  <2>2. ASSUME NEW g, flow' = flow \/ Insert(g) PROVE FALSE
    BY <1>0, <1>3, <2>2 DEF Insert
  <2>3. ASSUME NEW g, flow' = [flow EXCEPT ![g] = "failure"] PROVE FALSE
    BY <1>0, <1>3, <2>3
  <2>4. Trigger => \E g : Insert(g)
    BY DEF Trigger
  <2>5. ASSUME NEW n \in Nodes, LeafStep(n) PROVE flow' = flow \/ \E g : Insert(g)
    BY <2>5 DEF LeafStep, BackoffOver, DispatchJob, WaitForRun, RefuseChild, DispatchFlow,
       WaitForFlow, flowVars
  <2>6. ASSUME NEW g \in Flows, ReapFlow(g)
        PROVE  flow' = flow \/ flow' = [flow EXCEPT ![g] = "failure"]
    BY <2>6 DEF ReapFlow
  <2>7. ASSUME \/ UNCHANGED vars \/ (ServerStep /\ ~\E g \in Flows : ReapFlow(g))
               \/ \E g \in Flows : Start(g) \/ Report(g)
               \/ \E v \in Walks : NextStep(v) \/ StepOver(v)
               \/ \E n \in Nodes : StartArm(n)
               \/ \E n \in Nodes, k \in Attempts : Claim(n, k) \/ RunEnds(n, k)
        PROVE  flow' = flow
    BY <2>7 DEF vars, ServerStep, Start, Report, NextStep, StepOver, StartArm, Claim, RunEnds,
       CancelFlag, CancelSkip, CancelStop, CancelList, ReapRead, ReapEmit, ReapRuns, Crash, Boot,
       SweepRead, SweepDone, CancelAsk, Age, flowVars
  <2> QED
    BY <1>1, <2>1, <2>2, <2>3, <2>4, <2>5, <2>6, <2>7, StepCases DEF ServerStep
<1> QED
  BY <1>2, <1>3

Honest == Verdict /\ Passed /\ Ending

LEMMA InitHonest ==
  ASSUME Init, Typed PROVE Honest
<1>1. /\ \A n \in Nodes : node[n] = "todo" /\ tries[n] = 0
      /\ \A w \in Walks : walk[w] = "off" /\ pos[w] = 1
      /\ \A f \in Flows : flow[f] = "none"
  BY DEF Init
<1>2. \A m : ~NotTaken(m)
  BY <1>1 DEF NotTaken
<1>3. Verdict
  BY <1>1, <1>2 DEF Verdict
<1>4. Passed
  <2>1. \A w \in Walks : \A i \in DOMAIN Body[w] : i \in Nat /\ i >= 1
    <3>1. \A w \in Walks : Body[w] \in Seq(Nodes)
      BY GraphAssumption
    <3> QED
      BY <3>1
  <2> QED
    BY <1>1, <2>1 DEF Passed
<1>5. Ending
  BY <1>1 DEF Ending
<1> QED
  BY <1>3, <1>4, <1>5 DEF Honest

LEMMA AlwaysHonest == Spec => []Honest
<1>1. Init => Honest
  BY InitHonest, TypeInit
<1>2. ASSUME Lives, Flagged, Shape, RowsInTurn, Honest, [Next]_vars, Typed'
      PROVE  Honest'
  <2>1. Verdict'
    BY <1>2, VerdictStep DEF Honest
  <2>2. Passed'
    BY <1>2, PassedStep DEF Honest
  <2>3. Ending'
    BY <1>2, EndingStep DEF Honest, Ending
  <2> QED
    BY <2>1, <2>2, <2>3 DEF Honest
<1>3. Cancels => Flagged
  BY DEF Cancels
<1> QED
  BY <1>1, <1>2, <1>3, AlwaysTyped, AlwaysLives, AlwaysCancels, AlwaysShape, AlwaysRows, PTL
     DEF Spec

\* A workflow that says success, and was not cancelled, did its work: each of its jobs
\* has the row of an attempt that succeeded, or of a skip because its arm was not
\* taken, or a failure that its definition tolerates, for any definition.
THEOREM SuccessIsHonest == Spec => []SuccessIsTrue
<1>1. ASSUME Shape, Honest PROVE SuccessIsTrue
  <2> SUFFICES ASSUME NEW f \in Flows, flow[f] = "success", ~cancelled[f], NEW n \in Jobs[f]
               PROVE  Good(n)
    BY DEF SuccessIsTrue, Good
  <2>1. n \in Nodes /\ FlowOf[n] = f /\ Kind[n] = "job"
    BY DEF Jobs, NodesOf
  <2>2. f \in Walks /\ FlowOf[f] = f /\ walk[f] = "success"
    BY <1>1, GraphAssumption DEF Honest, Ending
  <2>3. PICK q \in Elems(Body[f]) : q \in Above[n]
    BY <2>1, PlacesAssumption
  <2>4. n \in Sub(q)
    BY <2>1, <2>3 DEF Sub
  <2> QED
    BY <1>1, <2>1, <2>2, <2>4, WalkGood DEF Honest
<1> QED
  BY <1>1, AlwaysShape, AlwaysHonest, PTL

=============================================================================
