--------------------------- MODULE Reactions_proofs ---------------------------
(***************************************************************************)
(* Proofs about Reactions, for any definitions, reactions, bounds and        *)
(* scenarios.                                                               *)
(***************************************************************************)
EXTENDS Reactions, FiniteSetTheorems, TLAPS

-----------------------------------------------------------------------------
(* The inductive invariant, part by part.                                   *)

InPass  == pc \in {"flows", "event", "match", "claim", "judge", "park", "finish"}
AtEvent == pc \in {"match", "claim", "judge", "park", "finish"}
AtPair  == pc \in {"claim", "judge", "park", "finish"}
Claimed == pc \in {"judge", "park", "finish"}

\* Rows are inserted in the order of their ids and never deleted.
RowsInOrder == IsFiniteSet(Used) /\ Used = 1 .. Cardinality(Used)

\* A run that the pass has read is over, for good, and was in its window.
Seen(u) == u \in Runs /\ Over(u) /\ run[u].at >= pass.since

PassReads ==
  InPass => /\ cursor # None /\ pass.since = cursor - Lookback /\ cursor <= pass.newest
            /\ \A u \in pass.todo : Seen(u)
            /\ AtEvent => Seen(pass.ev)
            /\ AtPair => pass.r \in Reactions

\* The pair being decided is claimed, and has no pending run before Park.
PassClaims ==
  Claimed => /\ result[<<pass.r, pass.ev>>] = "pending"
             /\ claimedAt[<<pass.r, pass.ev>>] = pass.now
             /\ pc # "finish" => made[<<pass.r, pass.ev>>] = 0
             /\ pc = "park" => pass.verdict = "fired" /\ ~DepthExceeded(run[pass.ev].depth)
             /\ made[<<pass.r, pass.ev>>] > 0 => pass.verdict = "fired"

\* A pending run was parked once, for a pair whose delivery is there.
Deliveries ==
  \A p \in Pairs : /\ made[p] <= 1
                   /\ made[p] > 0 => result[p] \in {"pending", "fired"}

\* What waits was parked for a run whose successor may still start.
Waiting ==
  \A r \in Reactions, u \in Runs : left[<<r, u>>] > 0 => u \in Used /\ ~DepthExceeded(run[u].depth)

\* A row's depth counts the reactions that led to it, but for those that a failed
\* read forgot, and none has too many.
Depths ==
  \A u \in Runs : run[u].hops = run[u].depth + run[u].forgot /\ run[u].depth < MaxDepth

\* The pairs that the rate brake let through, and counts or will count with the
\* next write.
Counts(r, u) ==
  /\ ~unbraked[<<r, u>>]
  /\ \/ result[<<r, u>>] = "fired"
     \/ pc \in {"park", "finish"} /\ pass.r = r /\ pass.ev = u /\ pass.verdict = "fired"

Apart(r, u, v) ==
  \/ claimedAt[<<r, u>>] - claimedAt[<<r, v>>] >= Interval[r]
  \/ claimedAt[<<r, v>>] - claimedAt[<<r, u>>] >= Interval[r]

Brake ==
  \A r \in Reactions : \A u, v \in Runs :
    u # v /\ Counts(r, u) /\ Counts(r, v) => Apart(r, u, v)

\* The view that a reaction was written with is never wider than a pass's.
Horizons == \A r \in Reactions : horizon[r] <= InView

\* No completed_at, and so no cursor, is ahead of the clock.
Clocked ==
  /\ \A u \in Runs : run[u].at <= clock
  /\ pass.newest <= clock
  /\ cursor # None => cursor <= clock

IInv ==
  /\ TypeOK /\ RowsInOrder /\ PassReads /\ PassClaims /\ Deliveries /\ Waiting
  /\ Depths /\ Brake /\ Horizons /\ Clocked

-----------------------------------------------------------------------------
(* Type correctness                                                         *)

LEMMA TypeInit ==
  ASSUME Init PROVE TypeOK
<1> USE ConstantsAssumption, LagAssumption, ScenariosAssumption DEF Init
<1>1. scn \in Scenarios /\ scn.written \subseteq Reactions /\ scn.history \subseteq Defs
  OBVIOUS
<1>2. run \in [Runs -> [def : Defs \cup {None}, status : Status, at : Nat, cancelled : BOOLEAN,
                       parent : Nat, depth : Nat, hops : Nat, forgot : Nat]]
  BY <1>1 DEF InitRun, NoRun, Status, Ended
<1>3. clock \in Nat /\ horizon \in [Reactions -> Int]
  OBVIOUS
<1>4. pass \in [now : Nat, since : Int, todo : SUBSET Runs, newest : Nat, ev : Runs \cup {0},
               matched : SUBSET Reactions, off : SUBSET Reactions, r : Reactions \cup {None},
               verdict : Verdicts \cup {"none"}]
  BY DEF NoPass
<1> QED
  BY <1>1, <1>2, <1>3, <1>4 DEF TypeOK, Results, Stages

\* The first veto that holds gives the verdict; it is "fired" when none does.
LEMMA VerdictFirst ==
  ASSUME NEW r, NEW u, NEW unread \in SUBSET Queried
  PROVE  /\ Verdict(r, u, unread) \in Verdicts
         /\ Verdict(r, u, unread) = "fired" =>
              ~DepthExceeded(run[u].depth) /\ (RateVeto \in unread \/ ~RateBlocks(r))
<1> DEFINE V == Vetoes(r, u)
           holds == {i \in 1 .. 9 : i \notin unread /\ V[i][1]}
           First(i) == i \in holds /\ \A j \in holds : i <= j
           first == CHOOSE i \in holds : \A j \in holds : i <= j
<1>1. V[9][1] /\ (V[7][1] <=> DepthExceeded(run[u].depth)) /\ (V[8][1] <=> RateBlocks(r))
  BY DEF Vetoes
<1>2. \A i \in 1 .. 9 : V[i][2] \in Verdicts /\ (i # 9 => V[i][2] # "fired")
  BY DEF Vetoes, Verdicts
<1> HIDE DEF V
<1>a. 7 \notin unread /\ 9 \notin unread
  BY DEF Queried
<1>3. \E i \in 1 .. 9 : First(i)
  BY <1>1, <1>a
<1>4. First(first)
  BY <1>3
<1>5. Verdict(r, u, unread) = V[first][2]
  BY DEF Verdict, V
<1> HIDE DEF first
<1> QED
  BY <1>1, <1>2, <1>4, <1>5, <1>a DEF RateVeto

LEMMA ExceptTyped ==
  ASSUME NEW S, NEW T, NEW f \in [S -> T], NEW x, NEW y \in T
  PROVE  [f EXCEPT ![x] = y] \in [S -> T]
  OBVIOUS

LEMMA CountTyped ==
  ASSUME NEW S, NEW f \in [S -> Nat], NEW x
  PROVE  [f EXCEPT ![x] = @ + 1] \in [S -> Nat]
<1>1. CASE x \in S
  BY <1>1
<1>2. CASE x \notin S
  BY <1>2
<1> QED
  BY <1>1, <1>2

PassType ==
  [now : Nat, since : Int, todo : SUBSET Runs, newest : Nat, ev : Runs \cup {0},
   matched : SUBSET Reactions, off : SUBSET Reactions, r : Reactions \cup {None},
   verdict : Verdicts \cup {"none"}]

LEMMA PairDoneTyped ==
  ASSUME TypeOK, PairDone PROVE pass' \in PassType /\ pc' \in Stages
  BY DEF TypeOK, PairDone, PassType, Stages

LEMMA FaultTyped ==
  ASSUME TypeOK, NEW failed \in BOOLEAN, Fault(failed) PROVE faults' \in Nat
  BY DEF TypeOK, Fault

\* One step of the reactor, and the pass it holds.
LEMMA TypeReactor ==
  ASSUME TypeOK, Reactor \/ ReactorFails PROVE TypeOK'
<1> USE ConstantsAssumption, LagAssumption DEF TypeOK, NoPass,
      worldVars, catalogVars, deliveryVars, parkVars, boundVars
<1>1. ASSUME NEW failed \in BOOLEAN, FirstPass(failed) PROVE TypeOK'
  BY <1>1, FaultTyped DEF FirstPass, Anchor
<1>2. ASSUME NEW failed \in BOOLEAN, CollectJobs(failed) PROVE TypeOK'
  <2>1. pass' \in PassType
    <3>1. cursor \in Nat /\ Since \in Int
      BY <1>2 DEF CollectJobs, Since
    <3>2. {u \in Runs : Finished(u, Since) /\ ~IsFlow(u)} \in SUBSET Runs
      OBVIOUS
    <3> QED
      BY <1>2, <3>1, <3>2 DEF CollectJobs, PassType
  <2>2. pc' \in Stages /\ faults' \in Nat
    BY <1>2, FaultTyped DEF CollectJobs, Stages
  <2> QED
    BY <1>2, <2>1, <2>2 DEF CollectJobs, PassType
<1>3. ASSUME NEW failed \in BOOLEAN, CollectFlows(failed) PROVE TypeOK'
  <2>1. pass' \in PassType /\ pc' \in Stages
    <3> DEFINE S == pass.todo \cup IF failed THEN {}
                                   ELSE {u \in Runs : Finished(u, pass.since) /\ IsFlow(u)}
    <3>1. /\ S \in SUBSET Runs
          /\ pass' = NoPass \/ pass' = [pass EXCEPT !.todo = S]
          /\ pc' \in {"idle", "event"}
      BY <1>3 DEF CollectFlows
    <3> HIDE DEF S
    <3>2. pass \in PassType /\ NoPass \in PassType
      BY DEF PassType
    <3> QED
      BY ONLY <3>1, <3>2 DEF Stages, PassType
  <2>2. faults' \in Nat
    BY <1>3, FaultTyped DEF CollectFlows
  <2> QED
    BY <1>3, <2>1, <2>2 DEF CollectFlows, PassType
<1>4. ASSUME NEW u \in Runs, NEW failed \in BOOLEAN, MatchEvent(u, failed) PROVE TypeOK'
  <2>1. Later(pass.newest, run[u].at) \in Nat
    BY DEF Later
  <2>2. pass' \in PassType /\ pc' \in Stages
    BY <1>4, <2>1 DEF MatchEvent, Stages, PassType
  <2>3. faults' \in Nat
    BY <1>4, FaultTyped DEF MatchEvent
  <2> QED
    BY <1>4, <2>2, <2>3 DEF MatchEvent, PassType
<1>5. CASE EventDone
  BY <1>5 DEF EventDone, Stages
<1>6. ASSUME NEW r \in Reactions, NextReaction(r) PROVE TypeOK'
  BY <1>6 DEF NextReaction, Stages
<1>7. CASE Claim
  <2>1. pass' \in PassType /\ pc' \in Stages
    BY <1>7, PairDoneTyped DEF Claim, Stages, PassType
  <2>2. result' \in [Pairs -> Results]
    <3>1. \/ result' = result
          \/ result' = [result EXCEPT ![<<pass.r, pass.ev>>] = "pending"]
      BY <1>7 DEF Claim
    <3>2. "pending" \in Results /\ result \in [Pairs -> Results]
      BY DEF Results
    <3>3. [result EXCEPT ![<<pass.r, pass.ev>>] = "pending"] \in [Pairs -> Results]
      BY <3>2, ExceptTyped
    <3> QED
      BY <3>1, <3>2, <3>3
  <2>3. claimedAt' \in [Pairs -> Nat]
    BY <1>7, ExceptTyped DEF Claim
  <2> QED
    BY <1>7, <2>1, <2>2, <2>3 DEF Claim, PassType
<1>8. CASE ClaimFails
  BY <1>8, PairDoneTyped, FaultTyped DEF ClaimFails, PassType
<1>9. ASSUME NEW unread \in SUBSET Queried, Judge(unread) PROVE TypeOK'
  <2>1. pass' \in PassType /\ pc' \in Stages
    <3>1. Verdict(pass.r, pass.ev, unread) \in Verdicts
      BY VerdictFirst
    <3> QED
      BY <1>9, <3>1 DEF Judge, Stages, PassType
  <2>2. faults' \in Nat
    BY <1>9, FaultTyped DEF Judge
  <2>3. unbraked' \in [Pairs -> BOOLEAN]
    <3>1. unbraked' = [unbraked EXCEPT ![<<pass.r, pass.ev>>] = RateVeto \in unread]
      BY <1>9 DEF Judge
    <3>2. (RateVeto \in unread) \in BOOLEAN /\ unbraked \in [Pairs -> BOOLEAN]
      OBVIOUS
    <3> QED
      BY ONLY <3>1, <3>2, ExceptTyped
  <2> QED
    BY <1>9, <2>1, <2>2, <2>3 DEF Judge, PassType
<1>10. CASE Park
  <2>1. pass' \in PassType /\ pc' \in Stages
    <3>1. pc' = "finish" /\ (pass' = pass \/ pass' = [pass EXCEPT !.verdict = "error"])
      BY <1>10 DEF Park
    <3>2. pass \in PassType
      BY DEF PassType
    <3> QED
      BY ONLY <3>1, <3>2 DEF Stages, Verdicts, PassType
  <2>2. made' \in [Pairs -> Nat] /\ left' \in [Pairs -> Nat]
    <3>1. ASSUME NEW g \in [Pairs -> Nat]
          PROVE  [g EXCEPT ![<<pass.r, pass.ev>>] = @ + 1] \in [Pairs -> Nat]
      BY CountTyped
    <3>2. \/ /\ made' = [made EXCEPT ![<<pass.r, pass.ev>>] = @ + 1]
             /\ left' = [left EXCEPT ![<<pass.r, pass.ev>>] = @ + 1]
          \/ made' = made /\ left' = left
      BY <1>10 DEF Park
    <3>3. made \in [Pairs -> Nat] /\ left \in [Pairs -> Nat]
      OBVIOUS
    <3> QED
      BY ONLY <3>1, <3>2, <3>3
  <2>3. faults' \in Nat
    BY <1>10, FaultTyped DEF Park
  <2> QED
    BY <1>10, <2>1, <2>2, <2>3 DEF Park, PassType
<1>11. ASSUME NEW failed \in BOOLEAN, Finish(failed) PROVE TypeOK'
  <2>1. result' \in [Pairs -> Results]
    BY <1>11, ExceptTyped DEF Finish, Results
  <2> QED
    BY <1>11, <2>1, PairDoneTyped, FaultTyped DEF Finish, PassType
<1>12. ASSUME NEW failed \in BOOLEAN, SaveCursor(failed) PROVE TypeOK'
  BY <1>12, FaultTyped DEF SaveCursor, Stages
<1> QED
  BY <1>1, <1>2, <1>3, <1>4, <1>5, <1>6, <1>7, <1>8, <1>9, <1>10, <1>11, <1>12
  DEF Reactor, ReactorFails

RowType ==
  [def : Defs \cup {None}, status : Status, at : Nat, cancelled : BOOLEAN,
   parent : Nat, depth : Nat, hops : Nat, forgot : Nat]

LEMMA RowTyped ==
  ASSUME NEW row \in RowType
  PROVE  /\ \A s \in Status, t \in Nat : [row EXCEPT !.status = s, !.at = t] \in RowType
         /\ [row EXCEPT !.cancelled = TRUE] \in RowType
  BY DEF RowType

LEMMA NewRunTyped ==
  ASSUME TypeOK, NEW row \in RowType, NewRun(row) PROVE run' \in [Runs -> RowType]
  BY DEF TypeOK, NewRun, RowType

\* The rows that StartChild and Promote insert.
ChildRow(w, d, failed) ==
  [NoRun EXCEPT !.def = d, !.status = "running", !.parent = w,
                !.depth = ChildDepth(w, failed), !.hops = run[w].hops,
                !.forgot = IF failed THEN run[w].hops ELSE run[w].forgot]
NextRow(r, u) ==
  [NoRun EXCEPT !.def = Owner[r], !.status = "running",
                !.depth = run[u].depth + 1, !.hops = run[u].hops + 1,
                !.forgot = run[u].forgot]

\* What runs, people and the machine do.
LEMMA TypeWorld ==
  ASSUME TypeOK, World \/ Boot PROVE TypeOK'
<1> USE ConstantsAssumption, LagAssumption, ScenariosAssumption
    DEF TypeOK, worldVars, catalogVars, deliveryVars, parkVars, boundVars
<1>1. ASSUME NEW d \in Defs, Start(d) PROVE TypeOK'
  <2>1. [NoRun EXCEPT !.def = d, !.status = "running"] \in RowType
    BY DEF NoRun, RowType, Status
  <2> QED
    BY <1>1, <2>1, NewRunTyped DEF Start, RowType
<1>2. ASSUME NEW w \in Runs, NEW d \in Defs, NEW failed \in BOOLEAN, StartChild(w, d, failed)
      PROVE  TypeOK'
  <2>1. ChildRow(w, d, failed) \in RowType
    <3>1. ChildDepth(w, failed) \in Nat /\ run[w].hops \in Nat /\ run[w].forgot \in Nat
            /\ w \in Nat
      BY DEF ChildDepth, Runs
    <3> QED
      BY ONLY <3>1, d \in Defs DEF ChildRow, NoRun, RowType, Status
  <2>2. faults' \in Nat
    BY <1>2, FaultTyped DEF StartChild
  <2>3. NewRun(ChildRow(w, d, failed))
    BY <1>2 DEF StartChild, ChildRow
  <2> QED
    BY <1>2, <2>1, <2>2, <2>3, NewRunTyped DEF StartChild, RowType
<1>3. ASSUME NEW u \in Runs, NEW status \in Status, NEW lag \in 0 .. Lag, End(u, status, lag)
      PROVE  TypeOK'
  <2>1. run' \in [Runs -> RowType]
    <3>1. run[u] \in RowType /\ clock - lag \in Nat
      BY <1>3 DEF End, RowType
    <3>3. [run[u] EXCEPT !.status = status, !.at = clock - lag] \in RowType
      BY <3>1, RowTyped
    <3>2. run' = [run EXCEPT ![u] = [run[u] EXCEPT !.status = status, !.at = clock - lag]]
      BY <1>3 DEF End
    <3> QED
      BY <3>2, <3>3 DEF RowType
  <2>2. owed' \subseteq Pairs
    BY <1>3 DEF End, Pairs
  <2> QED
    BY <1>3, <2>1, <2>2 DEF End, RowType
<1>4. ASSUME NEW u \in Runs, CancelFlow(u) PROVE TypeOK'
  <2>1. run[u] \in RowType
    BY DEF RowType
  <2>2. [run[u] EXCEPT !.cancelled = TRUE] \in RowType
    BY <2>1, RowTyped
  <2> QED
    BY <1>4, <2>2 DEF CancelFlow, RowType
<1>5. ASSUME NEW r \in Reactions, NEW u \in Runs, Promote(r, u) PROVE TypeOK'
  <2>1. NextRow(r, u) \in RowType
    <3>1. run[u].depth + 1 \in Nat /\ run[u].hops + 1 \in Nat /\ Owner[r] \in Defs
            /\ run[u].forgot \in Nat
      OBVIOUS
    <3> QED
      BY ONLY <3>1 DEF NextRow, NoRun, RowType, Status
  <2>2. left' \in [Pairs -> Nat]
    BY <1>5 DEF Promote, Pairs
  <2>3. NewRun(NextRow(r, u))
    BY <1>5 DEF Promote, NextRow
  <2> QED
    BY <1>5, <2>1, <2>2, <2>3, NewRunTyped DEF Promote, RowType
<1>6. ASSUME NEW r \in Reactions, NEW u \in Runs, DropParked(r, u) PROVE TypeOK'
  <2>1. left' \in [Pairs -> Nat]
    BY <1>6 DEF DropParked, Pairs
  <2> QED
    BY <1>6, <2>1 DEF DropParked
<1>7. ASSUME NEW r \in Reactions, WriteReaction(r) PROVE TypeOK'
  BY <1>7 DEF WriteReaction, InView
<1>8. ASSUME NEW r \in Reactions, DeleteReaction(r) PROVE TypeOK'
  BY <1>8 DEF DeleteReaction
<1>9. ASSUME NEW r \in Reactions, NEW g \in Gates, Toggle(r, g) PROVE TypeOK'
  BY <1>9 DEF Toggle
<1>10. CASE Tick
  BY <1>10 DEF Tick
<1>11. CASE ServerCrash
  BY <1>11 DEF ServerCrash, NoPass
<1>12. CASE Boot
  BY <1>12 DEF Boot, Stages
<1> QED
  BY <1>1, <1>2, <1>3, <1>4, <1>5, <1>6, <1>7, <1>8, <1>9, <1>10, <1>11, <1>12 DEF World

\* Every variable of the reactor keeps its type, whatever statement fails and
\* wherever the server dies.
THEOREM TypeCorrect == Spec => []TypeOK
<1>1. TypeOK /\ [Next]_vars => TypeOK'
  <2> SUFFICES ASSUME TypeOK, [Next]_vars PROVE TypeOK'
    OBVIOUS
  <2>1. CASE UNCHANGED vars
    BY <2>1 DEF TypeOK, vars, worldVars, catalogVars, deliveryVars, parkVars, boundVars
  <2> QED
    BY <2>1, TypeReactor, TypeWorld DEF Next
<1> QED
  BY <1>1, TypeInit, PTL DEF Spec

-----------------------------------------------------------------------------
(* What a step does to the rows of runs.                                    *)

\* A row that is there stays, with its depth; one that is over is over for good.
Same(u) ==
  /\ run'[u].depth = run[u].depth /\ run'[u].hops = run[u].hops
  /\ run'[u].forgot = run[u].forgot
  /\ u \in Used <=> u \in Used'
  /\ Over(u) => Over(u)' /\ run'[u].at = run[u].at

\* A row that comes to be counts its hops, or forgets them, and its depth is
\* below the ceiling.
Fresh(u) ==
  /\ u \notin Used /\ u \in Used'
  /\ run'[u].hops = run'[u].depth + run'[u].forgot /\ run'[u].depth < MaxDepth

LEMMA NewRunRow ==
  ASSUME TypeOK, RowsInOrder, NEW row \in RowType, NewRun(row),
         row.status = "running", row.hops = row.depth + row.forgot, row.depth < MaxDepth
  PROVE  RowsInOrder' /\ \A u \in Runs : Same(u) \/ Fresh(u)
<1> DEFINE n == Cardinality(Used) + 1
<1>1. Cardinality(Used) \in Nat /\ Used = 1 .. Cardinality(Used)
  BY FS_CardinalityType DEF RowsInOrder
<1>2. n \in Runs /\ n \notin Used /\ run' = [run EXCEPT ![n] = row]
  BY <1>1 DEF NewRun
<1>3. Used' = Used \cup {n}
  BY <1>2 DEF Used, TypeOK
<1>4. Used' = 1 .. n
  BY <1>1, <1>3
<1>5. IsFiniteSet(1 .. n) /\ Cardinality(1 .. n) = n
  BY <1>1, FS_Interval
<1>6. RowsInOrder'
  BY <1>4, <1>5 DEF RowsInOrder
<1>7. ASSUME NEW u \in Runs, u # n PROVE Same(u)
  BY <1>2, <1>3, <1>7 DEF Same, Over, TypeOK
<1>8. Fresh(n)
  BY <1>2, <1>3 DEF Fresh, TypeOK
<1> QED
  BY <1>6, <1>7, <1>8

LEMMA SameRows ==
  ASSUME RowsInOrder, \A u \in Runs : Same(u) PROVE RowsInOrder'
<1>1. Used' = Used
  BY DEF Same, Used
<1> QED
  BY <1>1 DEF RowsInOrder

LEMMA RowSteps ==
  ASSUME TypeOK, RowsInOrder, Depths, Waiting, [Next]_vars
  PROVE  RowsInOrder' /\ \A u \in Runs : Same(u) \/ Fresh(u)
<1> USE ConstantsAssumption
<1>1. CASE UNCHANGED run
  <2>1. \A u \in Runs : Same(u)
    BY <1>1 DEF Same, Over, Used
  <2> QED
    BY <2>1, SameRows
<1>2. ASSUME NEW d \in Defs, Start(d) PROVE RowsInOrder' /\ \A u \in Runs : Same(u) \/ Fresh(u)
  <2> DEFINE row == [NoRun EXCEPT !.def = d, !.status = "running"]
  <2>1. row \in RowType /\ row.status = "running"
          /\ row.hops = 0 /\ row.depth = 0 /\ row.forgot = 0
    BY DEF NoRun, RowType, Status
  <2>2. NewRun(row)
    BY <1>2 DEF Start
  <2> HIDE DEF row
  <2> QED
    BY <2>1, <2>2, NewRunRow
<1>3. ASSUME NEW w \in Runs, NEW d \in Defs, NEW failed \in BOOLEAN, StartChild(w, d, failed)
      PROVE  RowsInOrder' /\ \A u \in Runs : Same(u) \/ Fresh(u)
  <2> DEFINE row == ChildRow(w, d, failed)
             forgot == IF failed THEN run[w].hops ELSE run[w].forgot
  <2>1. /\ ChildDepth(w, failed) \in Nat /\ ChildDepth(w, failed) < MaxDepth
        /\ run[w].hops \in Nat /\ forgot \in Nat
        /\ run[w].hops = ChildDepth(w, failed) + forgot /\ w \in Nat
    BY DEF ChildDepth, Depths, TypeOK, Runs
  <2>2. /\ row \in RowType /\ row.status = "running"
        /\ row.hops = row.depth + row.forgot /\ row.depth < MaxDepth
    <3> HIDE DEF forgot
    <3>1. row = [NoRun EXCEPT !.def = d, !.status = "running", !.parent = w,
                              !.depth = ChildDepth(w, failed), !.hops = run[w].hops,
                              !.forgot = forgot]
      BY DEF ChildRow, forgot
    <3>2. /\ row \in RowType /\ row.status = "running" /\ row.hops = run[w].hops
          /\ row.depth = ChildDepth(w, failed) /\ row.forgot = forgot
      <4> HIDE DEF row
      <4> QED
        BY ONLY <2>1, <3>1, d \in Defs DEF NoRun, RowType, Status
    <3> HIDE DEF row
    <3> QED
      BY ONLY <2>1, <3>2
  <2>3. NewRun(row)
    BY <1>3 DEF StartChild, ChildRow
  <2> HIDE DEF row
  <2> QED
    BY <2>1, <2>2, <2>3, NewRunRow
<1>4. ASSUME NEW r \in Reactions, NEW v \in Runs, Promote(r, v)
      PROVE  RowsInOrder' /\ \A u \in Runs : Same(u) \/ Fresh(u)
  <2> DEFINE row == NextRow(r, v)
  <2>1. /\ run[v].hops = run[v].depth + run[v].forgot
        /\ run[v].depth \in Nat /\ run[v].hops \in Nat /\ run[v].forgot \in Nat
    BY DEF Depths, TypeOK
  <2>2. run[v].depth + 1 < MaxDepth
    BY <1>4, <2>1 DEF Promote, Waiting, DepthExceeded
  <2>4. row \in RowType /\ row.status = "running" /\ row.hops = row.depth + row.forgot
          /\ row.depth = run[v].depth + 1
    <3>1. Owner[r] \in Defs
      OBVIOUS
    <3>2. /\ row \in RowType /\ row.status = "running" /\ row.hops = run[v].hops + 1
          /\ row.depth = run[v].depth + 1 /\ row.forgot = run[v].forgot
      <4>1. row = [NoRun EXCEPT !.def = Owner[r], !.status = "running",
                                !.depth = run[v].depth + 1, !.hops = run[v].hops + 1,
                                !.forgot = run[v].forgot]
        BY DEF NextRow
      <4> HIDE DEF row
      <4>2. run[v].depth + 1 \in Nat /\ run[v].hops + 1 \in Nat
        BY ONLY <2>1
      <4> DEFINE m == run[v].depth + 1
                 n == run[v].hops + 1
                 f == run[v].forgot
                 d == Owner[r]
      <4>3. /\ row = [NoRun EXCEPT !.def = d, !.status = "running", !.depth = m, !.hops = n,
                                    !.forgot = f]
            /\ m \in Nat /\ n \in Nat /\ f \in Nat /\ d \in Defs
        BY ONLY <2>1, <3>1, <4>1, <4>2
      <4> HIDE DEF m, n, f, d
      <4>4. row \in RowType /\ row.status = "running" /\ row.hops = n /\ row.depth = m /\ row.forgot = f
        BY ONLY <4>3 DEF NoRun, RowType, Status
      <4> QED
        BY ONLY <4>4 DEF m, n, f
    <3> HIDE DEF row
    <3> QED
      BY ONLY <2>1, <3>2
  <2>5. NewRun(row)
    BY <1>4 DEF Promote, NextRow
  <2> HIDE DEF row
  <2> QED
    BY <2>2, <2>4, <2>5, NewRunRow
<1>5. ASSUME NEW v \in Runs, NEW status \in Status, NEW lag \in 0 .. Lag, End(v, status, lag)
      PROVE  RowsInOrder' /\ \A u \in Runs : Same(u) \/ Fresh(u)
  <2>1. run[v].status = "running" /\ status # "none" /\ status # "running"
    BY <1>5, ScenariosAssumption DEF End, TypeOK
  <2>2. ASSUME NEW u \in Runs PROVE Same(u)
    BY <1>5, <2>1 DEF Same, End, Used, Over, TypeOK, Ended
  <2> QED
    BY <2>2, SameRows
<1>6. ASSUME NEW v \in Runs, CancelFlow(v)
      PROVE  RowsInOrder' /\ \A u \in Runs : Same(u) \/ Fresh(u)
  <2>1. ASSUME NEW u \in Runs PROVE Same(u)
    BY <1>6 DEF Same, CancelFlow, Used, Over, TypeOK
  <2> QED
    BY <2>1, SameRows
<1>7. Reactor \/ ReactorFails \/ Boot => UNCHANGED run
  BY DEF Reactor, ReactorFails, FirstPass, CollectJobs, CollectFlows, MatchEvent, EventDone,
         NextReaction, Claim, ClaimFails, Judge, Park, Finish, SaveCursor, Boot, worldVars
<1>8. ASSUME NEW r \in Reactions
      PROVE  /\ \A u \in Runs : DropParked(r, u) => UNCHANGED run
             /\ WriteReaction(r) \/ DeleteReaction(r) => UNCHANGED run
             /\ \A g \in Gates : Toggle(r, g) => UNCHANGED run
  BY DEF DropParked, WriteReaction, DeleteReaction, Toggle, worldVars
<1>9. Tick \/ ServerCrash \/ UNCHANGED vars => UNCHANGED run
  BY DEF Tick, ServerCrash, vars, worldVars
<1> QED
  BY <1>1, <1>2, <1>3, <1>4, <1>5, <1>6, <1>7, <1>8, <1>9 DEF Next, World

-----------------------------------------------------------------------------
(* The parts of the invariant.                                              *)

\* What happens around the reactor leaves its pass alone, or ends it.
WorldKeeps ==
  /\ UNCHANGED <<result, claimedAt, unbraked, made, cursor>>
  /\ UNCHANGED <<pc, pass>> \/ pc' = "down" \/ (pc = "down" /\ pc' = "idle")

LEMMA WorldSteps ==
  ASSUME World \/ Boot \/ UNCHANGED vars PROVE WorldKeeps
<1> USE DEF WorldKeeps, worldVars, catalogVars, deliveryVars, parkVars, boundVars
<1>1. Boot \/ UNCHANGED vars => WorldKeeps
  BY DEF Boot, vars
<1>2. World => WorldKeeps
  BY DEF World, Start, StartChild, End, CancelFlow, Promote, DropParked, WriteReaction,
         DeleteReaction, Toggle, Tick, ServerCrash
<1> QED
  BY <1>1, <1>2

LEMMA PassReadsStep ==
  ASSUME IInv, [Next]_vars PROVE PassReads'
<1> USE ConstantsAssumption, LagAssumption DEF InPass, AtEvent, AtPair
<1>1. \A u \in Runs : Over(u) => Over(u)' /\ run'[u].at = run[u].at
  <2>1. \A u \in Runs : Over(u) => u \in Used
    BY DEF Over, Used, Ended
  <2> QED
    BY <2>1, RowSteps DEF IInv, Same, Fresh
<1>2. ASSUME NEW u, Seen(u), pass'.since = pass.since PROVE Seen(u)'
  BY <1>1, <1>2 DEF Seen
<1>3. CASE WorldKeeps
  BY <1>2, <1>3 DEF IInv, PassReads, WorldKeeps
<1>4. ASSUME NEW failed \in BOOLEAN, FirstPass(failed) PROVE PassReads'
  BY <1>4 DEF IInv, PassReads, FirstPass
<1>5. ASSUME NEW failed \in BOOLEAN, CollectJobs(failed) PROVE PassReads'
  <2>1. cursor \in Nat /\ cursor' = cursor /\ cursor # None /\ pc' = "flows"
    BY <1>5 DEF IInv, TypeOK, CollectJobs
  <2>2. pass'.since = cursor - Lookback /\ pass'.newest = cursor
    BY <1>5 DEF CollectJobs, NoPass, Since
  <2>3. \A u \in pass'.todo : u \in Runs /\ Over(u) /\ run[u].at >= Since
    BY <1>5 DEF CollectJobs, NoPass, Finished
  <2>4. \A u \in pass'.todo : Seen(u)'
    BY <1>1, <2>2, <2>3 DEF Seen, Since
  <2> QED
    BY <2>1, <2>2, <2>4 DEF PassReads
<1>6. ASSUME NEW failed \in BOOLEAN, CollectFlows(failed) PROVE PassReads'
  BY <1>2, <1>6 DEF IInv, TypeOK, PassReads, CollectFlows, Finished, Seen, worldVars
<1>7. ASSUME NEW u \in Runs, NEW failed \in BOOLEAN, MatchEvent(u, failed) PROVE PassReads'
  <2>1. u \in pass.todo /\ cursor' = cursor /\ pass'.since = pass.since /\ pass'.ev = u
          /\ pass'.todo \subseteq pass.todo /\ pass'.newest >= pass.newest /\ pc' = "match"
    BY <1>7 DEF IInv, TypeOK, MatchEvent, Oldest, Later
  <2>2. cursor # None /\ pass.since = cursor - Lookback /\ cursor <= pass.newest
          /\ \A v \in pass.todo : Seen(v)
    BY <1>7 DEF IInv, PassReads, MatchEvent
  <2>3. cursor <= pass'.newest
    <3>1. cursor \in Nat /\ pass.newest \in Nat
      BY <2>2 DEF IInv, TypeOK
    <3>2. pass'.newest = Later(pass.newest, run[u].at) /\ run[u].at \in Nat
      BY <1>7 DEF IInv, TypeOK, MatchEvent
    <3> QED
      BY <2>2, <3>1, <3>2 DEF Later
  <2>4. \A v \in pass'.todo \cup {u} : Seen(v)'
    BY <1>2, <2>1, <2>2
  <2> QED
    BY <2>1, <2>2, <2>3, <2>4 DEF PassReads
<1>8. CASE EventDone
  BY <1>2, <1>8 DEF IInv, TypeOK, PassReads, EventDone
<1>9. ASSUME NEW r \in Reactions, NextReaction(r) PROVE PassReads'
  BY <1>2, <1>9 DEF IInv, TypeOK, PassReads, NextReaction
<1>10. CASE Claim
  <2>1. UNCHANGED <<cursor, pass>> \/ (cursor' = cursor /\ PairDone)
    BY <1>10 DEF Claim
  <2>2. cursor' = cursor /\ pass'.since = pass.since /\ pass'.newest = pass.newest
          /\ pass'.todo = pass.todo /\ pass'.ev = pass.ev
    <3>1. pass \in PassType
      BY DEF IInv, TypeOK, PassType
    <3> QED
      BY <2>1, <3>1 DEF PassType, PairDone
  <2>3. pc = "claim" /\ (pc' = "match" \/ (pc' = "judge" /\ pass' = pass))
    BY <1>10 DEF Claim, PairDone
  <2>4. /\ cursor # None /\ pass.since = cursor - Lookback /\ cursor <= pass.newest
        /\ (\A v \in pass.todo : Seen(v)) /\ Seen(pass.ev) /\ pass.r \in Reactions
    BY <2>3 DEF IInv, PassReads
  <2> DEFINE e == pass.ev
  <2>5. /\ \A u \in Runs : Seen(u) => Seen(u)'
        /\ Seen(e) /\ \A v \in pass.todo : v \in Runs /\ Seen(v)
    BY <1>2, <2>2, <2>4 DEF Seen
  <2>6. Seen(e)' /\ \A v \in pass'.todo : Seen(v)'
    BY <1>2, <2>2, <2>5
  <2>7. cursor' # None /\ pass'.since = cursor' - Lookback /\ cursor' <= pass'.newest
    BY <2>2, <2>4
  <2>8. pc' = "judge" => pass'.r \in Reactions
    BY <2>3, <2>4
  <2> QED
    BY <2>2, <2>3, <2>6, <2>7, <2>8 DEF PassReads, Seen
<1>11. CASE ClaimFails
  BY <1>2, <1>11 DEF IInv, TypeOK, PassReads, ClaimFails, PairDone
<1>12. ASSUME NEW unread \in SUBSET Queried, Judge(unread) PROVE PassReads'
  BY <1>2, <1>12 DEF IInv, TypeOK, PassReads, Judge
<1>13. CASE Park
  <2>1. /\ UNCHANGED <<cursor, run>> /\ pc = "park" /\ pc' = "finish"
        /\ pass' = pass \/ pass' = [pass EXCEPT !.verdict = "error"]
    BY <1>13 DEF Park, worldVars
  <2>2. pass'.since = pass.since /\ pass'.newest = pass.newest
          /\ pass'.todo = pass.todo /\ pass'.ev = pass.ev /\ pass'.r = pass.r
    BY <2>1 DEF IInv, TypeOK
  <2> QED
    BY <1>2, <2>1, <2>2 DEF IInv, PassReads, Seen, Over
<1>14. ASSUME NEW failed \in BOOLEAN, Finish(failed) PROVE PassReads'
  BY <1>2, <1>14 DEF IInv, TypeOK, PassReads, Finish, PairDone
<1>15. ASSUME NEW failed \in BOOLEAN, SaveCursor(failed) PROVE PassReads'
  BY <1>15 DEF PassReads, SaveCursor
<1> QED
  BY <1>3, <1>4, <1>5, <1>6, <1>7, <1>8, <1>9, <1>10, <1>11, <1>12, <1>13, <1>14, <1>15,
     WorldSteps DEF Next, Reactor, ReactorFails

LEMMA PassClaimsStep ==
  ASSUME IInv, [Next]_vars PROVE PassClaims'
<1> USE DEF Claimed
<1>1. \A u \in Runs : Over(u) => run'[u].depth = run[u].depth
  <2>1. \A u \in Runs : Over(u) => u \in Used
    BY DEF Over, Used, Ended
  <2> QED
    BY <2>1, RowSteps DEF IInv, Same, Fresh
<1>2. CASE WorldKeeps
  <2>1. CASE Claimed /\ UNCHANGED <<pc, pass>>
    <3>1. run'[pass.ev].depth = run[pass.ev].depth
      BY <1>1, <2>1 DEF IInv, PassReads, Seen, InPass, AtEvent
    <3> QED
      BY <1>2, <2>1, <3>1 DEF IInv, PassClaims, WorldKeeps, DepthExceeded
  <2> QED
    BY <1>2, <2>1 DEF IInv, PassClaims, WorldKeeps
<1>3. CASE Claim
  <2>1. pass.r \in Reactions /\ pass.ev \in Runs
    BY <1>3 DEF IInv, PassReads, Seen, InPass, AtEvent, AtPair, Claim
  <2>2. <<pass.r, pass.ev>> \in Pairs
    BY <2>1 DEF Pairs
  <2>3. CASE Unclaimed(pass.r, pass.ev)
    <3>1. pc' = "judge" /\ pass' = pass /\ made' = made
      BY <1>3, <2>3 DEF Claim, parkVars
    <3>2. result'[<<pass.r, pass.ev>>] = "pending" /\ claimedAt'[<<pass.r, pass.ev>>] = pass.now
      BY <1>3, <2>2, <2>3 DEF Claim, IInv, TypeOK
    <3>3. made[<<pass.r, pass.ev>>] = 0
      BY <2>2, <2>3 DEF IInv, Deliveries, Unclaimed, TypeOK
    <3> QED
      BY <3>1, <3>2, <3>3 DEF PassClaims
  <2>4. CASE ~Unclaimed(pass.r, pass.ev)
    BY <1>3, <2>4 DEF Claim, PairDone, PassClaims
  <2> QED
    BY <2>3, <2>4
<1>4. ASSUME NEW unread \in SUBSET Queried, Judge(unread) PROVE PassClaims'
  <2>1. /\ UNCHANGED <<run, result, claimedAt, made>> /\ pass'.r = pass.r /\ pass'.ev = pass.ev
        /\ pass'.now = pass.now /\ pass'.verdict = Verdict(pass.r, pass.ev, unread)
        /\ pc' = IF Verdict(pass.r, pass.ev, unread) = "fired" THEN "park" ELSE "finish"
    BY <1>4 DEF Judge, IInv, TypeOK, worldVars, parkVars
  <2>2. result[<<pass.r, pass.ev>>] = "pending" /\ claimedAt[<<pass.r, pass.ev>>] = pass.now
          /\ made[<<pass.r, pass.ev>>] = 0
    BY <1>4 DEF Judge, IInv, PassClaims
  <2>3. Verdict(pass.r, pass.ev, unread) = "fired" => ~DepthExceeded(run[pass.ev].depth)
    BY VerdictFirst
  <2> QED
    BY <2>1, <2>2, <2>3 DEF PassClaims, DepthExceeded
<1>5. CASE Park
  <2>1. /\ UNCHANGED <<result, claimedAt>> /\ pass'.r = pass.r /\ pass'.ev = pass.ev
        /\ pass'.now = pass.now /\ pc' = "finish" /\ pc = "park"
        /\ (pass'.verdict = pass.verdict \/ made' = made)
    BY <1>5 DEF Park, IInv, TypeOK, deliveryVars, parkVars
  <2>2. result[<<pass.r, pass.ev>>] = "pending" /\ claimedAt[<<pass.r, pass.ev>>] = pass.now
          /\ made[<<pass.r, pass.ev>>] = 0 /\ pass.verdict = "fired"
    BY <2>1 DEF IInv, PassClaims
  <2> QED
    BY <2>1, <2>2 DEF PassClaims
<1>6. CASE pc' \notin {"judge", "park", "finish"}
  BY <1>6 DEF PassClaims
<1>7. pc' \in {"judge", "park", "finish"} =>
        Claim \/ Park \/ WorldKeeps \/ \E unread \in SUBSET Queried : Judge(unread)
  <2>1. Reactor \/ ReactorFails => \/ pc' \notin {"judge", "park", "finish"}
                                   \/ Claim \/ Park
                                   \/ \E unread \in SUBSET Queried : Judge(unread)
    BY DEF Reactor, ReactorFails, FirstPass, CollectJobs, CollectFlows, MatchEvent, EventDone,
           NextReaction, ClaimFails, Finish, SaveCursor, PairDone
  <2> QED
    BY <2>1, WorldSteps DEF Next
<1> QED
  BY <1>2, <1>3, <1>4, <1>5, <1>6, <1>7

LEMMA DeliveriesStep ==
  ASSUME IInv, [Next]_vars PROVE Deliveries'
<1> USE DEF IInv, Deliveries
<1>1. CASE UNCHANGED <<result, made>>
  BY <1>1
<1>2. CASE Claim
  BY <1>2 DEF Claim, parkVars, TypeOK, Unclaimed, deliveryVars
<1>3. CASE Park
  <2>1. pass.r \in Reactions /\ pass.ev \in Runs
    BY <1>3 DEF PassReads, Seen, InPass, AtEvent, AtPair, Park
  <2>2. result[<<pass.r, pass.ev>>] = "pending" /\ made[<<pass.r, pass.ev>>] = 0
    BY <1>3 DEF Park, PassClaims, Claimed
  <2>3. result' = result /\ (made' = made \/ made' = [made EXCEPT ![<<pass.r, pass.ev>>] = @ + 1])
    BY <1>3 DEF Park, deliveryVars, parkVars
  <2>4. <<pass.r, pass.ev>> \in Pairs /\ made \in [Pairs -> Nat]
    BY <2>1 DEF Pairs, TypeOK
  <2>5. \A p \in Pairs : made[p] <= 1 /\ (made[p] > 0 => result[p] \in {"pending", "fired"})
    OBVIOUS
  <2>6. \A p \in Pairs : made'[p] <= 1 /\ (made'[p] > 0 => result'[p] \in {"pending", "fired"})
    BY ONLY <2>2, <2>3, <2>4, <2>5
  <2> QED
    BY ONLY <2>6 DEF Deliveries
<1>4. ASSUME NEW failed \in BOOLEAN, Finish(failed) PROVE Deliveries'
  <2>1. made' = made /\ (result' = result \/ result' = [result EXCEPT ![<<pass.r, pass.ev>>] = pass.verdict])
    BY <1>4 DEF Finish, parkVars
  <2>2. made[<<pass.r, pass.ev>>] > 0 => pass.verdict = "fired"
    BY <1>4 DEF Finish, PassClaims, Claimed
  <2> QED
    BY <2>1, <2>2 DEF TypeOK
<1>5. Reactor \/ ReactorFails => \/ UNCHANGED <<result, made>> \/ Claim \/ Park
                                 \/ \E failed \in BOOLEAN : Finish(failed)
  BY DEF Reactor, ReactorFails, FirstPass, CollectJobs, CollectFlows, MatchEvent, EventDone,
         NextReaction, ClaimFails, Judge, SaveCursor, deliveryVars, parkVars
<1> QED
  BY <1>1, <1>2, <1>3, <1>4, <1>5, WorldSteps DEF Next, WorldKeeps

LEMMA DepthsStep ==
  ASSUME IInv, [Next]_vars PROVE Depths'
  BY RowSteps DEF IInv, Depths, Same, Fresh

LEMMA WaitingStep ==
  ASSUME IInv, [Next]_vars PROVE Waiting'
<1> SUFFICES ASSUME NEW r \in Reactions, NEW u \in Runs, left'[<<r, u>>] > 0
             PROVE  u \in Used' /\ ~DepthExceeded(run'[u].depth)
  BY DEF Waiting
<1> USE DEF IInv, TypeOK
<1>1. u \in Used => u \in Used' /\ run'[u].depth = run[u].depth
  BY RowSteps DEF Same, Fresh
<1>2. CASE left[<<r, u>>] > 0
  BY <1>1, <1>2 DEF Waiting, DepthExceeded
<1>3. CASE Park
  <2>1. pass.ev \in Runs /\ Over(pass.ev) /\ ~DepthExceeded(run[pass.ev].depth)
    BY <1>3 DEF PassReads, Seen, InPass, AtEvent, Park, PassClaims, Claimed
  <2>2. <<r, u>> # <<pass.r, pass.ev>> => left'[<<r, u>>] = left[<<r, u>>]
    BY <1>3 DEF Park, parkVars, Pairs
  <2>3. CASE u = pass.ev
    <3>1. u \in Used
      BY <2>1, <2>3 DEF Over, Used, Ended
    <3> QED
      BY <1>1, <2>1, <2>3, <3>1 DEF DepthExceeded
  <2>4. CASE u # pass.ev
    BY <1>2, <2>2, <2>4
  <2> QED
    BY <2>3, <2>4
<1>4. CASE left'[<<r, u>>] \in {left[<<r, u>>], left[<<r, u>>] - 1}
  <2>1. left[<<r, u>>] \in Nat /\ left[<<r, u>>] > 0
    BY <1>4 DEF Pairs
  <2> QED
    BY <1>2, <2>1
<1>5. Park \/ left'[<<r, u>>] \in {left[<<r, u>>], left[<<r, u>>] - 1}
  <2>1. left[<<r, u>>] \in Nat
    BY DEF Pairs
  <2>2. ASSUME NEW q \in Reactions, NEW v \in Runs, left' = [left EXCEPT ![<<q, v>>] = @ - 1]
        PROVE  left'[<<r, u>>] \in {left[<<r, u>>], left[<<r, u>>] - 1}
    BY <2>1, <2>2 DEF Pairs
  <2>3. UNCHANGED left => left'[<<r, u>>] = left[<<r, u>>]
    OBVIOUS
  <2>4. Reactor \/ ReactorFails \/ Boot \/ UNCHANGED vars => Park \/ UNCHANGED left
    BY DEF Reactor, ReactorFails, FirstPass, CollectJobs, CollectFlows, MatchEvent, EventDone,
           NextReaction, Claim, ClaimFails, Judge, Finish, SaveCursor, Boot, vars, parkVars
  <2>5. World => \/ UNCHANGED left
                 \/ \E q \in Reactions, v \in Runs : left' = [left EXCEPT ![<<q, v>>] = @ - 1]
    BY DEF World, Start, StartChild, End, CancelFlow, Promote, DropParked, WriteReaction,
           DeleteReaction, Toggle, Tick, ServerCrash, parkVars
  <2> QED
    BY <2>2, <2>3, <2>4, <2>5 DEF Next
<1> QED
  BY <1>3, <1>4, <1>5

LEMMA HorizonsStep ==
  ASSUME IInv, [Next]_vars PROVE Horizons'
<1> USE ConstantsAssumption, LagAssumption DEF IInv, TypeOK, Horizons
<1>1. InView \in Int /\ InView' \in Int /\ InView <= InView'
  <2>1. CASE UNCHANGED <<clock, cursor>>
    BY <2>1 DEF InView
  <2>2. CASE Tick
    BY <2>2 DEF InView, Tick
  <2>3. ASSUME NEW failed \in BOOLEAN, FirstPass(failed) PROVE InView' \in Int /\ InView <= InView'
    <3>1. cursor' = clock /\ clock' = clock /\ clock \in Nat
      BY <2>3 DEF FirstPass, Anchor, worldVars
    <3>2. cursor # None => cursor \in Nat /\ cursor <= clock
      BY DEF Clocked
    <3> QED
      BY <3>1, <3>2 DEF InView
  <2>4. ASSUME NEW failed \in BOOLEAN, SaveCursor(failed) PROVE InView' \in Int /\ InView <= InView'
    <3>1. cursor \in Nat /\ pass.newest \in Nat /\ cursor <= pass.newest
      BY <2>4 DEF SaveCursor, PassReads, InPass
    <3>2. cursor' \in {cursor, pass.newest}
      BY <2>4 DEF SaveCursor
    <3> QED
      BY <3>1, <3>2 DEF InView
  <2>5. Reactor \/ ReactorFails \/ Boot =>
          \/ UNCHANGED <<clock, cursor>>
          \/ \E failed \in BOOLEAN : FirstPass(failed) \/ SaveCursor(failed)
    BY DEF Reactor, ReactorFails, CollectJobs, CollectFlows, MatchEvent, EventDone,
           NextReaction, Claim, ClaimFails, Judge, Park, Finish, Boot, worldVars
  <2>6. World \/ UNCHANGED vars => UNCHANGED <<clock, cursor>> \/ Tick
    BY DEF World, Start, StartChild, End, CancelFlow, Promote, DropParked, WriteReaction,
           DeleteReaction, Toggle, ServerCrash, vars, worldVars
  <2>7. InView \in Int
    BY DEF InView
  <2> QED
    BY <2>1, <2>2, <2>3, <2>4, <2>5, <2>6, <2>7 DEF Next
<1>2. CASE UNCHANGED horizon
  BY <1>1, <1>2
<1>3. ASSUME NEW r \in Reactions, WriteReaction(r) PROVE Horizons'
  BY <1>1, <1>3 DEF WriteReaction
<1>4. UNCHANGED horizon \/ \E r \in Reactions : WriteReaction(r)
  <2>1. Reactor \/ ReactorFails \/ Boot \/ UNCHANGED vars => UNCHANGED horizon
    BY DEF Reactor, ReactorFails, FirstPass, CollectJobs, CollectFlows, MatchEvent, EventDone,
           NextReaction, Claim, ClaimFails, Judge, Park, Finish, SaveCursor, Boot, vars, catalogVars
  <2>2. World => UNCHANGED horizon \/ \E r \in Reactions : WriteReaction(r)
    BY DEF World, Start, StartChild, End, CancelFlow, Promote, DropParked,
           DeleteReaction, Toggle, Tick, ServerCrash, catalogVars
  <2> QED
    BY <2>1, <2>2 DEF Next
<1> QED
  BY <1>2, <1>3, <1>4

\* A step that moves neither a time nor what a pass has seen of one.
Untimed == UNCHANGED <<clock, run, cursor>> /\ pass'.newest = pass.newest

LEMMA ClockedStep ==
  ASSUME IInv, [Next]_vars PROVE Clocked'
<1> USE ConstantsAssumption, LagAssumption DEF IInv, TypeOK, Clocked
<1>1. ASSUME UNCHANGED <<run, pass, cursor>>, clock' \in {clock, clock + 1} PROVE Clocked'
  <2>1. clock \in Nat /\ pass.newest \in Nat /\ \A u \in Runs : run[u].at \in Nat
    OBVIOUS
  <2>2. cursor # None => cursor \in Nat
    OBVIOUS
  <2> QED
    BY ONLY <1>1, <2>1, <2>2, Clocked DEF Clocked
<1>2. ASSUME NEW row \in RowType, NewRun(row), row.at = 0, UNCHANGED <<clock, pass, cursor>>
      PROVE  Clocked'
  BY <1>2 DEF NewRun
<1>3. ASSUME NEW d \in Defs, Start(d) PROVE Clocked'
  <2> DEFINE row == [NoRun EXCEPT !.def = d, !.status = "running"]
  <2>1. row \in RowType /\ row.at = 0
    BY DEF NoRun, RowType, Status
  <2>2. NewRun(row) /\ UNCHANGED <<clock, pass, cursor>>
    BY <1>3 DEF Start
  <2> HIDE DEF row
  <2> QED
    BY <1>2, <2>1, <2>2
<1>4. ASSUME NEW w \in Runs, NEW d \in Defs, NEW failed \in BOOLEAN, StartChild(w, d, failed)
      PROVE  Clocked'
  <2>1. ChildRow(w, d, failed) \in RowType /\ ChildRow(w, d, failed).at = 0
    <3>1. ChildDepth(w, failed) \in Nat /\ run[w].hops \in Nat /\ run[w].forgot \in Nat
            /\ w \in Nat
      BY DEF ChildDepth, Runs
    <3> QED
      BY ONLY <3>1, d \in Defs DEF ChildRow, NoRun, RowType, Status
  <2>2. NewRun(ChildRow(w, d, failed)) /\ UNCHANGED <<clock, pass, cursor>>
    BY <1>4 DEF StartChild, ChildRow
  <2> QED
    BY <1>2, <2>1, <2>2
<1>5. ASSUME NEW r \in Reactions, NEW u \in Runs, Promote(r, u) PROVE Clocked'
  <2>1. NextRow(r, u) \in RowType /\ NextRow(r, u).at = 0
    <3>1. run[u].depth + 1 \in Nat /\ run[u].hops + 1 \in Nat /\ Owner[r] \in Defs
            /\ run[u].forgot \in Nat
      OBVIOUS
    <3> QED
      BY ONLY <3>1 DEF NextRow, NoRun, RowType, Status
  <2>2. NewRun(NextRow(r, u)) /\ UNCHANGED <<clock, pass, cursor>>
    BY <1>5 DEF Promote, NextRow
  <2> QED
    BY <1>2, <2>1, <2>2
<1>6. ASSUME NEW u \in Runs, NEW status \in Status, NEW lag \in 0 .. Lag, End(u, status, lag)
      PROVE  Clocked'
  <2>1. /\ run' = [run EXCEPT ![u].status = status, ![u].at = clock - lag]
        /\ UNCHANGED <<clock, pass, cursor>> /\ clock - lag <= clock
    BY <1>6 DEF End
  <2> QED
    BY <2>1
<1>7. ASSUME NEW u \in Runs, CancelFlow(u) PROVE Clocked'
  <2>1. run' = [run EXCEPT ![u].cancelled = TRUE] /\ UNCHANGED <<clock, pass, cursor>>
    BY <1>7 DEF CancelFlow
  <2> QED
    BY <2>1
<1>8. CASE Tick
  BY <1>1, <1>8 DEF Tick
<1>9. CASE ServerCrash
  BY <1>9 DEF ServerCrash, NoPass, worldVars
<1>10. ASSUME NEW failed \in BOOLEAN, FirstPass(failed) PROVE Clocked'
  BY <1>10 DEF FirstPass, Anchor, worldVars
<1>11. ASSUME NEW failed \in BOOLEAN, CollectJobs(failed) PROVE Clocked'
  <2>1. pass'.newest = cursor /\ cursor # None /\ UNCHANGED <<clock, run, cursor>>
    BY <1>11 DEF CollectJobs, NoPass, worldVars
  <2> QED
    BY <2>1
<1>12. ASSUME NEW failed \in BOOLEAN, CollectFlows(failed) PROVE Clocked'
  <2>1. pass'.newest \in {0, pass.newest} /\ UNCHANGED <<clock, run, cursor>>
    BY <1>12 DEF CollectFlows, NoPass, worldVars
  <2> QED
    BY <2>1
<1>13. ASSUME NEW u \in Runs, NEW failed \in BOOLEAN, MatchEvent(u, failed) PROVE Clocked'
  <2>1. pass'.newest = Later(pass.newest, run[u].at) /\ UNCHANGED <<clock, run, cursor>>
    BY <1>13 DEF MatchEvent, worldVars
  <2>2. pass'.newest \in {pass.newest, run[u].at}
    BY <2>1 DEF Later
  <2> QED
    BY <2>1, <2>2
<1>14. ASSUME NEW failed \in BOOLEAN, SaveCursor(failed) PROVE Clocked'
  <2>1. /\ cursor' \in {cursor, pass.newest} /\ pass'.newest = 0 /\ UNCHANGED <<clock, run>>
        /\ cursor # None
    BY <1>14 DEF SaveCursor, NoPass, worldVars, PassReads, InPass
  <2> QED
    BY <2>1
<1>15. ASSUME Untimed PROVE Clocked'
  BY <1>15 DEF Untimed
<1>16. /\ EventDone \/ Claim \/ ClaimFails \/ Park => Untimed
       /\ \A r \in Reactions : NextReaction(r) => Untimed
       /\ \A unread : Judge(unread) => Untimed
       /\ \A failed : Finish(failed) => Untimed
  <2>1. \A m, v, r : \A new \in {[pass EXCEPT !.ev = 0, !.off = {}], [pass EXCEPT !.matched = m, !.r = r],
                             [pass EXCEPT !.r = r, !.verdict = v], [pass EXCEPT !.verdict = v], pass} :
          new.newest = pass.newest
    BY DEF TypeOK
  <2>2. EventDone \/ Claim \/ ClaimFails \/ Park => Untimed
    BY <2>1 DEF EventDone, Claim, ClaimFails, Park, PairDone, worldVars, Untimed
  <2>3. \A r \in Reactions : NextReaction(r) => Untimed
    BY <2>1 DEF NextReaction, worldVars, Untimed
  <2>4. \A unread : Judge(unread) => Untimed
    BY <2>1 DEF Judge, worldVars, Untimed
  <2>5. \A failed : Finish(failed) => Untimed
    BY <2>1 DEF Finish, PairDone, worldVars, Untimed
  <2> QED
    BY <2>2, <2>3, <2>4, <2>5
<1>17. Boot \/ UNCHANGED vars => UNCHANGED <<run, pass, cursor, clock>>
  BY DEF Boot, vars, worldVars
<1>18. ASSUME NEW r \in Reactions
       PROVE  /\ \A u \in Runs : DropParked(r, u) => UNCHANGED <<run, pass, cursor, clock>>
              /\ WriteReaction(r) \/ DeleteReaction(r) => UNCHANGED <<run, pass, cursor, clock>>
              /\ \A g \in Gates : Toggle(r, g) => UNCHANGED <<run, pass, cursor, clock>>
  BY DEF DropParked, WriteReaction, DeleteReaction, Toggle, worldVars
<1>19. World => Clocked'
  BY <1>1, <1>3, <1>4, <1>5, <1>6, <1>7, <1>8, <1>9, <1>18 DEF World
<1>20. Reactor \/ ReactorFails => Clocked'
  BY <1>10, <1>11, <1>12, <1>13, <1>14, <1>15, <1>16 DEF Reactor, ReactorFails
<1> QED
  BY <1>1, <1>17, <1>19, <1>20 DEF Next

LEMMA BrakeStep ==
  ASSUME IInv, [Next]_vars PROVE Brake'
<1> USE DEF IInv, TypeOK
<1>1. ASSUME \A r \in Reactions, u \in Runs :
               Counts(r, u)' => Counts(r, u) /\ claimedAt'[<<r, u>>] = claimedAt[<<r, u>>]
      PROVE  Brake'
  BY <1>1 DEF Brake, Apart
<1>2. CASE WorldKeeps
  BY <1>1, <1>2 DEF WorldKeeps, Counts
<1>3. CASE Claim
  <2>1. pc' \in {"judge", "match"}
    BY <1>3 DEF Claim, PairDone
  <2>2. ASSUME NEW r \in Reactions, NEW u \in Runs, Counts(r, u)'
        PROVE  Counts(r, u) /\ claimedAt'[<<r, u>>] = claimedAt[<<r, u>>]
    <3>1. result'[<<r, u>>] = "fired" /\ <<r, u>> \in Pairs
      BY <2>1, <2>2 DEF Counts, Pairs
    <3>a. ~unbraked[<<r, u>>]
      BY <1>3, <2>2 DEF Claim, Counts, deliveryVars
    <3>2. CASE UNCHANGED <<result, claimedAt>>
      BY <3>1, <3>2, <3>a DEF Counts
    <3>3. CASE /\ result' = [result EXCEPT ![<<pass.r, pass.ev>>] = "pending"]
               /\ claimedAt' = [claimedAt EXCEPT ![<<pass.r, pass.ev>>] = pass.now]
      <4>1. <<r, u>> # <<pass.r, pass.ev>>
        BY <3>1, <3>3
      <4> QED
        BY <3>1, <3>3, <3>a, <4>1 DEF Counts
    <3> QED
      BY <1>3, <3>2, <3>3 DEF Claim, deliveryVars
  <2> QED
    BY <1>1, <2>2
<1>4. ASSUME NEW unread \in SUBSET Queried, Judge(unread) PROVE Brake'
  <2>1. /\ UNCHANGED <<result, claimedAt>> /\ pass'.r = pass.r /\ pass'.ev = pass.ev
        /\ pass'.verdict = Verdict(pass.r, pass.ev, unread)
        /\ unbraked' = [unbraked EXCEPT ![<<pass.r, pass.ev>>] = RateVeto \in unread]
    BY <1>4 DEF Judge
  <2>a. pass.r \in Reactions /\ pass.ev \in Runs /\ <<pass.r, pass.ev>> \in Pairs
    BY <1>4 DEF PassReads, Seen, InPass, AtEvent, AtPair, Judge, Pairs
  <2>b. result[<<pass.r, pass.ev>>] = "pending"
    BY <1>4 DEF Judge, PassClaims, Claimed
  <2>c. ASSUME NEW r \in Reactions, NEW u \in Runs, result[<<r, u>>] = "fired", Counts(r, u)'
        PROVE  Counts(r, u)
    <3>1. <<r, u>> # <<pass.r, pass.ev>> /\ <<r, u>> \in Pairs
      BY <2>b, <2>c DEF Pairs
    <3>2. unbraked'[<<r, u>>] = unbraked[<<r, u>>]
      BY <2>1, <3>1
    <3> QED
      BY <2>c, <3>2 DEF Counts
  <2>d. ASSUME NEW r \in Reactions, NEW u \in Runs, Counts(r, u)'
        PROVE  \/ result[<<r, u>>] = "fired"
               \/ r = pass.r /\ u = pass.ev /\ pass'.verdict = "fired" /\ RateVeto \notin unread
    <3>1. CASE r = pass.r /\ u = pass.ev
      <4>1. unbraked'[<<r, u>>] = (RateVeto \in unread)
        BY <2>1, <2>a, <3>1
      <4> QED
        BY <2>1, <2>d, <3>1, <4>1 DEF Counts
    <3> QED
      BY <2>1, <2>d, <3>1 DEF Counts
  <2>2. CASE pass'.verdict # "fired" \/ RateVeto \in unread
    BY <1>1, <2>1, <2>2, <2>c, <2>d
  <2>3. CASE pass'.verdict = "fired" /\ RateVeto \notin unread
    <3>1. ~RateBlocks(pass.r)
      BY <2>1, <2>3, VerdictFirst
    <3>2. claimedAt[<<pass.r, pass.ev>>] = pass.now
      BY <1>4 DEF PassClaims, Claimed, Judge
    <3>3. ASSUME NEW u \in Runs, result[<<pass.r, u>>] = "fired"
          PROVE  Apart(pass.r, pass.ev, u)
      <4>1. claimedAt[<<pass.r, u>>] \in Anchors(pass.r)
        BY <3>3 DEF Anchors
      <4>2. ~(pass.now - claimedAt[<<pass.r, u>>] < Interval[pass.r])
        BY <3>1, <4>1 DEF RateBlocks
      <4>3. claimedAt[<<pass.r, u>>] \in Nat /\ pass.now \in Nat /\ Interval[pass.r] \in Nat
        BY <2>a, ConstantsAssumption DEF Pairs
      <4> QED
        BY <3>2, <4>2, <4>3 DEF Apart
    <3>4. ASSUME NEW r \in Reactions, NEW u \in Runs, Counts(r, u)'
          PROVE  result[<<r, u>>] = "fired" \/ (r = pass.r /\ u = pass.ev)
      BY <2>d, <3>4
    <3>5. ASSUME NEW r \in Reactions, NEW u \in Runs, NEW v \in Runs, u # v,
                 Counts(r, u)', Counts(r, v)'
          PROVE  Apart(r, u, v)
      <4>1. CASE result[<<r, u>>] = "fired" /\ result[<<r, v>>] = "fired"
        BY <2>c, <3>5, <4>1 DEF Brake
      <4>2. CASE r = pass.r /\ u = pass.ev
        BY <3>3, <3>4, <3>5, <4>2
      <4>3. CASE r = pass.r /\ v = pass.ev
        BY <3>3, <3>4, <3>5, <4>3 DEF Apart
      <4> QED
        BY <3>4, <3>5, <4>1, <4>2, <4>3
    <3>6. claimedAt' = claimedAt
      BY <2>1
    <3> QED
      BY <3>5, <3>6 DEF Brake, Apart
  <2> QED
    BY <2>2, <2>3
<1>5. CASE Park
  <2>1. UNCHANGED <<result, claimedAt, unbraked>> /\ pass'.r = pass.r /\ pass'.ev = pass.ev
          /\ pc = "park" /\ (pass'.verdict = "fired" => pass.verdict = "fired")
    BY <1>5 DEF Park, deliveryVars
  <2> QED
    BY <1>1, <2>1 DEF Counts
<1>6. ASSUME NEW failed \in BOOLEAN, Finish(failed) PROVE Brake'
  <2>1. claimedAt' = claimedAt /\ unbraked' = unbraked /\ pc = "finish" /\ pc' = "match"
          /\ (result' = result \/ result' = [result EXCEPT ![<<pass.r, pass.ev>>] = pass.verdict])
    BY <1>6 DEF Finish, PairDone
  <2>2. ASSUME NEW r \in Reactions, NEW u \in Runs, result'[<<r, u>>] = "fired",
               ~unbraked[<<r, u>>]
        PROVE  Counts(r, u)
    <3>1. CASE r = pass.r /\ u = pass.ev
      BY <2>1, <2>2, <3>1 DEF Counts, Pairs
    <3>2. CASE ~(r = pass.r /\ u = pass.ev)
      BY <2>1, <2>2, <3>2 DEF Counts, Pairs
    <3> QED
      BY <3>1, <3>2
  <2> QED
    BY <1>1, <2>1, <2>2 DEF Counts
<1>7. CASE UNCHANGED <<result, claimedAt, unbraked>> /\ pc' \notin {"park", "finish"}
  BY <1>1, <1>7 DEF Counts
<1>8. Reactor \/ ReactorFails =>
        \/ UNCHANGED <<result, claimedAt, unbraked>> /\ pc' \notin {"park", "finish"}
        \/ Claim \/ Park \/ \E failed \in BOOLEAN : Finish(failed)
        \/ \E unread \in SUBSET Queried : Judge(unread)
  BY DEF Reactor, ReactorFails, FirstPass, CollectJobs, CollectFlows, MatchEvent, EventDone,
         NextReaction, ClaimFails, SaveCursor, PairDone, deliveryVars
<1> QED
  BY <1>2, <1>3, <1>4, <1>5, <1>6, <1>7, <1>8, WorldSteps DEF Next

-----------------------------------------------------------------------------
(* The invariant, and what follows from it.                                 *)

LEMMA InvInit ==
  ASSUME Init PROVE IInv
<1> USE ConstantsAssumption, LagAssumption
<1>1. TypeOK
  BY TypeInit
<1>2. run = InitRun(scn) /\ pc = "idle" /\ cursor = None /\ horizon = [r \in Reactions |-> clock - Lookback]
  BY DEF Init
<1>3. \A u \in Runs : /\ run[u].depth = 0 /\ run[u].hops = 0 /\ run[u].forgot = 0
                      /\ run[u].at = 0 /\ (run[u].status # "none" => u = 1)
  BY <1>2 DEF InitRun, NoRun
<1>4. RowsInOrder
  <2>1. ASSUME NEW n \in {0, 1} PROVE IsFiniteSet(1 .. n) /\ Cardinality(1 .. n) = n
    BY FS_Interval
  <2>2. Used = 1 .. 0 \/ Used = 1 .. 1
    BY <1>3 DEF Used
  <2> QED
    BY <2>1, <2>2 DEF RowsInOrder
<1>5. PassReads /\ PassClaims
  BY <1>2 DEF PassReads, PassClaims, InPass, Claimed
<1>6. Deliveries /\ Waiting
  BY DEF Init, Deliveries, Waiting, Pairs
<1>7. Depths
  BY <1>3 DEF Depths
<1>8. Brake
  BY DEF Init, Brake, Counts, Pairs
<1>9. Horizons
  BY <1>1, <1>2 DEF Horizons, InView, TypeOK
<1>10. Clocked
  BY <1>1, <1>2, <1>3 DEF Init, Clocked, NoPass, TypeOK
<1> QED
  BY <1>1, <1>4, <1>5, <1>6, <1>7, <1>8, <1>9, <1>10 DEF IInv

LEMMA InvStep ==
  ASSUME IInv, [Next]_vars PROVE IInv'
<1>1. TypeOK'
  <2>1. CASE UNCHANGED vars
    BY <2>1 DEF IInv, TypeOK, vars, worldVars, catalogVars, deliveryVars, parkVars, boundVars
  <2> QED
    BY <2>1, TypeReactor, TypeWorld DEF IInv, Next
<1>2. RowsInOrder'
  BY RowSteps DEF IInv
<1> QED
  BY <1>1, <1>2, PassReadsStep, PassClaimsStep, DeliveriesStep, WaitingStep, DepthsStep,
     BrakeStep, HorizonsStep, ClockedStep DEF IInv

LEMMA InvAlways == Spec => []IInv
<1>1. IInv /\ [Next]_vars => IInv'
  BY InvStep
<1> QED
  BY <1>1, InvInit, PTL DEF Spec

\* However often the overlapping windows of the passes show a finished run, and
\* over restarts and failed writes, a reaction parks one run for it at most
\* (deliverOne's claim).
THEOREM FiresOncePerEvent == Spec => []OncePerEvent
<1>1. IInv => OncePerEvent
  BY DEF IInv, Deliveries, OncePerEvent
<1> QED
  BY <1>1, InvAlways, PTL

\* Two runs that a reaction parks are claimed a minimum interval apart, unless a
\* verdict was never recorded, or was given while the query of the last firing
\* failed (reactionVerdict, lastFiredAt).
THEOREM RateIsLimited == Spec => []RateBrake
<1>1. ASSUME IInv PROVE RateBrake
  <2>1. ASSUME NEW r \in Reactions, NEW u \in Runs, Braked(r, u)
        PROVE  Counts(r, u)
    <3>1. result[<<r, u>>] \in {"pending", "fired"}
      BY <1>1, <2>1 DEF Braked, IInv, Deliveries, Pairs
    <3>2. CASE Deciding(r, u)
      BY <1>1, <2>1, <3>1, <3>2 DEF Braked, IInv, PassClaims, Claimed, Deciding, Counts, Pairs, TypeOK
    <3> QED
      BY <2>1, <3>1, <3>2 DEF Braked, Dangling, Counts
  <2> QED
    BY <1>1, <2>1 DEF IInv, Brake, Apart, RateBrake
<1> QED
  BY <1>1, InvAlways, PTL

\* No chain of reactions is longer than the ceiling allows, also where it runs
\* through the children of workflows, counted from the last child whose depth was
\* lost to a failed read (DepthExceeded, the depth a promoted run and a child run
\* carry).
THEOREM ChainsAreBounded == Spec => []ChainBounded
<1>1. IInv => ChainBounded
  BY DEF IInv, TypeOK, Depths, ChainBounded, Used
<1> QED
  BY <1>1, InvAlways, PTL

\* A reaction never fires on a run that was out of the reactor's sight when the
\* reaction was written (the cursor, reactionLookback).
THEOREM NeverFarBack == Spec => RetroBounded
<1>1. ASSUME IInv, [Next]_vars, NEW r \in Reactions, NEW u \in Runs,
             made'[<<r, u>>] > made[<<r, u>>]
      PROVE  run[u].at >= horizon[r]
  <2>1. Park
    <3>1. made[<<r, u>>] \in Nat
      BY <1>1 DEF IInv, TypeOK, Pairs
    <3>2. ~UNCHANGED made
      BY <1>1, <3>1
    <3>3. Reactor \/ ReactorFails => Park \/ UNCHANGED made
      BY DEF Reactor, ReactorFails, FirstPass, CollectJobs, CollectFlows, MatchEvent, EventDone,
             NextReaction, Claim, ClaimFails, Judge, Finish, SaveCursor, parkVars
    <3> QED
      BY <1>1, <3>2, <3>3, WorldSteps DEF Next, WorldKeeps
  <2>2. r = pass.r /\ u = pass.ev
    <3>1. <<r, u>> # <<pass.r, pass.ev>> => made'[<<r, u>>] = made[<<r, u>>]
      BY <1>1, <2>1 DEF Park, parkVars, IInv, TypeOK, Pairs
    <3>2. made[<<r, u>>] \in Nat
      BY <1>1 DEF IInv, TypeOK, Pairs
    <3> QED
      BY <1>1, <3>1, <3>2
  <2>3. run[u].at >= pass.since /\ pass.since = cursor - Lookback /\ cursor # None
    BY <1>1, <2>1, <2>2 DEF IInv, PassReads, Seen, InPass, AtEvent, Park
  <2>4. horizon[r] <= cursor - Lookback
    BY <1>1, <2>3 DEF IInv, Horizons, InView
  <2>5. horizon[r] \in Int /\ run[u].at \in Int /\ cursor - Lookback \in Int
    BY <1>1, <2>3, LagAssumption, ConstantsAssumption DEF IInv, TypeOK
  <2> QED
    BY <2>3, <2>4, <2>5
<1>2. IInv /\ [Next]_vars =>
        [\A r \in Reactions, u \in Runs :
           made'[<<r, u>>] > made[<<r, u>>] => run[u].at >= horizon[r]]_vars
  BY <1>1
<1> QED
  BY <1>2, InvAlways, PTL DEF Spec, RetroBounded

=============================================================================
