-------------------------- MODULE PendingRuns_proofs --------------------------
(***************************************************************************)
(* Proofs about PendingRuns, for any set of requests, jobs, keys and passes *)
(* and any scenario: the types, the concurrency key's exclusion, that a     *)
(* parked request ends once and keeps its mark, how far the queue's cap may *)
(* be passed, and when no fire is lost.                                     *)
(***************************************************************************)
EXTENDS PendingRuns, FiniteSetTheorems, TLAPS

USE ConstantsAssumption DEF Gates, Events

\* A step is one of the actions, or a stutter.
LEMMA Steps ==
  ASSUME [Next]_vars
  PROVE  \/ \E f \in Fires :
              \/ FireRefused(f) \/ FireAdmitted(f) \/ FireCheck(f)
              \/ FireDepth(f) \/ FirePark(f) \/ FireEnqueue(f)
              \/ RunEnds(f) \/ Cancel(f) \/ ComesDue(f) \/ GracePasses(f)
         \/ \E p \in Promoters :
              \/ PassStart(p) \/ PassEnd(p) \/ PassJudge(p) \/ PassHold(p)
              \/ PassDrop(p) \/ PassClear(p) \/ PassOwner(p) \/ PassBin(p)
              \/ PassUnbin(p) \/ PassFit(p) \/ PassMiss(p) \/ PassDelete(p)
              \/ PassEnqueue(p)
         \/ \E j \in Named : MoveJob(j)
         \/ \E j \in Named : PurgeJob(j)
         \/ \E j \in Named, g \in Gates \cup {"unfit"} : TurnGate(j, g)
         \/ ServerCrash
         \/ UNCHANGED vars
BY Zenon DEF Next, Producing, Pass

-----------------------------------------------------------------------------
(* The types.                                                              *)

LEMMA TypeInit == Init => TypeOK
BY DEF Init, TypeOK, FirePc, Answers, Fates, Stamps, PassPc

\* What a producer does keeps the types.
LEMMA TypeFire ==
  ASSUME TypeOK, NEW f \in Fires,
         \/ FireRefused(f) \/ FireAdmitted(f) \/ FireCheck(f)
         \/ FireDepth(f) \/ FirePark(f) \/ FireEnqueue(f)
         \/ RunEnds(f) \/ Cancel(f) \/ ComesDue(f) \/ GracePasses(f)
  PROVE  TypeOK'
<1> USE DEF TypeOK, FirePc, Answers, Fates, Stamps, FireTo, Answer,
            rowVars, jobVars, passVars, fireVars
<1>1. CASE FireRefused(f)
  BY <1>1 DEF FireRefused
<1>2. CASE FireAdmitted(f)
  BY <1>2 DEF FireAdmitted
<1>3. CASE FireCheck(f)
  BY <1>3 DEF FireCheck
<1>4. CASE FireDepth(f)
  BY <1>4 DEF FireDepth
<1>5. CASE FirePark(f)
  BY <1>5 DEF FirePark
<1>6. CASE FireEnqueue(f)
  BY <1>6 DEF FireEnqueue
<1>7. CASE RunEnds(f)
  BY <1>7 DEF RunEnds
<1>8. CASE Cancel(f)
  BY <1>8 DEF Cancel
<1>9. CASE ComesDue(f)
  BY <1>9 DEF ComesDue
<1>10. CASE GracePasses(f)
  BY <1>10 DEF GracePasses
<1> QED
  BY <1>1, <1>2, <1>3, <1>4, <1>5, <1>6, <1>7, <1>8, <1>9, <1>10

\* Only a gate of the origin is named as the one that refused.
LEMMA RefusalIsGate ==
  ASSUME NEW f \in Fires
  PROVE  Refusals(f, PromotionGates(f)) \subseteq Gates
BY DEF Refusals, PromotionGates

\* What a pass does keeps the types.
LEMMA TypePass ==
  ASSUME TypeOK, NEW p \in Promoters,
         \/ PassStart(p) \/ PassEnd(p) \/ PassJudge(p) \/ PassHold(p)
         \/ PassDrop(p) \/ PassClear(p) \/ PassOwner(p) \/ PassBin(p)
         \/ PassUnbin(p) \/ PassFit(p) \/ PassMiss(p) \/ PassDelete(p)
         \/ PassEnqueue(p)
  PROVE  TypeOK'
\* The steps that write no more than a stamp and move the pass on.
<1>a. ASSUME stamp' \in [Fires -> Stamps], NEW w \in PassPc, PassTo(p, w), ppc[p] \notin {"idle", "next"},
             UNCHANGED <<scenario, age, todo, cur, row, fate, fireVars, jobVars>>
      PROVE  TypeOK'
  <2>1. cur[p] \in Snapshot /\ ppc' = [ppc EXCEPT ![p] = w]
    BY <1>a DEF TypeOK, PassTo
  <2>2. /\ ppc' \in [Promoters -> PassPc]
        /\ \A q \in Promoters : ppc'[q] \notin {"idle", "next"} => cur[q] \in Snapshot
    BY <1>a, <2>1 DEF TypeOK
  <2> QED
    BY <1>a, <2>2 DEF TypeOK, jobVars, fireVars
<1>b. \A f, s : s \in Stamps => [stamp EXCEPT ![f] = s] \in [Fires -> Stamps]
  BY DEF TypeOK
<1>c. stamp \in [Fires -> Stamps] /\ None \in Stamps /\ "recycle_bin" \in Stamps
  BY DEF TypeOK, Stamps
<1>d. "owner" \in PassPc /\ "next" \in PassPc /\ "judge" \in PassPc
  BY DEF PassPc
<1>6. CASE PassClear(p)
  <2>1. stamp' \in [Fires -> Stamps] /\ ppc[p] = "clear" /\ PassTo(p, "owner")
    BY <1>6, <1>b, <1>c DEF PassClear
  <2> QED
    BY <1>6, <1>a, <1>d, <2>1 DEF PassClear
<1>8. CASE PassBin(p)
  <2>1. stamp' \in [Fires -> Stamps] /\ ppc[p] = "bin" /\ PassTo(p, "next")
    BY <1>8, <1>b, <1>c DEF PassBin
  <2> QED
    BY <1>8, <1>a, <1>d, <2>1 DEF PassBin
<1>9. CASE PassUnbin(p)
  <2>1. stamp' \in [Fires -> Stamps] /\ ppc[p] = "unbin" /\ PassTo(p, "judge")
    BY <1>9, <1>b, <1>c DEF PassUnbin
  <2> QED
    BY <1>9, <1>a, <1>d, <2>1 DEF PassUnbin
<1> USE DEF TypeOK, PassPc, PassTo, rowVars, jobVars, passVars, fireVars
<1>1. CASE PassStart(p)
  <2>1. Due \subseteq Fires
    BY DEF Due
  <2>2. \A f \in Due : [fire |-> f, stamp |-> stamp[f],
                        late |-> Late(f), gate |-> None] \in Snapshot
    BY <2>1 DEF Snapshot, Late
  <2> QED
    BY <1>1, <2>2 DEF PassStart
<1>2. CASE PassEnd(p)
  BY <1>2 DEF PassEnd
<1>3. CASE PassJudge(p)
  <2>1. PICK s \in todo[p] :
          /\ todo' = [todo EXCEPT ![p] = @ \ {s}]
          /\ \/ PassTo(p, "miss") /\ cur' = [cur EXCEPT ![p] = s]
             \/ \E g \in Refusals(s.fire, PromotionGates(s.fire)) :
                  /\ PassTo(p, IF g = "own" THEN "drop" ELSE "hold")
                  /\ cur' = [cur EXCEPT ![p] = [s EXCEPT !.gate = g]]
             \/ /\ PassTo(p, IF s.stamp \in Gates THEN "clear" ELSE "owner")
                /\ cur' = [cur EXCEPT ![p] = s]
    BY <1>3 DEF PassJudge
  <2>2. s \in Snapshot
    BY DEF Snapshot
  <2>3. s.fire \in Fires
    BY <2>2 DEF Snapshot
  <2>4. \A g \in Refusals(s.fire, PromotionGates(s.fire)) :
          [s EXCEPT !.gate = g] \in Snapshot
    BY <2>2, <2>3, RefusalIsGate DEF Snapshot
  <2>5. todo' \in [Promoters -> SUBSET Snapshot]
    BY <2>1
  <2>6. ppc' \in [Promoters -> PassPc]
    BY <2>1
  <2>7. cur' \in [Promoters -> {None} \cup Snapshot] /\ cur'[p] \in Snapshot
    BY <2>1, <2>2, <2>4
  <2>8. \A q \in Promoters \ {p} : ppc'[q] = ppc[q] /\ cur'[q] = cur[q]
    BY <2>1
  <2>9. UNCHANGED <<scenario, age, fireVars, rowVars, jobVars>>
    BY <1>3 DEF PassJudge
  <2> QED
    BY <2>5, <2>6, <2>7, <2>8, <2>9
<1>4. CASE PassHold(p)
  BY <1>4 DEF PassHold, Snapshot, Stamps
<1>5. CASE PassDrop(p)
  BY <1>5 DEF PassDrop, SetRow, Fates
<1>7. CASE PassOwner(p)
  <2>1. cur[p].fire \in Fires
    BY <1>7 DEF PassOwner, Snapshot
  <2>2. job[JobOf[cur[p].fire]] \in {"live", "binned", "gone"}
    BY <2>1
  <2> QED
    BY <1>7, <2>2 DEF PassOwner
<1>10. CASE PassFit(p)
  BY <1>10 DEF PassFit
<1>11. CASE PassMiss(p)
  BY <1>11 DEF PassMiss, SetRow, Fates
<1>12. CASE PassDelete(p)
  <2>1. row' \in [Fires -> {"none", "pending", "missed"}]
    BY <1>12 DEF PassDelete
  <2>2. cur[p] \in Snapshot /\ \E w \in {"enqueue", "next"} : PassTo(p, w)
    BY <1>12 DEF PassDelete
  <2> QED
    BY <1>12, <2>1, <2>2 DEF PassDelete
<1>13. CASE PassEnqueue(p)
  BY <1>13 DEF PassEnqueue, Fates
<1> QED
  BY <1>1, <1>2, <1>3, <1>4, <1>5, <1>6, <1>7, <1>8, <1>9, <1>10, <1>11,
     <1>12, <1>13

\* What people, the catalog and a crash do keeps the types.
LEMMA TypeWorld ==
  ASSUME TypeOK,
         \/ \E j \in Named : MoveJob(j)
         \/ \E j \in Named : PurgeJob(j)
         \/ \E j \in Named, g \in Gates \cup {"unfit"} : TurnGate(j, g)
         \/ ServerCrash
  PROVE  TypeOK'
<1> USE DEF TypeOK, rowVars, jobVars, passVars, fireVars
<1>0. Named \subseteq Jobs
  BY DEF Named
<1>1. CASE \E j \in Named : MoveJob(j)
  BY <1>0, <1>1 DEF MoveJob
<1>2. CASE \E j \in Named : PurgeJob(j)
  BY <1>0, <1>2 DEF PurgeJob, Fates
<1>3. CASE \E j \in Named, g \in Gates \cup {"unfit"} : TurnGate(j, g)
  BY <1>0, <1>3 DEF TurnGate
<1>4. CASE ServerCrash
  BY <1>4 DEF ServerCrash, FirePc, Answers, Fates, PassPc
<1> QED
  BY <1>1, <1>2, <1>3, <1>4

LEMMA TypeNext == TypeOK /\ [Next]_vars => TypeOK'
<1> SUFFICES ASSUME TypeOK, [Next]_vars PROVE TypeOK'
  OBVIOUS
<1>1. CASE UNCHANGED vars
  BY <1>1 DEF TypeOK, vars, rowVars, jobVars, passVars, fireVars
<1> QED
  BY <1>1, Steps, TypeFire, TypePass, TypeWorld

\* Type correctness: in every reachable state, of whatever size, the rows, the
\* runs and a pass's reading of them are what TypeOK says.
THEOREM TypeCorrect == Spec => []TypeOK
BY TypeInit, TypeNext, PTL DEF Spec

-----------------------------------------------------------------------------
(* One active run of a key.                                                *)

\* A run starts only in the two inserts, and there not beside another of its
\* key: the insert tests the index and writes in one statement.
LEMMA RunSteps ==
  ASSUME TypeOK, [Next]_vars
  PROVE  \/ \A f \in Fires : run'[f] = "active" => run[f] = "active"
         \/ \E f \in Fires : ~Clash(f) /\ run' = [run EXCEPT ![f] = "active"]
<1>1. CASE UNCHANGED run
  BY <1>1
<1>2. CASE \E f \in Fires : RunEnds(f)
  BY <1>2 DEF RunEnds, TypeOK
<1>3. CASE \E f \in Fires : FireEnqueue(f)
  BY <1>1, <1>3 DEF FireEnqueue
<1>4. CASE \E p \in Promoters : PassEnqueue(p)
  <2>1. PICK p \in Promoters : PassEnqueue(p)
    BY <1>4
  <2>2. cur[p].fire \in Fires
    BY <2>1 DEF PassEnqueue, TypeOK, Snapshot
  <2> QED
    BY <1>1, <2>1, <2>2 DEF PassEnqueue
<1> QED
  BY <1>1, <1>2, <1>3, <1>4, Steps
  DEF FireRefused, FireAdmitted, FireCheck, FireDepth, FirePark, Cancel,
      ComesDue, GracePasses, PassStart, PassEnd, PassJudge, PassHold, PassDrop,
      PassClear, PassOwner, PassBin, PassUnbin, PassFit, PassMiss, PassDelete,
      MoveJob, PurgeJob, TurnGate, ServerCrash, vars, fireVars

LEMMA ExclusionStep ==
  ASSUME TypeOK, OneActivePerKey, [Next]_vars
  PROVE  OneActivePerKey'
<1>1. CASE \A f \in Fires : run'[f] = "active" => run[f] = "active"
  BY <1>1 DEF OneActivePerKey, Holds, Key
<1>2. CASE \E f \in Fires : ~Clash(f) /\ run' = [run EXCEPT ![f] = "active"]
  <2>1. PICK f \in Fires : ~Clash(f) /\ run' = [run EXCEPT ![f] = "active"]
    BY <1>2
  <2>2. \A g \in Fires : g # f => run'[g] = run[g]
    BY <2>1 DEF TypeOK
  <2>3. \A g \in Fires : run[g] = "active" /\ Holds(g) /\ Holds(f)
                         => Key(g) # Key(f)
    BY <2>1 DEF Clash, Active
  <2> QED
    BY <2>2, <2>3 DEF OneActivePerKey, Holds, Key
<1> QED
  BY <1>1, <1>2, RunSteps

\* Exclusion: whatever producers and passes interleave between the check of a
\* concurrency key and the insert, one run of the key at most is active.
THEOREM KeyExcludes == Spec => []OneActivePerKey
<1>1. Init => OneActivePerKey
  BY DEF Init, OneActivePerKey
<1> QED
  BY <1>1, ExclusionStep, TypeCorrect, PTL DEF Spec

-----------------------------------------------------------------------------
(* A parked request ends once.  The invariant says who may still settle it: *)
(* while its row is pending anybody whose guarded write finds it; once a     *)
(* pass has deleted the row, that pass alone.                               *)

\* A request nobody has answered has left no trace.
Fresh(f) ==
  pc[f] # "done" => /\ row[f] = "none"
                    /\ fate[f] = None
                    /\ run[f] = "none"
                    /\ answer[f] # "parked"

\* A waiting request was parked, is unsettled and has not run.
Waiting(f) ==
  row[f] = "pending" => /\ fate[f] = None
                        /\ run[f] = "none"
                        /\ answer[f] = "parked"

\* So is one whose row a pass deleted, and no other pass has it in hand.
InHand(p) ==
  ppc[p] = "enqueue" =>
    LET f == cur[p].fire
    IN  /\ row[f] = "none"
        /\ fate[f] = None
        /\ run[f] = "none"
        /\ pc[f] = "done"
        /\ answer[f] = "parked"
        /\ \A q \in Promoters \ {p} : ppc[q] = "enqueue" => cur[q].fire # f

\* A request that was not parked has no fate, and a missed row tells its own.
Unparked(f) ==
  /\ answer[f] # "parked" => fate[f] = None /\ row[f] = "none"
  /\ row[f] = "missed" => fate[f] = "missed" /\ run[f] = "none"

SettleInv ==
  /\ TypeOK
  /\ StartsOnce
  /\ \A f \in Fires : Fresh(f) /\ Waiting(f) /\ Unparked(f)
  /\ \A p \in Promoters : InHand(p)

LEMMA SettleInit == Init => SettleInv
BY TypeInit DEF Init, SettleInv, StartsOnce, Fresh, Waiting, Unparked, InHand,
   ConstantsAssumption, Answers

LEMMA SettleFire ==
  ASSUME SettleInv, NEW f \in Fires,
         \/ FireRefused(f) \/ FireAdmitted(f) \/ FireCheck(f)
         \/ FireDepth(f) \/ FirePark(f) \/ FireEnqueue(f)
         \/ RunEnds(f) \/ Cancel(f) \/ ComesDue(f) \/ GracePasses(f)
  PROVE  Settled /\ SettleInv'
<1>0. TypeOK'
  BY TypeFire DEF SettleInv
<1>a. \A p \in Promoters : ppc[p] = "enqueue" => cur[p].fire \in Fires
  BY DEF SettleInv, TypeOK, Snapshot
<1> USE <1>0, <1>a DEF SettleInv, Settled, TypeOK, StartsOnce, Fresh, Waiting,
                       Unparked, InHand, FireTo, Answer, rowVars, jobVars,
                       passVars, fireVars
<1>1. CASE FireRefused(f)
  BY <1>1 DEF FireRefused
<1>2. CASE FireAdmitted(f)
  BY <1>2 DEF FireAdmitted
<1>3. CASE FireCheck(f)
  BY <1>3 DEF FireCheck
<1>4. CASE FireDepth(f)
  BY <1>4 DEF FireDepth
<1>5. CASE FirePark(f)
  BY <1>5 DEF FirePark
<1>6. CASE FireEnqueue(f)
  BY <1>6 DEF FireEnqueue
<1>7. CASE RunEnds(f)
  BY <1>7 DEF RunEnds
<1>8. CASE Cancel(f)
  BY <1>8 DEF Cancel
<1>9. CASE ComesDue(f)
  BY <1>9 DEF ComesDue
<1>10. CASE GracePasses(f)
  BY <1>10 DEF GracePasses
<1> QED
  BY <1>1, <1>2, <1>3, <1>4, <1>5, <1>6, <1>7, <1>8, <1>9, <1>10

LEMMA SettlePass ==
  ASSUME SettleInv, NEW p \in Promoters,
         \/ PassStart(p) \/ PassEnd(p) \/ PassJudge(p) \/ PassHold(p)
         \/ PassDrop(p) \/ PassClear(p) \/ PassOwner(p) \/ PassBin(p)
         \/ PassUnbin(p) \/ PassFit(p) \/ PassMiss(p) \/ PassDelete(p)
         \/ PassEnqueue(p)
  PROVE  Settled /\ SettleInv'
<1>0. TypeOK'
  BY TypePass DEF SettleInv
<1>a. \A q \in Promoters : ppc[q] \notin {"idle", "next"} => cur[q].fire \in Fires
  BY DEF SettleInv, TypeOK, Snapshot
<1> USE <1>0, <1>a DEF SettleInv, Settled, TypeOK, StartsOnce, Fresh, Waiting,
                       Unparked, InHand, PassTo, rowVars, jobVars, passVars,
                       fireVars
\* The passes' reads and stamps touch neither a row, nor a fate, nor a run, and
\* bring no pass to its insert.
<1>1. ASSUME UNCHANGED <<row, fate, fireVars>>,
             ppc'[p] # "enqueue",
             \A q \in Promoters \ {p} : ppc'[q] = ppc[q] /\ cur'[q] = cur[q]
      PROVE  Settled /\ SettleInv'
  <2>1. UNCHANGED <<row, fate, pc, answer, run>>
    BY <1>1
  <2>2. Settled /\ StartsOnce' /\ \A f \in Fires : (Fresh(f) /\ Waiting(f) /\ Unparked(f))'
    BY <2>1
  <2>3. ASSUME NEW q \in Promoters PROVE InHand(q)'
    BY <1>1, <2>1
  <2> QED
    BY <2>2, <2>3
<1>2. CASE PassStart(p) \/ PassEnd(p) \/ PassJudge(p)
  BY <1>1, <1>2 DEF PassStart, PassEnd, PassJudge
<1>3. CASE PassHold(p) \/ PassClear(p)
  BY <1>1, <1>3 DEF PassHold, PassClear
<1>b. CASE PassBin(p) \/ PassUnbin(p)
  BY <1>1, <1>b DEF PassBin, PassUnbin
<1>c. CASE PassFit(p)
  BY <1>1, <1>c DEF PassFit
<1>4. CASE PassOwner(p)
  <2>1. ppc'[p] # "enqueue"
    BY <1>4 DEF PassOwner
  <2>2. UNCHANGED <<row, fate, fireVars>> /\ \A q \in Promoters \ {p} : ppc'[q] = ppc[q] /\ cur'[q] = cur[q]
    BY <1>4 DEF PassOwner
  <2> QED
    BY <1>1, <2>1, <2>2
<1>5. CASE PassDrop(p)
  BY <1>5 DEF PassDrop, SetRow
<1>6. CASE PassMiss(p)
  BY <1>6 DEF PassMiss, SetRow
<1>7. CASE PassDelete(p)
  BY <1>7 DEF PassDelete, Won
<1>8. CASE PassEnqueue(p)
  BY <1>8 DEF PassEnqueue
<1> QED
  BY <1>2, <1>3, <1>b, <1>c, <1>4, <1>5, <1>6, <1>7, <1>8

LEMMA SettleWorld ==
  ASSUME SettleInv,
         \/ \E j \in Named : MoveJob(j)
         \/ \E j \in Named : PurgeJob(j)
         \/ \E j \in Named, g \in Gates \cup {"unfit"} : TurnGate(j, g)
         \/ ServerCrash
  PROVE  Settled /\ SettleInv'
<1>0. TypeOK'
  BY TypeWorld DEF SettleInv
<1>a. \A p \in Promoters : ppc[p] = "enqueue" => cur[p].fire \in Fires
  BY DEF SettleInv, TypeOK, Snapshot
<1> USE <1>0, <1>a DEF SettleInv, Settled, TypeOK, StartsOnce, Fresh, Waiting,
                       Unparked, InHand, rowVars, jobVars, passVars, fireVars
<1>1. CASE \E j \in Named : MoveJob(j)
  BY <1>1 DEF MoveJob
<1>2. CASE \E j \in Named : PurgeJob(j)
  BY <1>2 DEF PurgeJob
<1>3. CASE \E j \in Named, g \in Gates \cup {"unfit"} : TurnGate(j, g)
  BY <1>3 DEF TurnGate
<1>4. CASE ServerCrash
  BY <1>4 DEF ServerCrash
<1> QED
  BY <1>1, <1>2, <1>3, <1>4

LEMMA SettleStep == SettleInv /\ [Next]_vars => Settled /\ SettleInv'
<1> SUFFICES ASSUME SettleInv, [Next]_vars PROVE Settled /\ SettleInv'
  OBVIOUS
<1>1. CASE UNCHANGED vars
  BY <1>1, TypeNext DEF SettleInv, Settled, StartsOnce, Fresh, Waiting, Unparked,
     InHand, vars, rowVars, jobVars, passVars, fireVars
<1> QED
  BY <1>1, Steps, SettleFire, SettlePass, SettleWorld

LEMMA SettleAlways == Spec => []SettleInv
<1>1. SettleInv /\ [Next]_vars => SettleInv'
  BY SettleStep
<1> QED
  BY <1>1, SettleInit, PTL DEF Spec

\* A request starts at most one run, and none while its row waits.
THEOREM RequestStartsOnce == Spec => []StartsOnce
<1>1. SettleInv => StartsOnce
  BY DEF SettleInv
<1> QED
  BY <1>1, SettleAlways, PTL

\* Cancelled, missed, dropped, deleted or started: the first to settle a parked
\* request is the last.
THEOREM SettledOnce == Spec => FateIsFinal
<1>1. SettleInv /\ [Next]_vars => [Settled]_vars
  BY SettleStep
<1> QED
  BY <1>1, SettleAlways, PTL DEF Spec, FateIsFinal

-----------------------------------------------------------------------------
(* A queued fire keeps its mark.  Whoever writes gate_kind tests it in the    *)
(* same statement, except the producer that parks the row, and its row is new. *)

\* What QueuedStaysQueued says of one step.
MarkKept ==
  \A f \in Fires :
    row[f] = "pending" /\ stamp[f] = "concurrency" /\ row'[f] = "pending"
    => stamp'[f] = "concurrency"

LEMMA MarkStep ==
  ASSUME SettleInv, [Next]_vars
  PROVE  MarkKept
<1>1. CASE UNCHANGED stamp
  BY <1>1 DEF MarkKept
<1>2. ASSUME NEW f \in Fires, FirePark(f) PROVE MarkKept
  <2>1. row[f] # "pending"
    BY <1>2 DEF FirePark, SettleInv, Fresh
  <2> QED
    BY <1>2, <2>1 DEF FirePark, MarkKept, SettleInv, TypeOK
<1>3. ASSUME NEW f \in Fires, stamp[f] # "concurrency",
             \E s \in Stamps : stamp' = [stamp EXCEPT ![f] = s]
      PROVE  MarkKept
  BY <1>3 DEF MarkKept, SettleInv, TypeOK
<1>4. ASSUME NEW p \in Promoters,
             \/ PassHold(p) \/ PassClear(p) \/ PassBin(p) \/ PassUnbin(p)
      PROVE  MarkKept
  <2>1. cur[p].fire \in Fires /\ cur[p].gate \in {None} \cup Gates
    BY <1>4 DEF PassHold, PassClear, PassBin, PassUnbin, SettleInv, TypeOK, Snapshot
  <2>2. CASE PassHold(p)
    BY <1>1, <1>3, <2>1, <2>2 DEF PassHold, Stamps
  <2>3. CASE PassClear(p)
    BY <1>1, <1>3, <2>1, <2>3 DEF PassClear, Stamps
  <2>4. CASE PassBin(p)
    BY <1>1, <1>3, <2>1, <2>4 DEF PassBin, Unstamped, Stamps
  <2>5. CASE PassUnbin(p)
    BY <1>1, <1>3, <2>1, <2>5 DEF PassUnbin, Stamps
  <2> QED
    BY <1>4, <2>2, <2>3, <2>4, <2>5
<1>5. CASE \E f \in Fires : \/ FireRefused(f) \/ FireAdmitted(f) \/ FireCheck(f)
                            \/ FireDepth(f) \/ FireEnqueue(f) \/ RunEnds(f)
                            \/ Cancel(f) \/ ComesDue(f) \/ GracePasses(f)
  BY <1>1, <1>5
  DEF FireRefused, FireAdmitted, FireCheck, FireDepth, FireEnqueue, RunEnds,
      Cancel, ComesDue, GracePasses, rowVars
<1>6. CASE \E p \in Promoters : \/ PassStart(p) \/ PassEnd(p) \/ PassJudge(p)
                                \/ PassDrop(p) \/ PassOwner(p) \/ PassFit(p)
                                \/ PassMiss(p) \/ PassDelete(p) \/ PassEnqueue(p)
  BY <1>1, <1>6
  DEF PassStart, PassEnd, PassJudge, PassDrop, PassOwner, PassFit, PassMiss,
      PassDelete, PassEnqueue, rowVars
<1>7. CASE \/ \E j \in Named : MoveJob(j)
           \/ \E j \in Named : PurgeJob(j)
           \/ \E j \in Named, g \in Gates \cup {"unfit"} : TurnGate(j, g)
           \/ ServerCrash
           \/ UNCHANGED vars
  BY <1>1, <1>7 DEF MoveJob, PurgeJob, TurnGate, ServerCrash, vars, rowVars
<1> QED
  BY <1>2, <1>4, <1>5, <1>6, <1>7, Steps

\* The record that a waiting row is a queued fire survives every pass, gate, trip
\* through the bin and crash, so that its place in the queue is counted.
THEOREM MarkStays == Spec => QueuedStaysQueued
<1>1. SettleInv /\ [Next]_vars => [MarkKept]_vars
  BY MarkStep
<1> QED
  BY <1>1, SettleAlways, PTL DEF Spec, QueuedStaysQueued, MarkKept

-----------------------------------------------------------------------------
(* The queue's bound, and by how much concurrent requests may pass it.      *)

\* What a step does to the rows behind a key and to the requests about to join.
Shrinks(k) == QueuedBehind(k)' \subseteq QueuedBehind(k) /\ Joining(k)' \subseteq Joining(k)
Counted(k, f) ==
  /\ QueuedBehind(k)' \subseteq QueuedBehind(k) /\ Joining(k)' \subseteq Joining(k) \cup {f}
  /\ ~(Cardinality(QueuedBehind(k)) >= QueueCap)
Joins(k, f) ==
  /\ QueuedBehind(k)' \subseteq QueuedBehind(k) \cup {f} /\ Joining(k)' \subseteq Joining(k) \ {f}
  /\ f \in Joining(k)

\* A request joins a queue by its own two steps.
LEMMA FireQueues ==
  ASSUME TypeOK, NEW k \in Keys, NEW f \in Fires,
         \/ FireRefused(f) \/ FireAdmitted(f) \/ FireCheck(f)
         \/ FireDepth(f) \/ FirePark(f) \/ FireEnqueue(f)
  PROVE  Shrinks(k) \/ Counted(k, f) \/ Joins(k, f)
<1>0. pc \in [Fires -> FirePc] /\ \A g \in Fires : g # f => pc'[g] = pc[g]
  BY DEF FireRefused, FireAdmitted, FireCheck, FireDepth, FirePark, FireEnqueue, FireTo, Answer,
         TypeOK
<1>1. Joining(k)' \subseteq Joining(k) \cup {f}
  BY <1>0 DEF Joining
<1>2. pc'[f] # "park" => Joining(k)' \subseteq Joining(k) \ {f}
  BY <1>0 DEF Joining
<1>3. CASE FireDepth(f)
  <2>1. QueuedBehind(k)' = QueuedBehind(k)
    BY <1>3 DEF FireDepth, QueuedBehind, rowVars
  <2>2. CASE Cardinality(QueuedBehind(Key(f))) >= QueueCap
    <3>1. pc'[f] # "park"
      BY <1>0, <1>3, <2>2 DEF FireDepth, FireTo, Answer
    <3> QED
      BY <2>1, <1>2, <3>1 DEF Shrinks
  <2>3. CASE Key(f) # k
    BY <1>0, <2>1, <2>3 DEF Shrinks, Joining
  <2> QED
    BY <1>1, <2>1, <2>2, <2>3 DEF Counted
<1>4. CASE FirePark(f)
  <2>1. pc[f] = "park" /\ pc'[f] # "park"
    BY <1>0, <1>4 DEF FirePark, Answer, FireTo
  <2>2. \A g \in Fires : g # f => row'[g] = row[g] /\ stamp'[g] = stamp[g]
    BY <1>4 DEF FirePark, TypeOK
  <2>3. QueuedBehind(k)' \subseteq QueuedBehind(k) \cup {f}
    BY <2>2 DEF QueuedBehind
  <2>4. CASE f \in Joining(k)
    BY <1>2, <2>1, <2>3, <2>4 DEF Joins
  <2>5. CASE f \notin Joining(k)
    <3>1. Key(f) # k \/ stamp'[f] = None
      BY <1>4, <2>1, <2>5 DEF FirePark, Joining, TypeOK
    <3>2. f \notin QueuedBehind(k)'
      BY <3>1 DEF QueuedBehind, Key
    <3> QED
      BY <1>2, <2>1, <2>3, <3>2 DEF Shrinks
  <2> QED
    BY <2>4, <2>5
<1>5. CASE FireRefused(f) \/ FireAdmitted(f) \/ FireCheck(f) \/ FireEnqueue(f)
  <2>1. QueuedBehind(k)' = QueuedBehind(k)
    BY <1>5 DEF FireRefused, FireAdmitted, FireCheck, FireEnqueue, QueuedBehind, rowVars
  <2>2. pc'[f] = "park" => ProducerOf[f] \in {"deferred", "reaction"}
    BY <1>0, <1>5 DEF FireRefused, FireAdmitted, FireCheck, FireEnqueue, FireTo, Answer
  <2>3. f \notin Joining(k)'
    BY <2>2 DEF Joining
  <2> QED
    BY <1>1, <2>1, <2>3 DEF Shrinks
<1> QED
  BY <1>3, <1>4, <1>5

\* Nobody else lengthens a queue: the others delete rows, settle them, or write a
\* stamp that is not the queue's.
LEMMA OtherQueues ==
  ASSUME TypeOK, NEW k \in Keys,
         \A f \in Fires : row'[f] = "pending" => row[f] = "pending",
         \A f \in Fires : stamp'[f] = "concurrency" => stamp[f] = "concurrency",
         \A f \in Fires : pc'[f] = "park" => pc[f] = "park"
  PROVE  Shrinks(k)
BY DEF Shrinks, QueuedBehind, Joining, Key

LEMMA StepQueues ==
  ASSUME TypeOK, [Next]_vars, NEW k \in Keys
  PROVE  Shrinks(k) \/ \E f \in Fires : Counted(k, f) \/ Joins(k, f)
<1>a. None # "concurrency" /\ "concurrency" \notin Gates
  OBVIOUS
<1>b. ASSUME UNCHANGED <<row, stamp, pc>> PROVE Shrinks(k)
  BY <1>b, OtherQueues
<1>c. ASSUME NEW f, NEW s, s # "concurrency", UNCHANGED <<row, pc>>,
             stamp' = [stamp EXCEPT ![f] = s]
      PROVE  Shrinks(k)
  BY <1>c, OtherQueues DEF TypeOK
<1>d. ASSUME NEW f, NEW r, r # "pending", UNCHANGED <<stamp, pc>>,
             row' = [row EXCEPT ![f] = r]
      PROVE  Shrinks(k)
  BY <1>d, OtherQueues DEF TypeOK
<1>1. CASE \E f \in Fires : \/ FireRefused(f) \/ FireAdmitted(f) \/ FireCheck(f)
                            \/ FireDepth(f) \/ FirePark(f) \/ FireEnqueue(f)
  BY <1>1, FireQueues
<1>2. CASE \E f \in Fires : RunEnds(f) \/ ComesDue(f) \/ GracePasses(f)
  BY <1>2, <1>b DEF RunEnds, ComesDue, GracePasses, rowVars, fireVars
<1>3. ASSUME NEW f \in Fires, Cancel(f) PROVE Shrinks(k)
  BY <1>3, <1>d DEF Cancel, fireVars
<1>4. CASE \E p \in Promoters : \/ PassStart(p) \/ PassEnd(p) \/ PassJudge(p)
                                \/ PassOwner(p) \/ PassFit(p) \/ PassEnqueue(p)
  BY <1>4, <1>b
  DEF PassStart, PassEnd, PassJudge, PassOwner, PassFit, PassEnqueue, rowVars, fireVars
<1>5. ASSUME NEW p \in Promoters, PassDrop(p) \/ PassMiss(p) \/ PassDelete(p)
      PROVE  Shrinks(k)
  <2>1. UNCHANGED <<stamp, pc>>
    BY <1>5 DEF PassDrop, PassMiss, PassDelete, fireVars
  <2>2. \/ UNCHANGED row
        \/ \E r \in {"none", "missed"} : row' = [row EXCEPT ![cur[p].fire] = r]
    BY <1>5 DEF PassDrop, PassMiss, PassDelete, SetRow
  <2> QED
    BY <1>b, <1>d, <2>1, <2>2
<1>6. ASSUME NEW p \in Promoters,
             PassHold(p) \/ PassClear(p) \/ PassBin(p) \/ PassUnbin(p)
      PROVE  Shrinks(k)
  <2>1. UNCHANGED <<row, pc>>
    BY <1>6 DEF PassHold, PassClear, PassBin, PassUnbin, fireVars
  <2>2. PassHold(p) => cur[p].gate # "concurrency"
    BY <1>a DEF PassHold, TypeOK, Snapshot
  <2>3. \/ UNCHANGED stamp
        \/ \E s \in {None, "recycle_bin", cur[p].gate} :
             s # "concurrency" /\ stamp' = [stamp EXCEPT ![cur[p].fire] = s]
    BY <1>6, <1>a, <2>2 DEF PassHold, PassClear, PassBin, PassUnbin
  <2> QED
    BY <1>b, <1>c, <2>1, <2>3
<1>7. CASE \/ \E j \in Named : MoveJob(j)
           \/ \E j \in Named, g \in Gates \cup {"unfit"} : TurnGate(j, g)
           \/ UNCHANGED vars
  BY <1>7, <1>b DEF MoveJob, TurnGate, vars, rowVars, fireVars
<1>8. CASE \E j \in Named : PurgeJob(j)
  <2>1. UNCHANGED <<stamp, pc>> /\ \A f \in Fires : row'[f] \in {"none", row[f]}
    BY <1>8 DEF PurgeJob, fireVars
  <2> QED
    BY <2>1, OtherQueues
<1>9. CASE ServerCrash
  <2>1. UNCHANGED <<stamp, row>> /\ \A f \in Fires : pc'[f] \in {"idle", "done"}
    BY <1>9 DEF ServerCrash
  <2> QED
    BY <2>1, OtherQueues
<1> QED
  BY <1>1, <1>2, <1>3, <1>4, <1>5, <1>6, <1>7, <1>8, <1>9, Steps

\* At most w requests stand between TryQueue's count and its insert.
FewJoin(w) == \A k \in Keys : Cardinality(Joining(k)) <= w

\* Everybody about to join counted fewer than QueueCap rows, or came after
\* somebody who did.
QueueInv(w) ==
  \A k \in Keys :
    /\ IsFiniteSet(QueuedBehind(k)) /\ IsFiniteSet(Joining(k))
    /\ Cardinality(QueuedBehind(k)) + Cardinality(Joining(k)) <= QueueCap + w - 1

LEMMA QueueInit ==
  ASSUME NEW w \in Nat \ {0}, Init
  PROVE  QueueInv(w)
<1>1. \A k \in Keys : QueuedBehind(k) = {} /\ Joining(k) = {}
  BY DEF Init, QueuedBehind, Joining
<1> QED
  <2>1. \A k \in Keys : /\ IsFiniteSet(QueuedBehind(k)) /\ Cardinality(QueuedBehind(k)) = 0
                        /\ IsFiniteSet(Joining(k)) /\ Cardinality(Joining(k)) = 0
    BY <1>1, FS_EmptySet
  <2>2. 0 + 0 <= QueueCap + w - 1
    OBVIOUS
  <2> QED
    BY <2>1, <2>2 DEF QueueInv

LEMMA QueueStep ==
  ASSUME NEW w \in Nat \ {0}, TypeOK, QueueInv(w), [Next]_vars, FewJoin(w)'
  PROVE  QueueInv(w)'
<1> SUFFICES ASSUME NEW k \in Keys
             PROVE  /\ IsFiniteSet(QueuedBehind(k)') /\ IsFiniteSet(Joining(k)')
                    /\ Cardinality(QueuedBehind(k)') + Cardinality(Joining(k)')
                         <= QueueCap + w - 1
  BY DEF QueueInv
<1> DEFINE Q == QueuedBehind(k)
           J == Joining(k)
           R == Q'
           I == J'
<1>1. /\ IsFiniteSet(Q) /\ IsFiniteSet(J)
      /\ Cardinality(Q) + Cardinality(J) <= QueueCap + w - 1
      /\ Cardinality(Q) \in Nat /\ Cardinality(J) \in Nat
  BY FS_CardinalityType DEF QueueInv
<1>2. Cardinality(I) <= w
  BY DEF FewJoin
<1>3. Shrinks(k) \/ \E f \in Fires : Counted(k, f) \/ Joins(k, f)
  BY StepQueues
<1>s. \A S, T : IsFiniteSet(S) /\ T \subseteq S =>
        /\ IsFiniteSet(T) /\ Cardinality(T) \in Nat
        /\ Cardinality(T) <= Cardinality(S)
  BY FS_Subset, FS_CardinalityType
<1>4. CASE Shrinks(k)
  <2>1. R \subseteq Q /\ I \subseteq J
    BY <1>4 DEF Shrinks
  <2> HIDE DEF Q, J, R, I
  <2>2. /\ IsFiniteSet(R) /\ Cardinality(R) <= Cardinality(Q) /\ Cardinality(R) \in Nat
        /\ IsFiniteSet(I) /\ Cardinality(I) <= Cardinality(J) /\ Cardinality(I) \in Nat
    BY <1>1, <1>s, <2>1
  <2>3. Cardinality(R) + Cardinality(I) <= QueueCap + w - 1
    BY <1>1, <2>2
  <2> QED
    BY <2>2, <2>3 DEF Q, J, R, I
<1>5. CASE \E f \in Fires : Counted(k, f)
  <2>1. PICK f \in Fires : R \subseteq Q /\ I \subseteq J \cup {f} /\ ~(Cardinality(Q) >= QueueCap)
    BY <1>5 DEF Counted
  <2> HIDE DEF Q, J, R, I
  <2>2. IsFiniteSet(J \cup {f})
    BY <1>1, FS_AddElement
  <2>3. /\ IsFiniteSet(R) /\ Cardinality(R) <= Cardinality(Q) /\ Cardinality(R) \in Nat
        /\ IsFiniteSet(I) /\ Cardinality(I) \in Nat
    BY <1>1, <1>s, <2>1, <2>2
  <2>4. Cardinality(R) + Cardinality(I) <= QueueCap + w - 1
    BY <1>1, <1>2, <2>1, <2>3
  <2> QED
    BY <2>3, <2>4 DEF Q, J, R, I
<1>6. CASE \E f \in Fires : Joins(k, f)
  <2>1. PICK f \in Fires : R \subseteq Q \cup {f} /\ I \subseteq J \ {f} /\ f \in J
    BY <1>6 DEF Joins
  <2> HIDE DEF Q, J, R, I
  <2>2. /\ IsFiniteSet(Q \cup {f}) /\ Cardinality(Q \cup {f}) <= Cardinality(Q) + 1
        /\ IsFiniteSet(J \ {f}) /\ Cardinality(J \ {f}) = Cardinality(J) - 1
    <3>1. \A S : IsFiniteSet(S) =>
            /\ IsFiniteSet(S \cup {f})
            /\ Cardinality(S \cup {f}) \in {Cardinality(S), Cardinality(S) + 1}
      BY FS_AddElement
    <3>2. \A S : IsFiniteSet(S) /\ f \in S =>
            IsFiniteSet(S \ {f}) /\ Cardinality(S \ {f}) = Cardinality(S) - 1
      BY FS_RemoveElement
    <3>3. Cardinality(Q \cup {f}) <= Cardinality(Q) + 1
      <4>1. Cardinality(Q \cup {f}) \in {Cardinality(Q), Cardinality(Q) + 1}
        BY <1>1, <3>1
      <4>2. Cardinality(Q) \in Nat
        BY <1>1
      <4> QED
        BY ONLY <4>1, <4>2
    <3> QED
      BY <1>1, <2>1, <3>1, <3>2, <3>3
  <2>3. /\ IsFiniteSet(R) /\ Cardinality(R) <= Cardinality(Q \cup {f}) /\ Cardinality(R) \in Nat
        /\ IsFiniteSet(I) /\ Cardinality(I) <= Cardinality(J \ {f}) /\ Cardinality(I) \in Nat
    BY <1>s, <2>1, <2>2
  <2>a. Cardinality(Q \cup {f}) \in Nat
    BY <2>2, FS_CardinalityType
  <2>4. Cardinality(R) + Cardinality(I) <= QueueCap + w - 1
    BY <1>1, <2>2, <2>3, <2>a
  <2> QED
    BY <2>3, <2>4 DEF Q, J, R, I
<1> QED
  BY <1>3, <1>4, <1>5, <1>6

\* At most QueueCap + w - 1 rows wait behind a key.
QueueWithin(w) == \A k \in Keys : Cardinality(QueuedBehind(k)) <= QueueCap + w - 1

LEMMA QueueHolds ==
  ASSUME NEW w \in Nat \ {0}, QueueInv(w)
  PROVE  QueueWithin(w)
<1> SUFFICES ASSUME NEW k \in Keys
             PROVE  Cardinality(QueuedBehind(k)) <= QueueCap + w - 1
  BY DEF QueueWithin
<1>1. Cardinality(QueuedBehind(k)) \in Nat /\ Cardinality(Joining(k)) \in Nat
  BY FS_CardinalityType DEF QueueInv
<1> QED
  BY <1>1 DEF QueueInv

\* How far the queue's bound may be passed: while no more than w requests of a
\* key stand between TryQueue's count of its rows and its insert, no more than
\* w - 1 rows wait over the cap, whatever passes, cancels and crashes do meanwhile.
THEOREM QueueOvershoot ==
  ASSUME NEW w \in Nat \ {0}
  PROVE  Spec /\ []FewJoin(w) => []QueueWithin(w)
<1>1. Init => QueueInv(w)
  BY QueueInit
<1>2. TypeOK /\ QueueInv(w) /\ [Next]_vars /\ FewJoin(w)' => QueueInv(w)'
  BY QueueStep
<1>3. QueueInv(w) => QueueWithin(w)
  BY QueueHolds
<1> QED
  BY <1>1, <1>2, <1>3, TypeCorrect, PTL DEF Spec

\* Where the producers of a key take turns, the promise of the Queue policy is
\* kept: at most QueueCap rows wait.
THEOREM QueueKept == Spec /\ []FewJoin(1) => []QueueBounded
<1>1. Init => QueueInv(1)
  BY QueueInit
<1>2. TypeOK /\ QueueInv(1) /\ [Next]_vars /\ FewJoin(1)' => QueueInv(1)'
  BY QueueStep
<1>3. QueueInv(1) => QueueBounded
  <2>1. QueueInv(1) => QueueWithin(1)
    BY QueueHolds
  <2>2. QueueWithin(1) => QueueBounded
    BY DEF QueueWithin, QueueBounded
  <2> QED
    BY <2>1, <2>2
<1> QED
  BY <1>1, <1>2, <1>3, TypeCorrect, PTL DEF Spec

-----------------------------------------------------------------------------
(* No fire is lost where the claims on a key take turns and nobody dies.     *)

\* Whoever is about to insert a run of a key still finds the key free.
Freed ==
  \A k \in Keys : FiresClaiming(k) # {} \/ PassesClaiming(k) # {} => ~Active(k)

\* A claim starts only on a free key.
LEMMA NewClaims ==
  ASSUME TypeOK, [Next]_vars, NEW k \in Keys
  PROVE  /\ FiresClaiming(k)' \subseteq FiresClaiming(k) \/ ~Active(k)
         /\ PassesClaiming(k)' \subseteq PassesClaiming(k) \/ ~Active(k)
<1>a. ASSUME \A f \in Fires : pc'[f] = "enqueue" => pc[f] = "enqueue"
      PROVE  FiresClaiming(k)' \subseteq FiresClaiming(k)
  BY <1>a DEF FiresClaiming, Holds, Key
<1>b. ASSUME \A p \in Promoters : ppc'[p] \in {"delete", "enqueue"}
               => ppc[p] \in {"delete", "enqueue"} /\ cur'[p] = cur[p]
      PROVE  PassesClaiming(k)' \subseteq PassesClaiming(k)
  BY <1>b DEF PassesClaiming, Holds, Key
<1>1. ASSUME NEW f \in Fires,
             \/ FireRefused(f) \/ FireAdmitted(f) \/ FireCheck(f)
             \/ FireDepth(f) \/ FirePark(f) \/ FireEnqueue(f)
      PROVE  /\ FiresClaiming(k)' \subseteq FiresClaiming(k) \/ ~Active(k)
             /\ PassesClaiming(k)' \subseteq PassesClaiming(k)
  <2>1. UNCHANGED <<ppc, cur>>
    BY <1>1 DEF FireRefused, FireAdmitted, FireCheck, FireDepth, FirePark,
                FireEnqueue, passVars
  <2>2. PassesClaiming(k)' \subseteq PassesClaiming(k)
    BY <1>b, <2>1
  <2>3. \A g \in Fires : g # f => pc'[g] = pc[g]
    BY <1>1 DEF FireRefused, FireAdmitted, FireCheck, FireDepth, FirePark,
                FireEnqueue, FireTo, Answer, TypeOK
  <2>4. pc'[f] = "enqueue" => ~Holds(f) \/ ~Active(Key(f))
    BY <1>1 DEF FireRefused, FireAdmitted, FireCheck, FireDepth, FirePark,
                FireEnqueue, FireTo, Answer, TypeOK
  <2> QED
    BY <2>2, <2>3, <2>4 DEF FiresClaiming, Holds, Key
<1>2. CASE \E f \in Fires : RunEnds(f) \/ Cancel(f) \/ ComesDue(f) \/ GracePasses(f)
  BY <1>2, <1>a, <1>b DEF RunEnds, Cancel, ComesDue, GracePasses, fireVars, passVars
<1>3. ASSUME NEW p \in Promoters,
             \/ PassStart(p) \/ PassEnd(p) \/ PassJudge(p) \/ PassHold(p)
             \/ PassDrop(p) \/ PassClear(p) \/ PassOwner(p) \/ PassBin(p)
             \/ PassUnbin(p) \/ PassMiss(p) \/ PassDelete(p) \/ PassEnqueue(p)
      PROVE  /\ FiresClaiming(k)' \subseteq FiresClaiming(k)
             /\ PassesClaiming(k)' \subseteq PassesClaiming(k)
  <2>1. UNCHANGED pc
    BY <1>3 DEF PassStart, PassEnd, PassJudge, PassHold, PassDrop, PassClear,
                PassOwner, PassBin, PassUnbin, PassMiss, PassDelete, PassEnqueue,
                fireVars
  <2>2. \A q \in Promoters : q # p => ppc'[q] = ppc[q] /\ cur'[q] = cur[q]
    BY <1>3 DEF PassStart, PassEnd, PassJudge, PassHold, PassDrop, PassClear,
                PassOwner, PassBin, PassUnbin, PassMiss, PassDelete, PassEnqueue,
                PassTo, TypeOK
  <2>3. CASE PassDelete(p)
    <3>1. ppc[p] = "delete" /\ cur'[p] = cur[p]
      BY <2>3 DEF PassDelete
    <3> QED
      BY <1>a, <1>b, <2>1, <2>2, <3>1
  <2>4. CASE ~PassDelete(p)
    <3>1. ppc'[p] \notin {"delete", "enqueue"}
      <4>0. ppc \in [Promoters -> PassPc]
        BY DEF TypeOK
      <4>1. CASE PassStart(p) \/ PassEnd(p) \/ PassHold(p) \/ PassDrop(p) \/ PassClear(p)
        BY <4>0, <4>1 DEF PassStart, PassEnd, PassHold, PassDrop, PassClear, PassTo
      <4>2. CASE PassBin(p) \/ PassUnbin(p) \/ PassMiss(p) \/ PassEnqueue(p)
        BY <4>0, <4>2 DEF PassBin, PassUnbin, PassMiss, PassEnqueue, PassTo
      <4>3. CASE PassJudge(p)
        BY <4>0, <4>3 DEF PassJudge, PassTo
      <4>4. CASE PassOwner(p)
        <5>1. cur[p].fire \in Fires
          BY <4>4 DEF PassOwner, TypeOK, Snapshot
        <5>2. job[JobOf[cur[p].fire]] \in {"live", "binned", "gone"}
          BY <5>1 DEF TypeOK
        <5> QED
          BY <4>0, <4>4, <5>2 DEF PassOwner, PassTo
      <4> QED
        BY <1>3, <2>4, <4>1, <4>2, <4>3, <4>4
    <3> QED
      BY <1>a, <1>b, <2>1, <2>2, <3>1
  <2> QED
    BY <2>3, <2>4
<1>4. ASSUME NEW p \in Promoters, PassFit(p)
      PROVE  /\ FiresClaiming(k)' \subseteq FiresClaiming(k)
             /\ PassesClaiming(k)' \subseteq PassesClaiming(k) \/ ~Active(k)
  <2>1. UNCHANGED <<pc, cur>>
    BY <1>4 DEF PassFit, fireVars
  <2>2. \A q \in Promoters : q # p => ppc'[q] = ppc[q]
    BY <1>4 DEF PassFit, PassTo, TypeOK
  <2>3. ppc'[p] \in {"delete", "enqueue"}
        => ~Holds(cur[p].fire) \/ ~Active(Key(cur[p].fire))
    BY <1>4 DEF PassFit, PassTo, TypeOK
  <2> QED
    BY <1>a, <2>1, <2>2, <2>3 DEF PassesClaiming, Holds, Key
<1>5. CASE \/ \E j \in Named : MoveJob(j)
           \/ \E j \in Named : PurgeJob(j)
           \/ \E j \in Named, g \in Gates \cup {"unfit"} : TurnGate(j, g)
           \/ UNCHANGED vars
  BY <1>5, <1>a, <1>b DEF MoveJob, PurgeJob, TurnGate, vars, fireVars, passVars
<1>6. CASE ServerCrash
  <2>1. /\ \A f \in Fires : pc'[f] # "enqueue"
        /\ \A p \in Promoters : ppc'[p] = "idle"
    BY <1>6 DEF ServerCrash
  <2> QED
    BY <1>a, <1>b, <2>1
<1> QED
  BY <1>1, <1>2, <1>3, <1>4, <1>5, <1>6, Steps

\* A key becomes active by the insert of somebody who claimed it, and who claims
\* it no more.
LEMMA ClaimsSpent ==
  ASSUME TypeOK, [Next]_vars, OneClaims, NEW k \in Keys, ~Active(k), Active(k)'
  PROVE  FiresClaiming(k)' = {} /\ PassesClaiming(k)' = {}
<1>0. ~\A f \in Fires : run'[f] = "active" => run[f] = "active"
  BY DEF Active, Holds, Key
<1>1. ASSUME NEW f \in Fires, run' = [run EXCEPT ![f] = "active"]
      PROVE  Holds(f) /\ Key(f) = k
  BY <1>1 DEF Active, Holds, Key, TypeOK
<1>2. ASSUME NEW f \in Fires, FireEnqueue(f)
      PROVE  FiresClaiming(k)' = {} /\ PassesClaiming(k)' = {}
  <2>1. run' = [run EXCEPT ![f] = "active"]
    BY <1>0, <1>2 DEF FireEnqueue
  <2>2. f \in FiresClaiming(k)
    BY <1>1, <1>2, <2>1 DEF FireEnqueue, FiresClaiming
  <2>3. FiresClaiming(k) = {f} /\ PassesClaiming(k) = {}
    BY <2>2 DEF OneClaims
  <2>4. /\ pc' = [pc EXCEPT ![f] = "done"]
        /\ UNCHANGED <<ppc, cur>>
    BY <1>2 DEF FireEnqueue, Answer, FireTo, passVars
  <2>5. FiresClaiming(k)' \subseteq FiresClaiming(k) \ {f}
    BY <2>4 DEF FiresClaiming, TypeOK, Holds, Key
  <2>6. PassesClaiming(k)' = PassesClaiming(k)
    BY <2>4 DEF PassesClaiming, Holds, Key
  <2> QED
    BY <2>3, <2>5, <2>6
<1>3. ASSUME NEW p \in Promoters, PassEnqueue(p)
      PROVE  FiresClaiming(k)' = {} /\ PassesClaiming(k)' = {}
  <2>1. cur[p].fire \in Fires /\ run' = [run EXCEPT ![cur[p].fire] = "active"]
    BY <1>0, <1>3 DEF PassEnqueue, TypeOK, Snapshot
  <2>2. p \in PassesClaiming(k)
    BY <1>1, <1>3, <2>1 DEF PassEnqueue, PassesClaiming
  <2>3. PassesClaiming(k) = {p} /\ FiresClaiming(k) = {}
    BY <2>2 DEF OneClaims
  <2>4. /\ ppc' = [ppc EXCEPT ![p] = "next"]
        /\ UNCHANGED <<pc, cur>>
    BY <1>3 DEF PassEnqueue, PassTo
  <2>5. PassesClaiming(k)' \subseteq PassesClaiming(k) \ {p}
    BY <2>4 DEF PassesClaiming, TypeOK, Holds, Key
  <2>6. FiresClaiming(k)' = FiresClaiming(k)
    BY <2>4 DEF FiresClaiming, Holds, Key
  <2> QED
    BY <2>3, <2>5, <2>6
<1>4. ASSUME UNCHANGED run \/ \E f \in Fires : RunEnds(f)
      PROVE  FALSE
  BY <1>0, <1>4 DEF RunEnds, TypeOK
<1> QED
  BY <1>2, <1>3, <1>4, Steps
  DEF FireRefused, FireAdmitted, FireCheck, FireDepth, FirePark, Cancel,
      ComesDue, GracePasses, PassStart, PassEnd, PassJudge, PassHold, PassDrop,
      PassClear, PassOwner, PassBin, PassUnbin, PassFit, PassMiss, PassDelete,
      MoveJob, PurgeJob, TurnGate, ServerCrash, vars, fireVars

LEMMA FreedStep == TypeOK /\ OneClaims /\ Freed /\ [Next]_vars => Freed'
<1> SUFFICES ASSUME TypeOK, OneClaims, Freed, [Next]_vars, NEW k \in Keys,
                    FiresClaiming(k)' # {} \/ PassesClaiming(k)' # {}, Active(k)'
             PROVE  FALSE
  BY DEF Freed
<1>1. Active(k)
  BY ClaimsSpent
<1>2. FiresClaiming(k)' \subseteq FiresClaiming(k) /\ PassesClaiming(k)' \subseteq PassesClaiming(k)
  BY <1>1, NewClaims
<1> QED
  BY <1>1, <1>2 DEF Freed

\* The server does not die.
NoCrash == ~May("serverCrash")

LEMMA LostStep == TypeOK /\ Freed /\ NoCrash /\ NeverSilent /\ [Next]_vars => NeverSilent'
<1> SUFFICES ASSUME TypeOK, Freed, NoCrash, NeverSilent, [Next]_vars
             PROVE  NeverSilent'
  OBVIOUS
<1>1. CASE UNCHANGED fate
  BY <1>1 DEF NeverSilent
<1>2. ASSUME NEW f, NEW how, how # "lost", fate' = [fate EXCEPT ![f] = how]
      PROVE  NeverSilent'
  BY <1>2 DEF NeverSilent, TypeOK
<1>3. ASSUME NEW p \in Promoters, PassEnqueue(p) PROVE NeverSilent'
  <2>1. cur[p].fire \in Fires
    BY <1>3 DEF PassEnqueue, TypeOK, Snapshot
  <2>2. ~Clash(cur[p].fire)
    BY <1>3, <2>1 DEF PassEnqueue, Clash, Freed, PassesClaiming, Key
  <2> QED
    BY <1>2, <1>3, <2>2 DEF PassEnqueue
<1>4. ASSUME NEW p \in Promoters, PassDrop(p) \/ PassMiss(p) PROVE NeverSilent'
  BY <1>1, <1>2, <1>4 DEF PassDrop, PassMiss, SetRow
<1>5. ASSUME NEW f \in Fires, Cancel(f) PROVE NeverSilent'
  BY <1>5 DEF Cancel, NeverSilent, TypeOK
<1>6. CASE \E j \in Named : PurgeJob(j)
  BY <1>6 DEF PurgeJob, NeverSilent
<1>7. ~ServerCrash
  BY DEF ServerCrash, NoCrash
<1> QED
  BY <1>1, <1>3, <1>4, <1>5, <1>6, <1>7, Steps
  DEF FireRefused, FireAdmitted, FireCheck, FireDepth, FirePark, FireEnqueue,
      RunEnds, ComesDue, GracePasses, PassStart, PassEnd, PassJudge, PassHold,
      PassClear, PassOwner, PassBin, PassUnbin, PassFit, PassDelete, MoveJob,
      TurnGate, vars, rowVars

\* What queue.go says of every fire holds where at most one of those who found a
\* key free is between that and its insert, and the server does not die: no
\* parked request vanishes.  So the one insert that may fail with the row already
\* deleted is the one that lost the key to another claim.
THEOREM NothingIsLost == Spec /\ []OneClaims /\ []NoCrash => []NeverSilent
<1>1. Init => Freed /\ NeverSilent
  <2>1. Init => Freed
    BY DEF Init, Freed, Active
  <2>2. Init => NeverSilent
    BY DEF Init, NeverSilent, Fates
  <2> QED
    BY <2>1, <2>2
<1> QED
  BY <1>1, FreedStep, LostStep, TypeCorrect, PTL DEF Spec

=============================================================================
