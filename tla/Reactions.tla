------------------------------ MODULE Reactions ------------------------------
(***************************************************************************)
(* The reactor (scheduler/reaction.go, reaction/reaction.go): a definition  *)
(* runs because another one finished.                                       *)
(*                                                                         *)
(* One goroutine passes over the finished runs every 15 seconds: those of    *)
(* the runs table, then those of workflow_runs, from a lookback behind a     *)
(* stored cursor.  For each run, oldest first, it reads the reactions that   *)
(* match, claims each (reaction, run) pair by inserting its delivery, runs   *)
(* the stack of vetoes, parks a run in pending_runs when nothing vetoes, and *)
(* writes the verdict onto the delivery.  The cursor moves once the pass has *)
(* delivered everything it read.  Runs start, end and land late, reactions   *)
(* are written and deleted, gates close, writes fail and the server dies     *)
(* between any two of these statements.                                     *)
(*                                                                         *)
(* What a parked run goes through is PendingRuns; here it starts or is       *)
(* dropped.  A run it starts is a finished run later: chains of reactions,   *)
(* and the child runs of a workflow, carry the depth that bounds a cycle.    *)
(* The vetoes of one pair are read in one step: nothing the properties say   *)
(* depends on a gate that moves between two of those reads.  A reaction and  *)
(* the run it watches are matched by identity.                              *)
(***************************************************************************)
EXTENDS Integers, FiniteSets

CONSTANTS
  Defs, Reactions, None,
  MaxRuns,     \* runs.id and workflow_runs.id are 1 .. MaxRuns
  Workflows,   \* the definitions that are workflows
  StepsOf,     \* the jobs and workflows that a workflow runs as its children
  On,          \* the definition a reaction watches
  Owner,       \* the one it runs
  Outcomes,    \* the outcomes it fires on
  Interval,    \* its min_interval_seconds, 0 for none
  WithChildren,  \* the reactions with include_workflow_children
  MaxDepth,    \* reaction.MaxDepth (5 in the code)
  Lookback,    \* reactionLookback (15 minutes)
  MissGrace,   \* reactionMissGrace (24 hours)
  Lag,         \* the longest from a run's completed_at to its landing
  MaxCrashes, MaxFaults,  \* bounds
  Scenarios

Runs == 1 .. MaxRuns
Pairs == Reactions \X Runs

Ended  == {"success", "warning", "failure", "killed"}
Status == Ended \cup {"none", "running", "skipped"}
Gates  == {"reaction", "agency", "definition", "paused", "calendar", "target"}
Verdicts == {"fired", "error", "expired", "suppressed_disabled", "suppressed_paused",
             "suppressed_calendar", "suppressed_depth", "suppressed_rate"}
Results == Verdicts \cup {"none", "pending"}
Stages  == {"idle", "flows", "event", "match", "claim", "judge", "park", "finish"}
Events  == {"remove", "cancel", "promote", "crash", "dbError", "drop"}

ASSUME ConstantsAssumption ==
  /\ MaxRuns \in Nat /\ Workflows \subseteq Defs
  /\ StepsOf \in [Defs -> SUBSET Defs]
  /\ \A d \in Defs \ Workflows : StepsOf[d] = {}
  /\ On \in [Reactions -> Defs] /\ Owner \in [Reactions -> Defs]
  /\ Outcomes \in [Reactions -> SUBSET {"success", "failure", "stopped"}]
  /\ Interval \in [Reactions -> Nat] /\ WithChildren \subseteq Reactions
  /\ MaxDepth \in Nat \ {0} /\ Lookback \in Nat /\ MissGrace \in Nat
  /\ MaxCrashes \in Nat /\ MaxFaults \in Nat
  /\ None \notin Nat

\* completed_at is stamped just before the row is written (log.go:579, 616).
ASSUME LagAssumption == Lag \in Nat /\ Lag <= Lookback

ASSUME ScenariosAssumption ==
  Scenarios \subseteq
    [written : SUBSET Reactions, writes : SUBSET Reactions, history : SUBSET Defs, starts : SUBSET Defs, roots : Nat,
     until : Nat, ends : SUBSET (Status \ {"none", "running"}), gates : SUBSET Gates, events : SUBSET Events]

VARIABLES
  scn,       \* rigid: what may happen in this behaviour
  clock,
  run,       \* rows of runs and workflow_runs
  live,      \* rows of reactions
  shut,      \* the gates closed to a reaction
  result,    \* reaction_deliveries.result, "none" for no row
  claimedAt, \* reaction_deliveries.delivered_at
  unbraked,  \* history: the pairs decided while the brake's query failed
  made,      \* pending runs inserted for a pair
  left,      \* those that still wait
  cursor,    \* settings.reactionCursor
  pc,        \* where the reactor is; "down" while there is no server
  pass,      \* what its pass holds in memory
  crashes, faults,
  horizon,   \* history: the oldest time in view when a reaction was written
  owed       \* history: the pairs whose run finished in view of its reaction

catalogVars  == <<live, shut, horizon, owed>>
deliveryVars == <<result, claimedAt, unbraked>>
parkVars     == <<made, left>>
worldVars    == <<scn, clock, run>>
boundVars    == <<crashes, faults>>
vars == <<worldVars, catalogVars, deliveryVars, parkVars, cursor, pc, pass, boundVars>>

May(e) == e \in scn.events

\* A statement of the reactor or of the engine fails, or does not.
Fault(failed) ==
  /\ failed => May("dbError") /\ faults < MaxFaults
  /\ faults' = IF failed THEN faults + 1 ELSE faults

-----------------------------------------------------------------------------
(* Runs and outcomes. *)

\* hops is a history: the reactions between a run and the one that a person or
\* a clock started.  So is forgot: those of them that the depth has lost.
NoRun == [def |-> None, status |-> "none", at |-> 0, cancelled |-> FALSE,
          parent |-> 0, depth |-> 0, hops |-> 0, forgot |-> 0]

Used  == {u \in Runs : run[u].status # "none"}
Over(u) == run[u].status \in Ended
IsFlow(u) == run[u].def \in Workflows
IsChild(u) == run[u].parent # 0

\* NormalizeJob and NormalizeWorkflow: "none" is no event.
Outcome(u) ==
  IF ~Over(u) THEN "none"
  ELSE IF IsFlow(u) /\ run[u].cancelled THEN "stopped"
  ELSE IF run[u].status \in {"success", "warning"} THEN "success"
  ELSE IF run[u].status = "failure" THEN "failure"
  ELSE "stopped"

\* A sub-workflow's run counts like any workflow's: no opt-in is asked.
Matches(r, u) ==
  /\ run[u].def = On[r] /\ Outcome(u) \in Outcomes[r]
  /\ IsChild(u) /\ ~IsFlow(u) => r \in WithChildren

DepthExceeded(d) == d + 1 >= MaxDepth

-----------------------------------------------------------------------------
(* The reactor's pass. *)

NoPass == [now |-> 0, since |-> 0, todo |-> {}, newest |-> 0, ev |-> 0,
           matched |-> {}, off |-> {}, r |-> None, verdict |-> "none"]

Since_Bug == cursor

\* A full lookback behind the cursor.
Since == cursor - Lookback

Finished(u, since) == Over(u) /\ run[u].at >= since

Anchor_Bug == 0

\* Where the first pass ever puts the cursor.
Anchor == clock

\* ScanReactions with no cursor: anchor it, scan nothing.  A cursor that cannot
\* be read counts as none, and is anchored anew.
FirstPass(failed) ==
  /\ pc = "idle" /\ (cursor = None \/ failed)
  /\ Fault(failed)
  /\ cursor' = Anchor
  /\ UNCHANGED <<worldVars, catalogVars, deliveryVars, parkVars, pc, pass, crashes>>

\* The runs table; the read may fail, and the pass goes on without its rows.
CollectJobs(failed) ==
  /\ pc = "idle" /\ cursor # None
  /\ Fault(failed)
  /\ pc' = "flows"
  /\ pass' = [NoPass EXCEPT
       !.now = clock, !.newest = cursor, !.since = Since,
       !.todo = IF failed THEN {} ELSE {u \in Runs : Finished(u, Since) /\ ~IsFlow(u)}]
  /\ UNCHANGED <<worldVars, catalogVars, deliveryVars, parkVars, cursor, crashes>>

\* Then workflow_runs, with the same answer to a failed read.
CollectFlows(failed) ==
  /\ pc = "flows"
  /\ Fault(failed)
  /\ LET found == pass.todo \cup IF failed THEN {}
                                 ELSE {u \in Runs : Finished(u, pass.since) /\ IsFlow(u)}
     IN /\ pass' = IF found = {} THEN NoPass ELSE [pass EXCEPT !.todo = found]
        /\ pc' = IF found = {} THEN "idle" ELSE "event"
  /\ UNCHANGED <<worldVars, catalogVars, deliveryVars, parkVars, cursor, crashes>>

Oldest(u) == u \in pass.todo /\ \A v \in pass.todo : run[u].at <= run[v].at

Later(a, b) == IF a > b THEN a ELSE b

\* deliverEvent: the reactions that match, disabled ones too, with the switch
\* as it was read.  When the read fails the pass goes on without the run.
MatchEvent(u, failed) ==
  /\ pc = "event" /\ Oldest(u)
  /\ Fault(failed)
  /\ pass' = [pass EXCEPT
       !.ev = u, !.todo = @ \ {u}, !.newest = Later(@, run[u].at),
       !.matched = {r \in live : ~failed /\ Matches(r, u)},
       !.off = {r \in live : "reaction" \in shut[r]}]
  /\ pc' = "match"
  /\ UNCHANGED <<worldVars, catalogVars, deliveryVars, parkVars, cursor, crashes>>

EventDone ==
  /\ pc = "match" /\ pass.matched = {}
  /\ pc' = "event"
  /\ pass' = [pass EXCEPT !.ev = 0, !.off = {}]
  /\ UNCHANGED <<worldVars, catalogVars, deliveryVars, parkVars, cursor, boundVars>>

NextReaction(r) ==
  /\ pc = "match" /\ r \in pass.matched
  /\ pass' = [pass EXCEPT !.matched = @ \ {r}, !.r = r]
  /\ pc' = "claim"
  /\ UNCHANGED <<worldVars, catalogVars, deliveryVars, parkVars, cursor, boundVars>>

PairDone == pc' = "match" /\ pass' = [pass EXCEPT !.r = None, !.verdict = "none"]

Unclaimed_Bug(r, u) == result[<<r, u>>] \in {"none", "pending"}

\* INSERT OR IGNORE on (reaction, run): it inserts where there is no delivery.
Unclaimed(r, u) == result[<<r, u>>] = "none"

Claim ==
  /\ pc = "claim"
  /\ LET r == pass.r u == pass.ev IN
       \/ /\ Unclaimed(r, u)
          /\ result' = [result EXCEPT ![<<r, u>>] = "pending"]
          /\ claimedAt' = [claimedAt EXCEPT ![<<r, u>>] = pass.now]
          /\ pc' = "judge" /\ UNCHANGED <<pass, unbraked>>
       \/ /\ ~Unclaimed(r, u)
          /\ PairDone /\ UNCHANGED deliveryVars
  /\ UNCHANGED <<worldVars, catalogVars, parkVars, cursor, boundVars>>

\* The insert fails: the pair is left to a later pass.
ClaimFails ==
  /\ pc = "claim"
  /\ Fault(TRUE)
  /\ PairDone
  /\ UNCHANGED <<worldVars, catalogVars, deliveryVars, parkVars, cursor, crashes>>

Anchors_Bug(r) == {run[v].at : v \in {w \in Runs : result[<<r, w>>] = "fired"}}

\* What the rate brake measures from: the deliveries that fired.
Anchors(r) == {claimedAt[<<r, v>>] : v \in {w \in Runs : result[<<r, w>>] = "fired"}}

RateBlocks(r) == \E t \in Anchors(r) : pass.now - t < Interval[r]

\* reactionVerdict: the first veto of the list, "fired" without one.  A veto that
\* asks the database lets the run through when its query fails.
Vetoes(r, u) == <<
  <<r \in pass.off,                          "suppressed_disabled">>,
  <<"agency" \in shut[r],                    "error">>,
  <<pass.now - run[u].at > MissGrace,        "expired">>,
  <<"definition" \in shut[r],                "suppressed_disabled">>,
  <<"paused" \in shut[r],                    "suppressed_paused">>,
  <<"calendar" \in shut[r],                  "suppressed_calendar">>,
  <<DepthExceeded(run[u].depth),             "suppressed_depth">>,
  <<RateBlocks(r),                           "suppressed_rate">>,
  <<TRUE,                                    "fired">> >>

Queried  == {2, 4, 5, 6, 8}
RateVeto == 8

Verdict(r, u, unread) ==
  LET holds == {i \in 1 .. 9 : i \notin unread /\ Vetoes(r, u)[i][1]}
      first == CHOOSE i \in holds : \A j \in holds : i <= j
  IN Vetoes(r, u)[first][2]

Judge(unread) ==
  /\ pc = "judge"
  /\ Fault(unread # {})
  /\ pass' = [pass EXCEPT !.verdict = Verdict(pass.r, pass.ev, unread)]
  /\ pc' = IF Verdict(pass.r, pass.ev, unread) = "fired" THEN "park" ELSE "finish"
  /\ unbraked' = [unbraked EXCEPT ![<<pass.r, pass.ev>>] = RateVeto \in unread]
  /\ UNCHANGED <<worldVars, catalogVars, result, claimedAt, parkVars, cursor, crashes>>

\* fireReaction: the pending run is inserted, or the target cannot be resolved
\* or is refused.
Park ==
  /\ pc = "park" /\ pc' = "finish"
  /\ \/ /\ "target" \notin shut[pass.r]
        /\ made' = [made EXCEPT ![<<pass.r, pass.ev>>] = @ + 1]
        /\ left' = [left EXCEPT ![<<pass.r, pass.ev>>] = @ + 1]
        /\ Fault(FALSE)
        /\ UNCHANGED pass
     \/ /\ \/ "target" \in shut[pass.r] /\ Fault(FALSE)
           \/ Fault(TRUE)
        /\ pass' = [pass EXCEPT !.verdict = "error"]
        /\ UNCHANGED parkVars
  /\ UNCHANGED <<worldVars, catalogVars, deliveryVars, cursor, crashes>>

\* finishDelivery; a failed write is logged, and the claim stays "pending".
Finish(failed) ==
  /\ pc = "finish"
  /\ Fault(failed)
  /\ result' = IF failed THEN result ELSE [result EXCEPT ![<<pass.r, pass.ev>>] = pass.verdict]
  /\ PairDone
  /\ UNCHANGED <<worldVars, catalogVars, claimedAt, unbraked, parkVars, cursor, crashes>>

\* The pass has delivered all it read: the cursor moves, never backwards.  A
\* failed write is logged.
SaveCursor(failed) ==
  /\ pc = "event" /\ pass.todo = {}
  /\ Fault(failed)
  /\ cursor' = IF failed THEN cursor ELSE pass.newest
  /\ pc' = "idle" /\ pass' = NoPass
  /\ UNCHANGED <<worldVars, catalogVars, deliveryVars, parkVars, crashes>>

Reactor ==
  \/ FirstPass(FALSE) \/ CollectJobs(FALSE) \/ CollectFlows(FALSE)
  \/ \E u \in Runs : MatchEvent(u, FALSE)
  \/ EventDone \/ \E r \in Reactions : NextReaction(r)
  \/ Claim \/ Judge({}) \/ Park \/ Finish(FALSE) \/ SaveCursor(FALSE)

ReactorFails ==
  \/ FirstPass(TRUE) \/ CollectJobs(TRUE) \/ CollectFlows(TRUE)
  \/ \E u \in Runs : MatchEvent(u, TRUE)
  \/ \E unread \in (SUBSET Queried) \ {{}} : Judge(unread)
  \/ ClaimFails \/ Finish(TRUE) \/ SaveCursor(TRUE)

-----------------------------------------------------------------------------
(* Runs, and what people and the machine do. *)

\* A new row takes the next id.
NewRun(row) ==
  LET u == Cardinality(Used) + 1 IN
  /\ u \in Runs
  /\ run' = [run EXCEPT ![u] = row]

Roots == {u \in Used : run[u].hops = 0 /\ ~IsChild(u)}

\* A run that no reaction asked for.
Start(d) ==
  /\ d \in scn.starts /\ Cardinality(Roots) < scn.roots
  /\ NewRun([NoRun EXCEPT !.def = d, !.status = "running"])
  /\ UNCHANGED <<scn, clock, catalogVars, deliveryVars, parkVars, cursor, pc, pass, boundVars>>

ChildDepth_Bug(w, failed) == IF failed THEN 0 ELSE run[w].depth - 1

\* A child run has the depth of its workflow run, which is read from its row with
\* the error discarded: a read that fails gives depth 0.
ChildDepth(w, failed) == IF failed THEN 0 ELSE run[w].depth

\* A running workflow dispatches one of its steps.
StartChild(w, d, failed) ==
  /\ run[w].status = "running" /\ IsFlow(w) /\ d \in StepsOf[run[w].def]
  /\ ~\E u \in Runs : run[u].parent = w /\ run[u].def = d
  /\ NewRun([NoRun EXCEPT !.def = d, !.status = "running", !.parent = w,
                          !.depth = ChildDepth(w, failed), !.hops = run[w].hops,
                          !.forgot = IF failed THEN run[w].hops ELSE run[w].forgot])
  /\ Fault(failed)
  /\ UNCHANGED <<scn, clock, catalogVars, deliveryVars, parkVars, cursor, pc, pass, crashes>>

\* A run's terminal write, which lands up to Lag after its completed_at.  A
\* workflow waits for its children; a skipped run ran nothing.
End(u, status, lag) ==
  /\ run[u].status = "running" /\ status \in scn.ends
  /\ IsFlow(u) => status \in {"success", "failure"}
  /\ status = "skipped" => IsChild(u)
  /\ ~\E v \in Runs : run[v].parent = u /\ run[v].status = "running"
  /\ lag <= clock
  /\ run' = [run EXCEPT ![u].status = status, ![u].at = clock - lag]
  /\ owed' = owed \cup {<<r, u>> : r \in {q \in live : cursor # None /\ Matches(q, u)'}}
  /\ UNCHANGED <<scn, clock, live, shut, horizon, deliveryVars, parkVars, cursor, pc, pass, boundVars>>

\* A person cancels a workflow run; its walk may be too far to notice.
CancelFlow(u) ==
  /\ May("cancel") /\ run[u].status = "running" /\ IsFlow(u) /\ ~run[u].cancelled
  /\ run' = [run EXCEPT ![u].cancelled = TRUE]
  /\ UNCHANGED <<scn, clock, catalogVars, deliveryVars, parkVars, cursor, pc, pass, boundVars>>

\* A parked run of the reactor starts its owner's definition, one hop deeper.
Promote(r, u) ==
  /\ May("promote") /\ pc # "down" /\ left[<<r, u>>] > 0
  /\ NewRun([NoRun EXCEPT !.def = Owner[r], !.status = "running",
                          !.depth = run[u].depth + 1, !.hops = run[u].hops + 1,
                          !.forgot = run[u].forgot])
  /\ left' = [left EXCEPT ![<<r, u>>] = @ - 1]
  /\ UNCHANGED <<scn, clock, catalogVars, deliveryVars, made, cursor, pc, pass, boundVars>>

\* Or it is missed, cancelled, or dropped with its definition.
DropParked(r, u) ==
  /\ May("drop") /\ left[<<r, u>>] > 0
  /\ left' = [left EXCEPT ![<<r, u>>] = @ - 1]
  /\ UNCHANGED <<worldVars, catalogVars, deliveryVars, made, cursor, pc, pass, boundVars>>

Tick ==
  /\ clock < scn.until /\ clock' = clock + 1
  /\ UNCHANGED <<scn, run, catalogVars, deliveryVars, parkVars, cursor, pc, pass, boundVars>>

\* The oldest time a pass may still look at, whatever happens from now on.
InView == IF cursor = None THEN clock - Lookback ELSE cursor - Lookback

\* replaceReactions or a sync writes the row anew.
WriteReaction(r) ==
  /\ r \in scn.writes \ live
  /\ live' = live \cup {r}
  /\ horizon' = [horizon EXCEPT ![r] = InView]
  /\ UNCHANGED <<worldVars, shut, owed, deliveryVars, parkVars, cursor, pc, pass, boundVars>>

DeleteReaction(r) ==
  /\ May("remove") /\ r \in live
  /\ live' = live \ {r} /\ owed' = owed \ ({r} \X Runs)
  /\ UNCHANGED <<worldVars, shut, horizon, deliveryVars, parkVars, cursor, pc, pass, boundVars>>

Toggle(r, g) ==
  /\ r \in live /\ g \in scn.gates
  /\ shut' = [shut EXCEPT ![r] = IF g \in @ THEN @ \ {g} ELSE @ \cup {g}]
  /\ UNCHANGED <<worldVars, live, horizon, owed, deliveryVars, parkVars, cursor, pc, pass, boundVars>>

\* The process dies: the pass is lost, every row stays.
ServerCrash ==
  /\ May("crash") /\ crashes < MaxCrashes /\ pc # "down"
  /\ crashes' = crashes + 1
  /\ pc' = "down" /\ pass' = NoPass
  /\ UNCHANGED <<worldVars, catalogVars, deliveryVars, parkVars, cursor, faults>>

\* reactionLoop passes at once when it starts.
Boot ==
  /\ pc = "down" /\ pc' = "idle"
  /\ UNCHANGED <<worldVars, catalogVars, deliveryVars, parkVars, cursor, pass, boundVars>>

\* The runs that finished before the reactor's first pass, when there are any.
InitRun(s) ==
  [u \in Runs |->
     IF u = 1 /\ s.history # {}
     THEN [NoRun EXCEPT !.def = CHOOSE d \in s.history : TRUE, !.status = "success"]
     ELSE NoRun]

Init ==
  /\ scn \in Scenarios
  /\ clock = IF scn.history = {} THEN 0 ELSE Lookback + 1
  /\ run = InitRun(scn)
  /\ live = scn.written /\ shut = [r \in Reactions |-> {}]
  /\ horizon = [r \in Reactions |-> clock - Lookback] /\ owed = {}
  /\ result = [p \in Pairs |-> "none"] /\ claimedAt = [p \in Pairs |-> 0] /\ unbraked = [p \in Pairs |-> FALSE]
  /\ made = [p \in Pairs |-> 0] /\ left = [p \in Pairs |-> 0]
  /\ cursor = None /\ pc = "idle" /\ pass = NoPass
  /\ crashes = 0 /\ faults = 0

World ==
  \/ \E d \in Defs : Start(d)
  \/ \E w \in Runs, d \in Defs, failed \in BOOLEAN : StartChild(w, d, failed)
  \/ \E u \in Runs, status \in Status, lag \in 0 .. Lag : End(u, status, lag)
  \/ \E u \in Runs : CancelFlow(u)
  \/ \E r \in Reactions, u \in Runs : Promote(r, u) \/ DropParked(r, u)
  \/ \E r \in Reactions : WriteReaction(r) \/ DeleteReaction(r)
  \/ \E r \in Reactions, g \in Gates : Toggle(r, g)
  \/ Tick \/ ServerCrash

Next == Reactor \/ ReactorFails \/ Boot \/ World

Spec == Init /\ [][Next]_vars

\* The reactor's goroutine goes on, and a dead server is started again.
FairSpec == Spec /\ WF_vars(Reactor \/ Boot)

-----------------------------------------------------------------------------
(* Properties. *)

\* Every variable keeps its type.
TypeOK ==
  /\ scn \in Scenarios /\ clock \in Nat
  /\ run \in [Runs -> [def : Defs \cup {None}, status : Status, at : Nat, cancelled : BOOLEAN,
                       parent : Nat, depth : Nat, hops : Nat, forgot : Nat]]
  /\ live \subseteq Reactions /\ shut \in [Reactions -> SUBSET Gates]
  /\ horizon \in [Reactions -> Int] /\ owed \subseteq Pairs
  /\ result \in [Pairs -> Results] /\ claimedAt \in [Pairs -> Nat] /\ unbraked \in [Pairs -> BOOLEAN]
  /\ made \in [Pairs -> Nat] /\ left \in [Pairs -> Nat]
  /\ cursor \in Nat \cup {None} /\ pc \in Stages \cup {"down"}
  /\ pass \in [now : Nat, since : Int, todo : SUBSET Runs, newest : Nat, ev : Runs \cup {0},
               matched : SUBSET Reactions, off : SUBSET Reactions, r : Reactions \cup {None},
               verdict : Verdicts \cup {"none"}]
  /\ crashes \in Nat /\ faults \in Nat

\* A finished run makes a reaction park at most one run, however often the
\* overlapping windows show it: over restarts, failed writes, and a reaction
\* deleted and written again (deliverOne's claim).
OncePerEvent == \A p \in Pairs : made[p] <= 1

Deciding(r, u) == pc \in {"judge", "park", "finish"} /\ pass.r = r /\ pass.ev = u
Dangling(r, u) == result[<<r, u>>] = "pending" /\ ~Deciding(r, u)

\* Two runs that a reaction parks are claimed a minimum interval apart, in a
\* backlog delivered by one pass too (reactionVerdict, lastFiredAt).  Left out:
\* a run whose verdict was never recorded, because the server died or the write
\* failed, which the brake does not see; and one decided while the query of the
\* last firing failed, which lastFiredAt answers with "never fired".
Braked(r, u) == made[<<r, u>>] > 0 /\ ~Dangling(r, u) /\ ~unbraked[<<r, u>>]

RateBrake ==
  \A r \in Reactions : \A u, v \in Runs :
    u # v /\ Braked(r, u) /\ Braked(r, v)
      => claimedAt[<<r, u>>] - claimedAt[<<r, v>>] >= Interval[r]
           \/ claimedAt[<<r, v>>] - claimedAt[<<r, u>>] >= Interval[r]

\* No run is MaxDepth or more reactions away from the run that a person or a
\* clock started, through the child runs of workflows too (DepthExceeded, the
\* depth a promoted run and a child run carry).  Left out: the reactions that led
\* to a child run whose workflow run's depth could not be read, from which the
\* count starts over (runJob and parentContext discard the error).
ChainBounded == \A u \in Used : run[u].hops - run[u].forgot < MaxDepth

\* A reaction never fires on a run that was out of the reactor's sight when the
\* reaction was written: one that finished more than a lookback before the
\* newest run delivered by then, or before the reactor's first pass.
RetroBounded ==
  [][\A r \in Reactions, u \in Runs :
       made'[<<r, u>>] > made[<<r, u>>] => run[u].at >= horizon[r]]_vars

\* Without a verdict only if a crash took it.
Answered(r, u) ==
  \/ result[<<r, u>>] \in Verdicts
  \/ result[<<r, u>>] = "pending" /\ crashes > 0

\* A reaction that stands when a run it matches lands decides about that run,
\* over late landings, slow passes, outages and crashes (the lookback behind the
\* cursor).  Left out: runs that land before the first pass, reactions deleted
\* meanwhile, and behaviours with failed reads and writes, after which a run
\* may fall out of the window unseen.
EventAnswered ==
  []<>(May("dbError") \/ \A p \in owed : Answered(p[1], p[2]))

=============================================================================
