----------------------------- MODULE PendingRuns -----------------------------
(***************************************************************************)
(* How a request to start a job becomes a run, waits for one, or is refused *)
(* (scheduler/{scheduler,queue,pending,gate}.go, api/execution_mount.go,    *)
(* runner/filewatch.go).                                                    *)
(*                                                                         *)
(* A producer (a cron tick, a person's or a service account's Run, a file's *)
(* arrival, a reaction, a run deferred by hand) passes the admission gates, *)
(* then the concurrency gate of its job's key.  The request starts a run,   *)
(* is refused on the record, or is parked as a row of pending_runs.  One    *)
(* ticker, the promoter, goes over the due rows every 15 seconds and judges *)
(* every gate again.  Producers, the promoter, a person who cancels, the    *)
(* operators who pause, freeze, bin and delete, and the end of runs all     *)
(* interleave: each SQL statement is atomic, and no handler here holds a    *)
(* transaction over two of them.                                            *)
(*                                                                         *)
(* A row is one parked request, so rows are functions of the request.  Only *)
(* the passage of time that changes a verdict is kept: a deferred row comes *)
(* due, and any row may be found more than 24 hours late.  A parked         *)
(* workflow takes the path of a job whose policy is Allow.                  *)
(***************************************************************************)
EXTENDS Integers, FiniteSets

CONSTANTS
  Fires,       \* requests to start a run
  Jobs,        \* the definitions they name
  Keys,        \* concurrency keys (jobs.concurrency_key, or the job's uid)
  Promoters,   \* callers of PromotePending, whose passes may overlap
  None,
  JobOf,       \* the job of a request
  ProducerOf,  \* who makes it
  PolicyOf,    \* a job's concurrency policy
  KeyOf,       \* a job's key
  QueueCap,    \* rows that may wait behind a key (3 in the code)
  Scenarios    \* what may happen, and to which requests

Producers == {"cron", "hand", "token", "file", "reaction", "deferred"}
Policies  == {"Allow", "Forbid", "Queue"}

\* "own" is the definition's Forbid or Allow calendar, "calendar" a freeze or a
\* calendar of its agency.
Gates == {"disabled", "pause", "own", "calendar", "cap"}

\* What a request is told, and how a parked one ends, as its traces tell it.
Answers == {"ran", "refused", "parked", "cut"}
Fates   == {"ran", "missed", "cancelled", "dropped", "purged", "lost"}

\* Events of a scenario: a row is cancelled, its job is binned and restored, is
\* deleted by a sync, or stops fitting its scope; 24 hours pass; a run may never
\* end, so that its key never frees; the server dies.
Events == {"cancel", "bin", "purge", "unfit", "age", "hang", "serverCrash"}

ASSUME ConstantsAssumption ==
  /\ JobOf \in [Fires -> Jobs]
  /\ ProducerOf \in [Fires -> Producers]
  /\ PolicyOf \in [Jobs -> Policies]
  /\ KeyOf \in [Jobs -> Keys]
  /\ QueueCap \in Nat \ {0}
  /\ Scenarios \subseteq [events : SUBSET Events, gates : SUBSET Gates,
                          asked : SUBSET Fires, passes : SUBSET Promoters]
  /\ None \notin Gates \cup {"concurrency", "recycle_bin"} \cup Answers \cup Fates

VARIABLES
  scenario,  \* rigid: what may happen in this behaviour
  pc,        \* where a request's producer is
  answer,    \* what it was told
  run,       \* the request's row of runs
  row,       \* its row of pending_runs
  stamp,     \* gate_kind of that row
  age,       \* run_at against the clock
  fate,      \* how a parked request ended, as its traces tell it
  shut,      \* the gates closed to a job, and "unfit"
  job,       \* its definition's place in the catalog
  ppc,       \* where a pass is
  todo,      \* the due rows the pass read and has not judged
  cur        \* the row it is promoting, as it read it

fireVars == <<pc, answer, run>>
rowVars  == <<row, stamp, fate>>
jobVars  == <<shut, job>>
passVars == <<ppc, todo, cur>>
vars     == <<scenario, age, fireVars, rowVars, jobVars, passVars>>

FirePc   == {"idle", "check", "depth", "park", "enqueue", "done"}
Stamps   == {None, "concurrency", "recycle_bin"} \cup Gates
PassPc   == {"idle", "next", "hold", "drop", "clear", "owner", "bin",
             "unbin", "judge", "miss", "delete", "enqueue"}
Snapshot == [fire : Fires, stamp : Stamps, late : BOOLEAN, gate : {None} \cup Gates]

-----------------------------------------------------------------------------
(* Conditions.                                                             *)

Holds(f) == PolicyOf[JobOf[f]] \in {"Forbid", "Queue"}
Key(f)   == KeyOf[JobOf[f]]

\* A run of the key is queued or running.
Active(k) == \E f \in Fires : run[f] = "active" /\ Holds(f) /\ Key(f) = k

\* INSERT INTO runs fails on the partial unique index of active keys.
Clash_Bug(f) == FALSE
Clash(f) == Holds(f) /\ Active(Key(f))

QueuedBehind(k) ==
  {f \in Fires : row[f] = "pending" /\ stamp[f] = "concurrency" /\ Key(f) = k}

\* The gates a producer applies before it starts or parks a run.  A tick finds
\* no entry of a disabled job: the reload selects enabled ones.
AdmissionGates(producer) ==
  CASE producer = "cron"     -> Gates
    [] producer = "file"     -> Gates
    [] producer = "reaction" -> Gates \ {"cap"}
    [] producer = "token"    -> Gates \ {"disabled"}
    [] producer = "hand"     -> {"calendar", "cap"}
    [] producer = "deferred" -> {}

\* The gates promotion applies to a row, by who parked it.
PromotionGates(f) ==
  CASE ProducerOf[f] = "deferred" -> {"pause", "calendar", "cap"}
    [] ProducerOf[f] = "hand"     -> Gates \ {"own"}
    [] OTHER                      -> Gates

Rank == [g \in Gates |-> CASE g = "disabled" -> 1 [] g = "pause" -> 2
                           [] g \in {"own", "calendar"} -> 3 [] g = "cap" -> 4]

\* The gates that may be named as the one that refused: the first that is shut.
Refusals_Bug(f, gates) == (gates \cup {"unfit"}) \cap shut[JobOf[f]]
Refusals(f, gates) ==
  LET closed == gates \cap shut[JobOf[f]]
  IN  {g \in closed : \A h \in closed : Rank[g] <= Rank[h]}

May(event) == event \in scenario.events

\* The jobs a scenario's requests name: nothing reads the others.
Named == {JobOf[f] : f \in scenario.asked}

\* The ticker's due rows.
Due_Bug == {f \in Fires : /\ row[f] = "pending"
                          /\ age[f] # "early"
                          /\ stamp[f] \in {None, "concurrency"}}
Due == {f \in Fires : row[f] = "pending" /\ age[f] # "early"}

\* A row is more than pendingMissGrace late.
Late_Bug(f) == age[f] = "late" /\ stamp[f] # "concurrency"
Late(f) == age[f] = "late"

-----------------------------------------------------------------------------
Init ==
  /\ scenario \in Scenarios
  /\ pc = [f \in Fires |-> "idle"]
  /\ answer = [f \in Fires |-> None]
  /\ run = [f \in Fires |-> "none"]
  /\ row = [f \in Fires |-> "none"]
  /\ stamp = [f \in Fires |-> None]
  /\ age = [f \in Fires |-> "early"]
  /\ fate = [f \in Fires |-> None]
  /\ shut = [j \in Jobs |-> {}]
  /\ job = [j \in Jobs |-> "live"]
  /\ ppc = [p \in Promoters |-> "idle"]
  /\ todo = [p \in Promoters |-> {}]
  /\ cur = [p \in Promoters |-> None]

-----------------------------------------------------------------------------
(* Producers: Scheduler.fire, runJob, the file watch, the reactor.         *)

FireTo(f, where) == pc' = [pc EXCEPT ![f] = where]

Answer(f, what) ==
  /\ FireTo(f, "done")
  /\ answer' = [answer EXCEPT ![f] = what]

\* An admission gate, or a job that does not fit, refuses the request: a
\* recorded skip, an HTTP refusal or a sighting's reason.
FireRefused(f) ==
  /\ pc[f] = "idle"
  /\ f \in scenario.asked
  /\ job[JobOf[f]] = "live"
  /\ \/ Refusals(f, AdmissionGates(ProducerOf[f])) # {}
     \/ "unfit" \in shut[JobOf[f]]
  /\ Answer(f, "refused")
  /\ UNCHANGED <<scenario, age, run, rowVars, jobVars, passVars>>

\* The gates let it through: a deferral and a reaction always park, a job that
\* holds a key asks for it first.
FireAdmitted(f) ==
  /\ pc[f] = "idle"
  /\ f \in scenario.asked
  /\ job[JobOf[f]] = "live"
  /\ Refusals(f, AdmissionGates(ProducerOf[f])) = {}
  /\ "unfit" \notin shut[JobOf[f]]
  /\ FireTo(f, IF ProducerOf[f] \in {"deferred", "reaction"} THEN "park"
               ELSE IF Holds(f) THEN "check" ELSE "enqueue")
  /\ UNCHANGED <<scenario, age, answer, run, rowVars, jobVars, passVars>>

\* hasActiveRunForKey: Queue goes on to park, Forbid loses the fire.
FireCheck(f) ==
  /\ pc[f] = "check"
  /\ IF ~Active(Key(f)) THEN FireTo(f, "enqueue") /\ UNCHANGED answer
     ELSE IF PolicyOf[JobOf[f]] = "Queue" THEN FireTo(f, "depth") /\ UNCHANGED answer
     ELSE Answer(f, "refused")
  /\ UNCHANGED <<scenario, age, run, rowVars, jobVars, passVars>>

\* TryQueue counts the rows behind the key ...
FireDepth(f) ==
  /\ pc[f] = "depth"
  /\ IF Cardinality(QueuedBehind(Key(f))) >= QueueCap
     THEN Answer(f, "refused")
     ELSE FireTo(f, "park") /\ UNCHANGED answer
  /\ UNCHANGED <<scenario, age, run, rowVars, jobVars, passVars>>

\* ... and inserts one more.  A queued row is due at once, a deferred one and a
\* delayed reaction later.
FirePark(f) ==
  LET later == ProducerOf[f] \in {"deferred", "reaction"}
  IN  /\ pc[f] = "park"
      /\ row' = [row EXCEPT ![f] = "pending"]
      /\ stamp' = [stamp EXCEPT ![f] = IF later THEN None ELSE "concurrency"]
      /\ age' = [age EXCEPT ![f] = IF later THEN "early" ELSE "due"]
      /\ Answer(f, "parked")
      /\ UNCHANGED <<scenario, run, fate, jobVars, passVars>>

\* The insert itself.  A fire that lost the race to it starts nothing and is told
\* so: SQLite's error names the column and not the index IsForbidConflict looks
\* for, so a tick logs an error and records no skip, and a Run is answered 500.
FireEnqueue(f) ==
  /\ pc[f] = "enqueue"
  /\ IF Clash(f) THEN Answer(f, "refused") /\ UNCHANGED run
     ELSE Answer(f, "ran") /\ run' = [run EXCEPT ![f] = "active"]
  /\ UNCHANGED <<scenario, age, rowVars, jobVars, passVars>>

\* A run ends: success, failure, kill, loss.
RunEnds(f) ==
  /\ run[f] = "active"
  /\ run' = [run EXCEPT ![f] = "ended"]
  /\ UNCHANGED <<scenario, age, pc, answer, rowVars, jobVars, passVars>>

-----------------------------------------------------------------------------
(* The promoter: PromotePending and promoteOne.                            *)

PassTo(p, where) == ppc' = [ppc EXCEPT ![p] = where]

\* The writes of promoteOne are guarded by the row's status, so a row that is
\* gone, or already missed, is left alone.
SetRow(f, to, how) ==
  IF row[f] = "pending"
  THEN /\ row' = [row EXCEPT ![f] = to]
       /\ fate' = [fate EXCEPT ![f] = how]
  ELSE UNCHANGED <<row, fate>>

\* The due rows, read once with their gate_kind and the pass's clock.
PassStart(p) ==
  /\ ppc[p] = "idle"
  /\ p \in scenario.passes
  /\ Due # {}
  /\ todo' = [todo EXCEPT ![p] =
       {[fire |-> f, stamp |-> stamp[f], late |-> Late(f), gate |-> None] :
          f \in Due}]
  /\ PassTo(p, "next")
  /\ UNCHANGED <<scenario, age, cur, fireVars, rowVars, jobVars>>

PassEnd(p) ==
  /\ ppc[p] = "next"
  /\ todo[p] = {}
  /\ PassTo(p, "idle")
  /\ cur' = [cur EXCEPT ![p] = None]
  /\ UNCHANGED <<scenario, age, todo, fireVars, rowVars, jobVars>>

\* The next row's admission: the 24-hour grace, then the gates.  The refusal of
\* the definition's own calendars drops the row, any other holds it.
PassJudge(p) ==
  /\ ppc[p] = "next"
  /\ \E s \in todo[p] :
       LET refusals == Refusals(s.fire, PromotionGates(s.fire))
       IN  /\ todo' = [todo EXCEPT ![p] = @ \ {s}]
           /\ \/ /\ s.late
                 /\ PassTo(p, "miss")
                 /\ cur' = [cur EXCEPT ![p] = s]
              \/ /\ ~s.late
                 /\ \E g \in refusals :
                      /\ PassTo(p, IF g = "own" THEN "drop" ELSE "hold")
                      /\ cur' = [cur EXCEPT ![p] = [s EXCEPT !.gate = g]]
              \/ /\ ~s.late
                 /\ refusals = {}
                 /\ PassTo(p, IF s.stamp \in Gates THEN "clear" ELSE "owner")
                 /\ cur' = [cur EXCEPT ![p] = s]
  /\ UNCHANGED <<scenario, age, fireVars, rowVars, jobVars>>

\* holdForGate: stamps a row that carries no stamp, or another gate's.
PassHold(p) ==
  LET f == cur[p].fire
  IN  /\ ppc[p] = "hold"
      /\ stamp' = IF row[f] = "pending" /\ stamp[f] \in {None} \cup Gates
                  THEN [stamp EXCEPT ![f] = cur[p].gate] ELSE stamp
      /\ PassTo(p, "next")
      /\ UNCHANGED <<scenario, age, todo, cur, row, fate, fireVars, jobVars>>

\* dropForCalendars.
PassDrop(p) ==
  /\ ppc[p] = "drop"
  /\ SetRow(cur[p].fire, "none", "dropped")
  /\ PassTo(p, "next")
  /\ UNCHANGED <<scenario, age, todo, cur, stamp, fireVars, jobVars>>

\* clearGateHold.
PassClear(p) ==
  LET f == cur[p].fire
  IN  /\ ppc[p] = "clear"
      /\ stamp' = IF row[f] = "pending" /\ stamp[f] \in Gates
                  THEN [stamp EXCEPT ![f] = None] ELSE stamp
      /\ PassTo(p, "owner")
      /\ UNCHANGED <<scenario, age, todo, cur, row, fate, fireVars, jobVars>>

\* The parked run's definition: gone, in the recycle bin, or live.
PassOwner(p) ==
  /\ ppc[p] = "owner"
  /\ PassTo(p, CASE job[JobOf[cur[p].fire]] = "gone"   -> "miss"
                 [] job[JobOf[cur[p].fire]] = "binned" -> "bin"
                 [] job[JobOf[cur[p].fire]] = "live"   -> "unbin")
  /\ UNCHANGED <<scenario, age, todo, cur, fireVars, rowVars, jobVars>>

\* holdForRecycleBin stamps only a row that carries no stamp: "concurrency" is
\* the record that the row is a queued fire.
Unstamped_Bug(f) == TRUE
Unstamped(f) == stamp[f] = None

PassBin(p) ==
  LET f == cur[p].fire
  IN  /\ ppc[p] = "bin"
      /\ stamp' = IF row[f] = "pending" /\ Unstamped(f)
                  THEN [stamp EXCEPT ![f] = "recycle_bin"] ELSE stamp
      /\ PassTo(p, "next")
      /\ UNCHANGED <<scenario, age, todo, cur, row, fate, fireVars, jobVars>>

\* clearRecycleBinHold.
PassUnbin(p) ==
  LET f == cur[p].fire
  IN  /\ ppc[p] = "unbin"
      /\ stamp' = IF row[f] = "pending" /\ stamp[f] = "recycle_bin"
                  THEN [stamp EXCEPT ![f] = None] ELSE stamp
      /\ PassTo(p, "judge")
      /\ UNCHANGED <<scenario, age, todo, cur, row, fate, fireVars, jobVars>>

\* A job that fits no more is missed; one whose key is held waits for a later
\* pass, which is the whole of the queue.
PassFit(p) ==
  LET f == cur[p].fire
  IN  /\ ppc[p] = "judge"
      /\ PassTo(p, IF "unfit" \in shut[JobOf[f]] THEN "miss"
                   ELSE IF Holds(f) /\ Active(Key(f)) THEN "next" ELSE "delete")
      /\ UNCHANGED <<scenario, age, todo, cur, fireVars, rowVars, jobVars>>

\* markPendingMissed.
PassMiss(p) ==
  /\ ppc[p] = "miss"
  /\ SetRow(cur[p].fire, "missed", "missed")
  /\ PassTo(p, "next")
  /\ UNCHANGED <<scenario, age, todo, cur, stamp, fireVars, jobVars>>

\* deletePending: the race with a cancel goes to whoever deletes first.
Won_Bug(f) == TRUE
Won(f) == row[f] = "pending"

\* A promotion that starts the run and leaves the row for later.
PassDelete_Bug(p) ==
  /\ ppc[p] = "delete"
  /\ PassTo(p, "enqueue")
  /\ UNCHANGED <<scenario, age, todo, cur, rowVars, fireVars, jobVars>>

PassDelete(p) ==
  LET f == cur[p].fire
  IN  /\ ppc[p] = "delete"
      /\ row' = IF row[f] = "pending" THEN [row EXCEPT ![f] = "none"] ELSE row
      /\ PassTo(p, IF Won(f) THEN "enqueue" ELSE "next")
      /\ UNCHANGED <<scenario, age, todo, cur, stamp, fate, fireVars, jobVars>>

\* EnqueueRunWithID.  Its failure is only logged: the row is already deleted.
PassEnqueue(p) ==
  LET f == cur[p].fire
  IN  /\ ppc[p] = "enqueue"
      /\ IF Clash(f)
         THEN fate' = [fate EXCEPT ![f] = "lost"] /\ UNCHANGED run
         ELSE /\ fate' = [fate EXCEPT ![f] = "ran"]
              /\ run' = [run EXCEPT ![f] = "active"]
      /\ PassTo(p, "next")
      /\ UNCHANGED <<scenario, age, todo, cur, row, stamp, pc, answer, jobVars>>

-----------------------------------------------------------------------------
(* People, the catalog, the clock, the process.                            *)

\* DELETE /pending-runs/{id}, which also dismisses a missed row.
Cancel(f) ==
  /\ May("cancel")
  /\ row[f] # "none"
  /\ row' = [row EXCEPT ![f] = "none"]
  /\ fate' = [fate EXCEPT ![f] = IF row[f] = "pending" THEN "cancelled" ELSE @]
  /\ UNCHANGED <<scenario, age, stamp, fireVars, jobVars, passVars>>

\* A gate shuts or opens: a pause, a switch, a calendar's day, the run cap.
TurnGate(j, g) ==
  /\ g \in scenario.gates \/ (g = "unfit" /\ May("unfit"))
  /\ shut' = [shut EXCEPT ![j] = IF g \in @ THEN @ \ {g} ELSE @ \cup {g}]
  /\ UNCHANGED <<scenario, age, job, fireVars, rowVars, passVars>>

\* Into the recycle bin and out of it.
MoveJob(j) ==
  /\ May("bin")
  /\ \/ job[j] = "live" /\ job' = [job EXCEPT ![j] = "binned"]
     \/ job[j] = "binned" /\ job' = [job EXCEPT ![j] = "live"]
  /\ UNCHANGED <<scenario, age, shut, fireVars, rowVars, passVars>>

\* DELETE FROM jobs, and the trigger that deletes the job's parked rows with it.
PurgeJob(j) ==
  /\ May("purge")
  /\ job[j] # "gone"
  /\ job' = [job EXCEPT ![j] = "gone"]
  /\ row' = [f \in Fires |-> IF JobOf[f] = j THEN "none" ELSE row[f]]
  /\ fate' = [f \in Fires |-> IF JobOf[f] = j /\ row[f] = "pending"
                              THEN "purged" ELSE fate[f]]
  /\ UNCHANGED <<scenario, age, shut, stamp, fireVars, passVars>>

\* A deferred row's run_at arrives.
ComesDue(f) ==
  /\ row[f] = "pending"
  /\ age[f] = "early"
  /\ age' = [age EXCEPT ![f] = "due"]
  /\ UNCHANGED <<scenario, fireVars, rowVars, jobVars, passVars>>

\* The catch-up grace runs out.
GracePasses(f) ==
  /\ May("age")
  /\ row[f] = "pending"
  /\ age[f] = "due"
  /\ age' = [age EXCEPT ![f] = "late"]
  /\ UNCHANGED <<scenario, fireVars, rowVars, jobVars, passVars>>

\* The process dies and comes back: the database is all that is left.
ServerCrash ==
  /\ May("serverCrash")
  /\ pc' = [f \in Fires |-> IF pc[f] = "idle" THEN "idle" ELSE "done"]
  /\ answer' = [f \in Fires |-> IF pc[f] \in {"idle", "done"} THEN answer[f] ELSE "cut"]
  /\ fate' = [f \in Fires |->
       IF \E p \in Promoters : ppc[p] = "enqueue" /\ cur[p].fire = f
       THEN "lost" ELSE fate[f]]
  /\ ppc' = [p \in Promoters |-> "idle"]
  /\ todo' = [p \in Promoters |-> {}]
  /\ cur' = [p \in Promoters |-> None]
  /\ UNCHANGED <<scenario, age, run, row, stamp, jobVars>>

-----------------------------------------------------------------------------
Producing(f) ==
  \/ FireRefused(f) \/ FireAdmitted(f) \/ FireCheck(f)
  \/ FireDepth(f) \/ FirePark(f) \/ FireEnqueue(f)

Pass(p) ==
  \/ PassStart(p) \/ PassEnd(p) \/ PassJudge(p) \/ PassHold(p) \/ PassDrop(p)
  \/ PassClear(p) \/ PassOwner(p) \/ PassBin(p) \/ PassUnbin(p) \/ PassFit(p)
  \/ PassMiss(p) \/ PassDelete(p) \/ PassEnqueue(p)

Next ==
  \/ \E f \in Fires : Producing(f) \/ RunEnds(f) \/ Cancel(f)
                      \/ ComesDue(f) \/ GracePasses(f)
  \/ \E p \in Promoters : Pass(p)
  \/ \E j \in Named : MoveJob(j) \/ PurgeJob(j) \/ \E g \in Gates \cup {"unfit"} : TurnGate(j, g)
  \/ ServerCrash

Spec == Init /\ [][Next]_vars

\* Handlers run to their end, the ticker ticks, time passes, and jobs end unless
\* the scenario lets them hang.  Nothing obliges a person to act, a gate to open
\* or a fire to be asked for.
FairSpec ==
  /\ Spec
  /\ \A f \in Fires :
       /\ WF_vars(FireCheck(f) \/ FireDepth(f) \/ FirePark(f) \/ FireEnqueue(f))
       /\ WF_vars(~May("hang") /\ RunEnds(f))
       /\ WF_vars(ComesDue(f))
       /\ WF_vars(GracePasses(f))
  /\ \A p \in Promoters : WF_vars(Pass(p))

-----------------------------------------------------------------------------
(* What must hold.                                                         *)

\* The types, and that a pass past its judgement holds the row it read.
TypeOK ==
  /\ scenario \in Scenarios
  /\ pc \in [Fires -> FirePc]
  /\ answer \in [Fires -> {None} \cup Answers]
  /\ run \in [Fires -> {"none", "active", "ended"}]
  /\ row \in [Fires -> {"none", "pending", "missed"}]
  /\ stamp \in [Fires -> Stamps]
  /\ age \in [Fires -> {"early", "due", "late"}]
  /\ fate \in [Fires -> {None} \cup Fates]
  /\ shut \in [Jobs -> SUBSET (Gates \cup {"unfit"})]
  /\ job \in [Jobs -> {"live", "binned", "gone"}]
  /\ ppc \in [Promoters -> PassPc]
  /\ todo \in [Promoters -> SUBSET Snapshot]
  /\ cur \in [Promoters -> {None} \cup Snapshot]
  /\ \A p \in Promoters : ppc[p] \notin {"idle", "next"} => cur[p] \in Snapshot

\* No two runs of one concurrency key are queued or running together, however
\* the producers and the promoter interleave between their check of the key and
\* their insert (the partial unique index behind CheckForbid).
OneActivePerKey ==
  \A f, g \in Fires :
    /\ run[f] = "active" /\ run[g] = "active"
    /\ Holds(f) /\ Holds(g) /\ Key(f) = Key(g)
    => f = g

\* A step undoes no fate, and starts no run again that ended.
Settled ==
  \A f \in Fires : /\ fate[f] # None => fate'[f] = fate[f]
                  /\ run[f] = "ended" => run'[f] = "ended"

\* A parked request ends one way and only one: a run that was cancelled, missed
\* or dropped does not start afterwards, and one that started is not also
\* reported missed or cancelled (deletePending, markPendingMissed and the cancel
\* handler race for the row).  Nor does a run that ended start again under a
\* second pass over the same row.
FateIsFinal == [][Settled]_vars

\* A request starts at most one run, and a request still waiting has none.
StartsOnce ==
  \A f \in Fires : run[f] # "none" =>
    /\ row[f] = "none"
    /\ pc[f] = "done"
    /\ fate[f] = IF answer[f] = "parked" THEN "ran" ELSE None

\* A queued fire stays marked as one for as long as it waits, whatever else
\* holds it meanwhile: the depth of the queue, the missed-run detector and the
\* scheduled_for stamp all read that mark (holdForRecycleBin's comment).
QueuedStaysQueued ==
  [][\A f \in Fires :
       row[f] = "pending" /\ stamp[f] = "concurrency" /\ row'[f] = "pending"
       => stamp'[f] = "concurrency"]_vars

\* Nothing holds the row: not its time, its job, a gate or its key.
Ready(f) ==
  /\ row[f] = "pending"
  /\ age[f] # "early"
  /\ job[JobOf[f]] = "live"
  /\ shut[JobOf[f]] = {}
  /\ ~Clash(f)

\* A row for which every gate stays open, whose job stays live and whose key
\* stays free is promoted, whatever held it before: a pause that was lifted, a
\* trip through the recycle bin, a run that ended (promoteOne's retry).  A process
\* that dies again and again in its first pass promotes nothing.
ReadyIsPromoted ==
  ~May("serverCrash") => \A f \in Fires : ~<>[]Ready(f)

\* Every parked row is settled: it runs, is dropped, or ages into "missed", even
\* when its gate never opens or its key never frees, because the run that holds
\* it hangs (the 24-hour grace; TestQueuedRunExpiresOnTheCatchUpGrace).
ParkedIsSettled ==
  May("age") => \A f \in Fires : row[f] = "pending" ~> row[f] # "pending"

\* What queue.go says of every fire: run, queued or recorded, never silence.
NeverSilent == \A f \in Fires : fate[f] # "lost"

\* What the README says of the Queue policy: at most QueueCap waiting per key.
QueueBounded == \A k \in Keys : Cardinality(QueuedBehind(k)) <= QueueCap

(* The two promises above are broken.  What is left of them when the requests *)
(* and passes that look at one key keep out of each other's way:             *)

\* TryQueue counted for them, and has not inserted their rows.
Joining(k) ==
  {f \in Fires : /\ pc[f] = "park" /\ Key(f) = k
                 /\ ProducerOf[f] \notin {"deferred", "reaction"}}

\* They found a key free, and have not inserted their runs.
FiresClaiming(k) == {f \in Fires : pc[f] = "enqueue" /\ Holds(f) /\ Key(f) = k}
PassesClaiming(k) ==
  {p \in Promoters : /\ ppc[p] \in {"delete", "enqueue"}
                     /\ Holds(cur[p].fire) /\ Key(cur[p].fire) = k}

OneClaims ==
  \A k \in Keys : /\ \A f, g \in FiresClaiming(k) : f = g
                  /\ \A p, q \in PassesClaiming(k) : p = q
                  /\ FiresClaiming(k) = {} \/ PassesClaiming(k) = {}

=============================================================================
