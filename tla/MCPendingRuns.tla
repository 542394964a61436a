---------------------------- MODULE MCPendingRuns ----------------------------
(***************************************************************************)
(* Instances of PendingRuns for TLC.  Two jobs share one concurrency key:   *)
(* jq queues behind it, jf is forbidden by it.  A third job, ja, holds no   *)
(* key.  A scenario names the requests that are made and what may happen.   *)
(***************************************************************************)
EXTENDS PendingRuns, TLC

CONSTANTS cron, hand, token, file, reaction, deferred, free,
          jq, jf, ja, k1, k2, p1, p2

MCFires == {cron, hand, token, file, reaction, deferred, free}
MCJobs  == {jq, jf, ja}
MCKeys  == {k1, k2}

MCJobOf == [f \in MCFires |-> CASE f \in {file, deferred} -> jf
                                [] f = free -> ja [] OTHER -> jq]
MCProducerOf ==
  cron :> "cron" @@ hand :> "hand" @@ token :> "token" @@
  file :> "file" @@ reaction :> "reaction" @@ deferred :> "deferred" @@
  free :> "deferred"
MCPolicyOf == jq :> "Queue" @@ jf :> "Forbid" @@ ja :> "Allow"
MCKeyOf    == jq :> k1 @@ jf :> k1 @@ ja :> k2

Scenario(requests, happens, gates) ==
  [asked |-> requests, events |-> happens, gates |-> gates, passes |-> {p1}]

\* Two passes at once, over a row that holds no key and one that does.
DoublePass ==
  [asked |-> {free, deferred}, events |-> {"cancel"}, gates |-> {}, passes |-> {p1, p2}]

MCScenarios ==
  { Scenario({cron, hand, token}, {}, {}),
    Scenario({cron, token, file}, {"cancel", "age"}, {}),
    Scenario({cron, token, file}, {"hang", "age"}, {}),
    Scenario({cron, hand}, {"age"}, {"pause", "own"}),
    Scenario({cron, deferred}, {"bin", "cancel"}, {"disabled"}),
    Scenario({free}, {"bin", "age"}, {"calendar"}),
    Scenario({cron, reaction}, {"purge", "unfit"}, {"cap"}),
    Scenario({hand, cron, reaction}, {"serverCrash", "cancel"}, {}),
    DoublePass }

RaceScenario == { Scenario({cron, reaction}, {}, {}) }
BurstScenario == { Scenario({cron, hand, token}, {}, {}) }

=============================================================================
