--------------------------- MODULE MCRunLifecycle ---------------------------
(***************************************************************************)
(* Instances of RunLifecycle for TLC: two runs, and at most two runners, of *)
(* two slots (a1) and of one (a2).  A run of TLC explores every scenario of *)
(* a set: the events that may happen, as often as they can, to a fleet.     *)
(***************************************************************************)
EXTENDS RunLifecycle, TLC

CONSTANTS r1, r2, a1, a2

MCRuns   == {r1, r2}
MCAgents == {a1, a2}
MCSlots  == a1 :> 2 @@ a2 :> 1

Symmetry == Permutations(Runs)

Scenario(events, runners) == [faults |-> events, fleet |-> runners]

\* Every event, with those that meet it in the code.
SafetyScenarios ==
  { Scenario({"kill"}, {a1, a2}),
    Scenario({"deregister"}, {a1, a2}),
    Scenario({"kill", "crash", "restart"}, {a1}),
    Scenario({"stop", "crash", "restart"}, {a1}),
    Scenario({"drain", "cut"}, {a1}),
    Scenario({"drain", "dbError"}, {a1}),
    Scenario({"kill", "drain", "cut"}, {a2}),
    Scenario({"drain", "crash", "quiet"}, {a2}),
    Scenario({"kill", "crash", "quiet", "expire"}, {a2}),
    Scenario({"deregister", "crash", "restart"}, {a2}),
    Scenario({"crash", "quiet", "partition", "expire"}, {a2}),
    Scenario({"serverCrash", "loseReply", "kill"}, {a2}),
    Scenario({"dbError", "crash", "restart"}, {a2}) }

\* The ways a run loses its agent, a job that never ends, a drain.
LivenessScenarios ==
  { Scenario({"crash", "quiet", "stop"}, {a2}),
    Scenario({"crash", "restart"}, {a2}),
    Scenario({"kill", "hang"}, {a2}),
    Scenario({"drain", "quiet", "crash"}, {a2}) }

DrainScenario     == { Scenario({"drain"}, {a2}) }
HangDrainScenario == { Scenario({"drain", "hang"}, {a2}) }
StopScenario      == { Scenario({"kill"}, {a2}) }

=============================================================================
