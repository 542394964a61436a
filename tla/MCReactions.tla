----------------------------- MODULE MCReactions -----------------------------
(***************************************************************************)
(* Instances of Reactions for TLC.                                          *)
(*   r1  a -> b, with a minimum interval                                    *)
(*   r2  a -> b, on success or failure                                      *)
(*   r3  j -> w, for children too, and w runs j: a cycle no edge shows      *)
(*   r4  w -> b, when w is stopped                                          *)
(* v runs w as a sub-workflow.                                              *)
(***************************************************************************)
EXTENDS Reactions, TLC

MCDefs  == {"a", "b", "j", "w", "v"}
MCSteps == [d \in MCDefs |-> CASE d = "w" -> {"j"} [] d = "v" -> {"w"} [] OTHER -> {}]

MCOn    == "r1" :> "a" @@ "r2" :> "a" @@ "r3" :> "j" @@ "r4" :> "w"
MCOwner == "r1" :> "b" @@ "r2" :> "b" @@ "r3" :> "w" @@ "r4" :> "b"
MCOutcomes == "r1" :> {"success"} @@ "r2" :> {"success", "failure"} @@
              "r3" :> {"success", "failure", "stopped"} @@ "r4" :> {"stopped"}
MCInterval == "r1" :> 2 @@ "r2" :> 0 @@ "r3" :> 0 @@ "r4" :> 0

Scenario(rs, d, roots, until, events) ==
  [written |-> rs, writes |-> {}, history |-> {}, starts |-> {d}, roots |-> roots, until |-> until,
   ends |-> {"success"}, gates |-> {}, events |-> events]

MCScenarios ==
  { Scenario({"r1"}, "a", 2, 2, {"crash"}),
    Scenario({"r1"}, "a", 2, 2, {"dbError"}),
    Scenario({"r2"}, "a", 2, 3, {}),
    Scenario({"r2"}, "a", 2, 2, {"crash"}),
    Scenario({"r2"}, "a", 1, 4, {"crash"}),
    Scenario({"r3"}, "w", 1, 0, {"promote"}),
    Scenario({"r3"}, "v", 1, 0, {"promote"}),
    Scenario({"r3"}, "w", 1, 0, {"promote", "dbError"}),
    [Scenario({"r4"}, "w", 1, 1, {"cancel", "promote", "drop"}) EXCEPT !.ends = {"success", "failure"}],
    [Scenario({"r3"}, "w", 1, 0, {}) EXCEPT !.ends = Status \ {"none", "running"}],
    [Scenario({}, "a", 2, 4, {"remove"}) EXCEPT !.writes = {"r2"}, !.history = {"a"}],
    [Scenario({"r2"}, "a", 1, 0, {}) EXCEPT !.gates = Gates] }

=============================================================================
