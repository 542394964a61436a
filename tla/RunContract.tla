----------------------------- MODULE RunContract -----------------------------
(***************************************************************************)
(* What the server promises of a run, whoever ends it: it is queued, then   *)
(* perhaps running, then terminal for good, and its end is recorded at most *)
(* once and never before it has ended.                                      *)
(*                                                                         *)
(* Several runs may move in one step: a deregistration closes all the       *)
(* running runs of a runner in one transaction.                             *)
(***************************************************************************)
EXTENDS Naturals

CONSTANTS Runs, Results

VARIABLES life, reported

contractVars == <<life, reported>>

Init ==
  /\ life = [r \in Runs |-> "queued"]
  /\ reported = [r \in Runs |-> 0]

Claims(r) == life[r] = "queued" /\ life'[r] = "running" /\ reported'[r] = reported[r]

Ends(r) ==
  /\ life[r] \in {"queued", "running"} /\ life'[r] \in Results
  /\ reported'[r] = reported[r]

Reports(r) == life[r] \in Results /\ life'[r] = life[r] /\ reported[r] = 0 /\ reported'[r] = 1

EndsReported(r) ==
  /\ life[r] = "running" /\ life'[r] \in Results
  /\ reported[r] = 0 /\ reported'[r] = 1

Stays(r) == life'[r] = life[r] /\ reported'[r] = reported[r]

Moves(r) == Claims(r) \/ Ends(r) \/ Reports(r) \/ EndsReported(r) \/ Stays(r)

Next ==
  /\ life' \in [Runs -> {"queued", "running"} \union Results]
  /\ reported' \in [Runs -> {0, 1}]
  /\ \A r \in Runs : Moves(r)

Spec == Init /\ [][Next]_contractVars

=============================================================================
