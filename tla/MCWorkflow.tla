----------------------------- MODULE MCWorkflow -----------------------------
(***************************************************************************)
(* Instances of Workflow for TLC: five small definitions.                   *)
(*   plain  a (one retry); parallel p of b and the sequence s = c, d; e     *)
(*   fork   h; branch br on h: i, or j and the sequence u = x; branch bo on  *)
(*          an output of i: l, or nothing                                   *)
(*   nest   workflow step w (one retry: children kid1, kid2); z             *)
(*   deep   workflow step y, whose child's own workflow step v is too deep  *)
(*   cron   a5; workflow step w5: driven by the scheduler's engine          *)
(* b and x continue on error.                                               *)
(***************************************************************************)
EXTENDS Workflow, TLC

MCLocal == {"plain", "fork", "nest", "kid1", "kid2", "deep", "deeper"}
MCFlows == MCLocal \cup {"cron", "kid5"}

MCPlain == {"a", "p", "b", "s", "c", "d", "e"}
MCFork  == {"h", "br", "i", "j", "u", "x", "bo", "l"}
MCNodes == MCPlain \cup MCFork \cup {"w", "z", "x1", "x2", "y", "v", "a5", "w5", "x5"}
MCWalks == MCFlows \cup {"s", "u", "br+", "br-", "bo+", "bo-"}

MCKind == [n \in MCNodes |->
  CASE n = "p" -> "parallel" [] n \in {"s", "u"} -> "sequence" [] n \in {"br", "bo"} -> "branch"
    [] n \in {"w", "y", "v", "w5"} -> "workflow" [] OTHER -> "job"]

MCBody ==
  "plain" :> <<"a", "p", "e">> @@ "s" :> <<"c", "d">> @@
  "fork" :> <<"h", "br", "bo">> @@ "br+" :> <<"i">> @@ "br-" :> <<"j", "u">> @@
  "u" :> <<"x">> @@ "bo+" :> <<"l">> @@ "bo-" :> <<>> @@
  "nest" :> <<"w", "z">> @@ "kid1" :> <<"x1">> @@ "kid2" :> <<"x2">> @@
  "deep" :> <<"y">> @@ "deeper" :> <<"v">> @@
  "cron" :> <<"a5", "w5">> @@ "kid5" :> <<"x5">>

MCArms == [n \in MCNodes |-> IF n = "p" THEN <<"b", "s">> ELSE <<>>]
MCPass == "br" :> "br+" @@ "bo" :> "bo+"
MCFail == "br" :> "br-" @@ "bo" :> "bo-"
MCRef  == "br" :> "h" @@ "bo" :> "i"

MCChild == [n \in MCNodes |->
  CASE n = "w" -> <<"kid1", "kid2">> [] n = "y" -> <<"deeper">> [] n = "w5" -> <<"kid5">>
    [] OTHER -> <<>>]

MCFlowOf == [n \in MCNodes \cup MCWalks |->
  CASE n \in MCPlain \cup {"plain"} -> "plain"
    [] n \in MCFork \cup {"fork", "br+", "br-", "bo+", "bo-"} -> "fork"
    [] n \in {"w", "z", "nest"} -> "nest" [] n \in {"x1", "kid1"} -> "kid1"
    [] n \in {"x2", "kid2"} -> "kid2" [] n \in {"y", "deep"} -> "deep"
    [] n \in {"v", "deeper"} -> "deeper" [] n \in {"x5", "kid5"} -> "kid5"
    [] OTHER -> "cron"]

MCAbove == [n \in MCNodes |-> {n} \cup
  CASE n \in {"b", "s"} -> {"p"} [] n \in {"c", "d"} -> {"p", "s"}
    [] n \in {"i", "j", "u"} -> {"br"} [] n = "x" -> {"br", "u"} [] n = "l" -> {"bo"}
    [] OTHER -> {}]

MCDepth   == [f \in MCFlows |-> IF f \in {"kid1", "kid2", "deeper", "kid5"} THEN 1 ELSE 0]
MCRetries == [n \in MCNodes |-> IF n \in {"a", "w", "v"} THEN 1 ELSE 0]

Scenario(f, cancels, width, events) ==
  [top |-> f, cancels |-> cancels, off |-> {}, width |-> width, events |-> events]

MCScenarios ==
  { Scenario("plain", {}, 1, {}),
    Scenario("plain", {"plain"}, 2, {}),
    Scenario("plain", {}, 1, {"timeout"}),
    Scenario("plain", {}, 2, {"long"}),
    Scenario("plain", {}, 1, {"dbError"}),
    Scenario("fork", {}, 1, {}),
    Scenario("fork", {"fork"}, 1, {"dropped"}),
    Scenario("fork", {}, 1, {"hang", "long"}),
    Scenario("nest", {"nest"}, 1, {}),
    Scenario("nest", {"kid1"}, 1, {}),
    Scenario("nest", {}, 1, {"crash"}),
    [Scenario("nest", {}, 1, {}) EXCEPT !.off = {"w"}],
    Scenario("deep", {"deep"}, 1, {"dbError", "dropped"}),
    Scenario("cron", {"cron"}, 1, {"crash"}),
    Scenario("cron", {}, 1, {"long"}) }

=============================================================================
