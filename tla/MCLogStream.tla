---------------------------- MODULE MCLogStream ----------------------------
(* LogStream for TLC. *)
EXTENDS LogStream

\* A run of n lines with the live tail.
Run(n, events) == [lines |-> n, live |-> TRUE, cap |-> 0, long |-> {}, leaks |-> {}, secret |-> FALSE, events |-> events]

MCScenarios == {
  \* broken connections, and a server that dies
  Run(2, {"drop", "crash"}),
  \* a manifest without the live tail, stops
  [Run(2, {"drop", "stop", "abort"}) EXCEPT !.live = FALSE],
  Run(1, {"drop", "stop", "abort"}),
  \* statements that fail
  Run(2, {"dbError"}),
  \* a secret that cannot be resolved for a while, or ever
  [Run(1, {"outage", "unbind", "drop", "crash"}) EXCEPT !.secret = TRUE],
  \* a log at its cap, a line too long, a full disk
  [Run(2, {"drop"}) EXCEPT !.cap = 2],
  [Run(2, {"drop"}) EXCEPT !.cap = 1, !.long = {2}],
  [Run(2, {"drop"}) EXCEPT !.long = {2}],
  Run(2, {"diskFull"}),
  \* an output that would leak a secret
  [Run(1, {"drop"}) EXCEPT !.leaks = {1}],
  \* the same with connections, a server and a database that hold
  [Run(2, {"diskFull", "stop", "abort"}) EXCEPT !.leaks = {1}],
  [Run(2, {"diskFull", "outage", "stop"}) EXCEPT !.cap = 1, !.long = {2}, !.secret = TRUE],
  [Run(3, {"abort"}) EXCEPT !.cap = 2],
  [Run(2, {"outage", "unbind", "stop"}) EXCEPT !.secret = TRUE] }

\* One crash and nothing else.
CrashScenarios == {Run(1, {"crash"})}
============================================================================
