------------------------------ MODULE LogStream ------------------------------
(***************************************************************************)
(* One run's log on its way from the agent (agent/logstream.go, agent.go     *)
(* executeRun and flushTerminal) to the server's file and the run's end      *)
(* (runner/log.go HandleIngestLog).                                         *)
(*                                                                         *)
(* The agent keeps every line in a buffer, posts what lies past the offset   *)
(* it believes committed, and ends with a final chunk whose last line is the *)
(* envelope.  The server takes a chunk that starts at its own raw offset,    *)
(* appends its lines one by one, advances the offset in a second statement   *)
(* and ends the run in a third.  A connection may drop and the server die    *)
(* between any two of them, and a handler whose agent has left may still be   *)
(* at work beside the one that serves the next chunk.                       *)
(*                                                                         *)
(* An item is a line, items are numbered in the order they were produced and *)
(* offsets count items: the agent sends whole lines only, so an offset never *)
(* falls inside one.  Redaction maps a line to a line and is not seen here.  *)
(***************************************************************************)
EXTENDS Integers, Sequences

CONSTANTS
  Slots,      \* requests the server may be handling at a time
  None,
  Budget,     \* LogRetryBudget
  MaxFaults,  \* bound
  Scenarios

Notice == -1  \* the line that says the log reached its cap
Note   == -2  \* the line that says the end could not be redacted
Leak   == -3  \* the line that says an output would have leaked a secret
Hole   == 0   \* what a write past the end of a truncated file leaves

Stages  == {"free", "sent", "admitted", "opening", "writing", "unredacted", "past_cap", "commit", "end", "answer"}
Replies == {"none", "ok", "closed", "mismatch", "unavailable", "refused"}
Verdicts == {"running", "exit", "not_redactable", "log_stream_lost", "output_secret_leak", "closed"}
Events  == {"drop", "crash", "dbError", "diskFull", "stop", "abort", "outage", "unbind"}

ASSUME ConstantsAssumption ==
  /\ None \notin Slots
  /\ Budget \in Nat \ {0} /\ MaxFaults \in Nat
  /\ Scenarios \subseteq [lines : Nat, live : BOOLEAN, cap : Nat, long : SUBSET Nat, leaks : SUBSET Nat,
                          secret : BOOLEAN, events : SUBSET Events]

VARIABLES
  scn,       \* rigid: what may happen in this behaviour
  agent,     \* "executing", "flushing" (flushTerminal), "done" or "gaveUp"
  produced,  \* body lines in the agent's buffer
  committed, \* logBuffer.committed
  tries,     \* attempts left in the streamLogs call under way, 0 for none
  post,      \* the request the agent waits for
  aborted,   \* the agent got its second stop signal
  req,       \* the requests the server is handling
  verdict,   \* runs.status with its reason
  offset,    \* runs.log_raw_offset
  file,      \* the run's log file
  dict,      \* the run's redaction dictionary: "whole", "outage" or "gone"
  grace,     \* unredactableSince: "none", "counting", or "over" (10 minutes on)
  faults,
  overlap,   \* history: a handler read the offset beside another, or after the run's end
  torn       \* history: lines were appended whose offset was never recorded

agentVars  == <<agent, produced, committed, tries, post, aborted>>
serverVars == <<verdict, offset, file, grace>>
vars == <<scn, agentVars, req, serverVars, dict, faults, overlap, torn>>

\* The buffer's length: sealed with the envelope once the body is over.
Total == IF agent = "executing" THEN produced ELSE produced + 1

Free == [stage |-> "free", from |-> 0, to |-> 0, final |-> FALSE, append |-> FALSE, at |-> 0,
         next |-> 0, read |-> 0, env |-> FALSE, dead |-> FALSE, leaked |-> FALSE, reply |-> "none", got |-> 0]

Smaller(a, b) == IF a < b THEN a ELSE b

TypeOK ==
  /\ agent \in {"executing", "flushing", "done", "gaveUp"}
  /\ produced \in 0 .. scn.lines /\ committed \in 0 .. Total
  /\ tries \in 0 .. Budget /\ post \in Slots \cup {None} /\ aborted \in BOOLEAN
  /\ req \in [Slots -> [stage : Stages, from : Nat, to : 0 .. Total, final : BOOLEAN, append : BOOLEAN,
                        at : Nat, next : Nat, read : Nat, env : BOOLEAN, dead : BOOLEAN, leaked : BOOLEAN,
                        reply : Replies, got : Nat]]
  /\ verdict \in Verdicts /\ offset \in Nat
  /\ file \in Seq({Notice, Note, Leak} \cup 0 .. Total)
  /\ dict \in {"whole", "outage", "gone"} /\ grace \in {"none", "counting", "over"}
  /\ faults \in 0 .. MaxFaults /\ overlap \in BOOLEAN /\ torn \in BOOLEAN

Init ==
  /\ scn \in Scenarios
  /\ agent = "executing" /\ produced = 0 /\ committed = 0 /\ tries = 0 /\ post = None
  /\ aborted = FALSE /\ req = [q \in Slots |-> Free]
  /\ verdict = "running" /\ offset = 0 /\ file = <<>> /\ dict = "whole" /\ grace = "none"
  /\ faults = 0 /\ overlap = FALSE /\ torn = FALSE

Fault(e) == e \in scn.events /\ faults < MaxFaults /\ faults' = faults + 1

(***************************************************************************)
(* The agent.                                                              *)
(***************************************************************************)

\* logBuffer.writeLine, as the executor emits.
WriteLine ==
  /\ agent = "executing" /\ produced < scn.lines
  /\ produced' = produced + 1
  /\ UNCHANGED <<scn, agent, committed, tries, post, aborted, req, serverVars, dict, faults, overlap, torn>>

\* The live-log ticker calls streamLogs with a budget of one.
Tick ==
  /\ agent = "executing" /\ scn.live /\ tries = 0 /\ committed < Total
  /\ tries' = 1
  /\ UNCHANGED <<scn, agent, produced, committed, post, aborted, req, serverVars, dict, faults, overlap, torn>>

\* The body is over: stopFlush gives up the tick under way, the buffer is sealed
\* and flushTerminal makes its first call.
Seal ==
  /\ agent = "executing"
  /\ agent' = "flushing" /\ tries' = Budget /\ post' = None
  /\ UNCHANGED <<scn, produced, committed, aborted, req, serverVars, dict, faults, overlap, torn>>

\* One attempt of streamLogs: what lies past the committed offset.
Send ==
  /\ tries > 0 /\ post = None /\ committed < Total
  /\ \E q \in Slots :
       /\ req[q].stage = "free"
       /\ post' = q
       /\ req' = [req EXCEPT ![q] = [Free EXCEPT !.stage = "sent", !.from = committed, !.to = Total,
                                                 !.final = agent = "flushing"]]
  /\ UNCHANGED <<scn, agent, produced, committed, tries, aborted, serverVars, dict, faults, overlap, torn>>

\* streamLogs finds everything committed and returns without an error.
AllCommitted ==
  /\ tries > 0 /\ post = None /\ committed = Total
  /\ tries' = 0 /\ agent' = IF agent = "flushing" THEN "done" ELSE agent
  /\ UNCHANGED <<scn, produced, committed, post, aborted, req, serverVars, dict, faults, overlap, torn>>

\* flushTerminal sends again for as long as the run's context lives.
Resend ==
  /\ agent = "flushing" /\ tries = 0
  /\ IF aborted THEN agent' = "gaveUp" /\ UNCHANGED tries ELSE tries' = 1 /\ UNCHANGED agent
  /\ UNCHANGED <<scn, produced, committed, post, aborted, req, serverVars, dict, faults, overlap, torn>>

\* logBuffer.setCommitted: never past what the buffer holds.
SetCommitted_Bug(n) == n
SetCommitted(n) == Smaller(n, Total)

\* What a success commits: the bytes this attempt sent, never the whole buffer.
Sent_Bug(q) == Total
Sent(q) == req[q].to

\* postLog's answer reaches streamLogs.
Receive(q) ==
  /\ post = q /\ req[q].stage = "answer"
  /\ post' = None /\ req' = [req EXCEPT ![q] = Free]
  /\ CASE req[q].reply = "ok" ->
            /\ committed' = SetCommitted(Sent(q)) /\ tries' = 0
            /\ agent' = IF agent = "flushing" THEN "done" ELSE agent
       [] req[q].reply = "closed" ->
            /\ tries' = 0 /\ agent' = IF agent = "flushing" THEN "done" ELSE agent
            /\ UNCHANGED committed
       [] req[q].reply = "mismatch" ->
            /\ committed' = SetCommitted(req[q].got) /\ tries' = tries - 1 /\ UNCHANGED agent
       [] OTHER -> tries' = tries - 1 /\ UNCHANGED <<agent, committed>>
  /\ UNCHANGED <<scn, produced, aborted, serverVars, dict, faults, overlap, torn>>

\* The connection drops or the call times out: the attempt fails, and whatever
\* the server has of it goes on without the agent.
Drop ==
  /\ Fault("drop") /\ post # None
  /\ post' = None /\ tries' = tries - 1
  /\ UNCHANGED <<scn, agent, produced, committed, aborted, req, serverVars, dict, overlap, torn>>

\* The second stop signal ends the run's context: its body, and the re-sends.
Abort ==
  /\ "abort" \in scn.events /\ ~aborted /\ aborted' = TRUE
  /\ UNCHANGED <<scn, agent, produced, committed, tries, post, req, serverVars, dict, faults, overlap, torn>>

(***************************************************************************)
(* The server: one handler per request.                                    *)
(***************************************************************************)

Hung(q) == post # q
Answer(q, r) == req' = [req EXCEPT ![q].stage = "answer", ![q].reply = r, ![q].got = offset]
Goto(q, stage) == req' = [req EXCEPT ![q].stage = stage]

\* A statement on the request's context: it fails on a context that ended, and
\* may, once the agent has left, before that is noticed.
Applies(q) == ~req[q].dead
MayFail(q) == req[q].dead \/ Hung(q)

\* Past its read of the offset and not yet through with what it made of it.
Handling(q) == req[q].stage \in {"opening", "writing", "commit", "end"}
EndedByUpload == verdict \notin {"running", "closed"}

\* The grace of a final chunk that cannot be redacted.
EndsUnredacted_Bug(q) == req[q].final /\ dict = "gone"
EndsUnredacted(q) == req[q].final /\ (dict = "gone" \/ grace = "over")

\* The status read and, for a run that was given a secret, the dictionary.
Admit(q) ==
  /\ req[q].stage = "sent"
  /\ IF verdict # "running"
     THEN Answer(q, "closed") /\ grace' = "none"
     ELSE IF dict = "whole" THEN Goto(q, "admitted") /\ UNCHANGED grace
     ELSE IF EndsUnredacted(q)
          THEN Goto(q, "unredacted") /\ grace' = "none"
          ELSE /\ Answer(q, "unavailable")
               /\ grace' = IF req[q].final /\ grace = "none" THEN "counting" ELSE grace
  /\ UNCHANGED <<scn, agentVars, verdict, offset, file, dict, faults, overlap, torn>>

AtCap == scn.cap > 0 /\ offset >= scn.cap

\* The raw offset is read: the cap, then the agent's own offset, are held to it.
ReadOffset(q) ==
  /\ req[q].stage = "admitted"
  /\ IF AtCap
     THEN IF req[q].final THEN Goto(q, "past_cap") ELSE Answer(q, "refused")
     ELSE IF req[q].from # offset THEN Answer(q, "mismatch") ELSE Goto(q, "opening")
  /\ overlap' = (overlap \/ EndedByUpload \/ \E p \in Slots \ {q} : Handling(p))
  /\ UNCHANGED <<scn, agentVars, serverVars, dict, faults, torn>>

\* One of the handler's reads fails: the agent is told to send the chunk again.
ReadFails(q) ==
  /\ req[q].stage \in {"sent", "admitted"} /\ Fault("dbError")
  /\ Answer(q, "unavailable")
  /\ UNCHANGED <<scn, agentVars, serverVars, dict, overlap, torn>>

\* A chunk that starts the log drops what a handler that failed left of it.
Truncates_Bug(q) == TRUE
TruncatesNever_Bug(q) == FALSE
Truncates(q) == req[q].from = 0

OpenLog(q) ==
  /\ req[q].stage = "opening"
  /\ file' = IF Truncates(q) THEN <<>> ELSE file
  /\ req' = [req EXCEPT ![q].stage = "writing", ![q].append = req[q].from > 0,
                        ![q].at = 1, ![q].next = req[q].from + 1]
  /\ UNCHANGED <<scn, agentVars, verdict, offset, grace, dict, faults, overlap, torn>>

\* A write at a position: at the end when appending, else where this handle is.
Put(q, x) ==
  LET at == IF req[q].append THEN Len(file) + 1 ELSE req[q].at
  IN  [i \in 1 .. (IF at > Len(file) THEN at ELSE Len(file)) |->
         IF i = at THEN x ELSE IF i <= Len(file) THEN file[i] ELSE Hole]

\* The size the cap is held to: the file's at its opening and this request's lines.
CrossesCap(q) == scn.cap > 0 /\ Len(file) + 1 > scn.cap

\* A captured output carries a secret of the run (FirstOutputLeakingSecret).
Leaks(q) == req[q].leaked \/ req[q].next \in scn.leaks

More(q) == req[q].stage = "writing" /\ req[q].next <= req[q].to

StoreLine(q) ==
  /\ More(q) /\ req[q].next \notin scn.long /\ ~CrossesCap(q)
  /\ file' = Put(q, req[q].next)
  /\ req' = [req EXCEPT ![q].next = @ + 1, ![q].at = @ + 1, ![q].leaked = Leaks(q)]
  /\ UNCHANGED <<scn, agentVars, verdict, offset, grace, dict, faults, overlap, torn>>

\* The body is over: its bytes go to the offset and its last line is looked at.
ReadToEnd(q) ==
  /\ req[q].stage = "writing" /\ req[q].next > req[q].to
  /\ req' = [req EXCEPT ![q].stage = "commit", ![q].read = req[q].to - req[q].from, ![q].env = req[q].final]
  /\ UNCHANGED <<scn, agentVars, serverVars, dict, faults, overlap, torn>>

\* The body breaks off: the agent has left, and the request's context ends with
\* the read that fails.  A request that never got here is one broken at once.
BodyCut(q) ==
  /\ Hung(q)
  /\ \/ req[q].stage = "sent" /\ req' = [req EXCEPT ![q] = Free]
     \/ More(q) /\ req' = [req EXCEPT ![q].stage = "commit", ![q].dead = TRUE]
  /\ UNCHANGED <<scn, agentVars, serverVars, dict, faults, overlap, torn>>

\* A line longer than the scanner's buffer ends the read with an error that is
\* the server's own: the context is alive.
LineTooLong(q) ==
  /\ More(q) /\ req[q].next \in scn.long
  /\ Goto(q, "commit")
  /\ UNCHANGED <<scn, agentVars, serverVars, dict, faults, overlap, torn>>

\* A line cannot be written: the loop ends, and what the scanner had read by
\* then is taken for read.
DiskFull(q) ==
  /\ More(q) /\ Fault("diskFull")
  /\ \E n \in req[q].next .. req[q].to :
       req' = [req EXCEPT ![q].stage = "commit", ![q].read = n - req[q].from]
  /\ UNCHANGED <<scn, agentVars, serverVars, dict, overlap, torn>>

\* The line that crosses the cap: the notice, the offset pinned at the cap; a
\* partial chunk is refused, a final one read on for its envelope.
ReachCap(q) ==
  /\ More(q) /\ CrossesCap(q)
  /\ file' = Put(q, Notice)
  /\ \/ offset' = scn.cap /\ Applies(q)
     \/ UNCHANGED offset /\ MayFail(q)
  /\ IF ~req[q].final THEN Answer(q, "refused")
     ELSE \/ /\ (req[q].next .. req[q].to) \cap scn.long = {}
             /\ req' = [req EXCEPT ![q].stage = "commit", ![q].read = req[q].to - req[q].from, ![q].env = TRUE,
                                    ![q].leaked = Leaks(q)]
          \/ (req[q].next .. req[q].to) \cap scn.long # {} /\ Goto(q, "commit")
          \/ Hung(q) /\ req' = [req EXCEPT ![q].stage = "commit", ![q].dead = TRUE]
  /\ UNCHANGED <<scn, agentVars, verdict, grace, dict, faults, overlap, torn>>

Appended(q) == req[q].append /\ req[q].next > req[q].from + 1
\* A final chunk without its envelope, taken for a partial one.
Done_Bug(r) == IF r.env \/ r.leaked THEN [r EXCEPT !.stage = "end"]
               ELSE [r EXCEPT !.stage = "answer", !.reply = "ok"]
Done(r) == IF r.final \/ r.leaked THEN [r EXCEPT !.stage = "end"]
           ELSE [r EXCEPT !.stage = "answer", !.reply = "ok"]

\* What the file gets after the body, and the offset's own statement, after a body
\* read to its end; then a partial chunk is done, unless it leaked.
Commit(q) ==
  /\ req[q].stage = "commit"
  /\ \/ /\ req[q].read > 0 /\ Applies(q)
        /\ offset' = offset + req[q].read
        /\ req' = [req EXCEPT ![q] = Done(@)] /\ UNCHANGED <<torn, faults>>
     \/ /\ \/ req[q].read = 0 /\ req' = [req EXCEPT ![q] = Done(@)] /\ UNCHANGED faults
           \/ MayFail(q) /\ req' = [req EXCEPT ![q] = Done([@ EXCEPT !.dead = TRUE])] /\ UNCHANGED faults
           \/ Fault("dbError") /\ req' = [req EXCEPT ![q] = Done(@)]
        /\ torn' = (torn \/ Appended(q)) /\ UNCHANGED offset
  /\ file' = IF req[q].leaked THEN Put(q, Leak) ELSE file
  /\ UNCHANGED <<scn, agentVars, verdict, grace, dict, overlap>>

\* finalizeRun: the status-guarded write, on the request's own context.
Finalizes_Bug(q) == TRUE
Finalizes(q) == Applies(q)

FinalizeRun(q, v) ==
  /\ \/ /\ Finalizes(q)
        /\ verdict' = IF verdict = "running" THEN v ELSE verdict
        /\ UNCHANGED faults
     \/ UNCHANGED verdict /\ ((MayFail(q) /\ UNCHANGED faults) \/ Fault("dbError"))
  /\ grace' = "none"
  /\ Answer(q, "ok")

\* A chunk that leaked fails the run, whatever its exit; a final one ends it with
\* its envelope's exit, or as lost without one.
EndRun(q) ==
  /\ req[q].stage = "end"
  /\ FinalizeRun(q, IF req[q].leaked THEN "output_secret_leak" ELSE IF req[q].env THEN "exit" ELSE "log_stream_lost")
  /\ UNCHANGED <<scn, agentVars, offset, file, dict, overlap, torn>>

\* endWithoutText: the body read for its envelope alone, past the cap or without
\* a dictionary.
EndWithoutText(q) ==
  /\ req[q].stage \in {"unredacted", "past_cap"}
  /\ file' = IF req[q].stage = "unredacted" THEN Append(file, Note) ELSE file
  /\ \/ FinalizeRun(q, IF (req[q].from + 1 .. req[q].to) \cap scn.long # {} THEN "log_stream_lost"
                       ELSE IF req[q].stage = "unredacted" THEN "not_redactable" ELSE "exit")
     \/ Hung(q) /\ UNCHANGED <<verdict, faults>> /\ grace' = "none" /\ Answer(q, "ok")
  /\ UNCHANGED <<scn, agentVars, offset, dict, overlap, torn>>

\* The answer of a handler whose agent has left goes nowhere.
Forget(q) ==
  /\ Hung(q) /\ req[q].stage = "answer"
  /\ req' = [req EXCEPT ![q] = Free]
  /\ UNCHANGED <<scn, agentVars, serverVars, dict, faults, overlap, torn>>

(***************************************************************************)
(* What happens around them.                                               *)
(***************************************************************************)

\* The server dies and comes back: its handlers and its graces are gone.
Crash ==
  /\ Fault("crash") /\ \E q \in Slots : req[q].stage # "free"
  /\ req' = [q \in Slots |-> Free] /\ grace' = "none"
  /\ post' = None /\ tries' = IF post = None THEN tries ELSE tries - 1
  /\ torn' = (torn \/ \E q \in Slots : req[q].stage \in {"writing", "commit"} /\ Appended(q))
  /\ UNCHANGED <<scn, agent, produced, committed, aborted, verdict, offset, file, dict, overlap>>

\* An operator's stop, or a close of a run taken for lost.
CloseRun ==
  /\ "stop" \in scn.events /\ verdict = "running"
  /\ verdict' = "closed"
  /\ UNCHANGED <<scn, agentVars, req, offset, file, grace, dict, faults, overlap, torn>>

\* A secret of the run cannot be resolved now, resolves again, or never will.
LoseDictionary ==
  /\ scn.secret /\ dict = "whole"
  /\ \/ Fault("outage") /\ dict' = "outage"
     \/ Fault("unbind") /\ dict' = "gone"
  /\ UNCHANGED <<scn, agentVars, req, serverVars, overlap, torn>>

RegainDictionary ==
  /\ dict = "outage" /\ dict' = "whole"
  /\ UNCHANGED <<scn, agentVars, req, serverVars, faults, overlap, torn>>

GracePasses ==
  /\ grace = "counting" /\ grace' = "over"
  /\ UNCHANGED <<scn, agentVars, req, verdict, offset, file, dict, faults, overlap, torn>>

(***************************************************************************)

AgentNext == WriteLine \/ Tick \/ Seal \/ Send \/ AllCommitted \/ Resend \/ (\E q \in Slots : Receive(q))

Handle(q) ==
  \/ Admit(q) \/ ReadOffset(q) \/ OpenLog(q) \/ StoreLine(q) \/ ReadToEnd(q) \/ LineTooLong(q)
  \/ ReachCap(q) \/ Commit(q) \/ EndRun(q) \/ EndWithoutText(q) \/ Forget(q)

Environment ==
  \/ Drop \/ Abort \/ Crash \/ CloseRun \/ LoseDictionary \/ RegainDictionary \/ GracePasses
  \/ \E q \in Slots : ReadFails(q) \/ BodyCut(q) \/ DiskFull(q)

Next == AgentNext \/ (\E q \in Slots : Handle(q)) \/ Environment

\* The agent's loop and the handlers run; ten minutes pass.
Fairness ==
  /\ WF_vars(Send \/ AllCommitted \/ Resend \/ \E q \in Slots : Receive(q) \/ Handle(q))
  /\ WF_vars(GracePasses)

Spec == Init /\ [][Next]_vars /\ Fairness

(***************************************************************************)
(* Properties.                                                             *)
(***************************************************************************)

Holds(i) == \E k \in DOMAIN file : file[k] = i
Stored(n) == \A i \in 1 .. n : Holds(i)

\* Each line is preceded by an appearance of the line before it: the order of
\* the first appearances is the order of the lines.
InOrder == \A k \in DOMAIN file : file[k] > 1 => \E j \in 1 .. k - 1 : file[j] = file[k] - 1

\* Faults that do lose lines, each in a way the README describes: a log at its
\* cap or one that could not be redacted keeps only the run's outcome; a full disk and an
\* overlong line end the writing of a chunk that is answered as stored; two
\* handlers at once may truncate or count each other's lines.
Excused == overlap \/ "diskFull" \in scn.events \/ scn.long # {} \/ scn.cap > 0

\* A run whose end came by its own upload has its whole log: every line its agent
\* produced and the envelope, in the order of their first appearance, whatever
\* was dropped, sent twice or answered in vain on the way (HandleIngestLog,
\* streamLogs).
Lossless ==
  verdict = "exit" /\ ~Excused => Stored(produced + 1) /\ InOrder

\* What the agent counts as committed and will not send again the server has
\* stored, at every moment, also of a run that is stopped or never ends
\* (setCommitted, and log_raw_offset's second statement).  Left out: the agent that
\* is done, as a chunk answered at the end of an unredactable run is not stored;
\* and failed statements together with broken connections, where a first chunk
\* that arrives late truncates a log whose offset was acknowledged and not
\* recorded, until the next chunk meets a 409.
AckedIsStored ==
  agent # "done" /\ ~Excused /\ ~({"drop", "dbError"} \subseteq scn.events) => Stored(committed)

\* A lost answer, a mismatch, a re-send, a refused chunk and a chunk that failed
\* at the start of the log never repeat a line: a repeat takes lines appended by
\* a handler that could not record their offset (the O_TRUNC at offset 0, the
\* 409 of X-Resume-Offset).
NoRepeat ==
  ~overlap /\ ~torn => \A j, k \in DOMAIN file : file[j] = file[k] /\ file[j] > 0 => j = k

\* No broken connection, crash, failed write or retry makes the run's outcome
\* anything but its own exit: it is lost only for a line no scanner takes or a
\* disk that is full, and unredactable only when its secret could not be resolved
\* (finalizeRun on the request's context, parseTrailingEnvelope).
OutcomeTrue ==
  /\ verdict = "log_stream_lost" => scn.long # {} \/ "diskFull" \in scn.events
  /\ verdict = "not_redactable" => scn.secret /\ faults > 0

\* The upload of a run's end is over at some time: it is taken, or the run is found
\* closed, or a second stop gives it up, also when the run's secret never
\* resolves again (flushTerminal's retries, unredactableGrace).
FlushEnds == []<>(agent # "flushing")

\* An agent that stops sending the end of a run has brought it to the server:
\* the run is no longer running (agent.go:806-816).
EndReachesServer == agent = "done" => verdict # "running"

\* No connection breaks or times out, no server dies and no statement fails.
Undisturbed == {"drop", "crash", "dbError"} \cap scn.events = {}

\* It has in the behaviours that are undisturbed, whatever else befalls the log: a
\* full disk, its cap, an overlong line, a secret that leaks or cannot be resolved, a
\* stop, and the last tick's chunk handled beside the final one and counted before
\* or after it (HandleIngestLog, flushTerminal).
EndIsBrought == Undisturbed => EndReachesServer
=============================================================================
