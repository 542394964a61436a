--------------------------- MODULE LogStream_proofs ---------------------------
(***************************************************************************)
(* Proofs about LogStream, for any number of requests, retry budget, bound    *)
(* on faults and set of scenarios.                                          *)
(***************************************************************************)
EXTENDS LogStream, SequenceTheorems, TLAPS

-----------------------------------------------------------------------------
(* The parts of the inductive invariants.  They are put together below, one   *)
(* invariant to a theorem: Typed, Outcome, Repeats, Complete and Answerable.  *)

\* A request at work carries lines, and is where its body allows.
Request(q) ==
  /\ req[q].stage # "free" => req[q].from < req[q].to
  /\ req[q].stage = "writing" => req[q].next \in req[q].from + 1 .. req[q].to + 1
  /\ req[q].stage = "commit" => req[q].next > req[q].from
  /\ req[q].stage \in {"writing", "commit"} => req[q].at > 0
  /\ req[q].final => agent # "executing" /\ req[q].to = Total
  /\ req[q].env => req[q].final
  /\ req[q].stage \in {"sent", "admitted", "opening", "writing"} => ~req[q].env /\ req[q].read = 0
  /\ req[q].stage \in {"unredacted", "past_cap"} => req[q].final
  /\ req[q].stage = "past_cap" => scn.cap > 0
  /\ req[q].stage = "end" => req[q].final \/ req[q].leaked

Requests == \A q \in Slots : Request(q)

\* The agent waits for a request it sent and has an attempt for, and its connection
\* stands.
Waiting ==
  /\ agent \in {"done", "gaveUp"} => tries = 0
  /\ post # None =>
       /\ req[post].stage # "free" /\ tries > 0
       /\ req[post].final <=> agent = "flushing"
       /\ ~req[post].dead

\* A run is unredactable only with a secret that could not be resolved.
Secrets ==
  dict # "whole" \/ verdict = "not_redactable" \/ (\E q \in Slots : req[q].stage = "unredacted")
    => scn.secret /\ faults > 0

\* A final chunk read by a live handler has its envelope, or what took it is named.
Envelopes ==
  /\ \A q \in Slots :
       req[q].stage \in {"commit", "end"} /\ req[q].final /\ ~req[q].dead
         => req[q].env \/ scn.long # {} \/ "diskFull" \in scn.events
  /\ verdict = "log_stream_lost" => scn.long # {} \/ "diskFull" \in scn.events

\* Unless it is on record, one handler works on the log at a time, from the
\* offset that it read.
Exclusive ==
  ~overlap => \A q \in Slots :
    Handling(q) => /\ \A p \in Slots : Handling(p) => p = q
                   /\ req[q].stage = "opening" => req[q].from = offset

Writer(q) == req[q].stage \in {"writing", "commit"}
Below(n) == \A k \in DOMAIN file : file[k] <= n
Full == scn.cap > 0 /\ Len(file) >= scn.cap

\* Where the lines of the file end, for the handler at work and between handlers.
Position(q) ==
  /\ req[q].append <=> req[q].from > 0
  /\ Below(req[q].next - 1) \/ (req[q].append /\ Full)
  /\ req[q].from = offset \/ (req[q].stage = "commit" /\ Full)
  /\ req[q].stage = "commit" /\ req[q].read > 0
       => Full \/ req[q].from + req[q].read >= req[q].next - 1

Between == offset = 0 \/ Below(offset) \/ Full

Positions ==
  ~overlap /\ ~torn =>
    /\ \A q \in Slots : Writer(q) => Position(q)
    /\ (\A q \in Slots : ~Writer(q)) => Between

\* What the handler at work has written: all its chunk so far, after all up to the
\* offset, over a file it truncated or at the end of the one it found.
Written(q) ==
  /\ req[q].from = offset /\ (req[q].append <=> req[q].from > 0)
  /\ Stored(req[q].next - 1)
  /\ ~req[q].append =>
       /\ req[q].at = req[q].next /\ Len(file) >= req[q].at - 1
       /\ \A k \in DOMAIN file : IF k < req[q].at THEN file[k] = k ELSE file[k] <= 0
  /\ req[q].stage = "commit" /\ ~req[q].dead
       => req[q].read = req[q].to - req[q].from /\ req[q].next = req[q].to + 1
  /\ req[q].env => req[q].next = req[q].to + 1

\* Nothing up to the offset is missing, and nobody is at work on the log of a run
\* that ended by its upload.
Contents ==
  ~Excused =>
    /\ Stored(offset) /\ InOrder
    /\ \A q \in Slots : Writer(q) => Written(q)
    /\ \A q \in Slots : req[q].stage = "end" /\ req[q].env => Stored(req[q].to)
    /\ verdict = "exit" =>
         /\ agent # "executing" /\ Stored(produced + 1)
         /\ \A q \in Slots : ~Handling(q)

Acks(q) == req[q].stage = "end" \/ (req[q].stage = "answer" /\ req[q].reply = "ok")
PostAcked == post # None /\ Acks(post) /\ ~req[post].final

\* The offset a 409 names is one the server reached.
Mismatches == \A q \in Slots : req[q].stage = "answer" /\ req[q].reply = "mismatch" => req[q].got <= offset

\* Without failed statements what is acknowledged, or about to be, is in the offset.
Recorded == committed <= offset /\ (PostAcked => req[post].to <= offset)

\* Without broken connections an agent at work has only the request it waits for, and
\* none from the start of the log is under way once something is acknowledged.
NoneBehind == agent = "executing" => \A q \in Slots : req[q].stage # "free" => q = post
Early(q) == req[q].stage \in {"sent", "admitted", "opening"} /\ req[q].from = 0
NoLateStart == \A q \in Slots : Early(q) => committed = 0 \/ offset > 0
InFile == NoneBehind /\ NoLateStart /\ Stored(committed) /\ (PostAcked => Stored(req[post].to))

Acknowledged ==
  agent # "done" /\ ~Excused =>
    /\ Mismatches
    /\ "dbError" \notin scn.events => Recorded
    /\ "drop" \notin scn.events => InFile

-----------------------------------------------------------------------------
(* Type correctness                                                         *)

Rows(n) == [stage : Stages, from : Nat, to : 0 .. n, final : BOOLEAN, append : BOOLEAN,
            at : Nat, next : Nat, read : Nat, env : BOOLEAN, dead : BOOLEAN, leaked : BOOLEAN,
            reply : Replies, got : Nat]

Items(n) == {Notice, Note, Leak} \cup 0 .. n

\* The invariants that the types rest on.
Typed == TypeOK /\ scn \in Scenarios /\ Requests /\ Waiting

LEMMA ScenarioTyped ==
  ASSUME scn \in Scenarios
  PROVE  /\ scn.lines \in Nat /\ scn.live \in BOOLEAN /\ scn.cap \in Nat /\ scn.long \subseteq Nat
         /\ scn.leaks \subseteq Nat /\ scn.secret \in BOOLEAN /\ scn.events \subseteq Events
  BY ConstantsAssumption

\* TypeOK in terms of the named sets, for the next state too.
LEMMA TypeNamed ==
  TypeOK <=> /\ agent \in {"executing", "flushing", "done", "gaveUp"}
             /\ produced \in 0 .. scn.lines /\ committed \in 0 .. Total
             /\ tries \in 0 .. Budget /\ post \in Slots \cup {None} /\ aborted \in BOOLEAN
             /\ req \in [Slots -> Rows(Total)] /\ verdict \in Verdicts /\ offset \in Nat
             /\ file \in Seq(Items(Total))
             /\ dict \in {"whole", "outage", "gone"} /\ grace \in {"none", "counting", "over"}
             /\ faults \in 0 .. MaxFaults /\ overlap \in BOOLEAN /\ torn \in BOOLEAN
  BY Zenon DEF TypeOK, Rows, Items

LEMMA TypeNext ==
  TypeOK' <=> /\ agent' \in {"executing", "flushing", "done", "gaveUp"}
              /\ produced' \in 0 .. scn'.lines /\ committed' \in 0 .. Total'
              /\ tries' \in 0 .. Budget /\ post' \in Slots \cup {None} /\ aborted' \in BOOLEAN
              /\ req' \in [Slots -> Rows(Total')] /\ verdict' \in Verdicts /\ offset' \in Nat
              /\ file' \in Seq(Items(Total'))
              /\ dict' \in {"whole", "outage", "gone"} /\ grace' \in {"none", "counting", "over"}
              /\ faults' \in 0 .. MaxFaults /\ overlap' \in BOOLEAN /\ torn' \in BOOLEAN
  BY Zenon DEF TypeOK, Rows, Items

LEMMA Numbers ==
  ASSUME TypeOK, scn \in Scenarios
  PROVE  /\ scn.lines \in Nat /\ produced \in 0 .. scn.lines /\ produced \in Nat /\ Total \in Nat
         /\ committed \in 0 .. Total /\ tries \in 0 .. Budget /\ Budget \in Nat \ {0}
         /\ offset \in Nat /\ faults \in 0 .. MaxFaults /\ MaxFaults \in Nat
         /\ post \in Slots \cup {None} /\ None \notin Slots
<1>1. scn.lines \in Nat
  BY ScenarioTyped
<1>2. /\ produced \in 0 .. scn.lines /\ committed \in 0 .. Total /\ tries \in 0 .. Budget
      /\ offset \in Nat /\ faults \in 0 .. MaxFaults /\ post \in Slots \cup {None}
  BY TypeNamed
<1>3. produced \in Nat
  BY <1>1, <1>2
<1>4. Total \in Nat
  BY <1>3 DEF Total
<1> QED
  BY <1>1, <1>2, <1>3, <1>4, ConstantsAssumption

\* Row q of the table is replaced.
LEMMA RowPut ==
  ASSUME NEW R, req \in [Slots -> R], NEW q \in Slots, NEW r \in R,
         req' = [req EXCEPT ![q] = r]
  PROVE  /\ req' \in [Slots -> R] /\ req'[q] = r
         /\ \A p \in Slots : p # q => req'[p] = req[p]
  OBVIOUS

LEMMA RowsGrow ==
  ASSUME NEW m \in Nat, NEW n \in Nat, m <= n, NEW T, NEW f \in [T -> Rows(m)]
  PROVE  f \in [T -> Rows(n)]
<1>1. Rows(m) \subseteq Rows(n)
  <2>1. 0 .. m \subseteq 0 .. n
    OBVIOUS
  <2> QED
    BY <2>1 DEF Rows
<1> QED
  BY <1>1

LEMMA TypeInit == Init => Typed
<1> SUFFICES ASSUME Init PROVE Typed
  OBVIOUS
<1> USE ConstantsAssumption, ScenarioTyped DEF Init
<1>1. Free \in Rows(0)
  BY DEF Free, Rows, Stages, Replies
<1>2. req \in [Slots -> Rows(Total)] /\ Total = 0
  BY <1>1 DEF Total
<1>3. file \in Seq(Items(Total))
  OBVIOUS
<1>4. scn.lines \in Nat
  OBVIOUS
<1>5. /\ produced \in 0 .. scn.lines /\ committed \in 0 .. Total
      /\ tries \in 0 .. Budget /\ faults \in 0 .. MaxFaults
  BY <1>2, <1>4
<1>6. TypeOK
  BY <1>2, <1>3, <1>5, TypeNamed DEF Verdicts
<1>7. Requests /\ Waiting
  BY DEF Requests, Request, Waiting, Free
<1> QED
  BY <1>6, <1>7 DEF Typed

-----------------------------------------------------------------------------
(* What each step does to the row of its request.                           *)

Others(q) == req' \in [Slots -> Rows(Total)] /\ \A p \in Slots : p # q => req'[p] = req[p]
SameChunk(q) ==
  req'[q].from = req[q].from /\ req'[q].to = req[q].to /\ req'[q].final = req[q].final
SameWork(q) ==
  /\ req'[q].append = req[q].append /\ req'[q].at = req[q].at /\ req'[q].next = req[q].next
  /\ req'[q].env = req[q].env /\ req'[q].leaked = req[q].leaked
SameEnd(q) == req'[q].read = req[q].read /\ req'[q].dead = req[q].dead

LEMMA RowFields ==
  ASSUME NEW n, NEW r \in Rows(n)
  PROVE  /\ r.stage \in Stages /\ r.from \in Nat /\ r.to \in 0 .. n /\ r.final \in BOOLEAN
         /\ r.append \in BOOLEAN /\ r.at \in Nat /\ r.next \in Nat /\ r.read \in Nat
         /\ r.env \in BOOLEAN /\ r.dead \in BOOLEAN /\ r.leaked \in BOOLEAN
         /\ r.reply \in Replies /\ r.got \in Nat
  BY DEF Rows

LEMMA RowTyped == TypeOK => req \in [Slots -> Rows(Total)]
  BY TypeNamed

\* Literals of the model, so that the sets need not be expanded.
LEMMA StageNames ==
  /\ "free" \in Stages /\ "sent" \in Stages /\ "admitted" \in Stages /\ "opening" \in Stages
  /\ "writing" \in Stages /\ "unredacted" \in Stages /\ "past_cap" \in Stages
  /\ "commit" \in Stages /\ "end" \in Stages /\ "answer" \in Stages
  /\ "none" \in Replies /\ "ok" \in Replies /\ "closed" \in Replies /\ "mismatch" \in Replies
  /\ "unavailable" \in Replies /\ "refused" \in Replies
  BY DEF Stages, Replies

LEMMA GotoRow ==
  ASSUME TypeOK, NEW q \in Slots, NEW s \in Stages, Goto(q, s)
  PROVE  /\ Others(q) /\ SameChunk(q) /\ SameWork(q) /\ SameEnd(q)
         /\ req'[q].stage = s /\ req'[q].reply = req[q].reply /\ req'[q].got = req[q].got
<1> DEFINE r == [req[q] EXCEPT !.stage = s]
<1>1. req \in [Slots -> Rows(Total)] /\ req[q] \in Rows(Total)
  BY RowTyped
<1>2. r \in Rows(Total)
  BY <1>1 DEF Rows
<1>3. req' = [req EXCEPT ![q] = r]
  BY DEF Goto
<1> QED
  BY <1>1, <1>2, <1>3 DEF Others, SameChunk, SameWork, SameEnd, Rows

LEMMA AnswerRow ==
  ASSUME TypeOK, NEW q \in Slots, NEW a \in Replies, Answer(q, a)
  PROVE  /\ Others(q) /\ SameChunk(q) /\ SameWork(q) /\ SameEnd(q)
         /\ req'[q].stage = "answer" /\ req'[q].reply = a /\ req'[q].got = offset
<1> DEFINE r == [req[q] EXCEPT !.stage = "answer", !.reply = a, !.got = offset]
<1>1. req \in [Slots -> Rows(Total)] /\ req[q] \in Rows(Total) /\ offset \in Nat
  BY TypeNamed
<1>2. r \in Rows(Total)
  BY <1>1, StageNames DEF Rows
<1>3. req' = [req EXCEPT ![q] = r]
  BY DEF Answer
<1> QED
  BY <1>1, <1>2, <1>3 DEF Others, SameChunk, SameWork, SameEnd, Rows

LEMMA OpenRow ==
  ASSUME TypeOK, NEW q \in Slots, OpenLog(q)
  PROVE  /\ Others(q) /\ SameChunk(q) /\ SameEnd(q) /\ req'[q].stage = "writing"
         /\ (req'[q].append <=> req[q].from > 0) /\ req'[q].at = 1 /\ req'[q].next = req[q].from + 1
         /\ req'[q].env = req[q].env /\ req'[q].leaked = req[q].leaked
<1> DEFINE app == req[q].from > 0
           r == [req[q] EXCEPT !.stage = "writing", !.append = app, !.at = 1, !.next = req[q].from + 1]
<1>1. req \in [Slots -> Rows(Total)] /\ req[q] \in Rows(Total) /\ app \in BOOLEAN
  BY RowTyped
<1>2. req' = [req EXCEPT ![q] = r]
  BY DEF OpenLog
<1> HIDE DEF app
<1>3. r \in Rows(Total)
  <2>1. req[q].from + 1 \in Nat
    BY <1>1, RowFields
  <2> QED
    BY <1>1, <2>1, StageNames DEF Rows
<1>4. /\ Others(q) /\ SameChunk(q) /\ SameEnd(q) /\ req'[q].stage = "writing"
      /\ req'[q].append = app /\ req'[q].at = 1 /\ req'[q].next = req[q].from + 1
      /\ req'[q].env = req[q].env /\ req'[q].leaked = req[q].leaked
  BY <1>1, <1>2, <1>3 DEF Others, SameChunk, SameEnd, Rows
<1> QED
  BY <1>4 DEF app

LEMMA StoreRow ==
  ASSUME TypeOK, NEW q \in Slots, StoreLine(q)
  PROVE  /\ Others(q) /\ SameChunk(q) /\ SameEnd(q) /\ req'[q].stage = "writing"
         /\ req'[q].append = req[q].append /\ req'[q].at = req[q].at + 1
         /\ req'[q].next = req[q].next + 1 /\ req'[q].env = req[q].env
<1> DEFINE l == Leaks(q)
           n == req[q].next + 1
           a == req[q].at + 1
           r == [req[q] EXCEPT !.next = n, !.at = a, !.leaked = l]
<1>1. req \in [Slots -> Rows(Total)] /\ req[q] \in Rows(Total)
  BY RowTyped
<1>2. l \in BOOLEAN /\ n \in Nat /\ a \in Nat
  BY <1>1, RowFields DEF Leaks
<1>3. req' = [req EXCEPT ![q] = r] /\ req[q].stage = "writing"
  BY DEF StoreLine, More
<1> HIDE DEF l, n, a
<1>4. r \in Rows(Total)
  BY <1>1, <1>2, RowFields DEF Rows
<1>5. /\ Others(q) /\ SameChunk(q) /\ SameEnd(q) /\ req'[q].stage = "writing"
      /\ req'[q].append = req[q].append /\ req'[q].at = a
      /\ req'[q].next = n /\ req'[q].env = req[q].env
  BY <1>1, <1>3, <1>4 DEF Others, SameChunk, SameEnd, Rows
<1> QED
  BY <1>5 DEF n, a

LEMMA ReadRow ==
  ASSUME TypeOK, Requests, NEW q \in Slots, ReadToEnd(q)
  PROVE  /\ Others(q) /\ SameChunk(q) /\ req'[q].stage = "commit"
         /\ req'[q].append = req[q].append /\ req'[q].at = req[q].at /\ req'[q].next = req[q].next
         /\ req'[q].env = req[q].final /\ req'[q].leaked = req[q].leaked
         /\ req'[q].read = req[q].to - req[q].from /\ req'[q].dead = req[q].dead
<1> DEFINE n == req[q].to - req[q].from
           r == [req[q] EXCEPT !.stage = "commit", !.read = n, !.env = req[q].final]
<1>1. req \in [Slots -> Rows(Total)] /\ req[q] \in Rows(Total)
  BY RowTyped
<1>2. n \in Nat /\ req[q].final \in BOOLEAN
  BY <1>1, RowFields DEF Requests, Request, ReadToEnd
<1>3. req' = [req EXCEPT ![q] = r]
  BY DEF ReadToEnd
<1> HIDE DEF n
<1>4. r \in Rows(Total)
  BY <1>1, <1>2, StageNames DEF Rows
<1>5. /\ Others(q) /\ SameChunk(q) /\ req'[q].stage = "commit"
      /\ req'[q].append = req[q].append /\ req'[q].at = req[q].at /\ req'[q].next = req[q].next
      /\ req'[q].env = req[q].final /\ req'[q].leaked = req[q].leaked
      /\ req'[q].read = n /\ req'[q].dead = req[q].dead
  BY <1>1, <1>3, <1>4 DEF Others, SameChunk, Rows
<1> QED
  BY <1>5 DEF n

\* The ways on from "writing" that leave the body unread.
LEMMA CutRow ==
  ASSUME TypeOK, NEW q \in Slots, req' = [req EXCEPT ![q].stage = "commit", ![q].dead = TRUE]
  PROVE  /\ Others(q) /\ SameChunk(q) /\ SameWork(q) /\ req'[q].stage = "commit"
         /\ req'[q].read = req[q].read /\ req'[q].dead = TRUE
<1> DEFINE r == [req[q] EXCEPT !.stage = "commit", !.dead = TRUE]
<1>1. req \in [Slots -> Rows(Total)] /\ req[q] \in Rows(Total)
  BY RowTyped
<1>2. r \in Rows(Total)
  BY <1>1, StageNames DEF Rows
<1>3. req' = [req EXCEPT ![q] = r]
  OBVIOUS
<1> QED
  BY <1>1, <1>2, <1>3 DEF Others, SameChunk, SameWork, Rows

LEMMA FullRow ==
  ASSUME TypeOK, Requests, NEW q \in Slots, DiskFull(q)
  PROVE  /\ Others(q) /\ SameChunk(q) /\ SameWork(q) /\ req'[q].stage = "commit"
         /\ req'[q].dead = req[q].dead
         /\ req'[q].from + req'[q].read >= req[q].next
         /\ req'[q].from + req'[q].read <= req[q].to
<1>1. PICK n \in req[q].next .. req[q].to :
        req' = [req EXCEPT ![q].stage = "commit", ![q].read = n - req[q].from]
  BY DEF DiskFull
<1> DEFINE m == n - req[q].from
           r == [req[q] EXCEPT !.stage = "commit", !.read = m]
<1>2. req \in [Slots -> Rows(Total)] /\ req[q] \in Rows(Total)
  BY RowTyped
<1>3. m \in Nat /\ req[q].from + m >= req[q].next /\ req[q].from + m <= req[q].to
  BY <1>2, RowFields DEF Requests, Request, DiskFull, More
<1>4. req' = [req EXCEPT ![q] = r]
  BY <1>1
<1> HIDE DEF m
<1>5. r \in Rows(Total)
  BY <1>2, <1>3, StageNames DEF Rows
<1>6. /\ Others(q) /\ SameChunk(q) /\ SameWork(q) /\ req'[q].stage = "commit"
      /\ req'[q].dead = req[q].dead /\ req'[q].read = m
  BY <1>2, <1>4, <1>5 DEF Others, SameChunk, SameWork, Rows
<1> QED
  BY <1>3, <1>6 DEF SameChunk

LEMMA ReachRow ==
  ASSUME TypeOK, Requests, NEW q \in Slots, ReachCap(q)
  PROVE  /\ Others(q) /\ SameChunk(q)
         /\ req'[q].append = req[q].append /\ req'[q].at = req[q].at /\ req'[q].next = req[q].next
         /\ \/ req'[q].stage = "answer" /\ req'[q].reply = "refused" /\ req'[q].env = req[q].env
            \/ /\ req'[q].stage = "commit" /\ req[q].final
               /\ req'[q].dead \/ req'[q].env \/ scn.long # {}
         /\ req'[q].dead => req[q].dead \/ Hung(q)
<1>1. req \in [Slots -> Rows(Total)] /\ req[q] \in Rows(Total)
  BY RowTyped
<1>2. CASE Answer(q, "refused")
  BY <1>2, AnswerRow, StageNames DEF SameWork, SameEnd
<1>3. CASE req[q].final /\ req' = [req EXCEPT ![q].stage = "commit", ![q].read = req[q].to - req[q].from,
                                    ![q].env = TRUE, ![q].leaked = Leaks(q)]
  <2> DEFINE n == req[q].to - req[q].from
             l == Leaks(q)
             r == [req[q] EXCEPT !.stage = "commit", !.read = n, !.env = TRUE, !.leaked = l]
  <2>1. n \in Nat /\ l \in BOOLEAN
    BY <1>1, RowFields DEF Requests, Request, ReachCap, More, Leaks
  <2>2. req' = [req EXCEPT ![q] = r]
    BY <1>3
  <2> HIDE DEF n, l
  <2>3. r \in Rows(Total)
    BY <1>1, <2>1, StageNames DEF Rows
  <2>4. Others(q) /\ req'[q] = r
    BY <1>1, <2>2, <2>3 DEF Others
  <2>5. /\ SameChunk(q) /\ req'[q].append = req[q].append /\ req'[q].at = req[q].at
        /\ req'[q].next = req[q].next /\ req'[q].stage = "commit" /\ req'[q].env = TRUE
        /\ req'[q].dead = req[q].dead
    BY <1>1, <2>4 DEF SameChunk, Rows
  <2> QED
    BY <1>3, <2>4, <2>5
<1>4. CASE req[q].final /\ scn.long # {} /\ Goto(q, "commit")
  BY <1>4, GotoRow, StageNames DEF SameWork, SameEnd
<1>5. CASE req[q].final /\ Hung(q) /\ req' = [req EXCEPT ![q].stage = "commit", ![q].dead = TRUE]
  BY <1>5, CutRow DEF SameWork
<1> QED
  BY <1>2, <1>3, <1>4, <1>5 DEF ReachCap

LEMMA DoneRow ==
  ASSUME TypeOK, NEW q \in Slots, NEW d \in BOOLEAN,
         req' = [req EXCEPT ![q] = Done([@ EXCEPT !.dead = d])]
  PROVE  /\ Others(q) /\ SameChunk(q) /\ SameWork(q)
         /\ req'[q].read = req[q].read /\ req'[q].dead = d
         /\ IF req[q].final \/ req[q].leaked THEN req'[q].stage = "end"
            ELSE req'[q].stage = "answer" /\ req'[q].reply = "ok"
<1>1. req \in [Slots -> Rows(Total)] /\ req[q] \in Rows(Total)
  BY RowTyped
<1> DEFINE s == [req[q] EXCEPT !.dead = d]
           e == [s EXCEPT !.stage = "end"]
           a == [s EXCEPT !.stage = "answer", !.reply = "ok"]
<1>2. s \in Rows(Total)
  BY <1>1 DEF Rows
<1>3. e \in Rows(Total) /\ a \in Rows(Total)
  BY <1>2, StageNames DEF Rows
<1>4. s.final = req[q].final /\ s.leaked = req[q].leaked
  BY <1>1 DEF Rows
<1>5. CASE req[q].final \/ req[q].leaked
  <2>1. req' = [req EXCEPT ![q] = e]
    BY <1>4, <1>5 DEF Done
  <2>2. Others(q) /\ req'[q] = e
    BY <1>1, <1>3, <2>1 DEF Others
  <2> QED
    BY <1>1, <1>5, <2>2 DEF SameChunk, SameWork, Rows
<1>6. CASE ~(req[q].final \/ req[q].leaked)
  <2>1. req' = [req EXCEPT ![q] = a]
    BY <1>4, <1>6 DEF Done
  <2>2. Others(q) /\ req'[q] = a
    BY <1>1, <1>3, <2>1 DEF Others
  <2> QED
    BY <1>1, <1>6, <2>2 DEF SameChunk, SameWork, Rows
<1> QED
  BY <1>5, <1>6

LEMMA CommitRow ==
  ASSUME TypeOK, NEW q \in Slots, Commit(q)
  PROVE  /\ Others(q) /\ SameChunk(q) /\ SameWork(q) /\ req'[q].read = req[q].read
         /\ req'[q].dead = req[q].dead \/ (req'[q].dead = TRUE /\ MayFail(q))
         /\ IF req[q].final \/ req[q].leaked THEN req'[q].stage = "end"
            ELSE req'[q].stage = "answer" /\ req'[q].reply = "ok"
<1>1. req \in [Slots -> Rows(Total)] /\ req[q] \in Rows(Total)
  BY RowTyped
<1>2. req[q] = [req[q] EXCEPT !.dead = req[q].dead] /\ req[q].dead \in BOOLEAN
  BY <1>1 DEF Rows
<1>3. \/ req' = [req EXCEPT ![q] = Done(@)]
      \/ MayFail(q) /\ req' = [req EXCEPT ![q] = Done([@ EXCEPT !.dead = TRUE])]
  BY DEF Commit
<1>4. CASE req' = [req EXCEPT ![q] = Done(@)]
  <2>1. req' = [req EXCEPT ![q] = Done([@ EXCEPT !.dead = req[q].dead])]
    BY <1>2, <1>4
  <2> QED
    BY <1>2, <2>1, DoneRow
<1>5. CASE MayFail(q) /\ req' = [req EXCEPT ![q] = Done([@ EXCEPT !.dead = TRUE])]
  BY <1>5, DoneRow
<1> QED
  BY <1>3, <1>4, <1>5

LEMMA FreeRow ==
  ASSUME TypeOK, NEW q \in Slots, req' = [req EXCEPT ![q] = Free]
  PROVE  Others(q) /\ req'[q] = Free
<1>1. req \in [Slots -> Rows(Total)] /\ Total \in Nat
  BY RowTyped DEF TypeOK, Total
<1>2. Free \in Rows(Total)
  BY <1>1, StageNames DEF Free, Rows
<1> QED
  BY <1>1, <1>2 DEF Others

LEMMA SendRow ==
  ASSUME TypeOK, scn \in Scenarios, Send
  PROVE  /\ post' \in Slots /\ Others(post') /\ req[post'].stage = "free"
         /\ req'[post'].stage = "sent" /\ req'[post'].from = committed /\ req'[post'].to = Total
         /\ req'[post'].final = (agent = "flushing") /\ req'[post'].env = FALSE
         /\ req'[post'].read = 0 /\ req'[post'].dead = FALSE
<1> DEFINE fin == agent = "flushing"
           r == [Free EXCEPT !.stage = "sent", !.from = committed, !.to = Total, !.final = fin]
<1>1. PICK q \in Slots : req[q].stage = "free" /\ post' = q /\ req' = [req EXCEPT ![q] = r]
  BY DEF Send
<1>2. req \in [Slots -> Rows(Total)] /\ Total \in Nat /\ committed \in Nat /\ Total \in 0 .. Total
  BY Numbers, RowTyped
<1>3. fin \in BOOLEAN
  OBVIOUS
<1> HIDE DEF fin
<1>4. /\ r \in Rows(Total) /\ r.stage = "sent" /\ r.from = committed /\ r.to = Total /\ r.final = fin
      /\ r.env = FALSE /\ r.read = 0 /\ r.dead = FALSE
  <2>1. Free \in Rows(Total) /\ Free.env = FALSE /\ Free.read = 0 /\ Free.dead = FALSE
    BY <1>2, StageNames DEF Free, Rows
  <2>2. r \in Rows(Total)
    BY <1>2, <1>3, <2>1, StageNames DEF Rows
  <2> QED
    BY <2>1, <2>2 DEF Rows
<1> HIDE DEF r
<1>5. Others(q) /\ req'[q] = r
  BY <1>1, <1>2, <1>4 DEF Others
<1> QED
  BY <1>1, <1>4, <1>5 DEF fin

-----------------------------------------------------------------------------
(* The steps of the agent and of the world around keep the types.           *)

LEMMA SameRequests ==
  ASSUME Requests, UNCHANGED <<scn, agent, produced, req>> PROVE Requests'
  BY DEF Requests, Request, Total

\* The buffer grows; the rows stay.
LEMMA GrowTyped ==
  ASSUME Typed, agent = "executing", agent' \in {"executing", "flushing"},
         produced' \in 0 .. scn.lines, Total' \in Nat, Total' >= Total,
         UNCHANGED <<scn, committed, aborted, req, serverVars, dict, faults, overlap, torn>>,
         tries' \in 0 .. Budget, post' \in Slots \cup {None}
  PROVE  TypeOK' /\ Requests'
<1>0. TypeOK /\ Requests /\ Total \in Nat /\ committed \in 0 .. Total
  BY Numbers DEF Typed
<1>1. req' \in [Slots -> Rows(Total')]
  BY <1>0, RowTyped, RowsGrow
<1>2. file' \in Seq(Items(Total'))
  <2>1. Items(Total) \subseteq Items(Total')
    BY <1>0 DEF Items
  <2> QED
    BY <1>0, <2>1, TypeNamed, SeqMonotonic DEF serverVars
<1>3. committed' \in 0 .. Total'
  BY <1>0
<1>4. TypeOK'
  BY <1>0, <1>1, <1>2, <1>3, TypeNamed, TypeNext DEF serverVars
<1>5. Requests'
  BY <1>0 DEF Requests, Request
<1> QED
  BY <1>4, <1>5

LEMMA CommittedTyped ==
  ASSUME Total \in Nat, NEW n \in Nat PROVE SetCommitted(n) \in 0 .. Total
  BY DEF SetCommitted, Smaller

\* The rest of the agent's steps leave the buffer alone.
LEMMA StayTyped ==
  ASSUME Typed, agent' = agent \/ (agent = "flushing" /\ agent' \in {"done", "gaveUp"}),
         UNCHANGED <<scn, produced, aborted, serverVars, dict, faults, overlap, torn>>,
         tries' \in 0 .. Budget, post' \in Slots \cup {None}, committed' \in 0 .. Total,
         req' \in [Slots -> Rows(Total)]
  PROVE  Total' = Total /\ TypeOK'
<1>1. Total' = Total
  BY DEF Total
<1> QED
  BY <1>1, TypeNamed, TypeNext DEF serverVars, Typed

LEMMA AgentTyped ==
  ASSUME Typed, AgentNext PROVE Typed'
<1>0. /\ TypeOK /\ Requests /\ Waiting /\ scn \in Scenarios /\ req \in [Slots -> Rows(Total)]
      /\ scn.lines \in Nat /\ produced \in 0 .. scn.lines /\ produced \in Nat /\ Total \in Nat
      /\ committed \in 0 .. Total /\ tries \in 0 .. Budget /\ Budget \in Nat \ {0}
      /\ post \in Slots \cup {None} /\ None \notin Slots
  BY Numbers, RowTyped DEF Typed
<1>1. CASE WriteLine
  <2>1. Total' = Total + 1 /\ produced' \in 0 .. scn.lines
    BY <1>0, <1>1 DEF WriteLine, Total
  <2>2. TypeOK' /\ Requests'
    BY <1>0, <1>1, <2>1, GrowTyped DEF WriteLine
  <2> QED
    BY <1>0, <1>1, <2>2 DEF WriteLine, Waiting, Typed
<1>2. CASE Tick
  <2>1. TypeOK'
    BY <1>0, <1>2, StayTyped DEF Tick
  <2>2. Requests'
    BY <1>0, <1>2, SameRequests DEF Tick
  <2> QED
    BY <1>0, <1>2, <2>1, <2>2 DEF Tick, Waiting, Typed
<1>3. CASE Seal
  <2>1. Total' \in Nat /\ Total' >= Total
    BY <1>0, <1>3 DEF Seal, Total
  <2>2. TypeOK' /\ Requests'
    BY <1>0, <1>3, <2>1, GrowTyped DEF Seal
  <2> QED
    BY <1>0, <1>3, <2>2 DEF Seal, Waiting, Typed
<1>5. CASE AllCommitted
  <2>1. agent' = agent \/ (agent = "flushing" /\ agent' = "done")
    BY <1>5 DEF AllCommitted
  <2>2. TypeOK' /\ Total' = Total
    BY <1>0, <1>5, <2>1, StayTyped DEF AllCommitted
  <2>3. Requests'
    BY <1>0, <1>5, <2>1, <2>2 DEF AllCommitted, Requests, Request
  <2> QED
    BY <1>0, <1>5, <2>2, <2>3 DEF AllCommitted, Waiting, Typed
<1>6. CASE Resend
  <2>1. agent' = agent \/ (agent = "flushing" /\ agent' = "gaveUp")
    BY <1>6 DEF Resend
  <2>2. tries' \in 0 .. Budget
    BY <1>0, <1>6 DEF Resend
  <2>3. TypeOK' /\ Total' = Total
    BY <1>0, <1>6, <2>1, <2>2, StayTyped DEF Resend
  <2>4. Requests'
    BY <1>0, <1>6, <2>1, <2>3 DEF Resend, Requests, Request
  <2> QED
    BY <1>0, <1>6, <2>3, <2>4 DEF Resend, Waiting, Typed
<1>4. CASE Send
  <2>1. /\ UNCHANGED <<scn, agent, produced, committed, tries, aborted, serverVars, dict, faults, overlap, torn>>
        /\ tries > 0 /\ committed < Total
    BY <1>4 DEF Send
  <2>2. TypeOK' /\ Total' = Total
    BY <1>0, <1>4, <2>1, StayTyped, SendRow DEF Others
  <2>3. Requests'
    <3>1. PICK q \in Slots : q = post'
      BY <1>0, <1>4, SendRow
    <3>2. Request(q)'
      <4>1. /\ req'[q].stage = "sent" /\ req'[q].from = committed /\ req'[q].to = Total
            /\ req'[q].final = (agent = "flushing") /\ req'[q].env = FALSE /\ req'[q].read = 0
        BY <1>0, <1>4, <3>1, SendRow
      <4> QED
        BY <2>1, <2>2, <4>1 DEF Request
    <3>3. ASSUME NEW p \in Slots, p # q PROVE Request(p)'
      <4>1. req'[p] = req[p] /\ Request(p)
        BY <1>0, <1>4, <3>1, <3>3, SendRow DEF Requests, Others
      <4> QED
        BY <2>1, <2>2, <4>1 DEF Request
    <3> QED
      BY <3>2, <3>3 DEF Requests
  <2>4. Waiting'
    BY <1>0, <1>4, <2>1, SendRow DEF Waiting
  <2> QED
    BY <1>0, <2>1, <2>2, <2>3, <2>4 DEF Typed
<1>7. ASSUME NEW q \in Slots, Receive(q) PROVE Typed'
  <2>1. /\ post = q /\ post' = None /\ req' = [req EXCEPT ![q] = Free]
        /\ UNCHANGED <<scn, produced, aborted, serverVars, dict, faults, overlap, torn>>
    BY <1>7 DEF Receive
  <2>2. tries > 0 /\ agent \notin {"done", "gaveUp"}
    BY <1>0, <2>1 DEF Waiting
  <2>3. Others(q) /\ req'[q] = Free
    BY <1>0, <2>1, FreeRow
  <2>4. req[q].got \in Nat /\ req[q].to \in Nat
    BY <1>0, RowFields
  <2>5. /\ agent' = agent \/ (agent = "flushing" /\ agent' = "done")
        /\ tries' \in {0, tries - 1} /\ (agent' = "done" => tries' = 0)
        /\ committed' \in {committed, SetCommitted(req[q].to), SetCommitted(req[q].got)}
    BY <1>7, <2>2 DEF Receive, Sent
  <2>6. tries' \in 0 .. Budget /\ committed' \in 0 .. Total
    BY <1>0, <2>2, <2>4, <2>5, CommittedTyped
  <2>7. TypeOK' /\ Total' = Total
    BY <1>0, <2>1, <2>3, <2>5, <2>6, StayTyped DEF Others
  <2>8. Requests'
    BY <1>0, <2>1, <2>3, <2>5, <2>7 DEF Requests, Request, Others, Free
  <2>9. Waiting'
    BY <1>0, <2>1, <2>2, <2>5 DEF Waiting
  <2> QED
    BY <1>0, <2>1, <2>7, <2>8, <2>9 DEF Typed
<1> QED
  BY <1>1, <1>2, <1>3, <1>4, <1>5, <1>6, <1>7 DEF AgentNext

-----------------------------------------------------------------------------
(* The steps of the handlers keep the types.                                *)

\* The server's variables are typed in the next state.
ServerTyped ==
  /\ verdict' \in Verdicts /\ offset' \in Nat /\ file' \in Seq(Items(Total))
  /\ dict' \in {"whole", "outage", "gone"} /\ grace' \in {"none", "counting", "over"}
  /\ faults' \in 0 .. MaxFaults /\ overlap' \in BOOLEAN /\ torn' \in BOOLEAN

LEMMA StillTyped ==
  ASSUME Typed, UNCHANGED <<scn, agentVars>>, ServerTyped, req' \in [Slots -> Rows(Total)]
  PROVE  Total' = Total /\ TypeOK'
<1>1. Total' = Total
  BY DEF Total, agentVars
<1> QED
  BY <1>1, TypeNamed, TypeNext DEF Typed, ServerTyped, agentVars

LEMMA HandlerTyped ==
  ASSUME Typed, NEW q \in Slots, req[q].stage # "answer", UNCHANGED <<scn, agentVars>>, ServerTyped,
         Others(q), SameChunk(q), Request(q)', req'[q].stage # "free",
         req'[q].dead => req[q].dead \/ Hung(q)
  PROVE  Typed'
<1>1. TypeOK' /\ Total' = Total
  BY StillTyped DEF Others
<1>2. Requests'
  <2>1. ASSUME NEW p \in Slots, p # q PROVE Request(p)'
    BY <1>1, <2>1 DEF Others, Typed, Requests, Request, agentVars
  <2> QED
    BY <2>1 DEF Requests
<1>3. Waiting'
  BY TypeNamed DEF Typed, Waiting, Others, SameChunk, Hung, agentVars
<1> QED
  BY <1>1, <1>2, <1>3 DEF Typed

LEMMA FreedTyped ==
  ASSUME Typed, NEW q \in Slots, Hung(q), req' = [req EXCEPT ![q] = Free],
         UNCHANGED <<scn, agentVars, serverVars, dict, faults, overlap, torn>>
  PROVE  Typed'
<1>1. Others(q) /\ req'[q] = Free
  BY FreeRow DEF Typed
<1>2. ServerTyped
  BY TypeNamed DEF ServerTyped, Typed, serverVars
<1>3. TypeOK' /\ Total' = Total
  BY <1>1, <1>2, StillTyped DEF Others
<1>4. Requests'
  <2>1. ASSUME NEW p \in Slots, p # q PROVE Request(p)'
    BY <1>1, <1>3, <2>1 DEF Others, Typed, Requests, Request, agentVars
  <2>2. Request(q)'
    BY <1>1 DEF Request, Free
  <2> QED
    BY <2>1, <2>2 DEF Requests
<1>5. Waiting'
  BY <1>1, TypeNamed DEF Typed, Waiting, Others, Hung, agentVars
<1> QED
  BY <1>3, <1>4, <1>5 DEF Typed

LEMMA FaultTyped ==
  ASSUME Typed, NEW e, Fault(e) PROVE faults' \in 0 .. MaxFaults /\ faults' > 0
  BY Numbers DEF Typed, Fault

\* FinalizeRun answers the request, whatever becomes of its write.
LEMMA FinalizeStep ==
  ASSUME Typed, NEW q \in Slots, NEW v \in Verdicts, FinalizeRun(q, v)
  PROVE  /\ Answer(q, "ok") /\ grace' = "none" /\ verdict' \in Verdicts /\ faults' \in 0 .. MaxFaults
         /\ faults' >= faults
         /\ verdict' = verdict \/ (verdict = "running" /\ verdict' = v /\ ~req[q].dead)
<1>1. verdict \in Verdicts /\ faults \in 0 .. MaxFaults /\ MaxFaults \in Nat
  BY TypeNamed, Numbers DEF Typed
<1> QED
  BY <1>1, FaultTyped DEF FinalizeRun, Finalizes, Applies, Fault

LEMMA EndStep ==
  ASSUME Typed, NEW q \in Slots, EndRun(q)
  PROVE  /\ Answer(q, "ok") /\ grace' = "none" /\ verdict' \in Verdicts /\ faults' \in 0 .. MaxFaults
         /\ faults' >= faults
         /\ \/ verdict' = verdict
            \/ /\ verdict = "running" /\ ~req[q].dead
               /\ verdict' = IF req[q].leaked THEN "output_secret_leak"
                             ELSE IF req[q].env THEN "exit" ELSE "log_stream_lost"
<1> DEFINE v == IF req[q].leaked THEN "output_secret_leak" ELSE IF req[q].env THEN "exit" ELSE "log_stream_lost"
<1>1. v \in Verdicts
  BY DEF Verdicts
<1>2. FinalizeRun(q, v)
  BY DEF EndRun
<1> HIDE DEF v
<1>3. /\ Answer(q, "ok") /\ grace' = "none" /\ verdict' \in Verdicts /\ faults' \in 0 .. MaxFaults
      /\ faults' >= faults
      /\ verdict' = verdict \/ (verdict = "running" /\ verdict' = v /\ ~req[q].dead)
  BY <1>1, <1>2, FinalizeStep
<1> QED
  BY <1>3 DEF v

LEMMA TextlessStep ==
  ASSUME Typed, NEW q \in Slots, EndWithoutText(q)
  PROVE  /\ Answer(q, "ok") /\ grace' = "none" /\ verdict' \in Verdicts /\ faults' \in 0 .. MaxFaults
         /\ faults' >= faults
         /\ \/ verdict' = verdict
            \/ verdict' = "log_stream_lost" /\ scn.long # {}
            \/ verdict' = "not_redactable" /\ req[q].stage = "unredacted"
            \/ verdict' = "exit" /\ req[q].stage = "past_cap"
<1> DEFINE v == IF (req[q].from + 1 .. req[q].to) \cap scn.long # {} THEN "log_stream_lost"
                ELSE IF req[q].stage = "unredacted" THEN "not_redactable" ELSE "exit"
<1>1. /\ v \in Verdicts /\ verdict \in Verdicts /\ faults \in 0 .. MaxFaults /\ MaxFaults \in Nat
      /\ req[q].stage \in {"unredacted", "past_cap"}
  BY TypeNamed, Numbers DEF Typed, Verdicts, EndWithoutText
<1>2. \/ v = "log_stream_lost" /\ scn.long # {}
      \/ v = "not_redactable" /\ req[q].stage = "unredacted"
      \/ v = "exit" /\ req[q].stage = "past_cap"
  BY <1>1
<1>3. \/ FinalizeRun(q, v)
      \/ UNCHANGED <<verdict, faults>> /\ grace' = "none" /\ Answer(q, "ok")
  BY DEF EndWithoutText
<1> HIDE DEF v
<1>4. CASE FinalizeRun(q, v)
  BY <1>1, <1>2, <1>4, FinalizeStep
<1>5. CASE UNCHANGED <<verdict, faults>> /\ grace' = "none" /\ Answer(q, "ok")
  BY <1>1, <1>5
<1> QED
  BY <1>3, <1>4, <1>5

LEMMA AdmitTyped ==
  ASSUME Typed, NEW q \in Slots, Admit(q) PROVE Typed'
<1>1. req[q].stage = "sent" /\ UNCHANGED <<scn, agentVars, verdict, offset, file, dict, faults, overlap, torn>>
  BY DEF Admit
<1>2. ServerTyped
  BY <1>1, TypeNamed DEF Typed, ServerTyped, Admit
<1>3. /\ Others(q) /\ SameChunk(q) /\ SameWork(q) /\ SameEnd(q)
      /\ req'[q].stage \in {"answer", "admitted", "unredacted"}
      /\ req'[q].stage = "unredacted" => req[q].final
  BY GotoRow, AnswerRow, StageNames DEF Typed, Admit, EndsUnredacted
<1>4. Request(q)'
  BY <1>1, <1>3, StillTyped, <1>2 DEF Typed, Requests, Request, SameChunk, SameWork, SameEnd, agentVars, Others
<1> QED
  BY <1>1, <1>2, <1>3, <1>4, HandlerTyped DEF SameEnd

LEMMA ReadOffsetTyped ==
  ASSUME Typed, NEW q \in Slots, ReadOffset(q) PROVE Typed'
<1>1. req[q].stage = "admitted" /\ UNCHANGED <<scn, agentVars, serverVars, dict, faults, torn>>
  BY DEF ReadOffset
<1>2. ServerTyped
  BY <1>1, TypeNamed DEF Typed, ServerTyped, ReadOffset, serverVars
<1>3. /\ Others(q) /\ SameChunk(q) /\ SameWork(q) /\ SameEnd(q)
      /\ req'[q].stage \in {"answer", "past_cap", "opening"}
      /\ req'[q].stage = "past_cap" => req[q].final /\ scn.cap > 0
  BY GotoRow, AnswerRow, StageNames DEF Typed, ReadOffset, AtCap
<1>4. Request(q)'
  BY <1>1, <1>3, StillTyped, <1>2 DEF Typed, Requests, Request, SameChunk, SameWork, SameEnd, agentVars, Others
<1> QED
  BY <1>1, <1>2, <1>3, <1>4, HandlerTyped DEF SameEnd

LEMMA ReadFailsTyped ==
  ASSUME Typed, NEW q \in Slots, ReadFails(q) PROVE Typed'
<1>1. req[q].stage \in {"sent", "admitted"} /\ UNCHANGED <<scn, agentVars, serverVars, dict, overlap, torn>>
  BY DEF ReadFails
<1>2. ServerTyped
  BY <1>1, TypeNamed, FaultTyped DEF Typed, ServerTyped, ReadFails, serverVars
<1>3. Others(q) /\ SameChunk(q) /\ SameWork(q) /\ SameEnd(q) /\ req'[q].stage = "answer"
  BY AnswerRow, StageNames DEF Typed, ReadFails
<1>4. Request(q)'
  BY <1>1, <1>3, StillTyped, <1>2 DEF Typed, Requests, Request, SameChunk, SameWork, SameEnd, agentVars, Others
<1> QED
  BY <1>1, <1>2, <1>3, <1>4, HandlerTyped DEF SameEnd

LEMMA OpenLogTyped ==
  ASSUME Typed, NEW q \in Slots, OpenLog(q) PROVE Typed'
<1>1. /\ req[q].stage = "opening" /\ UNCHANGED <<scn, agentVars, verdict, offset, grace, dict, faults, overlap, torn>>
      /\ file' \in {file, <<>>}
  BY DEF OpenLog
<1>2. ServerTyped
  <2>1. file' \in Seq(Items(Total))
    BY <1>1, TypeNamed, EmptySeq DEF Typed
  <2> QED
    BY <1>1, <2>1, TypeNamed DEF Typed, ServerTyped
<1>3. Request(q)'
  <2>1. req[q].from \in Nat /\ req[q].to \in Nat
    BY RowTyped, RowFields DEF Typed
  <2> QED
    BY <1>1, <1>2, <2>1, StillTyped, OpenRow DEF Typed, Requests, Request, SameChunk, SameEnd, agentVars, Others
<1> QED
  BY <1>1, <1>2, <1>3, OpenRow, HandlerTyped DEF Typed, SameEnd

\* What the current line of a chunk is, and what a write of it makes of the file.
LEMMA LineTyped ==
  ASSUME Typed, NEW q \in Slots, More(q)
  PROVE  /\ req[q].next \in Nat /\ req[q].from \in Nat /\ req[q].to \in Nat /\ req[q].to <= Total
         /\ req[q].next > req[q].from /\ req[q].next <= req[q].to /\ req[q].next \in 0 .. Total
         /\ req[q].at \in Nat \ {0} /\ req[q].append \in BOOLEAN
<1>1. /\ req[q].next \in Nat /\ req[q].from \in Nat /\ req[q].to \in 0 .. Total /\ Total \in Nat
      /\ req[q].at \in Nat /\ req[q].append \in BOOLEAN
  BY RowTyped, RowFields, Numbers DEF Typed
<1> QED
  BY <1>1 DEF Typed, Requests, Request, More

\* Where Put writes, and what it makes of the file.
PutAt(q) == IF req[q].append THEN Len(file) + 1 ELSE req[q].at

LEMMA PutFile ==
  ASSUME Typed, NEW q \in Slots, req[q].stage \in {"writing", "commit"}, NEW x \in Items(Total)
  PROVE  /\ Put(q, x) \in Seq(Items(Total)) /\ PutAt(q) \in DOMAIN Put(q, x) /\ PutAt(q) \in Nat \ {0}
         /\ Len(Put(q, x)) \in Nat /\ Len(Put(q, x)) >= Len(file) /\ Len(Put(q, x)) >= PutAt(q)
         /\ DOMAIN Put(q, x) = 1 .. Len(Put(q, x))
         /\ \A i \in DOMAIN Put(q, x) :
              Put(q, x)[i] = IF i = PutAt(q) THEN x ELSE IF i <= Len(file) THEN file[i] ELSE Hole
<1> DEFINE at == IF req[q].append THEN Len(file) + 1 ELSE req[q].at
           N == IF at > Len(file) THEN at ELSE Len(file)
           e(i) == IF i = at THEN x ELSE IF i <= Len(file) THEN file[i] ELSE Hole
           g == [i \in 1 .. N |-> e(i)]
<1>0. /\ req[q].at \in Nat \ {0} /\ req[q].append \in BOOLEAN
      /\ file \in Seq(Items(Total)) /\ Total \in Nat
  BY RowTyped, RowFields, TypeNamed, Numbers DEF Typed, Requests, Request
<1>1. Len(file) \in Nat /\ \A i \in 1 .. Len(file) : file[i] \in Items(Total)
  BY <1>0
<1>2. at \in Nat /\ at >= 1 /\ N \in Nat
  BY <1>0, <1>1
<1>3. \A i \in 1 .. N : e(i) \in Items(Total)
  BY <1>0, <1>1, <1>2 DEF Items, Hole
<1>4. Put(q, x) = g
  BY DEF Put
<1> HIDE DEF e
<1>5. g \in [1 .. N -> Items(Total)]
  BY <1>3
<1> HIDE DEF N
<1>6. g \in Seq(Items(Total)) /\ Len(g) = N /\ DOMAIN g = 1 .. N
  BY <1>2, <1>5
<1>7. \A i \in 1 .. N : g[i] = e(i)
  OBVIOUS
<1> HIDE DEF g
<1> USE DEF e, N
<1> QED
  BY <1>1, <1>2, <1>4, <1>6, <1>7 DEF PutAt

LEMMA PutTyped ==
  ASSUME Typed, NEW q \in Slots, req[q].stage \in {"writing", "commit"}, NEW x \in Items(Total)
  PROVE  Put(q, x) \in Seq(Items(Total))
  BY PutFile

LEMMA StoreLineTyped ==
  ASSUME Typed, NEW q \in Slots, StoreLine(q) PROVE Typed'
<1>1. /\ req[q].stage = "writing" /\ More(q) /\ file' = Put(q, req[q].next)
      /\ UNCHANGED <<scn, agentVars, verdict, offset, grace, dict, faults, overlap, torn>>
  BY DEF StoreLine, More
<1>2. ServerTyped
  <2>1. file' \in Seq(Items(Total))
    BY <1>1, LineTyped, PutTyped DEF Items
  <2> QED
    BY <1>1, <2>1, TypeNamed DEF Typed, ServerTyped
<1>3. Request(q)'
  BY <1>1, <1>2, LineTyped, StillTyped, StoreRow DEF Typed, Requests, Request, SameChunk, SameEnd, agentVars, Others
<1> QED
  BY <1>1, <1>2, <1>3, StoreRow, HandlerTyped DEF Typed, SameEnd

LEMMA ReadToEndTyped ==
  ASSUME Typed, NEW q \in Slots, ReadToEnd(q) PROVE Typed'
<1>1. req[q].stage = "writing" /\ UNCHANGED <<scn, agentVars, serverVars, dict, faults, overlap, torn>>
  BY DEF ReadToEnd
<1>2. ServerTyped
  BY <1>1, TypeNamed DEF Typed, ServerTyped, serverVars
<1>3. req[q].from \in Nat /\ req[q].to \in Nat
  BY RowTyped, RowFields DEF Typed
<1>4. Request(q)'
  BY <1>1, <1>2, <1>3, StillTyped, ReadRow DEF Typed, Requests, Request, SameChunk, agentVars, Others
<1> QED
  BY <1>1, <1>2, <1>4, ReadRow, HandlerTyped DEF Typed

\* The body ends before its last line.
LEMMA CutTyped ==
  ASSUME Typed, NEW q \in Slots, req[q].stage = "writing", UNCHANGED <<scn, agentVars>>, ServerTyped,
         Others(q), SameChunk(q), req'[q].stage = "commit", req'[q].next = req[q].next,
         req'[q].at = req[q].at, req'[q].env => req[q].final,
         req'[q].dead => req[q].dead \/ Hung(q)
  PROVE  Typed'
<1>1. req[q].from \in Nat /\ req[q].to \in Nat
  BY RowTyped, RowFields DEF Typed
<1>2. Request(q)'
  BY <1>1, StillTyped DEF Typed, Requests, Request, SameChunk, agentVars, Others
<1> QED
  BY <1>2, HandlerTyped

LEMMA BodyCutTyped ==
  ASSUME Typed, NEW q \in Slots, BodyCut(q) PROVE Typed'
<1>1. UNCHANGED <<scn, agentVars, serverVars, dict, faults, overlap, torn>> /\ Hung(q)
  BY DEF BodyCut
<1>2. ServerTyped
  BY <1>1, TypeNamed DEF Typed, ServerTyped, serverVars
<1>3. CASE req' = [req EXCEPT ![q] = Free]
  BY <1>1, <1>3, FreedTyped
<1>4. CASE More(q) /\ req' = [req EXCEPT ![q].stage = "commit", ![q].dead = TRUE]
  <2>1. req[q].stage = "writing" /\ (req[q].env => req[q].final) /\ TypeOK
    BY <1>4 DEF Typed, More, Requests, Request
  <2>2. /\ Others(q) /\ SameChunk(q) /\ req'[q].stage = "commit" /\ req'[q].next = req[q].next
        /\ req'[q].at = req[q].at /\ req'[q].env = req[q].env
    BY <1>4, <2>1, CutRow DEF SameWork
  <2> QED
    BY <1>1, <1>2, <2>1, <2>2, CutTyped
<1> QED
  BY <1>3, <1>4 DEF BodyCut

LEMMA LineTooLongTyped ==
  ASSUME Typed, NEW q \in Slots, LineTooLong(q) PROVE Typed'
<1>1. UNCHANGED <<scn, agentVars, serverVars, dict, faults, overlap, torn>> /\ More(q) /\ Goto(q, "commit")
  BY DEF LineTooLong
<1>2. ServerTyped
  BY <1>1, TypeNamed DEF Typed, ServerTyped, serverVars
<1> QED
  BY <1>1, <1>2, GotoRow, StageNames, CutTyped DEF Typed, More, SameWork, SameEnd, Requests, Request

LEMMA DiskFullTyped ==
  ASSUME Typed, NEW q \in Slots, DiskFull(q) PROVE Typed'
<1>1. UNCHANGED <<scn, agentVars, serverVars, dict, overlap, torn>> /\ More(q)
  BY DEF DiskFull
<1>2. ServerTyped
  BY <1>1, TypeNamed, FaultTyped DEF Typed, ServerTyped, serverVars, DiskFull
<1> QED
  BY <1>1, <1>2, FullRow, CutTyped DEF Typed, More, SameWork, Requests, Request

LEMMA ReachCapTyped ==
  ASSUME Typed, NEW q \in Slots, ReachCap(q) PROVE Typed'
<1>1. /\ UNCHANGED <<scn, agentVars, verdict, grace, dict, faults, overlap, torn>> /\ More(q)
      /\ req[q].stage = "writing" /\ file' = Put(q, Notice) /\ offset' \in {offset, scn.cap}
  BY DEF ReachCap, More
<1>2. ServerTyped
  <2>1. file' \in Seq(Items(Total))
    BY <1>1, PutTyped DEF Items
  <2>2. offset' \in Nat
    BY <1>1, ScenarioTyped, Numbers DEF Typed
  <2> QED
    BY <1>1, <2>1, <2>2, TypeNamed DEF Typed, ServerTyped
<1>3. CASE req'[q].stage = "commit"
  BY <1>1, <1>2, <1>3, ReachRow, CutTyped DEF Typed
<1>4. CASE req'[q].stage = "answer" /\ req'[q].env = req[q].env
  <2>1. Request(q)'
    BY <1>1, <1>2, <1>4, ReachRow, StillTyped DEF Typed, Requests, Request, SameChunk, agentVars, Others
  <2> QED
    BY <1>1, <1>2, <1>4, <2>1, ReachRow, HandlerTyped DEF Typed
<1> QED
  BY <1>3, <1>4, ReachRow DEF Typed

LEMMA CommitTyped ==
  ASSUME Typed, NEW q \in Slots, Commit(q) PROVE Typed'
<1>1. /\ UNCHANGED <<scn, agentVars, verdict, grace, dict, overlap>> /\ req[q].stage = "commit"
      /\ offset' \in {offset, offset + req[q].read} /\ torn' \in {torn, torn \/ Appended(q)}
      /\ file' \in {file, Put(q, Leak)}
  BY DEF Commit
<1>2. faults' \in 0 .. MaxFaults
  BY FaultTyped, TypeNamed DEF Typed, Commit
<1>3. ServerTyped
  <2>1. file' \in Seq(Items(Total))
    BY <1>1, PutTyped, TypeNamed DEF Typed, Items
  <2>2. offset' \in Nat
    BY <1>1, RowTyped, RowFields, Numbers DEF Typed
  <2>3. torn' \in BOOLEAN
    BY <1>1, TypeNamed DEF Typed
  <2> QED
    BY <1>1, <1>2, <2>1, <2>2, <2>3, TypeNamed DEF Typed, ServerTyped
<1>4. Request(q)'
  BY <1>1, <1>3, CommitRow, StillTyped DEF Typed, Requests, Request, SameChunk, SameWork, SameEnd, agentVars, Others
<1> QED
  BY <1>1, <1>3, <1>4, CommitRow, HandlerTyped DEF Typed, MayFail

LEMMA EndsTyped ==
  ASSUME Typed, NEW q \in Slots, EndRun(q) \/ EndWithoutText(q) PROVE Typed'
<1>1. /\ UNCHANGED <<scn, agentVars, offset, dict, overlap, torn>>
      /\ req[q].stage \in {"end", "unredacted", "past_cap"} /\ file' \in {file, Append(file, Note)}
  BY DEF EndRun, EndWithoutText
<1>2. Answer(q, "ok") /\ grace' = "none" /\ verdict' \in Verdicts /\ faults' \in 0 .. MaxFaults
  BY EndStep, TextlessStep
<1>3. ServerTyped
  <2>1. file' \in Seq(Items(Total))
    BY <1>1, TypeNamed DEF Typed, Items
  <2> QED
    BY <1>1, <1>2, <2>1, TypeNamed DEF Typed, ServerTyped
<1>4. Others(q) /\ SameChunk(q) /\ SameWork(q) /\ SameEnd(q) /\ req'[q].stage = "answer"
  BY <1>2, AnswerRow, StageNames DEF Typed
<1>5. Request(q)'
  BY <1>1, <1>3, <1>4, StillTyped DEF Typed, Requests, Request, SameChunk, SameWork, SameEnd, agentVars, Others
<1> QED
  BY <1>1, <1>3, <1>4, <1>5, HandlerTyped DEF SameEnd

LEMMA HandleTyped ==
  ASSUME Typed, NEW q \in Slots, Handle(q) PROVE Typed'
<1>1. CASE Forget(q)
  BY <1>1, FreedTyped DEF Forget
<1> QED
  BY <1>1, AdmitTyped, ReadOffsetTyped, OpenLogTyped, StoreLineTyped, ReadToEndTyped, LineTooLongTyped,
     ReachCapTyped, CommitTyped, EndsTyped DEF Handle

\* Only the server's own variables change.
LEMMA AroundTyped ==
  ASSUME Typed, UNCHANGED <<scn, agentVars, req>>, ServerTyped PROVE Typed'
<1>1. TypeOK' /\ Total' = Total
  BY StillTyped, RowTyped DEF Typed
<1> QED
  BY <1>1, SameRequests DEF Typed, Waiting, agentVars

LEMMA EnvironmentTyped ==
  ASSUME Typed, Environment PROVE Typed'
<1>0. TypeOK /\ Requests /\ Waiting /\ scn \in Scenarios
  BY DEF Typed
<1>1. CASE Drop
  <2>1. TypeOK' /\ Total' = Total
    <3>1. post # None /\ tries > 0
      BY <1>0, <1>1 DEF Drop, Waiting
    <3>2. tries' \in 0 .. Budget /\ committed \in 0 .. Total /\ faults' \in 0 .. MaxFaults
      BY <1>0, <1>1, <3>1, Numbers, FaultTyped DEF Drop
    <3>3. Total' = Total
      BY <1>1 DEF Drop, Total
    <3> QED
      BY <1>0, <1>1, <3>2, <3>3, TypeNamed, TypeNext DEF Drop, serverVars
  <2>2. Requests'
    BY <1>0, <1>1, SameRequests DEF Drop
  <2>3. Waiting'
    BY <1>0, <1>1, Numbers DEF Drop, Waiting
  <2> QED
    BY <1>0, <1>1, <2>1, <2>2, <2>3 DEF Typed, Drop
<1>2. CASE Abort
  <2>1. TypeOK'
    <3>1. Total' = Total
      BY <1>2 DEF Abort, Total
    <3> QED
      BY <1>0, <1>2, <3>1, TypeNamed, TypeNext DEF Abort, serverVars
  <2> QED
    BY <1>0, <1>2, <2>1, SameRequests DEF Typed, Abort, Waiting
<1>3. CASE Crash
  <2>1. tries' \in 0 .. Budget /\ committed \in 0 .. Total /\ faults' \in 0 .. MaxFaults /\ torn' \in BOOLEAN
    <3>1. post # None => tries > 0
      BY <1>0 DEF Waiting
    <3>2. torn' \in BOOLEAN
      BY <1>0, <1>3, TypeNamed DEF Crash
    <3> QED
      BY <1>0, <1>3, <3>1, <3>2, Numbers, FaultTyped DEF Crash
  <2>2. Total' = Total /\ Total \in Nat
    BY <1>0, <1>3, Numbers DEF Crash, Total
  <2>3. req' \in [Slots -> Rows(Total)] /\ \A q \in Slots : req'[q] = Free
    BY <1>3, <2>2, StageNames DEF Crash, Free, Rows
  <2>4. TypeOK'
    BY <1>0, <1>3, <2>1, <2>2, <2>3, TypeNamed, TypeNext DEF Crash
  <2>5. Requests'
    BY <2>3 DEF Requests, Request, Free
  <2>6. Waiting'
    BY <1>0, <1>3, Numbers DEF Crash, Waiting
  <2> QED
    BY <1>0, <1>3, <2>4, <2>5, <2>6 DEF Typed, Crash
<1>4. CASE CloseRun
  BY <1>0, <1>4, AroundTyped, TypeNamed DEF CloseRun, ServerTyped, Verdicts
<1>5. CASE LoseDictionary
  BY <1>0, <1>5, AroundTyped, TypeNamed, FaultTyped DEF LoseDictionary, ServerTyped, serverVars
<1>6. CASE RegainDictionary
  BY <1>0, <1>6, AroundTyped, TypeNamed DEF RegainDictionary, ServerTyped, serverVars
<1>7. CASE GracePasses
  BY <1>0, <1>7, AroundTyped, TypeNamed DEF GracePasses, ServerTyped
<1> QED
  BY <1>1, <1>2, <1>3, <1>4, <1>5, <1>6, <1>7, ReadFailsTyped, BodyCutTyped, DiskFullTyped DEF Environment

LEMMA TypeStep ==
  ASSUME Typed, [Next]_vars PROVE Typed'
<1>1. CASE UNCHANGED vars
  BY <1>1, AroundTyped, TypeNamed DEF Typed, ServerTyped, vars, serverVars
<1> QED
  BY <1>1, AgentTyped, HandleTyped, EnvironmentTyped DEF Next

\* Every variable of the stream keeps its type: no offset leaves the buffer, no
\* attempt is counted below zero, whatever drops, crashes and fails.
THEOREM TypeCorrect == Spec => []TypeOK
<1>1. Typed /\ [Next]_vars => Typed'
  BY TypeStep
<1>2. Typed => TypeOK
  BY DEF Typed
<1> QED
  BY <1>1, <1>2, TypeInit, PTL DEF Spec

-----------------------------------------------------------------------------
(* The outcome of a run.                                                    *)

Named == scn.long # {} \/ "diskFull" \in scn.events
Unresolved == scn.secret /\ faults > 0

Outcome == Typed /\ Secrets /\ Envelopes

LEMMA FaultsTyped ==
  ASSUME Typed, [Next]_vars PROVE faults \in Nat /\ faults' \in Nat
  BY TypeStep, Numbers, TypeNext, ConstantsAssumption DEF Typed

\* One row moves on.
LEMMA OutcomeRow ==
  ASSUME Outcome, NEW q \in Slots, scn' = scn, dict' = dict, faults \in Nat, faults' \in Nat,
         faults' >= faults, Others(q),
         req'[q].stage = "unredacted" => Unresolved,
         req'[q].stage \in {"commit", "end"} /\ req'[q].final /\ ~req'[q].dead => req'[q].env \/ Named,
         verdict' = "not_redactable" => Unresolved,
         verdict' = "log_stream_lost" => Named
  PROVE  Secrets' /\ Envelopes'
<1>1. Secrets'
  <2>1. Secrets /\ (faults > 0 => faults' > 0)
    BY DEF Outcome
  <2>2. ASSUME NEW p \in Slots, req'[p].stage = "unredacted" PROVE Unresolved
    BY <2>1, <2>2 DEF Others, Secrets, Unresolved
  <2> QED
    BY <2>1, <2>2 DEF Secrets, Unresolved
<1>2. Envelopes'
  <2>1. ASSUME NEW p \in Slots, req'[p].stage \in {"commit", "end"}, req'[p].final, ~req'[p].dead
        PROVE  req'[p].env \/ Named
    BY <2>1 DEF Outcome, Others, Envelopes, Named
  <2> QED
    BY <2>1 DEF Envelopes, Named
<1> QED
  BY <1>1, <1>2

LEMMA OutcomeSame ==
  ASSUME Outcome, UNCHANGED <<scn, dict, verdict>>, faults \in Nat, faults' \in Nat, faults' >= faults,
         \A q \in Slots : req'[q] = req[q] \/ req'[q] = Free
  PROVE  Secrets' /\ Envelopes'
  BY DEF Outcome, Secrets, Envelopes, Free

LEMMA OutcomeHandle ==
  ASSUME Outcome, [Next]_vars, NEW q \in Slots, Handle(q)
  PROVE  Secrets' /\ Envelopes'
<1>0. /\ TypeOK /\ Requests /\ Typed /\ faults \in Nat /\ faults' \in Nat
      /\ verdict = "not_redactable" => Unresolved
      /\ verdict = "log_stream_lost" => Named
      /\ dict # "whole" => Unresolved
      /\ req[q].stage = "unredacted" => Unresolved
      /\ req[q].stage \in {"commit", "end"} /\ req[q].final /\ ~req[q].dead => req[q].env \/ Named
  BY FaultsTyped DEF Outcome, Typed, Secrets, Envelopes, Named, Unresolved
<1>1. CASE Admit(q)
  <2>1. Others(q) /\ req'[q].stage \in {"answer", "admitted", "unredacted"}
        /\ (req'[q].stage = "unredacted" => dict # "whole")
    BY <1>0, <1>1, GotoRow, AnswerRow, StageNames DEF Admit
  <2> QED
    BY <1>0, <1>1, <2>1, OutcomeRow DEF Admit
<1>2. CASE ReadOffset(q)
  <2>1. Others(q) /\ req'[q].stage \in {"answer", "past_cap", "opening"}
    BY <1>0, <1>2, GotoRow, AnswerRow, StageNames DEF ReadOffset
  <2> QED
    BY <1>0, <1>2, <2>1, OutcomeRow DEF ReadOffset, serverVars
<1>3. CASE OpenLog(q)
  <2>1. Others(q) /\ req'[q].stage = "writing" /\ UNCHANGED <<scn, dict, verdict, faults>>
    BY <1>0, <1>3, OpenRow DEF OpenLog
  <2> QED
    BY <1>0, <2>1, OutcomeRow
<1>4. CASE StoreLine(q)
  <2>1. Others(q) /\ req'[q].stage = "writing" /\ UNCHANGED <<scn, dict, verdict, faults>>
    BY <1>0, <1>4, StoreRow DEF StoreLine
  <2> QED
    BY <1>0, <2>1, OutcomeRow
<1>5. CASE ReadToEnd(q)
  <2>1. /\ Others(q) /\ req'[q].stage = "commit" /\ req'[q].final = req'[q].env
        /\ UNCHANGED <<scn, dict, verdict, faults>>
    BY <1>0, <1>5, ReadRow DEF ReadToEnd, SameChunk, serverVars
  <2> QED
    BY <1>0, <2>1, OutcomeRow
<1>6. CASE LineTooLong(q)
  <2>1. Named
    BY <1>6 DEF LineTooLong, Named
  <2> QED
    BY <1>0, <1>6, <2>1, GotoRow, StageNames, OutcomeRow DEF LineTooLong, serverVars
<1>7. CASE ReachCap(q)
  <2>1. Others(q) /\ (req'[q].stage = "commit" /\ ~req'[q].dead => req'[q].env \/ Named)
        /\ req'[q].stage \in {"commit", "answer"}
    BY <1>0, <1>7, ReachRow DEF Named
  <2> QED
    BY <1>0, <1>7, <2>1, OutcomeRow DEF ReachCap
<1>8. CASE Commit(q)
  <2>1. /\ Others(q) /\ req'[q].stage \in {"end", "answer"} /\ req'[q].env = req[q].env
        /\ req'[q].final = req[q].final /\ (~req'[q].dead => ~req[q].dead)
    <3>1. req'[q].dead = TRUE \/ req'[q].dead = req[q].dead
      BY <1>0, <1>8, CommitRow
    <3> QED
      BY <1>0, <1>8, <3>1, CommitRow DEF SameChunk, SameWork
  <2>2. faults' >= faults /\ req[q].stage = "commit"
    BY <1>0, <1>8 DEF Commit, Fault
  <2> QED
    BY <1>0, <1>8, <2>1, <2>2, OutcomeRow DEF Commit
<1>9. CASE EndRun(q)
  <2>1. /\ faults' >= faults /\ verdict' = "not_redactable" => verdict = "not_redactable"
        /\ req[q].stage = "end"
    BY <1>0, <1>9, EndStep DEF EndRun
  <2>2. verdict' = "log_stream_lost" => Named
    <3>1. CASE verdict' = verdict
      BY <1>0, <3>1
    <3>2. CASE verdict' = "log_stream_lost" /\ ~req[q].dead /\ ~req[q].leaked /\ ~req[q].env
      BY <1>0, <2>1, <3>2, RowTyped, RowFields DEF Requests, Request
    <3> QED
      BY <1>0, <1>9, <3>1, <3>2, EndStep
  <2>3. Others(q) /\ req'[q].stage = "answer"
    BY <1>0, <1>9, EndStep, AnswerRow, StageNames
  <2>4. verdict' = "not_redactable" => verdict = "not_redactable"
    BY <1>0, <1>9, EndStep
  <2> QED
    BY <1>0, <1>9, <2>1, <2>2, <2>3, <2>4, OutcomeRow, EndStep DEF EndRun
<1>10. CASE EndWithoutText(q)
  <2>1. /\ faults' >= faults /\ Others(q) /\ req'[q].stage = "answer"
    BY <1>0, <1>10, TextlessStep, AnswerRow, StageNames
  <2>2. (verdict' = "not_redactable" => Unresolved) /\ (verdict' = "log_stream_lost" => Named)
    BY <1>0, <1>10, TextlessStep DEF Named
  <2> QED
    BY <1>0, <1>10, <2>1, <2>2, OutcomeRow DEF EndWithoutText
<1>11. CASE Forget(q)
  BY <1>0, <1>11, FreeRow, OutcomeSame DEF Forget, Others, serverVars
<1> QED
  BY <1>1, <1>2, <1>3, <1>4, <1>5, <1>6, <1>7, <1>8, <1>9, <1>10, <1>11 DEF Handle

LEMMA OutcomeStep ==
  ASSUME Outcome, [Next]_vars PROVE Outcome'
<1> SUFFICES Secrets' /\ Envelopes'
  BY TypeStep DEF Outcome
<1>0. /\ TypeOK /\ Requests /\ Typed /\ faults \in Nat /\ faults' \in Nat /\ scn \in Scenarios
  BY FaultsTyped DEF Outcome, Typed
<1>1. CASE UNCHANGED vars
  BY <1>0, <1>1, OutcomeSame DEF vars, serverVars
<1>2. CASE WriteLine \/ Tick \/ Seal \/ AllCommitted \/ Resend \/ Drop \/ Abort \/ GracePasses
  BY <1>0, <1>2, OutcomeSame
     DEF WriteLine, Tick, Seal, AllCommitted, Resend, Drop, Abort, GracePasses, serverVars, Fault
<1>3. CASE Send
  <2>1. post' \in Slots /\ Others(post') /\ req'[post'].stage = "sent"
    BY <1>0, <1>3, SendRow
  <2>2. (verdict' = "not_redactable" => Unresolved) /\ (verdict' = "log_stream_lost" => Named)
    BY <1>3 DEF Send, Outcome, Secrets, Envelopes, Named, Unresolved, serverVars
  <2> QED
    BY <1>0, <1>3, <2>1, <2>2, OutcomeRow DEF Send
<1>4. ASSUME NEW q \in Slots, Receive(q) \/ (BodyCut(q) /\ ~More(q)) PROVE Secrets' /\ Envelopes'
  <2>1. req' = [req EXCEPT ![q] = Free] /\ UNCHANGED <<scn, dict, verdict, faults>>
    BY <1>4 DEF Receive, BodyCut, serverVars
  <2> QED
    BY <1>0, <2>1, FreeRow, OutcomeSame DEF Others
<1>5. ASSUME NEW q \in Slots, BodyCut(q), More(q) PROVE Secrets' /\ Envelopes'
  <2>1. /\ req' = [req EXCEPT ![q].stage = "commit", ![q].dead = TRUE]
        /\ UNCHANGED <<scn, dict, verdict, faults>>
    BY <1>5 DEF BodyCut, More, serverVars
  <2>2. (verdict' = "not_redactable" => Unresolved) /\ (verdict' = "log_stream_lost" => Named)
    BY <2>1 DEF Outcome, Secrets, Envelopes, Named, Unresolved
  <2>3. Others(q) /\ req'[q].stage = "commit" /\ req'[q].dead
    BY <1>0, <2>1, CutRow
  <2>4. dict' = dict /\ scn' = scn /\ faults' >= faults
    BY <1>0, <2>1
  <2> QED
    BY <1>0, <2>2, <2>3, <2>4, OutcomeRow
<1>6. ASSUME NEW q \in Slots, ReadFails(q) \/ DiskFull(q) PROVE Secrets' /\ Envelopes'
  <2>1. UNCHANGED <<scn, dict, verdict>> /\ faults' = faults + 1
    BY <1>6 DEF ReadFails, DiskFull, serverVars, Fault
  <2>2. (verdict' = "not_redactable" => Unresolved) /\ (verdict' = "log_stream_lost" => Named)
    BY <2>1 DEF Outcome, Secrets, Envelopes, Named, Unresolved
  <2>3. CASE ReadFails(q)
    BY <1>0, <2>1, <2>2, <2>3, AnswerRow, StageNames, OutcomeRow DEF ReadFails
  <2>4. CASE DiskFull(q)
    <3>1. Named
      BY <2>4 DEF DiskFull, Fault, Named
    <3> QED
      BY <1>0, <2>1, <2>2, <2>4, <3>1, FullRow, OutcomeRow
  <2> QED
    BY <1>6, <2>3, <2>4
<1>7. CASE Crash
  BY <1>0, <1>7, OutcomeSame DEF Crash, Fault
<1>8. CASE CloseRun
  BY <1>8 DEF CloseRun, Outcome, Secrets, Envelopes, Verdicts
<1>9. CASE LoseDictionary \/ RegainDictionary
  <2>1. /\ UNCHANGED <<scn, req, verdict>> /\ (dict = "whole" => scn.secret /\ faults' > 0)
        /\ faults' >= faults
    BY <1>0, <1>9 DEF LoseDictionary, RegainDictionary, serverVars, Fault
  <2> QED
    BY <1>0, <1>9, <2>1 DEF Outcome, Secrets, Envelopes
<1>10. ASSUME NEW q \in Slots, Handle(q) PROVE Secrets' /\ Envelopes'
  BY <1>10, OutcomeHandle
<1> QED
  BY <1>1, <1>2, <1>3, <1>4, <1>5, <1>6, <1>7, <1>8, <1>9, <1>10 DEF Next, AgentNext, Environment

\* A run is lost to its log only for a line no scanner takes or a full disk, and
\* unredactable only when its secret could not be resolved (finalizeRun,
\* parseTrailingEnvelope).
THEOREM OutcomeIsTrue == Spec => []OutcomeTrue
<1>1. Init => Outcome
  BY TypeInit DEF Init, Outcome, Secrets, Envelopes, Free
<1>2. Outcome /\ [Next]_vars => Outcome'
  BY OutcomeStep
<1>3. Outcome => OutcomeTrue
  BY DEF Outcome, Secrets, Envelopes, OutcomeTrue
<1> QED
  BY <1>1, <1>2, <1>3, PTL DEF Spec

-----------------------------------------------------------------------------
(* The log file: what the steps do to it.                                   *)

\* A step that leaves the log and the handlers at work on it alone.
Quiet ==
  /\ UNCHANGED <<scn, offset, file, overlap, torn>>
  /\ \A p \in Slots : req'[p] = req[p] \/ (~Handling(p) /\ ~Handling(p)')
  /\ verdict' = "exit" => verdict = "exit"
  /\ agent # "executing" => agent' # "executing" /\ produced' = produced

\* A handler leaves the body of its request.
Leaves(q) == ReadToEnd(q) \/ LineTooLong(q) \/ DiskFull(q) \/ (BodyCut(q) /\ More(q))

LEMMA QuietRow ==
  ASSUME NEW q \in Slots, Others(q), ~Handling(q), ~Handling(q)',
         UNCHANGED <<scn, agentVars, offset, file, overlap, torn>>, verdict' = "exit" => verdict = "exit"
  PROVE  Quiet
  BY DEF Quiet, Others, agentVars

LEMMA StepCases ==
  ASSUME Typed, [Next]_vars
  PROVE  \/ Quiet \/ Crash
         \/ \E q \in Slots : \/ ReadOffset(q) \/ OpenLog(q) \/ StoreLine(q) \/ Leaves(q) \/ ReachCap(q)
                             \/ Commit(q) \/ EndRun(q) \/ EndWithoutText(q)
<1>0. TypeOK /\ scn \in Scenarios
  BY DEF Typed
<1>1. CASE WriteLine \/ Tick \/ Seal \/ AllCommitted \/ Resend \/ Drop \/ Abort \/ CloseRun \/ LoseDictionary
           \/ RegainDictionary \/ GracePasses \/ UNCHANGED vars
  BY <1>1 DEF WriteLine, Tick, Seal, AllCommitted, Resend, Drop, Abort, CloseRun, LoseDictionary,
              RegainDictionary, GracePasses, vars, agentVars, serverVars, Quiet
<1>2. CASE Send
  <2>1. post' \in Slots /\ Others(post') /\ req[post'].stage = "free" /\ req'[post'].stage = "sent"
    BY <1>0, <1>2, SendRow
  <2> QED
    BY <1>2, <2>1 DEF Send, Quiet, Others, Handling, serverVars
<1>3. ASSUME NEW q \in Slots, Receive(q) PROVE Quiet
  <2>1. /\ req' = [req EXCEPT ![q] = Free] /\ req[q].stage = "answer"
        /\ UNCHANGED <<scn, produced, serverVars, overlap, torn>>
        /\ agent' \in {agent, "done"}
    BY <1>3 DEF Receive
  <2> QED
    BY <1>0, <2>1, FreeRow DEF Quiet, Others, Handling, Free, serverVars
<1>4. ASSUME NEW q \in Slots, Forget(q) \/ (BodyCut(q) /\ ~More(q)) PROVE Quiet
  <2>1. /\ req' = [req EXCEPT ![q] = Free] /\ req[q].stage \in {"answer", "sent"}
        /\ UNCHANGED <<scn, agentVars, serverVars, overlap, torn>>
    BY <1>4 DEF Forget, BodyCut
  <2>2. Others(q) /\ req'[q] = Free
    BY <1>0, <2>1, FreeRow
  <2>3. UNCHANGED <<scn, agentVars, verdict, offset, file, overlap, torn>>
    BY <2>1 DEF serverVars
  <2>4. ~Handling(q) /\ ~Handling(q)'
    BY <2>1, <2>2 DEF Handling, Free
  <2> QED
    BY <2>2, <2>3, <2>4, QuietRow
<1>5. ASSUME NEW q \in Slots, Admit(q) \/ ReadFails(q) PROVE Quiet
  <2>1. Others(q) /\ req'[q].stage \in {"answer", "admitted", "unredacted"}
    <3>1. CASE Admit(q)
      BY <1>0, <3>1, GotoRow, AnswerRow, StageNames DEF Admit
    <3>2. CASE ReadFails(q)
      BY <1>0, <3>2, AnswerRow, StageNames DEF ReadFails
    <3> QED
      BY <1>5, <3>1, <3>2
  <2>2. UNCHANGED <<scn, agentVars, verdict, offset, file, overlap, torn>> /\ req[q].stage \in {"sent", "admitted"}
    BY <1>5 DEF Admit, ReadFails, serverVars
  <2> QED
    BY <2>1, <2>2, QuietRow DEF Handling
<1> QED
  BY <1>1, <1>2, <1>3, <1>4, <1>5 DEF Next, AgentNext, Handle, Environment, Leaves

\* What leaving the body changes.
LEMMA LeavesStep ==
  ASSUME Typed, NEW q \in Slots, Leaves(q)
  PROVE  /\ UNCHANGED <<scn, agent, produced, committed, post, verdict, offset, file, overlap, torn>>
         /\ req[q].stage = "writing" /\ req'[q].stage = "commit"
         /\ Others(q) /\ SameChunk(q) /\ req'[q].append = req[q].append /\ req'[q].at = req[q].at
         /\ req'[q].next = req[q].next
         /\ req'[q].read > 0 => req'[q].from + req'[q].read >= req'[q].next - 1
         /\ ~Excused /\ ~req'[q].dead
              => req'[q].read = req[q].to - req[q].from /\ req'[q].next = req[q].to + 1
         /\ ~Excused /\ req'[q].env => req'[q].next = req[q].to + 1
<1>0. /\ TypeOK /\ Requests /\ req[q].next \in Nat /\ req[q].from \in Nat /\ req[q].to \in Nat
      /\ (req[q].stage = "writing" => ~req[q].env /\ req[q].read = 0 /\ req[q].next \in req[q].from + 1 .. req[q].to + 1)
  BY RowTyped, RowFields DEF Typed, Requests, Request
<1>1. /\ UNCHANGED <<scn, agent, produced, committed, post, verdict, offset, file, overlap, torn>>
      /\ req[q].stage = "writing"
  BY DEF Leaves, ReadToEnd, LineTooLong, DiskFull, BodyCut, More, agentVars, serverVars
<1>2. CASE ReadToEnd(q)
  <2>1. req[q].next = req[q].to + 1
    BY <1>0, <1>2 DEF ReadToEnd
  <2>2. /\ Others(q) /\ SameChunk(q) /\ req'[q].stage = "commit"
        /\ req'[q].append = req[q].append /\ req'[q].at = req[q].at /\ req'[q].next = req[q].next
        /\ req'[q].read = req[q].to - req[q].from /\ req'[q].from = req[q].from
    BY <1>0, <1>2, ReadRow DEF SameChunk
  <2> QED
    BY <1>0, <1>1, <2>1, <2>2
<1>3. CASE LineTooLong(q)
  <2>1. Excused
    BY <1>3 DEF LineTooLong, Excused
  <2>2. /\ Others(q) /\ SameChunk(q) /\ req'[q].stage = "commit"
        /\ req'[q].append = req[q].append /\ req'[q].at = req[q].at /\ req'[q].next = req[q].next
        /\ req'[q].read = 0
    BY <1>0, <1>1, <1>3, GotoRow, StageNames DEF LineTooLong, SameWork, SameEnd
  <2> QED
    BY <1>1, <2>1, <2>2
<1>4. CASE DiskFull(q)
  <2>1. Excused
    BY <1>4 DEF DiskFull, Fault, Excused
  <2>2. /\ Others(q) /\ SameChunk(q) /\ req'[q].stage = "commit"
        /\ req'[q].append = req[q].append /\ req'[q].at = req[q].at /\ req'[q].next = req[q].next
        /\ req'[q].from + req'[q].read >= req[q].next
    BY <1>0, <1>4, FullRow DEF SameWork
  <2>3. req'[q].read \in Nat /\ req'[q].from \in Nat
    BY <2>2, RowFields DEF Others
  <2> QED
    BY <1>0, <1>1, <2>1, <2>2, <2>3
<1>5. CASE BodyCut(q) /\ More(q)
  <2>1. req' = [req EXCEPT ![q].stage = "commit", ![q].dead = TRUE]
    BY <1>1, <1>5 DEF BodyCut
  <2>2. /\ Others(q) /\ SameChunk(q) /\ req'[q].stage = "commit"
        /\ req'[q].append = req[q].append /\ req'[q].at = req[q].at /\ req'[q].next = req[q].next
        /\ req'[q].dead /\ req'[q].read = 0 /\ ~req'[q].env
    BY <1>0, <1>1, <2>1, CutRow DEF SameWork
  <2> QED
    BY <1>1, <2>2
<1> QED
  BY <1>2, <1>3, <1>4, <1>5 DEF Leaves

-----------------------------------------------------------------------------
(* One handler at a time.                                                   *)

LEMMA ExclusiveHandled ==
  ASSUME Exclusive, NEW q \in Slots, Handling(q), Others(q), req'[q].stage # "opening", overlap' = overlap
  PROVE  Exclusive'
<1> SUFFICES ASSUME ~overlap, NEW p \in Slots, Handling(p)'
             PROVE  /\ \A o \in Slots : Handling(o)' => o = p
                    /\ req'[p].stage = "opening" => req'[p].from = offset'
  BY DEF Exclusive
<1>1. \A o \in Slots : Handling(o) => o = q
  BY DEF Exclusive
<1>2. \A o \in Slots : o # q => ~Handling(o)'
  BY <1>1 DEF Others, Handling
<1> QED
  BY <1>2

LEMMA ExclusiveKept ==
  ASSUME Exclusive, overlap' = overlap, offset' = offset,
         \A p \in Slots : req'[p] = req[p] \/ ~Handling(p)'
  PROVE  Exclusive'
  BY DEF Exclusive, Handling

LEMMA ExclusiveStep ==
  ASSUME Typed, Exclusive, [Next]_vars PROVE Exclusive'
<1>0. TypeOK /\ Requests
  BY DEF Typed
<1>1. CASE Quiet
  BY <1>1, ExclusiveKept DEF Quiet
<1>2. CASE Crash
  <2>1. \A p \in Slots : req'[p] = Free
    BY <1>2 DEF Crash
  <2> QED
    BY <1>2, <2>1, ExclusiveKept DEF Crash, Handling, Free
<1>3. ASSUME NEW q \in Slots, ReadOffset(q) PROVE Exclusive'
  <2>1. /\ Others(q) /\ SameChunk(q)
        /\ req'[q].stage \in {"answer", "past_cap", "opening"}
        /\ req'[q].stage = "opening" => req[q].from = offset
    BY <1>0, <1>3, GotoRow, AnswerRow, StageNames DEF ReadOffset
  <2>2. offset' = offset /\ overlap' = (overlap \/ EndedByUpload \/ \E p \in Slots \ {q} : Handling(p))
    BY <1>3 DEF ReadOffset, serverVars
  <2>3. ~overlap' => ~overlap /\ \A p \in Slots : p # q => ~Handling(p)'
    BY <2>1, <2>2 DEF Others, Handling
  <2> QED
    BY <2>1, <2>2, <2>3 DEF Exclusive, SameChunk, Handling
<1>4. ASSUME NEW q \in Slots, EndWithoutText(q) PROVE Exclusive'
  <2>1. Answer(q, "ok") /\ offset' = offset /\ overlap' = overlap
    BY <1>4, TextlessStep DEF EndWithoutText
  <2>2. Others(q) /\ req'[q].stage = "answer"
    BY <1>0, <2>1, AnswerRow, StageNames
  <2> QED
    BY <2>1, <2>2, ExclusiveKept DEF Others, Handling
<1>5. ASSUME NEW q \in Slots, OpenLog(q) \/ StoreLine(q) \/ Leaves(q) \/ ReachCap(q) \/ Commit(q) \/ EndRun(q)
      PROVE  Exclusive'
  <2>1. Handling(q)
    BY <1>5, LeavesStep DEF OpenLog, StoreLine, ReachCap, Commit, EndRun, More, Handling
  <2>2. Others(q) /\ req'[q].stage # "opening"
    <3>1. CASE EndRun(q)
      BY <1>0, <3>1, EndStep, AnswerRow, StageNames
    <3> QED
      BY <1>0, <1>5, <3>1, OpenRow, StoreRow, LeavesStep, ReachRow, CommitRow
  <2>3. overlap' = overlap
    BY <1>5, LeavesStep DEF OpenLog, StoreLine, ReachCap, Commit, EndRun
  <2> QED
    BY <2>1, <2>2, <2>3, ExclusiveHandled
<1> QED
  BY <1>1, <1>2, <1>3, <1>4, <1>5, StepCases

-----------------------------------------------------------------------------
(* No line is repeated.                                                     *)

Repeats == Typed /\ Exclusive /\ NoRepeat /\ Positions

LEMMA FileTyped ==
  ASSUME Typed
  PROVE  /\ file \in Seq(Items(Total)) /\ Len(file) \in Nat /\ DOMAIN file = 1 .. Len(file) /\ Total \in Nat
         /\ \A k \in DOMAIN file : file[k] \in Items(Total) /\ file[k] \in Int
<1>1. file \in Seq(Items(Total)) /\ Total \in Nat
  BY TypeNamed, Numbers DEF Typed
<1>2. Items(Total) \subseteq Int
  BY <1>1 DEF Items, Notice, Note, Leak
<1> QED
  BY <1>1, <1>2

\* A write leaves every line but the one at its place as it was, and a file that
\* is full stays full.
LEMMA PutStep ==
  ASSUME Typed, NEW q \in Slots, req[q].stage \in {"writing", "commit"}, NEW x \in Items(Total),
         file' = Put(q, x)
  PROVE  /\ Len(file') \in Nat /\ Len(file') >= Len(file) /\ Len(file') >= PutAt(q)
         /\ DOMAIN file' = 1 .. Len(file')
         /\ PutAt(q) \in DOMAIN file' /\ file'[PutAt(q)] = x
         /\ \A k \in DOMAIN file' : k # PutAt(q) =>
              (k \in DOMAIN file /\ file'[k] = file[k]) \/ (k \notin DOMAIN file /\ file'[k] = 0)
         /\ \A k \in DOMAIN file : k # PutAt(q) => k \in DOMAIN file' /\ file'[k] = file[k]
<1> DEFINE g == Put(q, x)
<1>1. Len(file) \in Nat /\ DOMAIN file = 1 .. Len(file)
  BY FileTyped
<1>2. /\ PutAt(q) \in DOMAIN g /\ PutAt(q) \in Nat \ {0}
      /\ Len(g) \in Nat /\ Len(g) >= Len(file) /\ Len(g) >= PutAt(q) /\ DOMAIN g = 1 .. Len(g)
      /\ \A i \in DOMAIN g : g[i] = IF i = PutAt(q) THEN x ELSE IF i <= Len(file) THEN file[i] ELSE Hole
  BY PutFile
<1>3. file' = g
  OBVIOUS
<1> HIDE DEF g
<1> QED
  BY <1>1, <1>2, <1>3 DEF Hole

LEMMA FullPut ==
  ASSUME Typed, NEW q \in Slots, req[q].stage \in {"writing", "commit"}, NEW x \in Items(Total),
         file' = Put(q, x), scn' = scn, Full
  PROVE  Full'
<1>1. scn.cap \in Nat /\ Len(file) \in Nat /\ Len(file') \in Nat /\ Len(file') >= Len(file)
  BY PutStep, ScenarioTyped, FileTyped DEF Typed
<1> QED
  BY <1>1 DEF Full

\* A line that is none of the body's changes nothing.
LEMMA MarkPut ==
  ASSUME Typed, NoRepeat, ~overlap, ~torn, NEW q \in Slots, req[q].stage \in {"writing", "commit"},
         NEW x \in {Notice, Leak}, file' = Put(q, x)
  PROVE  /\ NoRepeat'
         /\ \A n \in Nat : Below(n) => \A k \in DOMAIN file' : file'[k] <= n
<1>1. x \in Items(Total) /\ x \in Int /\ x < 0
  BY DEF Items, Notice, Leak
<1>2. \A k \in DOMAIN file' : (k \in DOMAIN file /\ file'[k] = file[k]) \/ file'[k] = x \/ file'[k] = 0
  BY <1>1, PutStep
<1>3. \A k \in DOMAIN file' : file'[k] > 0 => k \in DOMAIN file /\ file'[k] = file[k]
  BY <1>1, <1>2
<1> QED
  BY <1>1, <1>2, <1>3 DEF NoRepeat, Below

LEMMA AppendMark ==
  ASSUME Typed, file' = Append(file, Note), scn' = scn
  PROVE  /\ DOMAIN file' = 1 .. Len(file) + 1 /\ Len(file') = Len(file) + 1 /\ file'[Len(file) + 1] = Note
         /\ \A k \in DOMAIN file : k \in DOMAIN file' /\ file'[k] = file[k]
         /\ Full => Full'
<1>1. Note \in Items(Total)
  BY DEF Items
<1>2. scn.cap \in Nat
  BY ScenarioTyped DEF Typed
<1>3. /\ DOMAIN file' = 1 .. Len(file) + 1 /\ Len(file') = Len(file) + 1 /\ file'[Len(file) + 1] = Note
      /\ \A k \in DOMAIN file : k \in DOMAIN file' /\ file'[k] = file[k]
  BY <1>1, FileTyped
<1>4. Full => Full'
  BY <1>2, <1>3, FileTyped DEF Full
<1> QED
  BY <1>3, <1>4

LEMMA FullKept ==
  ASSUME Typed, Full, scn' = scn, Len(file') \in Nat, Len(file') >= Len(file) PROVE Full'
<1>1. scn.cap \in Nat /\ Len(file) \in Nat
  BY ScenarioTyped, FileTyped DEF Typed
<1> QED
  BY <1>1 DEF Full

\* A handler that stops without its offset on record has stored nothing beyond it,
\* or torn the log.
LEMMA StopsClean ==
  ASSUME Repeats, ~overlap, ~torn, NEW q \in Slots, Writer(q), ~Appended(q)
  PROVE  Between
<1>1. /\ req[q].from \in Nat /\ req[q].next \in Nat /\ req[q].append \in BOOLEAN /\ offset \in Nat
      /\ req[q].next > req[q].from
  BY RowTyped, RowFields, Numbers DEF Repeats, Typed, Requests, Request, Writer
<1>2. Position(q)
  BY DEF Repeats, Positions
<1>3. CASE ~req[q].append
  BY <1>1, <1>2, <1>3 DEF Position, Between
<1>4. CASE req[q].append
  <2>1. req[q].next - 1 = req[q].from
    BY <1>1, <1>4 DEF Appended
  <2> QED
    BY <1>2, <2>1 DEF Position, Between
<1> QED
  BY <1>1, <1>3, <1>4

LEMMA RepeatsOpen ==
  ASSUME Repeats, ~overlap, ~torn, NEW q \in Slots, OpenLog(q)
  PROVE  NoRepeat' /\ Positions'
<1>0. TypeOK /\ req[q].from \in Nat /\ offset \in Nat
  BY RowTyped, RowFields, Numbers DEF Repeats, Typed
<1>1. req[q].from = offset /\ \A p \in Slots : p # q => ~Writer(p)
  BY DEF Repeats, Exclusive, OpenLog, Handling, Writer
<1>2. ~Writer(q)
  BY DEF OpenLog, Writer
<1>3. Between
  BY <1>1, <1>2 DEF Repeats, Positions
<1>4. /\ Others(q) /\ req'[q].stage = "writing" /\ (req'[q].append <=> req[q].from > 0)
      /\ req'[q].next = req[q].from + 1 /\ req'[q].from = req[q].from
      /\ UNCHANGED <<scn, offset, overlap, torn>>
  BY <1>0, OpenRow DEF SameChunk, OpenLog
<1>5. \A p \in Slots : Writer(p)' => p = q
  BY <1>1, <1>4 DEF Others, Writer
<1>6. Writer(q)'
  BY <1>4 DEF Writer
<1>7. CASE req[q].from = 0
  <2>1. file' = <<>>
    BY <1>7 DEF OpenLog, Truncates
  <2>2. NoRepeat'
    BY <2>1 DEF NoRepeat
  <2>3. Below(req[q].next - 1)'
    BY <2>1 DEF Below
  <2>4. (req'[q].append <=> req'[q].from > 0) /\ req'[q].from = offset'
    BY <1>0, <1>1, <1>4, <1>7
  <2>5. Position(q)'
    BY <1>4, <2>3, <2>4 DEF Position
  <2> QED
    BY <1>5, <1>6, <2>2, <2>5 DEF Positions
<1>8. CASE req[q].from > 0
  <2>1. file' = file
    BY <1>8 DEF OpenLog, Truncates
  <2>2. NoRepeat'
    BY <1>4, <2>1 DEF Repeats, NoRepeat
  <2>3. Below(req[q].from) \/ Full
    BY <1>0, <1>1, <1>3, <1>8 DEF Between
  <2>4. req'[q].append /\ req'[q].from > 0 /\ req'[q].from = offset' /\ req'[q].next - 1 = req[q].from
    BY <1>0, <1>1, <1>4, <1>8
  <2>5. Below(req[q].next - 1)' \/ Full'
    BY <1>4, <2>1, <2>3, <2>4 DEF Below, Full
  <2>6. Position(q)'
    BY <1>4, <2>4, <2>5 DEF Position
  <2> QED
    BY <1>5, <1>6, <2>2, <2>6 DEF Positions
<1> QED
  BY <1>0, <1>7, <1>8

LEMMA RepeatsStore ==
  ASSUME Repeats, ~overlap, ~torn, NEW q \in Slots, StoreLine(q)
  PROVE  NoRepeat' /\ Positions'
<1>0. /\ Typed /\ TypeOK /\ req[q].stage = "writing" /\ More(q) /\ Writer(q) /\ scn.cap \in Nat /\ Len(file) \in Nat
      /\ file' = Put(q, req[q].next) /\ UNCHANGED <<scn, offset, overlap, torn>>
  BY ScenarioTyped, FileTyped DEF Repeats, Typed, StoreLine, More, Writer
<1>1. req[q].next \in Nat /\ req[q].next > 0 /\ req[q].next \in Items(Total)
  BY <1>0, LineTyped DEF Items
<1>2. ~Full
  BY <1>0 DEF StoreLine, CrossesCap, Full
<1>3. Position(q) /\ Below(req[q].next - 1)
  BY <1>0, <1>2 DEF Repeats, Positions, Position
<1>4. \A k \in DOMAIN file : file[k] \in Int /\ file[k] < req[q].next
  BY <1>0, <1>1, <1>3, FileTyped DEF Below
<1>5. /\ PutAt(q) \in DOMAIN file' /\ file'[PutAt(q)] = req[q].next
      /\ \A k \in DOMAIN file' : k # PutAt(q) =>
           (k \in DOMAIN file /\ file'[k] = file[k]) \/ file'[k] = 0
  BY <1>0, <1>1, PutStep
<1>6. NoRepeat'
  BY <1>0, <1>1, <1>4, <1>5 DEF Repeats, NoRepeat
<1>7. /\ Others(q) /\ req'[q].stage = "writing" /\ req'[q].append = req[q].append
      /\ req'[q].next = req[q].next + 1 /\ req'[q].from = req[q].from
  BY <1>0, StoreRow DEF SameChunk
<1>8. \A k \in DOMAIN file' : file'[k] <= req'[q].next - 1
  BY <1>1, <1>4, <1>5, <1>7
<1>9. Position(q)'
  BY <1>0, <1>3, <1>7, <1>8 DEF Position, Below
<1>10. \A p \in Slots : Writer(p)' => p = q
  BY <1>0, <1>7 DEF Repeats, Exclusive, Others, Writer, Handling
<1>11. Writer(q)'
  BY <1>7 DEF Writer
<1> QED
  BY <1>6, <1>9, <1>10, <1>11 DEF Positions

LEMMA RepeatsLeave ==
  ASSUME Repeats, ~overlap, ~torn, NEW q \in Slots, Leaves(q)
  PROVE  NoRepeat' /\ Positions'
<1>0. /\ Typed /\ Writer(q) /\ UNCHANGED <<scn, offset, file, overlap, torn>>
      /\ req[q].stage = "writing" /\ req'[q].stage = "commit" /\ Others(q)
      /\ req'[q].from = req[q].from /\ req'[q].append = req[q].append /\ req'[q].next = req[q].next
      /\ req'[q].read > 0 => req'[q].from + req'[q].read >= req'[q].next - 1
  BY LeavesStep DEF Repeats, Writer, SameChunk
<1>1. Position(q)
  BY <1>0 DEF Repeats, Positions
<1>2. Position(q)'
  BY <1>0, <1>1 DEF Position, Below, Full
<1>3. \A p \in Slots : Writer(p)' => p = q
  BY <1>0 DEF Repeats, Exclusive, Others, Writer, Handling
<1>4. Writer(q)'
  BY <1>0 DEF Writer
<1>5. NoRepeat'
  BY <1>0 DEF Repeats, NoRepeat
<1> QED
  BY <1>2, <1>3, <1>4, <1>5 DEF Positions

LEMMA RepeatsReach ==
  ASSUME Repeats, ~overlap, ~torn, NEW q \in Slots, ReachCap(q)
  PROVE  NoRepeat' /\ Positions'
<1>0. /\ Typed /\ TypeOK /\ Requests /\ req[q].stage = "writing" /\ More(q) /\ Writer(q) /\ NoRepeat
      /\ scn.cap \in Nat /\ Len(file) \in Nat
      /\ file' = Put(q, Notice) /\ UNCHANGED <<scn, overlap, torn>>
  BY ScenarioTyped, FileTyped DEF Repeats, Typed, ReachCap, More, Writer
<1>1. Full
  BY <1>0 DEF ReachCap, CrossesCap, Full
<1>2. Notice \in Items(Total)
  BY DEF Items
<1>3. Full'
  BY <1>0, <1>1, <1>2, FullPut
<1>4. NoRepeat' /\ \A n \in Nat : Below(n) => \A k \in DOMAIN file' : file'[k] <= n
  BY <1>0, MarkPut
<1>5. Position(q) /\ req[q].next - 1 \in Nat
  BY <1>0, LineTyped DEF Repeats, Positions
<1>6. /\ Others(q) /\ req'[q].from = req[q].from /\ req'[q].append = req[q].append
      /\ req'[q].next = req[q].next /\ req'[q].stage \in {"answer", "commit"}
  BY <1>0, ReachRow DEF SameChunk
<1>7. \A p \in Slots : Writer(p)' => p = q
  BY <1>0, <1>6 DEF Repeats, Exclusive, Others, Writer, Handling
<1>8. req'[q].stage = "commit" => Position(q)'
  <2>1. Below(req[q].next - 1) => Below(req[q].next - 1)'
    BY <1>4, <1>5, <1>6 DEF Below
  <2> QED
    BY <1>3, <1>5, <1>6, <2>1 DEF Position
<1> QED
  BY <1>3, <1>4, <1>6, <1>7, <1>8 DEF Positions, Writer, Between

LEMMA RepeatsCommit ==
  ASSUME Repeats, ~overlap, ~torn, ~torn', NEW q \in Slots, Commit(q)
  PROVE  NoRepeat' /\ Positions'
<1>0. /\ Typed /\ TypeOK /\ Requests /\ req[q].stage = "commit" /\ Writer(q) /\ NoRepeat /\ Exclusive
      /\ UNCHANGED <<scn, overlap>>
  BY DEF Repeats, Typed, Commit, Writer
<1>1. /\ Full => Full'
      /\ NoRepeat' /\ \A n \in Nat : Below(n) => \A k \in DOMAIN file' : file'[k] <= n
  <2>1. Leak \in Items(Total)
    BY DEF Items
  <2>2. CASE file' = Put(q, Leak)
    BY <1>0, <2>1, <2>2, FullPut, MarkPut
  <2>3. CASE file' = file
    BY <1>0, <2>3 DEF Full, NoRepeat, Below
  <2> QED
    BY <2>2, <2>3 DEF Commit
<1>2. \A p \in Slots : ~Writer(p)'
  <2>1. Others(q) /\ req'[q].stage \in {"end", "answer"}
    BY <1>0, CommitRow
  <2> QED
    BY <1>0, <2>1 DEF Exclusive, Others, Writer, Handling
<1>3. /\ req[q].next \in Nat /\ req[q].from \in Nat /\ req[q].read \in Nat /\ offset \in Nat
      /\ req[q].next - 1 \in Nat
  BY <1>0, RowTyped, RowFields, Numbers DEF Typed, Requests, Request
<1>4. Between'
  <2>1. CASE req[q].read > 0 /\ offset' = offset + req[q].read
    <3>1. Position(q)
      BY <1>0 DEF Repeats, Positions
    <3>2. CASE Full
      BY <1>1, <3>2 DEF Between
    <3>3. CASE ~Full
      <4>1. /\ Below(req[q].next - 1) /\ req[q].from = offset
            /\ offset' >= req[q].next - 1
        BY <1>0, <1>3, <2>1, <3>1, <3>3 DEF Position
      <4>2. \A k \in DOMAIN file' : file'[k] <= req[q].next - 1
        BY <1>1, <1>3, <4>1
      <4>3. \A k \in DOMAIN file' : file'[k] \in Int
        <5>1. Typed'
          BY <1>0, CommitTyped
        <5>2. file' \in Seq(Items(Total')) /\ Total' \in Nat
          BY <5>1, TypeNext, Numbers, CommitTyped, StillTyped DEF Typed, Total
        <5> QED
          BY <5>2 DEF Items, Notice, Note, Leak
      <4>4. Below(offset)'
        BY <1>3, <2>1, <4>1, <4>2, <4>3 DEF Below
      <4> QED
        BY <4>4 DEF Between
    <3> QED
      BY <3>2, <3>3
  <2>2. CASE offset' = offset /\ torn' = (torn \/ Appended(q))
    <3>1. Between
      BY <1>0, <2>2, StopsClean
    <3>2. Below(offset) => Below(offset)'
      BY <1>1, <1>3, <2>2 DEF Below
    <3> QED
      BY <1>1, <2>2, <3>1, <3>2 DEF Between
  <2> QED
    BY <2>1, <2>2 DEF Commit
<1> QED
  BY <1>1, <1>2, <1>4 DEF Positions

LEMMA RepeatsStep ==
  ASSUME Repeats, [Next]_vars PROVE Repeats'
<1>0. /\ Typed /\ TypeOK /\ Requests /\ Exclusive /\ NoRepeat /\ Positions /\ offset \in Nat
      /\ Typed' /\ Exclusive' /\ overlap \in BOOLEAN /\ torn \in BOOLEAN
  BY TypeStep, ExclusiveStep, Numbers, TypeNamed DEF Repeats, Typed
<1>1. SUFFICES ASSUME ~overlap', ~torn' PROVE NoRepeat' /\ Positions'
  BY <1>0 DEF Repeats, NoRepeat, Positions
<1>2. CASE Quiet
  <2>1. UNCHANGED <<scn, offset, file, overlap, torn>>
    BY <1>2 DEF Quiet
  <2>2. \A p \in Slots : Writer(p)' <=> (Writer(p) /\ req'[p] = req[p])
    BY <1>2 DEF Quiet, Writer, Handling
  <2>3. \A p \in Slots : Writer(p) <=> Writer(p)'
    BY <1>2 DEF Quiet, Writer, Handling
  <2>4. ASSUME NEW p \in Slots, Writer(p)' PROVE Position(p)'
    BY <1>0, <1>1, <2>1, <2>2, <2>4 DEF Positions, Position, Below, Full
  <2>5. Between => Between'
    BY <2>1 DEF Between, Below, Full
  <2>6. NoRepeat'
    BY <1>0, <1>1, <2>1 DEF NoRepeat
  <2> QED
    BY <1>0, <1>1, <2>1, <2>3, <2>4, <2>5, <2>6 DEF Positions
<1>3. CASE Crash
  <2>1. /\ UNCHANGED <<scn, offset, file, overlap>> /\ ~torn /\ \A p \in Slots : ~Writer(p)'
        /\ \A p \in Slots : Writer(p) => ~Appended(p)
    BY <1>1, <1>3 DEF Crash, Writer, Free
  <2>2. Between
    BY <1>0, <1>1, <2>1, StopsClean DEF Positions
  <2>3. Between' /\ NoRepeat'
    BY <1>0, <1>1, <2>1, <2>2 DEF Between, Below, Full, NoRepeat
  <2> QED
    BY <2>1, <2>3 DEF Positions
<1>4. ASSUME NEW q \in Slots, ReadOffset(q) \/ EndRun(q) PROVE NoRepeat' /\ Positions'
  <2>1. UNCHANGED <<scn, offset, file, torn>> /\ ~overlap
    BY <1>0, <1>1, <1>4 DEF ReadOffset, EndRun, serverVars
  <2>2. Others(q) /\ req'[q].stage \in {"answer", "past_cap", "opening"}
    BY <1>0, <1>4, GotoRow, AnswerRow, EndStep, StageNames DEF ReadOffset
  <2>3. \A p \in Slots : Writer(p) <=> Writer(p)'
    BY <1>4, <2>2 DEF ReadOffset, EndRun, Others, Writer
  <2>4. ASSUME NEW p \in Slots, Writer(p)' PROVE Position(p)'
    BY <1>0, <1>1, <2>1, <2>2, <2>3, <2>4 DEF Positions, Position, Below, Full, Others, Writer
  <2>5. (Between => Between') /\ NoRepeat'
    BY <1>0, <1>1, <2>1 DEF Between, Below, Full, NoRepeat
  <2> QED
    BY <1>0, <1>1, <2>1, <2>3, <2>4, <2>5 DEF Positions
<1>5. ASSUME NEW q \in Slots, EndWithoutText(q) PROVE NoRepeat' /\ Positions'
  <2>1. UNCHANGED <<scn, offset, overlap, torn>> /\ file' \in {file, Append(file, Note)}
    BY <1>5 DEF EndWithoutText
  <2>2. Others(q) /\ req'[q].stage = "answer"
    BY <1>0, <1>5, TextlessStep, AnswerRow, StageNames
  <2>3. \A p \in Slots : Writer(p) <=> Writer(p)'
    BY <1>5, <2>2 DEF EndWithoutText, Others, Writer
  <2>4. /\ Full => Full'
        /\ \A n \in Nat : Below(n) => \A k \in DOMAIN file' : file'[k] <= n
        /\ NoRepeat'
    <3>1. CASE file' = file
      BY <1>0, <1>1, <2>1, <3>1 DEF Full, Below, NoRepeat
    <3>2. CASE file' = Append(file, Note)
      <4>1. /\ Full => Full'
            /\ \A k \in DOMAIN file' : (k \in DOMAIN file /\ file'[k] = file[k]) \/ file'[k] = Note
        BY <1>0, <2>1, <3>2, AppendMark, FileTyped
      <4> QED
        BY <1>0, <1>1, <2>1, <4>1 DEF Below, NoRepeat, Note
    <3> QED
      BY <2>1, <3>1, <3>2
  <2>5. ASSUME NEW p \in Slots, Writer(p)' PROVE Position(p)'
    <3>1. Position(p) /\ req'[p] = req[p]
      BY <1>0, <1>1, <2>1, <2>2, <2>3, <2>5 DEF Positions, Others, Writer
    <3>2. req[p].next - 1 \in Nat
      BY <1>0, <2>3, <2>5, RowTyped, RowFields DEF Typed, Requests, Request, Writer
    <3>3. Below(req[p].next - 1) => Below(req[p].next - 1)'
      BY <2>4, <3>1, <3>2 DEF Below
    <3> QED
      BY <2>1, <2>4, <3>1, <3>3 DEF Position
  <2>6. Between => Between'
    BY <1>0, <2>1, <2>4 DEF Between, Below
  <2> QED
    BY <1>0, <1>1, <2>1, <2>3, <2>4, <2>5, <2>6 DEF Positions
<1>6. ASSUME NEW q \in Slots, OpenLog(q) \/ StoreLine(q) \/ Leaves(q) \/ ReachCap(q) PROVE NoRepeat' /\ Positions'
  <2>1. ~overlap /\ ~torn
    BY <1>0, <1>1, <1>6, LeavesStep DEF OpenLog, StoreLine, ReachCap
  <2> QED
    BY <1>6, <2>1, RepeatsOpen, RepeatsStore, RepeatsLeave, RepeatsReach
<1>7. ASSUME NEW q \in Slots, Commit(q) PROVE NoRepeat' /\ Positions'
  <2>1. ~overlap /\ ~torn
    BY <1>0, <1>1, <1>7 DEF Commit
  <2> QED
    BY <1>1, <1>7, <2>1, RepeatsCommit
<1> QED
  BY <1>0, <1>2, <1>3, <1>4, <1>5, <1>6, <1>7, StepCases

\* No drop, mismatch, re-send, refusal or failure at the start of the log writes a
\* line twice, unless the log is torn or two handlers met (the O_TRUNC at offset
\* 0, the 409 of X-Resume-Offset).
THEOREM LinesAreUnique == Spec => []NoRepeat
<1>1. Init => Repeats
  BY TypeInit DEF Init, Repeats, Exclusive, Handling, NoRepeat, Positions, Writer, Between, Free
<1>2. Repeats /\ [Next]_vars => Repeats'
  BY RepeatsStep
<1>3. Repeats => NoRepeat
  BY DEF Repeats
<1> QED
  BY <1>1, <1>2, <1>3, PTL DEF Spec

-----------------------------------------------------------------------------
(* No line is lost.                                                         *)

Complete == Typed /\ Exclusive /\ Contents

\* Lines stay where they are and none is added.
Marked ==
  /\ \A k \in DOMAIN file : file[k] > 0 => k \in DOMAIN file' /\ file'[k] = file[k]
  /\ \A k \in DOMAIN file' : file'[k] > 0 => k \in DOMAIN file /\ file'[k] = file[k]

LEMMA FileTypedNext ==
  ASSUME Typed'
  PROVE  /\ Len(file') \in Nat /\ DOMAIN file' = 1 .. Len(file')
         /\ \A k \in DOMAIN file' : file'[k] \in Int
<1>1. file' \in Seq(Items(Total'))
  BY TypeNext DEF Typed
<1>2. scn'.lines \in Nat
  <2>1. scn' \in Scenarios
    BY DEF Typed
  <2> QED
    BY <2>1, ConstantsAssumption
<1>3. Total' \in Nat
  BY <1>2, TypeNext DEF Typed, Total
<1>4. Items(Total') \subseteq Int
  BY <1>3 DEF Items, Notice, Note, Leak
<1> QED
  BY <1>1, <1>4

LEMMA MarkedKeeps ==
  ASSUME Typed, Typed', Marked
  PROVE  (\A n \in Nat : Stored(n) => Stored(n)') /\ (InOrder => InOrder')
<1>1. /\ Len(file) \in Nat /\ DOMAIN file = 1 .. Len(file) /\ \A k \in DOMAIN file : file[k] \in Int
      /\ Len(file') \in Nat /\ DOMAIN file' = 1 .. Len(file') /\ \A k \in DOMAIN file' : file'[k] \in Int
  BY FileTyped, FileTypedNext
<1>2. ASSUME NEW n \in Nat, Stored(n), NEW i \in 1 .. n PROVE Holds(i)'
  <2>1. PICK k \in DOMAIN file : file[k] = i
    BY <1>2 DEF Stored, Holds
  <2> QED
    BY <2>1 DEF Marked, Holds
<1>3. ASSUME InOrder, NEW k \in DOMAIN file', file'[k] > 1
      PROVE  \E j \in 1 .. k - 1 : file'[j] = file'[k] - 1
  <2>1. k \in DOMAIN file /\ file'[k] = file[k]
    BY <1>1, <1>3 DEF Marked
  <2>2. PICK j \in 1 .. k - 1 : file[j] = file[k] - 1
    BY <1>3, <2>1 DEF InOrder
  <2>3. j \in DOMAIN file /\ file[j] > 0
    BY <1>1, <1>3, <2>1, <2>2
  <2> QED
    BY <2>1, <2>2, <2>3 DEF Marked
<1>4. \A n \in Nat : Stored(n) => Stored(n)'
  BY <1>2 DEF Stored
<1> QED
  BY <1>3, <1>4 DEF InOrder

LEMMA NoteMarked ==
  ASSUME Typed, file' = Append(file, Note), scn' = scn PROVE Marked
<1>1. \A k \in DOMAIN file' : k \in DOMAIN file \/ k = Len(file) + 1
  BY AppendMark, FileTyped
<1> QED
  BY <1>1, AppendMark DEF Marked, Note

LEMMA LeakMarked ==
  ASSUME Typed, NEW q \in Slots, Writer(q), Written(q), file' = Put(q, Leak) PROVE Marked
<1>1. Leak \in Items(Total) /\ Leak < 0
  BY DEF Items, Leak
<1>2. /\ PutAt(q) \in DOMAIN file' /\ file'[PutAt(q)] = Leak
      /\ \A k \in DOMAIN file' : k # PutAt(q) =>
           (k \in DOMAIN file /\ file'[k] = file[k]) \/ (k \notin DOMAIN file /\ file'[k] = 0)
      /\ \A k \in DOMAIN file : k # PutAt(q) => k \in DOMAIN file' /\ file'[k] = file[k]
  BY <1>1, PutStep DEF Writer
<1>3. PutAt(q) \in DOMAIN file => file[PutAt(q)] <= 0
  <2>1. CASE req[q].append
    BY <2>1, FileTyped DEF PutAt
  <2>2. CASE ~req[q].append
    <3>1. PutAt(q) = req[q].at /\ req[q].at \in Nat
      BY <2>2, RowTyped, RowFields DEF PutAt, Typed
    <3> QED
      BY <2>2, <3>1 DEF Written
  <2> QED
    BY <2>1, <2>2
<1>4. Leak \in Int /\ \A k \in DOMAIN file : file[k] \in Int
  BY FileTyped DEF Leak
<1>5. ASSUME NEW k \in DOMAIN file, file[k] > 0 PROVE k \in DOMAIN file' /\ file'[k] = file[k]
  BY <1>2, <1>3, <1>4, <1>5
<1>6. ASSUME NEW k \in DOMAIN file', file'[k] > 0 PROVE k \in DOMAIN file /\ file'[k] = file[k]
  BY <1>1, <1>2, <1>4, <1>6
<1> QED
  BY <1>5, <1>6 DEF Marked

\* Stored(n) in the next state, for a number of this one.
StoredNext(n) == \A i \in 1 .. n : \E k \in DOMAIN file' : file'[k] = i

\* The handler at work is alone, and the run has not ended by its upload.
LEMMA Alone ==
  ASSUME Complete, ~Excused, NEW q \in Slots, Handling(q)
  PROVE  verdict # "exit" /\ \A p \in Slots : p # q => ~Handling(p)
  BY DEF Complete, Contents, Exclusive, Excused

\* What a step of that handler has to show.
LEMMA ContentsHandled ==
  ASSUME Complete, ~Excused, NEW q \in Slots, Handling(q), Others(q), verdict' = verdict,
         StoredNext(offset'), InOrder', Writer(q)' => Written(q)',
         req'[q].stage = "end" /\ req'[q].env => StoredNext(req'[q].to)
  PROVE  Contents'
<1>1. verdict' # "exit" /\ \A p \in Slots : p # q => ~Handling(p)'
  BY Alone DEF Others, Handling
<1>2. \A p \in Slots : Writer(p)' => Written(p)'
  BY <1>1 DEF Writer, Handling
<1>3. \A p \in Slots : req'[p].stage = "end" /\ req'[p].env => StoredNext(req'[p].to)
  BY <1>1 DEF Handling
<1>4. \A p \in Slots : req'[p].stage = "end" /\ req'[p].env => Stored(req[p].to)'
  BY <1>3 DEF Stored, Holds, StoredNext
<1>5. Stored(offset)'
  BY DEF Stored, Holds, StoredNext
<1> QED
  BY <1>1, <1>2, <1>4, <1>5 DEF Contents

\* The numbers of a row.
LEMMA RowNumbers ==
  ASSUME Typed, NEW q \in Slots
  PROVE  /\ req[q].from \in Nat /\ req[q].to \in Nat /\ req[q].at \in Nat /\ req[q].next \in Nat
         /\ req[q].read \in Nat /\ req[q].append \in BOOLEAN /\ req[q].env \in BOOLEAN
         /\ req[q].dead \in BOOLEAN /\ req[q].leaked \in BOOLEAN /\ req[q].final \in BOOLEAN /\ offset \in Nat
<1>1. req[q] \in Rows(Total) /\ Total \in Nat /\ offset \in Nat
  BY RowTyped, Numbers DEF Typed
<1> QED
  BY <1>1, RowFields

LEMMA CompleteOpen ==
  ASSUME Complete, ~Excused, NEW q \in Slots, OpenLog(q) PROVE Contents'
<1>0. /\ TypeOK /\ Contents /\ Handling(q) /\ req[q].from = offset /\ offset \in Nat /\ ~req[q].env
      /\ UNCHANGED <<offset, verdict>>
  BY RowNumbers DEF Complete, Exclusive, OpenLog, Handling, Typed, Requests, Request, Excused
<1>1. /\ Others(q) /\ req'[q].stage = "writing" /\ (req'[q].append <=> req[q].from > 0)
      /\ req'[q].at = 1 /\ req'[q].next = req[q].from + 1 /\ req'[q].from = req[q].from
      /\ req'[q].env = req[q].env
  BY <1>0, OpenRow DEF SameChunk
<1>2. CASE req[q].from = 0
  <2>1. file' = <<>>
    BY <1>2 DEF OpenLog, Truncates
  <2>2. DOMAIN file' = {} /\ Len(file') = 0
    BY <2>1
  <2>3. offset' = 0 /\ req'[q].from = 0 /\ req'[q].next = 1 /\ req'[q].at = 1 /\ ~req'[q].append /\ ~req'[q].env
        /\ req'[q].stage = "writing"
    BY <1>0, <1>1, <1>2
  <2>4. StoredNext(0) /\ InOrder'
    BY <2>2 DEF StoredNext, InOrder
  <2>5. Written(q)'
    BY <2>2, <2>3, <2>4 DEF Written, Stored
  <2> QED
    BY <1>0, <1>1, <2>3, <2>4, <2>5, ContentsHandled
<1>3. CASE req[q].from > 0
  <2>1. file' = file
    BY <1>3 DEF OpenLog, Truncates
  <2>2. req'[q].append /\ req'[q].from = offset' /\ req'[q].next - 1 = offset /\ req'[q].from > 0 /\ ~req'[q].env
        /\ req'[q].stage = "writing"
    BY <1>0, <1>1, <1>3
  <2>3. StoredNext(offset') /\ InOrder' /\ StoredNext(req'[q].next - 1)
    BY <1>0, <2>1, <2>2 DEF Stored, StoredNext, InOrder, Holds, Contents
  <2>4. Written(q)'
    BY <2>2, <2>3 DEF Written, Stored, Holds, StoredNext
  <2> QED
    BY <1>0, <1>1, <2>2, <2>3, <2>4, ContentsHandled
<1> QED
  BY <1>0, <1>2, <1>3

\* Where a line goes: to a place that held none.
LEMMA StorePlace ==
  ASSUME Complete, ~Excused, NEW q \in Slots, StoreLine(q)
  PROVE  \E n, a \in Nat \ {0} :
           /\ n = req[q].next /\ (req[q].append => a = Len(file) + 1) /\ (~req[q].append => a = req[q].at)
           /\ Len(file') \in Nat /\ Len(file') >= Len(file) /\ Len(file') >= a
           /\ a \in DOMAIN file' /\ file'[a] = n
           /\ \A k \in DOMAIN file' : k # a =>
                (k \in DOMAIN file /\ file'[k] = file[k]) \/ (k \notin DOMAIN file /\ file'[k] = 0)
           /\ \A k \in DOMAIN file : k # a => k \in DOMAIN file' /\ file'[k] = file[k]
           /\ a \in DOMAIN file => file[a] <= 0
<1>0. /\ Typed /\ Contents /\ Writer(q) /\ req[q].stage = "writing" /\ file' = Put(q, req[q].next)
  BY DEF Complete, StoreLine, More, Writer
<1>1. PICK n \in Nat \ {0} : n = req[q].next /\ n \in Items(Total)
  BY <1>0, LineTyped DEF Items, StoreLine
<1>2. PICK a \in Nat \ {0} : a = PutAt(q) /\ (~req[q].append => a = req[q].at) /\ (req[q].append => a = Len(file) + 1)
  BY <1>0, LineTyped, FileTyped DEF PutAt, StoreLine
<1>3. Len(file) \in Nat /\ DOMAIN file = 1 .. Len(file)
  BY <1>0, FileTyped
<1>4. /\ Len(file') \in Nat /\ Len(file') >= Len(file) /\ Len(file') >= a
      /\ a \in DOMAIN file' /\ file'[a] = n
      /\ \A k \in DOMAIN file' : k # a =>
           (k \in DOMAIN file /\ file'[k] = file[k]) \/ (k \notin DOMAIN file /\ file'[k] = 0)
      /\ \A k \in DOMAIN file : k # a => k \in DOMAIN file' /\ file'[k] = file[k]
  BY <1>0, <1>1, <1>2, PutStep
<1>5. a \in DOMAIN file => file[a] <= 0
  <2>1. ~req[q].append => \A k \in DOMAIN file : IF k < req[q].at THEN file[k] = k ELSE file[k] <= 0
    BY <1>0 DEF Contents, Written
  <2> QED
    BY <1>2, <1>3, <2>1
<1> QED
  BY <1>1, <1>2, <1>4, <1>5

LEMMA StoreHolds ==
  ASSUME Complete, ~Excused, NEW q \in Slots, StoreLine(q), NEW i \in Nat \ {0}, Holds(i)
  PROVE  \E k \in DOMAIN file' : file'[k] = i
<1>1. PICK n, a \in Nat \ {0} :
        /\ \A k \in DOMAIN file : k # a => k \in DOMAIN file' /\ file'[k] = file[k]
        /\ a \in DOMAIN file => file[a] <= 0
  BY StorePlace
<1>2. PICK k \in DOMAIN file : file[k] = i
  BY DEF Holds
<1> QED
  BY <1>1, <1>2

LEMMA CompleteStore ==
  ASSUME Complete, Typed', ~Excused, NEW q \in Slots, StoreLine(q) PROVE Contents'
<1>0. /\ Typed /\ TypeOK /\ Contents /\ Handling(q) /\ Writer(q) /\ req[q].stage = "writing"
      /\ ~req[q].env /\ file' = Put(q, req[q].next) /\ UNCHANGED <<offset, verdict>>
  BY DEF Complete, StoreLine, More, Handling, Writer, Typed, Requests, Request
<1>1. /\ Others(q) /\ req'[q].stage = "writing" /\ req'[q].append = req[q].append
      /\ req'[q].at = req[q].at + 1 /\ req'[q].next = req[q].next + 1 /\ req'[q].from = req[q].from
      /\ req'[q].env = req[q].env
  BY <1>0, StoreRow DEF SameChunk
<1>2. PICK n, a \in Nat \ {0} :
        /\ n = req[q].next /\ (req[q].append => a = Len(file) + 1) /\ (~req[q].append => a = req[q].at)
        /\ Len(file') \in Nat /\ Len(file') >= Len(file) /\ Len(file') >= a
        /\ a \in DOMAIN file' /\ file'[a] = n
        /\ \A k \in DOMAIN file' : k # a =>
             (k \in DOMAIN file /\ file'[k] = file[k]) \/ (k \notin DOMAIN file /\ file'[k] = 0)
        /\ \A k \in DOMAIN file : k # a => k \in DOMAIN file' /\ file'[k] = file[k]
        /\ a \in DOMAIN file => file[a] <= 0
  BY StorePlace
<1>3. (req[q].append => a = Len(file) + 1) /\ (~req[q].append => a = req[q].at)
  BY <1>2
<1>4. /\ Len(file) \in Nat /\ DOMAIN file = 1 .. Len(file) /\ \A k \in DOMAIN file : file[k] \in Int
      /\ Len(file') \in Nat /\ DOMAIN file' = 1 .. Len(file') /\ \A k \in DOMAIN file' : file'[k] \in Int
  BY <1>0, FileTyped, FileTypedNext
<1>5. /\ Len(file') >= Len(file) /\ Len(file') >= a /\ a \in DOMAIN file' /\ file'[a] = n
      /\ \A k \in DOMAIN file' : k # a =>
           (k \in DOMAIN file /\ file'[k] = file[k]) \/ (k \notin DOMAIN file /\ file'[k] = 0)
      /\ \A k \in DOMAIN file : k # a => k \in DOMAIN file' /\ file'[k] = file[k]
  BY <1>2
<1>6. /\ Stored(n - 1) /\ (req[q].append <=> req[q].from > 0) /\ req[q].from = offset
      /\ ~req[q].append =>
           /\ a = n /\ Len(file) >= a - 1
           /\ \A k \in DOMAIN file : IF k < a THEN file[k] = k ELSE file[k] <= 0
      /\ Stored(offset) /\ InOrder /\ offset \in Nat
  BY <1>0, <1>2, <1>3, RowNumbers DEF Contents, Written
<1>8. ASSUME NEW i \in Nat \ {0}, Holds(i) PROVE \E k \in DOMAIN file' : file'[k] = i
  BY <1>8, StoreHolds
<1>9. StoredNext(n) /\ StoredNext(offset)
  <2>1. ASSUME NEW i \in 1 .. n PROVE \E k \in DOMAIN file' : file'[k] = i
    <3>1. CASE i = n
      BY <1>5, <3>1
    <3>2. CASE i \in 1 .. n - 1
      BY <1>6, <1>8, <3>2 DEF Stored
    <3> QED
      BY <1>2, <3>1, <3>2
  <2>2. ASSUME NEW i \in 1 .. offset PROVE \E k \in DOMAIN file' : file'[k] = i
    BY <1>6, <1>8 DEF Stored
  <2> QED
    BY <2>1, <2>2 DEF StoredNext
<1>10. InOrder'
  <2>1. SUFFICES ASSUME NEW k \in DOMAIN file', file'[k] > 1 PROVE \E j \in 1 .. k - 1 : file'[j] = file'[k] - 1
    BY DEF InOrder
  <2>2. CASE ~req[q].append
    <3>1. /\ a = n /\ a - 1 <= Len(file) /\ \A j \in DOMAIN file : IF j < a THEN file[j] = j ELSE file[j] <= 0
      BY <1>6, <2>2
    <3>2. k <= a /\ file'[k] = k
      BY <1>4, <1>5, <2>1, <3>1
    <3>3. k - 1 \in DOMAIN file /\ k - 1 # a /\ file[k - 1] = k - 1 /\ k - 1 \in 1 .. k - 1
      BY <1>4, <2>1, <3>1, <3>2
    <3> QED
      BY <1>5, <3>2, <3>3
  <2>3. CASE req[q].append
    <3>1. a = Len(file) + 1
      BY <1>3, <2>3
    <3>2. CASE k = a
      <4>1. n - 1 \in 1 .. n - 1 /\ file'[k] = n
        BY <1>2, <1>5, <2>1, <3>2
      <4>2. PICK j \in DOMAIN file : file[j] = n - 1
        BY <1>6, <4>1 DEF Stored, Holds
      <4>3. j \in 1 .. k - 1 /\ file'[j] = n - 1
        BY <1>4, <1>5, <3>1, <3>2, <4>2
      <4> QED
        BY <4>1, <4>3
    <3>3. CASE k # a
      <4>1. k \in DOMAIN file /\ file'[k] = file[k]
        BY <1>5, <2>1, <3>3
      <4>2. PICK j \in 1 .. k - 1 : file[j] = file[k] - 1
        BY <1>6, <2>1, <4>1 DEF InOrder
      <4>3. j \in DOMAIN file /\ j # a
        BY <1>4, <3>1, <4>1, <4>2
      <4> QED
        BY <1>5, <4>1, <4>2, <4>3
    <3> QED
      BY <3>2, <3>3
  <2> QED
    BY <2>2, <2>3
<1>11. Written(q)'
  <2>1. req'[q].from = offset' /\ (req'[q].append <=> req'[q].from > 0) /\ req'[q].next - 1 = n /\ ~req'[q].env
        /\ req'[q].stage = "writing"
    BY <1>0, <1>1, <1>2, <1>6
  <2>2. Stored(req[q].next - 1)'
    BY <1>9, <2>1 DEF Stored, Holds, StoredNext
  <2>3. ASSUME ~req'[q].append
        PROVE  /\ req'[q].at = req'[q].next /\ Len(file') >= req'[q].at - 1
               /\ \A k \in DOMAIN file' : IF k < req'[q].at THEN file'[k] = k ELSE file'[k] <= 0
    <3>1. /\ a = n /\ a = req[q].at /\ a - 1 <= Len(file)
          /\ \A j \in DOMAIN file : IF j < a THEN file[j] = j ELSE file[j] <= 0
      BY <1>1, <1>3, <1>6, <2>3
    <3>2. req'[q].at = a + 1 /\ req'[q].next = a + 1
      BY <1>1, <1>2, <3>1
    <3>3. ASSUME NEW k \in DOMAIN file' PROVE IF k < a + 1 THEN file'[k] = k ELSE file'[k] <= 0
      BY <1>4, <1>5, <3>1
    <3> QED
      BY <1>4, <1>5, <3>2, <3>3
  <2> QED
    BY <2>1, <2>2, <2>3 DEF Written
<1> QED
  BY <1>0, <1>1, <1>9, <1>10, <1>11, ContentsHandled

LEMMA CompleteLeave ==
  ASSUME Complete, ~Excused, NEW q \in Slots, Leaves(q) PROVE Contents'
<1>0. Typed /\ Contents
  BY DEF Complete
<1>1. /\ req[q].stage = "writing" /\ req'[q].stage = "commit" /\ Others(q)
      /\ req'[q].from = req[q].from /\ req'[q].to = req[q].to
      /\ req'[q].append = req[q].append /\ req'[q].at = req[q].at /\ req'[q].next = req[q].next
      /\ ~req'[q].dead => req'[q].read = req[q].to - req[q].from /\ req'[q].next = req[q].to + 1
      /\ req'[q].env => req'[q].next = req[q].to + 1
      /\ UNCHANGED <<offset, file, verdict>>
  BY <1>0, LeavesStep DEF SameChunk
<1>2. Handling(q) /\ Writer(q)
  BY <1>1 DEF Handling, Writer
<1>3. Written(q) /\ Stored(offset) /\ InOrder
  BY <1>0, <1>2 DEF Contents
<1>4. StoredNext(offset') /\ InOrder'
  BY <1>1, <1>3 DEF Stored, StoredNext, Holds, InOrder
<1>5. Written(q)'
  BY <1>1, <1>3 DEF Written, Stored, Holds
<1> QED
  BY <1>1, <1>2, <1>4, <1>5, ContentsHandled

\* A marked file has all that it had.
LEMMA MarkedNext ==
  ASSUME Typed, Typed', Marked, NEW n \in Nat, Stored(n) PROVE StoredNext(n)
<1>1. \A i \in 1 .. n : \E k \in DOMAIN file : file[k] = i
  BY DEF Stored, Holds
<1> QED
  BY <1>1 DEF Marked, StoredNext

LEMMA CompleteCommit ==
  ASSUME Complete, Typed', ~Excused, NEW q \in Slots, Commit(q) PROVE Contents'
<1>0. /\ Typed /\ TypeOK /\ Contents /\ req[q].stage = "commit" /\ Handling(q) /\ Writer(q) /\ verdict' = verdict
  BY DEF Complete, Typed, Commit, Handling, Writer
<1>1. /\ Others(q) /\ req'[q].stage \in {"end", "answer"}
      /\ req'[q].to = req[q].to /\ req'[q].env = req[q].env
  BY <1>0, CommitRow DEF SameChunk, SameWork
<1>2. Written(q) /\ Stored(offset) /\ InOrder
  BY <1>0 DEF Contents
<1>3. /\ req[q].from \in Nat /\ req[q].to \in Nat /\ req[q].next \in Nat /\ req[q].next - 1 \in Nat /\ offset \in Nat
      /\ req[q].read \in Nat
  BY <1>0, RowNumbers DEF Typed, Requests, Request
<1>4. Marked
  <2>1. CASE file' = Put(q, Leak)
    BY <1>0, <1>2, <2>1, LeakMarked
  <2>2. CASE file' = file
    BY <2>2 DEF Marked
  <2> QED
    BY <2>1, <2>2 DEF Commit
<1>5. StoredNext(req[q].next - 1) /\ StoredNext(offset) /\ InOrder'
  BY <1>0, <1>2, <1>3, <1>4, MarkedNext, MarkedKeeps DEF Written
<1>6. StoredNext(offset')
  <2>1. CASE Applies(q) /\ offset' = offset + req[q].read
    <3>1. req[q].read = req[q].to - req[q].from /\ req[q].next = req[q].to + 1 /\ req[q].from = offset
      BY <1>0, <1>2, <2>1 DEF Written, Applies
    <3>2. offset' = req[q].next - 1
      BY <1>3, <2>1, <3>1
    <3> QED
      BY <1>5, <3>2
  <2>2. CASE offset' = offset
    BY <1>5, <2>2
  <2> QED
    BY <2>1, <2>2 DEF Commit
<1>7. req'[q].env => StoredNext(req'[q].to)
  <2>1. ASSUME req'[q].env PROVE req[q].next - 1 = req'[q].to
    <3>1. req[q].next = req[q].to + 1
      BY <1>1, <1>2, <2>1 DEF Written
    <3> QED
      BY <1>1, <1>3, <3>1
  <2> QED
    BY <1>5, <2>1
<1>8. ~Writer(q)'
  BY <1>1 DEF Writer
<1> QED
  BY <1>0, <1>1, <1>5, <1>6, <1>7, <1>8, ContentsHandled

LEMMA CompleteEnd ==
  ASSUME Complete, ~Excused, NEW q \in Slots, EndRun(q) PROVE Contents'
<1>0. /\ Typed /\ TypeOK /\ Contents /\ req[q].stage = "end" /\ Handling(q) /\ Stored(offset) /\ InOrder
      /\ UNCHANGED <<scn, agent, produced, offset, file, overlap>>
  BY DEF Complete, Typed, EndRun, Handling, Contents, agentVars
<1>1. Others(q) /\ req'[q].stage = "answer"
  BY <1>0, EndStep, AnswerRow, StageNames
<1>2. verdict # "exit" /\ \A p \in Slots : ~Handling(p)'
  BY <1>0, <1>1, Alone DEF Others, Handling
<1>3. ASSUME verdict' = "exit" PROVE agent' # "executing" /\ Stored(produced + 1)'
  <2>1. req[q].env
    BY <1>0, <1>2, <1>3, EndStep
  <2>2. agent # "executing" /\ req[q].to = Total /\ Stored(req[q].to)
    BY <1>0, <2>1 DEF Typed, Requests, Request, Contents
  <2>3. Stored(produced + 1)
    BY <2>2 DEF Total
  <2> QED
    BY <1>0, <2>2, <2>3 DEF Stored, Holds
<1>4. \A p \in Slots : ~Writer(p)' /\ req'[p].stage # "end"
  BY <1>2 DEF Writer, Handling
<1>5. Stored(offset)' /\ InOrder'
  BY <1>0 DEF Stored, Holds, InOrder
<1> QED
  BY <1>2, <1>3, <1>4, <1>5 DEF Contents

\* The rows at work and the file stay, but for a line that is none of the body's
\* at the end of the file.
LEMMA ContentsKept ==
  ASSUME Complete, Typed', ~Excused, file' = file \/ file' = Append(file, Note),
         UNCHANGED <<scn, offset>>,
         \A p \in Slots : req'[p] = req[p] \/ (~Handling(p) /\ req'[p].stage \notin {"writing", "commit", "end"}),
         verdict' = "exit" =>
           /\ verdict = "exit" /\ (agent # "executing" => agent' # "executing" /\ produced' = produced)
           /\ \A p \in Slots : req'[p].stage # "opening"
  PROVE  Contents'
<1>0. /\ Typed /\ Contents /\ Stored(offset) /\ InOrder /\ offset \in Nat /\ produced + 1 \in Nat
  BY Numbers DEF Complete, Typed, Contents
<1>1. Marked
  BY <1>0, NoteMarked DEF Marked
<1>2. \A n \in Nat : Stored(n) => StoredNext(n)
  BY <1>0, <1>1, MarkedNext
<1>3. StoredNext(offset) /\ InOrder'
  BY <1>0, <1>1, <1>2, MarkedKeeps
<1>4. ASSUME NEW p \in Slots, Writer(p)' PROVE Written(p)'
  <2>1. req'[p] = req[p] /\ Writer(p) /\ Written(p)
    BY <1>0, <1>4 DEF Writer, Contents
  <2>2. /\ req[p].next \in Nat /\ req[p].next - 1 \in Nat /\ req[p].at \in Nat
    BY <1>0, <2>1, RowNumbers DEF Typed, Requests, Request, Writer
  <2>3. StoredNext(req[p].next - 1)
    BY <1>2, <2>1, <2>2 DEF Written
  <2>4. ASSUME ~req[p].append
        PROVE  /\ req[p].at = req[p].next /\ Len(file') >= req[p].at - 1
               /\ \A k \in DOMAIN file' : IF k < req[p].at THEN file'[k] = k ELSE file'[k] <= 0
    <3>1. /\ req[p].at = req[p].next /\ Len(file) >= req[p].at - 1
          /\ \A k \in DOMAIN file : IF k < req[p].at THEN file[k] = k ELSE file[k] <= 0
      BY <2>1, <2>4 DEF Written
    <3>2. CASE file' = file
      BY <3>1, <3>2
    <3>3. CASE file' = Append(file, Note)
      <4>1. /\ Len(file) \in Nat /\ DOMAIN file = 1 .. Len(file)
            /\ DOMAIN file' = 1 .. Len(file) + 1 /\ Len(file') = Len(file) + 1 /\ file'[Len(file) + 1] = Note
            /\ \A k \in DOMAIN file : file'[k] = file[k]
        BY <1>0, <3>3, AppendMark, FileTyped
      <4>2. ASSUME NEW k \in DOMAIN file' PROVE IF k < req[p].at THEN file'[k] = k ELSE file'[k] <= 0
        <5>1. CASE k = Len(file) + 1
          BY <2>2, <3>1, <4>1, <5>1 DEF Note
        <5>2. CASE k \in DOMAIN file
          BY <3>1, <4>1, <5>2
        <5> QED
          BY <4>1, <5>1, <5>2
      <4> QED
        BY <2>2, <3>1, <4>1, <4>2
    <3> QED
      BY <3>2, <3>3
  <2>5. Stored(req[p].next - 1)'
    BY <2>1, <2>3 DEF Stored, Holds, StoredNext
  <2> QED
    BY <2>1, <2>4, <2>5 DEF Written
<1>5. ASSUME NEW p \in Slots, req'[p].stage = "end", req'[p].env PROVE Stored(req[p].to)'
  <2>1. req'[p] = req[p] /\ req[p].to \in Nat /\ Stored(req[p].to)
    BY <1>0, <1>5, RowNumbers DEF Contents
  <2> QED
    BY <1>2, <2>1 DEF Stored, Holds, StoredNext
<1>6. ASSUME verdict' = "exit"
      PROVE  agent' # "executing" /\ Stored(produced + 1)' /\ \A p \in Slots : ~Handling(p)'
  <2>1. agent # "executing" /\ Stored(produced + 1) /\ \A p \in Slots : ~Handling(p)
    BY <1>0, <1>6 DEF Contents
  <2>2. agent' # "executing" /\ produced' = produced
    BY <1>6, <2>1
  <2>3. Stored(produced + 1)'
    BY <1>0, <1>2, <2>1, <2>2 DEF Stored, Holds, StoredNext
  <2>4. \A p \in Slots : ~Handling(p)'
    BY <1>6, <2>1 DEF Handling
  <2> QED
    BY <2>2, <2>3, <2>4
<1>7. Stored(offset)'
  BY <1>3 DEF Stored, Holds, StoredNext
<1> QED
  BY <1>3, <1>4, <1>5, <1>6, <1>7 DEF Contents

LEMMA CompleteStep ==
  ASSUME Complete, [Next]_vars PROVE Complete'
<1>0. /\ Typed /\ TypeOK /\ Exclusive /\ Contents /\ Typed' /\ Exclusive' /\ overlap \in BOOLEAN
  BY TypeStep, ExclusiveStep, TypeNamed DEF Complete, Typed
<1>1. SUFFICES ASSUME ~Excused' PROVE Contents'
  BY <1>0 DEF Complete, Contents
<1>2. CASE Quiet
  <2>1. ~Excused /\ UNCHANGED <<scn, offset, file>>
    BY <1>1, <1>2 DEF Quiet, Excused
  <2>2. \A p \in Slots : req'[p] = req[p] \/ (~Handling(p) /\ req'[p].stage \notin {"writing", "commit", "end"})
    BY <1>2 DEF Quiet, Handling
  <2>3. verdict' = "exit" => \A p \in Slots : req'[p].stage # "opening"
    BY <1>0, <1>2, <2>1 DEF Quiet, Contents, Handling
  <2> QED
    BY <1>0, <1>2, <2>1, <2>2, <2>3, ContentsKept DEF Quiet
<1>3. CASE Crash
  <2>1. /\ ~Excused /\ UNCHANGED <<scn, offset, file, verdict, agent, produced>>
        /\ \A p \in Slots : req'[p].stage = "free"
    BY <1>1, <1>3 DEF Crash, Excused, Free
  <2>2. Stored(offset)' /\ InOrder' /\ (Stored(produced + 1) => Stored(produced + 1)')
    BY <1>0, <2>1 DEF Stored, Holds, InOrder, Contents
  <2> QED
    BY <1>0, <2>1, <2>2 DEF Contents, Writer, Handling
<1>4. ASSUME NEW q \in Slots, ReadOffset(q) PROVE Contents'
  <2>1. /\ UNCHANGED <<scn, offset, file, verdict, agent, produced>> /\ ~Excused
        /\ ~EndedByUpload /\ ~Handling(q)
    BY <1>0, <1>1, <1>4 DEF ReadOffset, Excused, serverVars, agentVars, Handling
  <2>2. Others(q) /\ req'[q].stage \in {"answer", "past_cap", "opening"}
    BY <1>0, <1>4, GotoRow, AnswerRow, StageNames DEF ReadOffset
  <2>3. verdict' # "exit"
    BY <2>1 DEF EndedByUpload
  <2> QED
    BY <1>0, <2>1, <2>2, <2>3, ContentsKept DEF Others
<1>5. ASSUME NEW q \in Slots, EndWithoutText(q) PROVE Contents'
  <2>1. /\ UNCHANGED <<scn, offset, overlap, agent, produced>> /\ (file' = file \/ file' = Append(file, Note))
        /\ ~Excused /\ ~Handling(q)
    BY <1>1, <1>5 DEF EndWithoutText, agentVars, Excused, Handling
  <2>2. Others(q) /\ req'[q].stage = "answer"
    BY <1>0, <1>5, TextlessStep, AnswerRow, StageNames
  <2>3. verdict' = "exit" => verdict = "exit"
    <3>1. req[q].stage # "past_cap"
      BY <1>0, <2>1 DEF Typed, Requests, Request, Excused
    <3> QED
      BY <1>0, <1>5, <3>1, TextlessStep
  <2>4. verdict' = "exit" => \A p \in Slots : req'[p].stage # "opening"
    BY <1>0, <2>1, <2>2, <2>3 DEF Contents, Handling, Others
  <2> QED
    BY <1>0, <2>1, <2>2, <2>3, <2>4, ContentsKept DEF Others
<1>6. ASSUME NEW q \in Slots, OpenLog(q) \/ StoreLine(q) \/ Leaves(q) \/ Commit(q) \/ EndRun(q) PROVE Contents'
  <2>1. ~Excused
    BY <1>0, <1>1, <1>6, LeavesStep DEF Excused, OpenLog, StoreLine, Commit, EndRun
  <2> QED
    BY <1>0, <1>6, <2>1, CompleteOpen, CompleteStore, CompleteLeave, CompleteCommit, CompleteEnd
<1>7. ASSUME NEW q \in Slots, ReachCap(q) PROVE Contents'
  BY <1>1, <1>7 DEF ReachCap, CrossesCap, Excused
<1> QED
  BY <1>0, <1>2, <1>3, <1>4, <1>5, <1>6, <1>7, StepCases

\* A run whose end came by its own upload has its whole log, in order, whatever was
\* dropped, sent twice or answered in vain on the way (HandleIngestLog, streamLogs).
THEOREM LogIsWhole == Spec => []Lossless
<1>1. Init => Complete
  BY TypeInit DEF Init, Complete, Exclusive, Contents, Handling, Writer, Stored, InOrder, Free
<1>2. Complete /\ [Next]_vars => Complete'
  BY CompleteStep
<1>3. Complete => Lossless
  BY DEF Complete, Contents, Lossless
<1> QED
  BY <1>1, <1>2, <1>3, PTL DEF Spec

-----------------------------------------------------------------------------
(* What is acknowledged is stored.                                          *)

Answerable == Complete /\ Acknowledged

LEMMA ScenarioFixed ==
  ASSUME Typed, [Next]_vars PROVE scn' = scn /\ (overlap => overlap')
<1>1. CASE Quiet
  BY <1>1 DEF Quiet
<1>2. CASE Crash
  BY <1>2 DEF Crash
<1>3. ASSUME NEW q \in Slots, ReadOffset(q) \/ OpenLog(q) \/ StoreLine(q) \/ Leaves(q) \/ ReachCap(q)
                              \/ Commit(q) \/ EndRun(q) \/ EndWithoutText(q)
      PROVE  scn' = scn /\ (overlap => overlap')
  <2>1. CASE ReadOffset(q)
    BY <2>1 DEF ReadOffset
  <2>2. CASE OpenLog(q) \/ StoreLine(q) \/ ReachCap(q)
    BY <2>2 DEF OpenLog, StoreLine, ReachCap
  <2>3. CASE Commit(q) \/ EndRun(q) \/ EndWithoutText(q)
    BY <2>3 DEF Commit, EndRun, EndWithoutText
  <2>4. CASE Leaves(q)
    BY <2>4, LeavesStep
  <2> QED
    BY <1>3, <2>1, <2>2, <2>3, <2>4
<1> QED
  BY <1>1, <1>2, <1>3, StepCases

\* What was stored stays, but for the truncation at the start of the log.
LEMMA FileKept ==
  ASSUME Complete, Typed', ~Excused, [Next]_vars
  PROVE  \/ \E q \in Slots : OpenLog(q) /\ req[q].from = 0 /\ offset = 0
         \/ \A n \in Nat : Stored(n) => StoredNext(n)
<1>0. Typed /\ Contents
  BY DEF Complete
<1>1. CASE file' = file
  BY <1>1 DEF Stored, Holds, StoredNext
<1>2. CASE Marked
  BY <1>0, <1>2, MarkedNext
<1>3. CASE Quiet \/ Crash
  BY <1>1, <1>3 DEF Quiet, Crash
<1>4. ASSUME NEW q \in Slots, ReadOffset(q) \/ Leaves(q) \/ EndRun(q) PROVE file' = file
  BY <1>0, <1>4, LeavesStep DEF ReadOffset, EndRun, serverVars
<1>5. ASSUME NEW q \in Slots, OpenLog(q) PROVE (req[q].from = 0 /\ offset = 0) \/ file' = file
  <2>1. req[q].from = offset
    BY <1>5 DEF Complete, Exclusive, OpenLog, Handling, Excused
  <2> QED
    BY <1>5, <2>1 DEF OpenLog, Truncates
<1>6. ASSUME NEW q \in Slots, StoreLine(q) PROVE \A n \in Nat : Stored(n) => StoredNext(n)
  BY <1>6, StoreHolds DEF Stored, StoredNext
<1>7. ASSUME NEW q \in Slots, Commit(q) PROVE Marked
  <2>1. Writer(q) /\ Written(q)
    BY <1>0, <1>7 DEF Commit, Writer, Contents
  <2>2. file' = Put(q, Leak) \/ file' = file
    BY <1>7 DEF Commit
  <2> QED
    BY <1>0, <2>1, <2>2, LeakMarked DEF Marked
<1>8. ASSUME NEW q \in Slots, EndWithoutText(q) PROVE Marked
  <2>1. (file' = Append(file, Note) \/ file' = file) /\ scn' = scn
    BY <1>8 DEF EndWithoutText
  <2> QED
    BY <1>0, <2>1, NoteMarked DEF Marked
<1>9. ASSUME NEW q \in Slots PROVE ~ReachCap(q)
  BY DEF ReachCap, CrossesCap, Excused
<1> QED
  BY <1>0, <1>1, <1>2, <1>3, <1>4, <1>5, <1>6, <1>7, <1>8, <1>9, StepCases

LEMMA OffsetGrows ==
  ASSUME Complete, ~Excused, [Next]_vars PROVE offset \in Nat /\ offset' \in Nat /\ offset' >= offset
<1>0. Typed /\ offset \in Nat
  BY Numbers DEF Complete, Typed
<1>1. CASE offset' = offset
  BY <1>0, <1>1
<1>2. CASE Quiet \/ Crash
  BY <1>1, <1>2 DEF Quiet, Crash
<1>3. ASSUME NEW q \in Slots, ReadOffset(q) \/ OpenLog(q) \/ StoreLine(q) \/ Leaves(q) \/ EndRun(q) \/ EndWithoutText(q)
      PROVE  offset' = offset
  BY <1>0, <1>3, LeavesStep DEF ReadOffset, OpenLog, StoreLine, EndRun, EndWithoutText, serverVars
<1>4. ASSUME NEW q \in Slots, Commit(q) PROVE offset' = offset \/ (offset' = offset + req[q].read /\ req[q].read \in Nat)
  BY <1>0, <1>4, RowNumbers DEF Commit
<1>5. ASSUME NEW q \in Slots PROVE ~ReachCap(q)
  BY DEF ReachCap, CrossesCap, Excused
<1> QED
  BY <1>0, <1>1, <1>2, <1>3, <1>4, <1>5, StepCases

\* A handler's step, as far as the acknowledgements see it.
Moves(q) ==
  /\ agentVars' = agentVars /\ Others(q) /\ SameChunk(q) /\ req[q].stage # "free"
  /\ Early(q)' => Early(q)
  /\ req'[q].stage = "answer" /\ req'[q].reply = "mismatch" => req'[q].got = offset
  /\ Acks(q)' => Acks(q) \/ req[q].final \/ Commit(q)

\* A request that its agent gave up is over.
Frees(q) == agentVars' = agentVars /\ Hung(q) /\ Others(q) /\ req'[q] = Free

LEMMA HandleMoves ==
  ASSUME Typed, ~Excused, NEW q \in Slots, Handle(q) PROVE Moves(q) \/ Frees(q)
<1>0. TypeOK /\ Requests
  BY DEF Typed
<1>1. CASE Forget(q)
  BY <1>0, <1>1, FreeRow DEF Forget, Frees
<1>2. CASE Admit(q)
  <2>1. /\ Others(q) /\ SameChunk(q) /\ req[q].stage = "sent" /\ agentVars' = agentVars
        /\ \/ req'[q].stage \in {"admitted", "unredacted"}
           \/ req'[q].stage = "answer" /\ req'[q].reply \in {"closed", "unavailable"}
    BY <1>0, <1>2, GotoRow, AnswerRow, StageNames DEF Admit
  <2> QED
    BY <2>1 DEF Moves, SameChunk, Early, Acks
<1>3. CASE ReadOffset(q)
  <2>1. /\ Others(q) /\ SameChunk(q) /\ req[q].stage = "admitted" /\ agentVars' = agentVars
        /\ \/ req'[q].stage \in {"past_cap", "opening"}
           \/ req'[q].stage = "answer" /\ req'[q].reply \in {"refused", "mismatch"} /\ req'[q].got = offset
    BY <1>0, <1>3, GotoRow, AnswerRow, StageNames DEF ReadOffset
  <2> QED
    BY <2>1 DEF Moves, SameChunk, Early, Acks
<1>4. CASE OpenLog(q)
  <2>1. req[q].stage = "opening" /\ agentVars' = agentVars
    BY <1>4 DEF OpenLog
  <2>2. Others(q) /\ SameChunk(q) /\ req'[q].stage = "writing"
    BY <1>0, <1>4, OpenRow
  <2> QED
    BY <2>1, <2>2 DEF Moves, Early, Acks
<1>5. CASE StoreLine(q)
  <2>1. req[q].stage = "writing" /\ agentVars' = agentVars
    BY <1>5 DEF StoreLine, More
  <2>2. Others(q) /\ SameChunk(q) /\ req'[q].stage = "writing"
    BY <1>0, <1>5, StoreRow
  <2> QED
    BY <2>1, <2>2 DEF Moves, Early, Acks
<1>6. CASE ReadToEnd(q)
  <2>1. req[q].stage = "writing" /\ agentVars' = agentVars
    BY <1>6 DEF ReadToEnd
  <2>2. Others(q) /\ SameChunk(q) /\ req'[q].stage = "commit"
    BY <1>0, <1>6, ReadRow
  <2> QED
    BY <2>1, <2>2 DEF Moves, Early, Acks
<1>7. CASE LineTooLong(q)
  BY <1>7 DEF LineTooLong, Excused
<1>8. CASE ReachCap(q)
  BY <1>8 DEF ReachCap, CrossesCap, Excused
<1>9. CASE Commit(q)
  <2>1. /\ Others(q) /\ SameChunk(q) /\ req[q].stage = "commit" /\ agentVars' = agentVars
        /\ req'[q].stage = "end" \/ (req'[q].stage = "answer" /\ req'[q].reply = "ok")
    BY <1>0, <1>9, CommitRow DEF Commit
  <2> QED
    BY <1>9, <2>1 DEF Moves, Early, Acks
<1>10. CASE EndRun(q)
  <2>1. /\ Others(q) /\ SameChunk(q) /\ req[q].stage = "end" /\ agentVars' = agentVars
        /\ req'[q].stage = "answer" /\ req'[q].reply = "ok"
    <3>1. Answer(q, "ok") /\ req[q].stage = "end" /\ agentVars' = agentVars
      BY <1>10, EndStep DEF EndRun
    <3> QED
      BY <1>0, <3>1, AnswerRow, StageNames
  <2> QED
    BY <2>1 DEF Moves, Early, Acks
<1>11. CASE EndWithoutText(q)
  <2>1. /\ Others(q) /\ SameChunk(q) /\ req[q].stage \in {"unredacted", "past_cap"} /\ agentVars' = agentVars
        /\ req'[q].stage = "answer" /\ req'[q].reply = "ok"
    <3>1. Answer(q, "ok") /\ req[q].stage \in {"unredacted", "past_cap"} /\ agentVars' = agentVars
      BY <1>11, TextlessStep DEF EndWithoutText
    <3> QED
      BY <1>0, <3>1, AnswerRow, StageNames
  <2>2. req[q].final
    BY <1>0, <2>1 DEF Requests, Request
  <2> QED
    BY <2>1, <2>2 DEF Moves, Early, Acks
<1> QED
  BY <1>1, <1>2, <1>3, <1>4, <1>5, <1>6, <1>7, <1>8, <1>9, <1>10, <1>11 DEF Handle

\* So are the faults of a handler.
LEMMA FaultMoves ==
  ASSUME Typed, ~Excused, NEW q \in Slots, ReadFails(q) \/ BodyCut(q) \/ DiskFull(q) PROVE Moves(q) \/ Frees(q)
<1>0. TypeOK /\ Requests
  BY DEF Typed
<1>1. CASE ReadFails(q)
  <2>1. /\ Others(q) /\ SameChunk(q) /\ req[q].stage \in {"sent", "admitted"} /\ agentVars' = agentVars
        /\ req'[q].stage = "answer" /\ req'[q].reply = "unavailable"
    BY <1>0, <1>1, AnswerRow, StageNames DEF ReadFails
  <2> QED
    BY <2>1 DEF Moves, Early, Acks
<1>2. CASE BodyCut(q) /\ req' = [req EXCEPT ![q] = Free]
  BY <1>0, <1>2, FreeRow DEF BodyCut, Frees
<1>3. CASE BodyCut(q) /\ More(q) /\ req' = [req EXCEPT ![q].stage = "commit", ![q].dead = TRUE]
  <2>1. Others(q) /\ SameChunk(q) /\ req[q].stage = "writing" /\ agentVars' = agentVars /\ req'[q].stage = "commit"
    BY <1>0, <1>3, CutRow DEF BodyCut, More
  <2> QED
    BY <2>1 DEF Moves, Early, Acks
<1>4. CASE DiskFull(q)
  BY <1>4 DEF DiskFull, Fault, Excused
<1> QED
  BY <1>1, <1>2, <1>3, <1>4 DEF BodyCut

\* A commit whose agent waits for it.
LEMMA CommitAcks ==
  ASSUME Complete, Typed', ~Excused, NEW q \in Slots, Commit(q), post = q
  PROVE  /\ "dbError" \notin scn.events => offset' = req[q].to
         /\ StoredNext(req[q].to)
<1>0. /\ Typed /\ TypeOK /\ Contents /\ req[q].stage = "commit" /\ Writer(q) /\ Written(q) /\ ~req[q].dead
  BY ConstantsAssumption DEF Complete, Typed, Commit, Writer, Contents, Waiting
<1>1. /\ req[q].read = req[q].to - req[q].from /\ req[q].next = req[q].to + 1 /\ req[q].from = offset
      /\ Stored(req[q].next - 1)
  BY <1>0 DEF Written
<1>2. req[q].from \in Nat /\ req[q].to \in Nat /\ offset \in Nat /\ req[q].from < req[q].to
  BY <1>0, RowNumbers DEF Typed, Requests, Request
<1>3. Marked
  <2>1. file' = Put(q, Leak) \/ file' = file
    BY DEF Commit
  <2> QED
    BY <1>0, <2>1, LeakMarked DEF Marked
<1>4. StoredNext(req[q].to)
  <2>1. req[q].next - 1 = req[q].to
    BY <1>1, <1>2
  <2> QED
    BY <1>0, <1>1, <1>2, <1>3, <2>1, MarkedNext
<1>5. ASSUME "dbError" \notin scn.events PROVE offset' = req[q].to
  <2>1. ~MayFail(q) /\ req[q].read # 0 /\ ~Fault("dbError")
    BY <1>0, <1>1, <1>2, <1>5 DEF MayFail, Hung, Fault
  <2>2. offset' = offset + req[q].read
    BY <2>1 DEF Commit
  <2> QED
    BY <1>1, <1>2, <2>2
<1> QED
  BY <1>4, <1>5

\* The row of the request the agent waits for, after a handler's step.
LEMMA AckedAfter ==
  ASSUME Complete, Typed', ~Excused, [Next]_vars, NEW q \in Slots, Moves(q), PostAcked'
  PROVE  \/ PostAcked /\ req'[post].to = req[post].to
         \/ /\ post = q /\ req'[post].to = req[post].to
            /\ "dbError" \notin scn.events => offset' = req[post].to
            /\ StoredNext(req[post].to)
<1>1. post' = post /\ post \in Slots /\ Acks(post)' /\ ~req'[post].final
  BY TypeNamed DEF Complete, Typed, Moves, agentVars, PostAcked, Acks
<1>2. CASE post # q
  BY <1>1, <1>2, ConstantsAssumption DEF Moves, Others, PostAcked, Acks
<1>3. CASE post = q
  <2>1. req'[q].to = req[q].to /\ ~req[q].final /\ (Acks(q) \/ Commit(q))
    BY <1>1, <1>3 DEF Moves, SameChunk
  <2> QED
    BY <1>1, <1>3, <2>1, CommitAcks, ConstantsAssumption DEF PostAcked
<1> QED
  BY <1>2, <1>3

LEMMA AckMoves ==
  ASSUME Answerable, Typed', ~Excused, [Next]_vars, agent # "done", NEW q \in Slots, Moves(q) \/ Frees(q)
  PROVE  Acknowledged'
<1>0. /\ Complete /\ Typed /\ scn' = scn /\ Mismatches /\ ("dbError" \notin scn.events => Recorded)
      /\ ("drop" \notin scn.events => InFile)
      /\ offset \in Nat /\ offset' \in Nat /\ offset' >= offset /\ committed \in Nat
  BY ScenarioFixed, OffsetGrows, Numbers DEF Answerable, Acknowledged, Complete, Typed
<1>1. Others(q) /\ UNCHANGED <<agent, produced, committed, tries, post, aborted>>
  BY DEF Moves, Frees, agentVars
<1>2. Mismatches'
  <2>1. ASSUME NEW p \in Slots, req'[p].stage = "answer", req'[p].reply = "mismatch"
        PROVE  req'[p].got <= offset'
    <3>1. CASE req'[p] = req[p]
      <4>1. req[p].got \in Nat /\ req[p].got <= offset
        BY <1>0, <2>1, <3>1, RowTyped, RowFields DEF Mismatches, Typed
      <4> QED
        BY <1>0, <3>1, <4>1
    <3>2. CASE p = q /\ req'[q].got = offset
      BY <1>0, <3>2
    <3> QED
      BY <1>1, <2>1, <3>1, <3>2 DEF Others, Moves, Frees, Free
  <2> QED
    BY <2>1 DEF Mismatches
<1>3. ASSUME PostAcked' PROVE (Moves(q) \/ PostAcked) /\ post \in Slots
  <2>1. post' = post /\ post \in Slots
    BY <1>0, <1>1, <1>3, TypeNamed DEF Typed, PostAcked
  <2>2. CASE Frees(q)
    BY <1>1, <1>3, <2>1, <2>2 DEF Frees, Hung, Others, PostAcked, Acks
  <2> QED
    BY <2>1, <2>2
<1>4. ASSUME PostAcked'
      PROVE  \/ PostAcked /\ req'[post].to = req[post].to
             \/ /\ req'[post].to = req[post].to
                /\ "dbError" \notin scn.events => offset' = req[post].to
                /\ StoredNext(req[post].to)
  <2>1. CASE Moves(q)
    BY <1>0, <1>4, <2>1, AckedAfter
  <2>2. CASE Frees(q)
    <3>1. post # q /\ PostAcked
      BY <1>1, <1>3, <1>4, <2>2 DEF Frees, Hung, Others, PostAcked, Acks
    <3> QED
      BY <1>1, <1>3, <1>4, <3>1 DEF Others
  <2> QED
    BY <2>1, <2>2
<1>5. ASSUME "dbError" \notin scn.events PROVE Recorded'
  <2>1. committed' <= offset'
    BY <1>0, <1>1, <1>5 DEF Recorded
  <2>2. ASSUME PostAcked' PROVE req'[post'].to <= offset'
    <3>1. post' = post /\ post \in Slots /\ req[post].to \in Nat
      BY <1>0, <1>1, <1>3, <2>2, RowNumbers
    <3>2. CASE PostAcked /\ req'[post].to = req[post].to
      BY <1>0, <1>5, <3>1, <3>2 DEF Recorded
    <3>3. CASE req'[post].to = req[post].to /\ offset' = req[post].to
      BY <3>1, <3>3
    <3> QED
      BY <1>4, <1>5, <2>2, <3>2, <3>3
  <2> QED
    BY <2>1, <2>2 DEF Recorded
<1>6. ASSUME "drop" \notin scn.events PROVE InFile'
  <2>0. NoneBehind /\ NoLateStart /\ Stored(committed) /\ (PostAcked => Stored(req[post].to))
    BY <1>0, <1>6 DEF InFile
  <2>1. NoneBehind'
    BY <1>1, <2>0 DEF NoneBehind, Others, Moves, Frees, Free
  <2>2. NoLateStart'
    <3>1. \A p \in Slots : Early(p)' => Early(p)
      BY <1>1 DEF Others, Moves, Frees, Free, Early
    <3> QED
      BY <1>0, <1>1, <2>0, <3>1 DEF NoLateStart
  <2>3. ASSUME NEW n \in Nat, Stored(n), n = committed \/ (PostAcked /\ n = req[post].to) PROVE StoredNext(n)
    <3>1. CASE \A m \in Nat : Stored(m) => StoredNext(m)
      BY <2>3, <3>1
    <3>2. ASSUME NEW p \in Slots, OpenLog(p), req[p].from = 0, offset = 0 PROVE StoredNext(n)
      <4>1. Early(p) /\ req[p].stage = "opening"
        BY <3>2 DEF OpenLog, Early
      <4>2. committed = 0
        BY <1>0, <2>0, <3>2, <4>1 DEF NoLateStart
      <4>3. ~PostAcked
        <5>1. SUFFICES ASSUME PostAcked PROVE FALSE
          OBVIOUS
        <5>2. tries > 0 /\ agent # "flushing" /\ post # p /\ agent \in {"executing", "flushing", "done", "gaveUp"}
              /\ tries \in Nat
          BY <1>0, <4>1, <5>1, TypeNamed, Numbers DEF Typed, Waiting, PostAcked, Acks
        <5>3. agent = "executing"
          BY <1>0, <5>2 DEF Typed, Waiting
        <5> QED
          BY <2>0, <4>1, <5>2, <5>3 DEF NoneBehind
      <4> QED
        BY <2>3, <4>2, <4>3 DEF StoredNext
    <3> QED
      BY <1>0, <3>1, <3>2, FileKept
  <2>4. Stored(committed)'
    BY <1>0, <1>1, <2>0, <2>3 DEF Stored, Holds, StoredNext
  <2>5. ASSUME PostAcked' PROVE Stored(req[post].to)'
    <3>1. post' = post /\ post \in Slots /\ req[post].to \in Nat /\ req'[post].to = req[post].to
      BY <1>0, <1>1, <1>3, <1>4, <2>5, RowNumbers
    <3>2. StoredNext(req[post].to)
      BY <1>4, <2>0, <2>3, <2>5, <3>1
    <3> QED
      BY <3>1, <3>2 DEF Stored, Holds, StoredNext
  <2> QED
    BY <2>1, <2>2, <2>4, <2>5 DEF InFile
<1> QED
  BY <1>0, <1>2, <1>5, <1>6 DEF Acknowledged

\* A step that leaves the log, the requests and what is committed alone.
LEMMA AckIdle ==
  ASSUME Answerable, ~Excused, agent # "done", UNCHANGED <<scn, req, offset, file, committed>>,
         post' = post \/ post' = None,
         agent' = "executing" => agent = "executing" /\ (post' = post \/ "drop" \in scn.events)
  PROVE  Acknowledged'
<1>1. Mismatches /\ ("dbError" \notin scn.events => Recorded) /\ ("drop" \notin scn.events => InFile)
  BY DEF Answerable, Acknowledged
<1>2. Mismatches'
  BY <1>1 DEF Mismatches
<1>3. PostAcked' => PostAcked /\ post' = post
  BY DEF PostAcked, Acks
<1>4. "dbError" \notin scn.events => Recorded'
  BY <1>1, <1>3 DEF Recorded
<1>5. ASSUME "drop" \notin scn.events PROVE InFile'
  <2>1. NoneBehind'
    BY <1>1, <1>5 DEF InFile, NoneBehind
  <2>2. NoLateStart'
    BY <1>1, <1>5 DEF InFile, NoLateStart, Early
  <2>3. Stored(committed)' /\ (PostAcked' => Stored(req[post].to)')
    BY <1>1, <1>3, <1>5 DEF InFile, Stored, Holds
  <2> QED
    BY <2>1, <2>2, <2>3 DEF InFile
<1> QED
  BY <1>2, <1>4, <1>5 DEF Acknowledged

LEMMA AckSend ==
  ASSUME Answerable, ~Excused, Send PROVE Acknowledged'
<1>0. /\ Typed /\ TypeOK /\ scn \in Scenarios /\ agent # "done" /\ post = None
      /\ Mismatches /\ ("dbError" \notin scn.events => Recorded) /\ ("drop" \notin scn.events => InFile)
      /\ UNCHANGED <<scn, agent, produced, committed, offset, file>>
  BY Numbers DEF Answerable, Acknowledged, Complete, Typed, Send, Waiting, serverVars
<1>1. /\ post' \in Slots /\ Others(post') /\ req[post'].stage = "free"
      /\ req'[post'].stage = "sent" /\ req'[post'].from = committed
  BY <1>0, SendRow
<1>2. Mismatches'
  BY <1>0, <1>1 DEF Mismatches, Others
<1>3. ~PostAcked'
  BY <1>1 DEF PostAcked, Acks
<1>4. "dbError" \notin scn.events => Recorded'
  BY <1>0, <1>3 DEF Recorded
<1>5. ASSUME "drop" \notin scn.events PROVE InFile'
  <2>1. NoneBehind'
    BY <1>0, <1>1, <1>5, ConstantsAssumption DEF InFile, NoneBehind, Others
  <2>2. NoLateStart'
    BY <1>0, <1>1, <1>5 DEF InFile, NoLateStart, Early, Others
  <2>3. Stored(committed)'
    BY <1>0, <1>5 DEF InFile, Stored, Holds
  <2> QED
    BY <1>3, <2>1, <2>2, <2>3 DEF InFile
<1> QED
  BY <1>0, <1>2, <1>4, <1>5 DEF Acknowledged

LEMMA AckReceive ==
  ASSUME Answerable, ~Excused, NEW q \in Slots, Receive(q), agent' # "done" PROVE Acknowledged'
<1>0. /\ Complete /\ Typed /\ TypeOK /\ Contents /\ post = q /\ post' = None /\ req[q].stage = "answer"
      /\ req' = [req EXCEPT ![q] = Free] /\ UNCHANGED <<scn, produced, offset, file>>
      /\ req[q].to \in Nat /\ req[q].got \in Nat /\ committed \in Nat /\ Total \in Nat /\ offset \in Nat
  BY RowTyped, RowFields, RowNumbers, Numbers DEF Answerable, Complete, Typed, Receive, serverVars
<1>1. agent \in {"executing", "flushing"} /\ agent' = agent /\ (req[q].final <=> agent = "flushing")
  BY <1>0, TypeNamed, Numbers, ConstantsAssumption DEF Typed, Waiting, Receive
<1>2. Mismatches /\ ("dbError" \notin scn.events => Recorded) /\ ("drop" \notin scn.events => InFile)
  BY <1>1 DEF Answerable, Acknowledged
<1>3. Others(q) /\ req'[q] = Free
  BY <1>0, FreeRow
<1>4. \/ /\ req[q].reply = "ok" /\ agent = "executing" /\ ~req[q].final
         /\ committed' = SetCommitted(req[q].to)
      \/ req[q].reply = "mismatch" /\ committed' = SetCommitted(req[q].got) /\ req[q].got <= offset
      \/ committed' = committed
  <2>1. CASE req[q].reply = "ok"
    BY <1>1, <2>1 DEF Receive, Sent
  <2>2. CASE req[q].reply = "mismatch"
    BY <1>0, <1>2, <2>2 DEF Receive, Mismatches
  <2>3. CASE req[q].reply \notin {"ok", "mismatch"}
    BY <2>3 DEF Receive
  <2> QED
    BY <2>1, <2>2, <2>3
<1>5. \A n \in Nat : SetCommitted(n) \in Nat /\ SetCommitted(n) <= n
  BY <1>0 DEF SetCommitted, Smaller
<1>6. committed' \in Nat
  BY <1>0, <1>4, <1>5
<1>7. Mismatches'
  BY <1>0, <1>2, <1>3 DEF Mismatches, Others, Free
<1>8. ~PostAcked'
  BY <1>0 DEF PostAcked
<1>9. req[q].reply = "ok" /\ ~req[q].final => PostAcked
  BY <1>0, ConstantsAssumption DEF PostAcked, Acks
<1>10. ASSUME "dbError" \notin scn.events PROVE Recorded'
  <2>1. committed <= offset /\ (req[q].reply = "ok" /\ ~req[q].final => req[q].to <= offset)
    BY <1>0, <1>2, <1>9, <1>10 DEF Recorded
  <2>2. committed' <= offset
    BY <1>0, <1>4, <1>5, <2>1
  <2> QED
    BY <1>0, <1>8, <2>2 DEF Recorded
<1>11. ASSUME "drop" \notin scn.events PROVE InFile'
  <2>0. NoneBehind /\ NoLateStart /\ Stored(committed) /\ (PostAcked => Stored(req[q].to)) /\ Stored(offset)
    BY <1>0, <1>2, <1>11 DEF InFile, Contents
  <2>1. NoneBehind'
    BY <1>0, <1>1, <1>3, <2>0 DEF NoneBehind, Others, Free
  <2>2. NoLateStart'
    <3>1. SUFFICES ASSUME NEW p \in Slots, Early(p)' PROVE committed' = 0 \/ offset > 0
      BY <1>0 DEF NoLateStart
    <3>2. p # q /\ Early(p)
      BY <1>3, <3>1 DEF Others, Early, Free
    <3>3. agent # "executing"
      BY <1>0, <2>0, <3>2 DEF NoneBehind, Early
    <3> QED
      BY <1>0, <1>4, <1>5, <2>0, <3>2, <3>3 DEF NoLateStart
  <2>3. \A n, m \in Nat : Stored(n) /\ m <= n => Stored(m)
    BY DEF Stored
  <2>4. Stored(committed')
    BY <1>0, <1>4, <1>5, <1>6, <1>9, <2>0, <2>3
  <2>5. Stored(committed)'
    BY <1>0, <2>4 DEF Stored, Holds
  <2> QED
    BY <1>8, <2>1, <2>2, <2>5 DEF InFile
<1> QED
  BY <1>0, <1>7, <1>10, <1>11 DEF Acknowledged

LEMMA AckCrash ==
  ASSUME Answerable, ~Excused, agent # "done", Crash PROVE Acknowledged'
<1>1. Mismatches /\ ("dbError" \notin scn.events => Recorded) /\ ("drop" \notin scn.events => InFile)
  BY DEF Answerable, Acknowledged
<1>2. /\ UNCHANGED <<scn, agent, committed, offset, file>> /\ post' = None
      /\ \A p \in Slots : req'[p].stage = "free"
  BY DEF Crash, Free
<1>3. Mismatches' /\ ~PostAcked' /\ NoneBehind' /\ NoLateStart'
  BY <1>2 DEF Mismatches, PostAcked, NoneBehind, NoLateStart, Early
<1>4. "dbError" \notin scn.events => Recorded'
  BY <1>1, <1>2, <1>3 DEF Recorded
<1>5. "drop" \notin scn.events => InFile'
  BY <1>1, <1>2, <1>3 DEF InFile, Stored, Holds
<1> QED
  BY <1>2, <1>3, <1>4, <1>5 DEF Acknowledged

LEMMA AckStep ==
  ASSUME Answerable, [Next]_vars PROVE Answerable'
<1>0. /\ Complete /\ Typed /\ Complete' /\ Typed' /\ scn' = scn /\ (overlap => overlap')
  BY CompleteStep, ScenarioFixed DEF Answerable, Complete
<1>1. SUFFICES ASSUME agent' # "done", ~Excused' PROVE Acknowledged'
  BY <1>0 DEF Answerable, Acknowledged
<1>2. ~Excused
  BY <1>0, <1>1 DEF Excused
<1>3. agent # "done"
  <2>1. SUFFICES ASSUME agent = "done" PROVE agent' = agent
    BY <1>1
  <2>2. tries = 0
    BY <1>0, <2>1 DEF Typed, Waiting
  <2>3. CASE AgentNext
    BY <2>1, <2>2, <2>3 DEF AgentNext, WriteLine, Tick, Seal, Send, AllCommitted, Resend, Receive
  <2>4. CASE Environment
    BY <2>4 DEF Environment, Drop, Abort, Crash, CloseRun, LoseDictionary, RegainDictionary, GracePasses,
                ReadFails, BodyCut, DiskFull, agentVars
  <2>5. ASSUME NEW q \in Slots, Handle(q) PROVE agent' = agent
    BY <1>0, <1>2, <2>5, HandleMoves DEF Moves, Frees, agentVars
  <2>6. CASE UNCHANGED vars
    BY <2>6 DEF vars, agentVars
  <2> QED
    BY <2>3, <2>4, <2>5, <2>6 DEF Next
<1>4. CASE UNCHANGED vars
  BY <1>2, <1>3, <1>4, AckIdle DEF vars, agentVars, serverVars
<1>5. CASE WriteLine \/ Tick \/ AllCommitted \/ Resend
  BY <1>2, <1>3, <1>5, AckIdle DEF WriteLine, Tick, AllCommitted, Resend, serverVars
<1>6. CASE Seal
  BY <1>2, <1>3, <1>6, AckIdle DEF Seal, serverVars
<1>7. CASE Drop
  BY <1>2, <1>3, <1>7, AckIdle DEF Drop, Fault, serverVars
<1>8. CASE Abort \/ CloseRun \/ LoseDictionary \/ RegainDictionary \/ GracePasses
  BY <1>2, <1>3, <1>8, AckIdle
     DEF Abort, CloseRun, LoseDictionary, RegainDictionary, GracePasses, serverVars, agentVars
<1>9. CASE Send
  BY <1>2, <1>9, AckSend
<1>10. ASSUME NEW q \in Slots, Receive(q) PROVE Acknowledged'
  BY <1>1, <1>2, <1>10, AckReceive
<1>11. CASE Crash
  BY <1>2, <1>3, <1>11, AckCrash
<1>12. ASSUME NEW q \in Slots, Handle(q) \/ ReadFails(q) \/ BodyCut(q) \/ DiskFull(q) PROVE Acknowledged'
  BY <1>0, <1>2, <1>3, <1>12, HandleMoves, FaultMoves, AckMoves
<1> QED
  BY <1>4, <1>5, <1>6, <1>7, <1>8, <1>9, <1>10, <1>11, <1>12 DEF Next, AgentNext, Environment

\* What the agent counts as committed, and will not send again, is in the file, unless
\* failed statements meet broken connections (setCommitted, log_raw_offset's own
\* statement).
THEOREM AcksAreKept == Spec => []AckedIsStored
<1>1. Init => Answerable
  <2>1. Init => Complete
    BY TypeInit DEF Init, Complete, Exclusive, Contents, Handling, Writer, Stored, InOrder, Free
  <2>2. Init => Acknowledged
    BY DEF Init, Acknowledged, Mismatches, Recorded, InFile, NoneBehind, NoLateStart, Early, PostAcked,
           Stored, Free
  <2> QED
    BY <2>1, <2>2 DEF Answerable
<1>2. Answerable /\ [Next]_vars => Answerable'
  BY AckStep
<1>3. Answerable => AckedIsStored
  <2>1. SUFFICES ASSUME Answerable, agent # "done", ~Excused, ~({"drop", "dbError"} \subseteq scn.events)
                 PROVE  Stored(committed)
    BY DEF AckedIsStored
  <2>2. CASE "drop" \notin scn.events
    BY <2>1, <2>2 DEF Answerable, Acknowledged, InFile
  <2>3. CASE "dbError" \notin scn.events
    <3>1. committed <= offset /\ Stored(offset) /\ committed \in Nat /\ offset \in Nat
      BY <2>1, <2>3, Numbers DEF Answerable, Acknowledged, Recorded, Complete, Contents, Typed
    <3> QED
      BY <3>1 DEF Stored
  <2> QED
    BY <2>1, <2>2, <2>3
<1> QED
  BY <1>1, <1>2, <1>3, PTL DEF Spec

-----------------------------------------------------------------------------
(* Undisturbed, the end of a run reaches the server.  A chunk of the last tick *)
(* may still be handled beside the final one, and its lines are counted before *)
(* or after: the offset may run ahead of the agent, but not onto the envelope  *)
(* before the chunk that holds it is about to end the run.                     *)

Following(q) == req[q].stage \in {"opening", "writing", "commit"}

\* One chunk of a tick at most is with the server, and holds body lines.
TickChunks ==
  \A q \in Slots : req[q].stage # "free" /\ ~req[q].final =>
    /\ req[q].to <= produced
    /\ req[q].stage = "commit" => req[q].from + req[q].read <= req[q].to
    /\ agent = "executing" => q = post
    /\ \A p \in Slots : req[p].stage # "free" /\ ~req[p].final => p = q

\* The agent waits for a final chunk as long as there is one, and none is answered
\* as if the run had ended.
FinalChunks ==
  \A q \in Slots : req[q].stage # "free" /\ req[q].final =>
    /\ q = post
    /\ req[q].stage = "answer" => /\ req[q].reply \notin {"ok", "closed"}
                                  /\ req[q].reply = "mismatch" => req[q].got <= produced

\* A final chunk is about to end the run.
Taken == \E q \in Slots : req[q].final /\ req[q].stage = "end"

\* The server has no more than body lines, and a tick's chunk at work starts where
\* they end.
BodyOnly ==
  /\ offset <= produced
  /\ \A q \in Slots : Following(q) /\ ~req[q].final => req[q].from = offset

Brought ==
  Undisturbed /\ verdict = "running" =>
    /\ agent # "done" /\ (agent = "flushing" => committed <= produced)
    /\ TickChunks /\ FinalChunks
    /\ (AtCap \/ Taken \/ BodyOnly)

\* What the proof needs to know of a handler's step.
Bears(q) ==
  /\ Others(q) /\ SameChunk(q) /\ UNCHANGED <<scn, agentVars>> /\ req[q].stage # "free"
  /\ req[q].final /\ req'[q].stage = "answer" =>
       /\ req'[q].reply \notin {"ok", "closed"}
       /\ req'[q].reply = "mismatch" => req'[q].got = offset /\ ~AtCap
  /\ ~req[q].final /\ req'[q].stage = "commit" => req'[q].from + req'[q].read <= req'[q].to
  /\ req[q].final /\ req[q].stage = "end" => req'[q].stage = "end"
  /\ ~req[q].final /\ Following(q)' => Following(q) \/ req[q].from = offset
  /\ AtCap => AtCap'
  /\ \/ offset' = offset
     \/ AtCap'
     \/ req[q].final /\ req'[q].stage = "end"
     \/ ~req[q].final /\ req[q].stage = "commit" /\ ~Following(q)' /\ offset' = offset + req[q].read

LEMMA BroughtBears ==
  ASSUME Typed, Brought, Undisturbed, verdict = "running", NEW q \in Slots, Bears(q)
  PROVE  Brought'
<1>0. /\ TypeOK /\ agent # "done" /\ (agent = "flushing" => committed <= produced)
      /\ TickChunks /\ FinalChunks /\ (AtCap \/ Taken \/ BodyOnly)
      /\ offset \in Nat /\ produced \in Nat
  BY Numbers DEF Typed, Brought
<1>1. /\ Others(q) /\ req'[q].from = req[q].from /\ req'[q].to = req[q].to /\ req'[q].final = req[q].final
      /\ req[q].stage # "free" /\ scn' = scn
      /\ UNCHANGED <<agent, produced, committed, post>>
      /\ req[q].from \in Nat /\ req[q].to \in Nat /\ req[q].read \in Nat
  BY <1>0, RowTyped, RowFields DEF Bears, SameChunk, agentVars
<1>2. TickChunks'
  BY <1>0, <1>1 DEF TickChunks, Others, Bears
<1>3. \A p \in Slots : p # q => req'[p] = req[p]
  BY <1>1 DEF Others
<1>4. ASSUME req[q].final, req'[q].stage = "answer", req'[q].reply = "mismatch"
      PROVE  req'[q].got <= produced
  <2>1. req'[q].got = offset /\ ~AtCap
    BY <1>4 DEF Bears
  <2>2. ~Taken
    <3>1. SUFFICES ASSUME NEW p \in Slots, req[p].final, req[p].stage = "end" PROVE FALSE
      BY DEF Taken
    <3>2. p = q
      BY <1>0, <1>1, <1>4, <3>1 DEF FinalChunks
    <3> QED
      BY <1>4, <3>1, <3>2 DEF Bears
  <2> QED
    BY <1>0, <2>1, <2>2 DEF BodyOnly
<1>5. FinalChunks'
  <2>1. SUFFICES ASSUME NEW p \in Slots, req'[p].stage # "free", req'[p].final
                 PROVE  /\ p = post
                        /\ req'[p].stage = "answer" => /\ req'[p].reply \notin {"ok", "closed"}
                                                       /\ req'[p].reply = "mismatch" => req'[p].got <= produced
    BY <1>1 DEF FinalChunks
  <2>2. CASE p # q
    BY <1>0, <1>3, <2>1, <2>2 DEF FinalChunks
  <2>3. CASE p = q
    BY <1>0, <1>1, <1>4, <2>1, <2>3 DEF FinalChunks, Bears
  <2> QED
    BY <2>2, <2>3
<1>6. (AtCap \/ Taken \/ BodyOnly)'
  <2>1. CASE AtCap
    BY <2>1 DEF Bears
  <2>2. CASE Taken
    <3>1. PICK p \in Slots : req[p].final /\ req[p].stage = "end"
      BY <2>2 DEF Taken
    <3>2. req'[p].final /\ req'[p].stage = "end"
      BY <1>1, <1>3, <3>1 DEF Bears
    <3> QED
      BY <3>2 DEF Taken
  <2>3. CASE BodyOnly
    <3>1. CASE offset' = offset
      <4>1. ASSUME NEW p \in Slots, Following(p)', ~req'[p].final PROVE req'[p].from = offset
        <5>1. CASE p # q
          BY <1>3, <2>3, <4>1, <5>1 DEF BodyOnly, Following
        <5>2. CASE p = q
          BY <1>1, <2>3, <4>1, <5>2 DEF BodyOnly, Bears
        <5> QED
          BY <5>1, <5>2
      <4> QED
        BY <1>1, <2>3, <3>1, <4>1 DEF BodyOnly
    <3>2. CASE req[q].final /\ req'[q].stage = "end"
      BY <1>1, <3>2 DEF Taken
    <3>3. CASE ~req[q].final /\ req[q].stage = "commit" /\ ~Following(q)' /\ offset' = offset + req[q].read
      <4>1. req[q].from = offset /\ req[q].from + req[q].read <= req[q].to /\ req[q].to <= produced
        BY <1>0, <2>3, <3>3 DEF BodyOnly, TickChunks, Following
      <4>2. offset' <= produced
        BY <1>0, <1>1, <3>3, <4>1
      <4>3. ASSUME NEW p \in Slots, Following(p)', ~req'[p].final PROVE FALSE
        <5>1. p # q
          BY <3>3, <4>3
        <5>2. req[p].stage # "free" /\ ~req[p].final
          BY <1>3, <4>3, <5>1 DEF Following
        <5> QED
          BY <1>0, <1>1, <3>3, <5>1, <5>2 DEF TickChunks
      <4> QED
        BY <1>1, <4>2, <4>3 DEF BodyOnly
    <3> QED
      BY <3>1, <3>2, <3>3 DEF Bears
  <2> QED
    BY <1>0, <2>1, <2>2, <2>3
<1> QED
  BY <1>0, <1>1, <1>2, <1>5, <1>6 DEF Brought

\* A final chunk's handler has its agent on the line.
LEMMA FinalHeard ==
  ASSUME Typed, Brought, Undisturbed, verdict = "running", NEW q \in Slots, req[q].stage # "free", req[q].final
  PROVE  post = q /\ ~MayFail(q) /\ Applies(q)
<1>1. q = post
  BY DEF Brought, FinalChunks
<1>2. ~req[q].dead
  BY <1>1, ConstantsAssumption DEF Typed, Waiting
<1> QED
  BY <1>1, <1>2 DEF MayFail, Hung, Applies

LEMMA BroughtHandle ==
  ASSUME Typed, Brought, Undisturbed, verdict = "running", verdict' = "running",
         NEW q \in Slots, Handle(q) \/ ReadFails(q) \/ BodyCut(q) \/ DiskFull(q)
  PROVE  Bears(q) \/ (Frees(q) /\ ~req[q].final /\ UNCHANGED <<scn, offset>>)
<1>0. /\ TypeOK /\ Requests /\ offset \in Nat /\ scn.cap \in Nat
      /\ req[q].from \in Nat /\ req[q].to \in Nat /\ req[q].read \in Nat
  BY Numbers, ScenarioTyped, RowTyped, RowFields DEF Typed
<1>a. ASSUME req[q].stage # "free", req[q].final PROVE post = q /\ ~MayFail(q) /\ Applies(q)
  BY <1>a, FinalHeard
<1>b. ~Fault("dbError")
  BY DEF Fault, Undisturbed
<1>c. ASSUME offset' = offset, scn' = scn PROVE AtCap => AtCap'
  BY <1>c DEF AtCap
<1>d. ASSUME UNCHANGED <<scn, agentVars, offset>>, Hung(q), req[q].stage # "free", req' = [req EXCEPT ![q] = Free]
      PROVE  Frees(q) /\ ~req[q].final
  BY <1>0, <1>a, <1>d, FreeRow DEF Frees, Hung
<1>1. CASE Forget(q)
  BY <1>1, <1>d DEF Forget, serverVars
<1>2. CASE Admit(q)
  <2>1. /\ Others(q) /\ SameChunk(q) /\ req[q].stage = "sent" /\ UNCHANGED <<scn, agentVars, offset>>
        /\ \/ req'[q].stage \in {"admitted", "unredacted"}
           \/ req'[q].stage = "answer" /\ req'[q].reply = "unavailable"
    BY <1>0, <1>2, GotoRow, AnswerRow, StageNames DEF Admit
  <2> QED
    BY <1>c, <2>1 DEF Bears, Following
<1>3. CASE ReadOffset(q)
  <2>1. /\ Others(q) /\ SameChunk(q) /\ req[q].stage = "admitted" /\ UNCHANGED <<scn, agentVars, offset>>
        /\ \/ req'[q].stage = "past_cap"
           \/ req'[q].stage = "opening" /\ req[q].from = offset
           \/ req'[q].stage = "answer" /\ req'[q].reply = "refused"
           \/ req'[q].stage = "answer" /\ req'[q].reply = "mismatch" /\ req'[q].got = offset /\ ~AtCap
    BY <1>0, <1>3, GotoRow, AnswerRow, StageNames DEF ReadOffset, serverVars
  <2> QED
    BY <1>c, <2>1 DEF Bears, Following
<1>4. CASE OpenLog(q)
  <2>1. req[q].stage = "opening" /\ UNCHANGED <<scn, agentVars, offset>>
    BY <1>4 DEF OpenLog
  <2>2. Others(q) /\ SameChunk(q) /\ req'[q].stage = "writing"
    BY <1>0, <1>4, OpenRow
  <2> QED
    BY <1>c, <2>1, <2>2 DEF Bears, Following
<1>5. CASE StoreLine(q)
  <2>1. req[q].stage = "writing" /\ UNCHANGED <<scn, agentVars, offset>>
    BY <1>5 DEF StoreLine, More
  <2>2. Others(q) /\ SameChunk(q) /\ req'[q].stage = "writing"
    BY <1>0, <1>5, StoreRow
  <2> QED
    BY <1>c, <2>1, <2>2 DEF Bears, Following
<1>6. CASE ReadToEnd(q) \/ LineTooLong(q) \/ DiskFull(q) \/ (BodyCut(q) /\ More(q))
  <2>1. /\ Others(q) /\ SameChunk(q) /\ req[q].stage = "writing" /\ req'[q].stage = "commit"
        /\ UNCHANGED <<scn, offset>>
    BY <1>6, LeavesStep DEF Leaves
  <2>2. UNCHANGED agentVars
    BY <1>6 DEF ReadToEnd, LineTooLong, DiskFull, BodyCut
  <2>3. req[q].from < req[q].to /\ req[q].read = 0
    BY <1>0, <2>1 DEF Requests, Request
  <2>4. req'[q].from + req'[q].read <= req'[q].to
    <3>1. CASE ReadToEnd(q)
      BY <1>0, <2>3, <3>1, ReadRow DEF SameChunk
    <3>2. CASE LineTooLong(q)
      <4>1. SameChunk(q) /\ req'[q].read = 0
        BY <1>0, <2>3, <3>2, GotoRow, StageNames DEF LineTooLong, SameEnd
      <4> QED
        BY <1>0, <2>3, <4>1 DEF SameChunk
    <3>3. CASE DiskFull(q)
      BY <1>0, <3>3, FullRow DEF SameChunk
    <3>4. CASE BodyCut(q) /\ More(q)
      <4>1. req' = [req EXCEPT ![q].stage = "commit", ![q].dead = TRUE]
        BY <2>1, <3>4 DEF BodyCut
      <4>2. SameChunk(q) /\ req'[q].read = 0
        BY <1>0, <2>3, <4>1, CutRow
      <4> QED
        BY <1>0, <2>3, <4>2 DEF SameChunk
    <3> QED
      BY <1>6, <3>1, <3>2, <3>3, <3>4
  <2> QED
    BY <1>c, <2>1, <2>2, <2>4 DEF Bears, Following
<1>7. CASE BodyCut(q) /\ ~More(q)
  BY <1>7, <1>d DEF BodyCut, serverVars
<1>8. CASE ReachCap(q)
  <2>1. /\ Others(q) /\ SameChunk(q) /\ req[q].stage = "writing" /\ UNCHANGED <<scn, agentVars>>
        /\ \/ req'[q].stage = "answer" /\ req'[q].reply = "refused"
           \/ req'[q].stage = "commit" /\ req[q].final
    BY <1>0, <1>8, ReachRow DEF ReachCap, More
  <2>2. (offset' = scn.cap /\ scn.cap > 0) \/ offset' = offset
    BY <1>8 DEF ReachCap, CrossesCap
  <2>3. offset' = offset \/ AtCap'
    BY <1>0, <2>1, <2>2 DEF AtCap
  <2>4. AtCap => AtCap'
    BY <1>c, <2>1, <2>3
  <2> QED
    BY <2>1, <2>3, <2>4 DEF Bears, Following
<1>9. CASE Commit(q)
  <2>1. /\ Others(q) /\ SameChunk(q) /\ req[q].stage = "commit" /\ UNCHANGED <<scn, agentVars>>
        /\ \/ req'[q].stage = "end"
           \/ ~req[q].final /\ req'[q].stage = "answer"
    BY <1>0, <1>9, CommitRow DEF Commit
  <2>2. offset' = offset \/ offset' = offset + req[q].read
    BY <1>9 DEF Commit
  <2>3. AtCap => AtCap'
    BY <1>0, <2>1, <2>2 DEF AtCap
  <2> QED
    BY <2>1, <2>2, <2>3 DEF Bears, Following
<1>10. CASE EndRun(q)
  <2>1. /\ Answer(q, "ok") /\ req[q].stage = "end" /\ UNCHANGED <<scn, agentVars, offset>>
    BY <1>10, EndStep DEF EndRun
  <2>2. ~req[q].final
    <3>1. SUFFICES ASSUME req[q].final PROVE FALSE
      OBVIOUS
    <3>2. ~MayFail(q)
      BY <1>a, <2>1, <3>1
    <3> QED
      BY <1>10, <1>b, <3>2 DEF EndRun, FinalizeRun
  <2>3. Others(q) /\ SameChunk(q) /\ req'[q].stage = "answer"
    BY <1>0, <2>1, AnswerRow, StageNames
  <2> QED
    BY <1>c, <2>1, <2>2, <2>3 DEF Bears, Following
<1>11. CASE EndWithoutText(q)
  <2>1. req[q].stage \in {"unredacted", "past_cap"} /\ req[q].final
    BY <1>0, <1>11 DEF EndWithoutText, Requests, Request
  <2>2. ~MayFail(q) /\ ~Hung(q)
    BY <1>a, <2>1 DEF Hung
  <2> QED
    BY <1>11, <1>b, <2>1, <2>2 DEF EndWithoutText, FinalizeRun
<1>12. CASE ReadFails(q)
  BY <1>12, <1>b DEF ReadFails
<1> QED
  BY <1>1, <1>2, <1>3, <1>4, <1>5, <1>6, <1>7, <1>8, <1>9, <1>10, <1>11, <1>12 DEF Handle

\* A handler whose agent left is done.
LEMMA BroughtFrees ==
  ASSUME Brought, Undisturbed, verdict = "running", NEW q \in Slots,
         Frees(q), ~req[q].final, UNCHANGED <<scn, offset>>
  PROVE  Brought'
<1>1. /\ agent # "done" /\ (agent = "flushing" => committed <= produced)
      /\ TickChunks /\ FinalChunks /\ (AtCap \/ Taken \/ BodyOnly)
  BY DEF Brought
<1>2. /\ \A p \in Slots : p # q => req'[p] = req[p]
      /\ req'[q].stage = "free" /\ UNCHANGED <<agent, produced, committed, post>>
  BY DEF Frees, Others, agentVars, Free
<1>3. TickChunks'
  BY <1>1, <1>2 DEF TickChunks
<1>4. FinalChunks'
  BY <1>1, <1>2 DEF FinalChunks
<1>5. AtCap => AtCap'
  BY DEF AtCap
<1>6. Taken => Taken'
  BY <1>2 DEF Taken
<1>7. BodyOnly => BodyOnly'
  BY <1>2 DEF BodyOnly, Following
<1> QED
  BY <1>1, <1>2, <1>3, <1>4, <1>5, <1>6, <1>7 DEF Brought

\* The agent's own steps, and those of the world around, touch no request.
LEMMA BroughtIdle ==
  ASSUME Typed, Brought, Undisturbed, verdict = "running", UNCHANGED <<scn, req, offset>>,
         produced' \in Nat, produced <= produced',
         agent' # "done", agent' = "flushing" => committed' <= produced',
         \/ agent = "executing" /\ (agent' = "executing" => post' = post)
         \/ agent # "executing" /\ agent' # "executing" /\ UNCHANGED <<post, produced>>
  PROVE  Brought'
<1>0. /\ TickChunks /\ FinalChunks /\ (AtCap \/ Taken \/ BodyOnly)
      /\ produced \in Nat /\ offset \in Nat /\ \A q \in Slots : req[q].to \in Nat
  BY Numbers, RowTyped, RowFields DEF Typed, Brought
<1>1. TickChunks'
  BY <1>0 DEF TickChunks
<1>2. FinalChunks'
  <2>1. CASE agent = "executing"
    <3>1. \A q \in Slots : ~req[q].final
      BY <2>1 DEF Typed, Requests, Request
    <3> QED
      BY <3>1 DEF FinalChunks
  <2>2. CASE UNCHANGED <<post, produced>>
    BY <1>0, <2>2 DEF FinalChunks
  <2> QED
    BY <2>1, <2>2
<1>3. (AtCap => AtCap') /\ (Taken => Taken')
  BY DEF AtCap, Taken
<1>4. BodyOnly => BodyOnly'
  BY <1>0 DEF BodyOnly, Following
<1> QED
  BY <1>0, <1>1, <1>2, <1>3, <1>4 DEF Brought

LEMMA BroughtSend ==
  ASSUME Typed, Brought, Undisturbed, verdict = "running", Send
  PROVE  Brought'
<1>0. /\ TypeOK /\ TickChunks /\ FinalChunks /\ (AtCap \/ Taken \/ BodyOnly)
      /\ agent # "done" /\ (agent = "flushing" => committed <= produced)
      /\ post = None /\ None \notin Slots
      /\ UNCHANGED <<scn, agent, produced, committed, offset>>
  BY Numbers DEF Typed, Brought, Send, serverVars
<1>1. /\ post' \in Slots /\ \A p \in Slots : p # post' => req'[p] = req[p]
      /\ req[post'].stage = "free" /\ req'[post'].stage = "sent" /\ req'[post'].to = Total
      /\ req'[post'].final = (agent = "flushing")
  BY <1>0, SendRow DEF Typed, Others
<1>2. agent \in {"executing", "flushing"}
  BY <1>0, TypeNamed, Numbers DEF Typed, Waiting, Send
<1>3. agent = "executing" => \A p \in Slots : p # post' => req'[p].stage = "free" \/ req'[p].final
  BY <1>0, <1>1 DEF TickChunks
<1>4. TickChunks'
  <2>1. CASE agent = "executing"
    <3>1. produced \in Nat /\ Total = produced
      BY <2>1, Numbers DEF Total, Typed
    <3>2. req'[post'].to <= produced'
      BY <1>0, <1>1, <3>1
    <3>3. \A p \in Slots : req'[p].stage # "free" /\ ~req'[p].final => p = post'
      BY <1>3, <2>1
    <3> QED
      BY <1>1, <3>2, <3>3 DEF TickChunks
  <2>2. CASE agent = "flushing"
    <3>1. req'[post'].final /\ agent' # "executing"
      BY <1>0, <1>1, <2>2
    <3>2. \A p \in Slots : req'[p].stage # "free" /\ ~req'[p].final => p # post' /\ req'[p] = req[p]
      BY <1>1, <3>1
    <3> QED
      BY <1>0, <3>1, <3>2 DEF TickChunks
  <2> QED
    BY <1>2, <2>1, <2>2
<1>5. FinalChunks'
  BY <1>0, <1>1 DEF FinalChunks
<1>6. (AtCap => AtCap') /\ (Taken => Taken')
  BY <1>0, <1>1 DEF AtCap, Taken
<1>7. BodyOnly => BodyOnly'
  BY <1>0, <1>1 DEF BodyOnly, Following
<1> QED
  BY <1>0, <1>4, <1>5, <1>6, <1>7 DEF Brought

LEMMA BroughtReceive ==
  ASSUME Typed, Brought, Undisturbed, verdict = "running", NEW q \in Slots, Receive(q)
  PROVE  Brought'
<1>0. /\ TypeOK /\ TickChunks /\ FinalChunks /\ (AtCap \/ Taken \/ BodyOnly)
      /\ (agent = "flushing" => committed <= produced)
      /\ post = q /\ q # None /\ req[q].stage = "answer" /\ req' = [req EXCEPT ![q] = Free]
      /\ UNCHANGED <<scn, produced, offset>> /\ post' = None
      /\ produced \in Nat /\ Total \in Nat /\ req[q].got \in Nat
  BY Numbers, RowTyped, RowFields DEF Typed, Brought, Receive, serverVars
<1>1. /\ agent \in {"executing", "flushing"} /\ (req[q].final <=> agent = "flushing")
  BY <1>0, TypeNamed, Numbers DEF Typed, Waiting
<1>2. (\A p \in Slots : p # q => req'[p] = req[p]) /\ req'[q].stage = "free"
  BY <1>0, FreeRow DEF Others, Free
<1>4. agent' = agent /\ (agent = "flushing" => committed' <= produced)
  <2>1. agent = "executing" => agent' = agent
    BY DEF Receive
  <2>2. CASE agent = "flushing"
    <3>1. /\ req[q].reply \notin {"ok", "closed"}
          /\ req[q].reply = "mismatch" => req[q].got <= produced
      BY <1>0, <1>1, <2>2 DEF FinalChunks
    <3>2. agent' = agent
      BY <3>1 DEF Receive
    <3>3. CASE req[q].reply = "mismatch"
      <4>1. committed' = SetCommitted(req[q].got)
        BY <3>3 DEF Receive
      <4> QED
        BY <1>0, <3>1, <3>2, <3>3, <4>1 DEF SetCommitted, Smaller
    <3>4. CASE req[q].reply # "mismatch"
      <4>1. committed' = committed
        BY <3>1, <3>4 DEF Receive
      <4> QED
        BY <1>0, <2>2, <3>2, <4>1
    <3> QED
      BY <3>3, <3>4
  <2> QED
    BY <1>1, <2>1, <2>2
<1>5. TickChunks'
  <2>1. agent' = "executing" => \A p \in Slots : req'[p].stage # "free" => req'[p].final
    BY <1>0, <1>2, <1>4 DEF TickChunks
  <2> QED
    BY <1>0, <1>2, <1>4, <2>1 DEF TickChunks
<1>6. FinalChunks'
  BY <1>0, <1>2 DEF FinalChunks
<1>7. (AtCap => AtCap') /\ (Taken => Taken')
  BY <1>0, <1>2 DEF AtCap, Taken
<1>8. BodyOnly => BodyOnly'
  BY <1>0, <1>2 DEF BodyOnly, Following
<1> QED
  BY <1>0, <1>1, <1>4, <1>5, <1>6, <1>7, <1>8 DEF Brought

\* The run's end is on record for good.
LEMMA VerdictStays ==
  ASSUME Typed, [Next]_vars, verdict # "running"
  PROVE  verdict' = verdict
<1>1. CASE AgentNext
  BY <1>1 DEF AgentNext, WriteLine, Tick, Seal, Send, AllCommitted, Resend, Receive, serverVars
<1>2. CASE Environment
  BY <1>2 DEF Environment, Drop, Abort, Crash, CloseRun, LoseDictionary, RegainDictionary, GracePasses,
              ReadFails, BodyCut, DiskFull, serverVars
<1>3. ASSUME NEW q \in Slots, Handle(q) PROVE verdict' = verdict
  <2>1. CASE EndRun(q) \/ EndWithoutText(q)
    BY <2>1 DEF EndRun, EndWithoutText, FinalizeRun
  <2> QED
    BY <1>3, <2>1 DEF Handle, Admit, ReadOffset, OpenLog, StoreLine, ReadToEnd, LineTooLong, ReachCap,
                      Commit, Forget, serverVars
<1> QED
  BY <1>1, <1>2, <1>3 DEF Next, vars, serverVars

LEMMA BroughtStep ==
  ASSUME Typed, Typed', Brought, [Next]_vars PROVE Brought'
<1>0. scn' = scn
  BY ScenarioFixed
<1>1. SUFFICES ASSUME Undisturbed, verdict' = "running" PROVE Brought'
  BY <1>0 DEF Brought, Undisturbed
<1>2. verdict = "running"
  BY <1>1, VerdictStays
<1>3. agent # "done" /\ (agent = "flushing" => committed <= produced)
  BY <1>1, <1>2 DEF Brought
<1>4. /\ TypeOK /\ produced \in Nat /\ committed \in 0 .. Total /\ produced + 1 > produced
      /\ produced' \in Nat
  <2>1. produced \in Nat /\ produced' \in Nat /\ committed \in 0 .. Total
    <3>1. scn.lines \in Nat
      BY ScenarioTyped DEF Typed
    <3>2. produced' \in 0 .. scn.lines
      BY <1>0, TypeNext DEF Typed
    <3> QED
      BY <3>1, <3>2, Numbers DEF Typed
  <2> QED
    BY <2>1 DEF Typed
<1>5. CASE UNCHANGED vars
  BY <1>1, <1>2, <1>3, <1>4, <1>5, BroughtIdle DEF vars, agentVars, serverVars
<1>6. CASE WriteLine \/ Tick
  BY <1>1, <1>2, <1>3, <1>4, <1>6, BroughtIdle DEF WriteLine, Tick, serverVars
<1>7. CASE Seal
  <2>1. committed <= produced
    BY <1>4, <1>7 DEF Seal, Total
  <2> QED
    BY <1>1, <1>2, <1>4, <1>7, <2>1, BroughtIdle DEF Seal, serverVars
<1>8. CASE AllCommitted
  <2>1. agent # "flushing"
    BY <1>3, <1>4, <1>8 DEF AllCommitted, Total
  <2> QED
    BY <1>1, <1>2, <1>3, <1>4, <1>8, <2>1, BroughtIdle DEF AllCommitted, serverVars
<1>9. CASE Resend
  BY <1>1, <1>2, <1>3, <1>4, <1>9, BroughtIdle DEF Resend, serverVars
<1>10. CASE Abort \/ LoseDictionary \/ RegainDictionary \/ GracePasses
  BY <1>1, <1>2, <1>3, <1>4, <1>10, BroughtIdle
     DEF Abort, LoseDictionary, RegainDictionary, GracePasses, serverVars, agentVars
<1>11. ~CloseRun /\ ~Drop /\ ~Crash
  BY <1>1 DEF CloseRun, Drop, Crash, Fault, Undisturbed
<1>12. CASE Send
  BY <1>1, <1>2, <1>12, BroughtSend
<1>13. ASSUME NEW q \in Slots, Receive(q) PROVE Brought'
  BY <1>1, <1>2, <1>13, BroughtReceive
<1>14. ASSUME NEW q \in Slots, Handle(q) \/ ReadFails(q) \/ BodyCut(q) \/ DiskFull(q) PROVE Brought'
  BY <1>1, <1>2, <1>14, BroughtHandle, BroughtBears, BroughtFrees
<1> QED
  BY <1>5, <1>6, <1>7, <1>8, <1>9, <1>10, <1>11, <1>12, <1>13, <1>14 DEF Next, AgentNext, Environment

\* Where no connection breaks, no server dies and no statement fails, an agent that
\* stops sending the end of a run has brought it to the server, whatever becomes of
\* the log (HandleIngestLog's three statements, flushTerminal).
THEOREM EndReaches == Spec => []EndIsBrought
<1>1. Init => Typed /\ Brought
  <2>1. Init => Brought
    BY DEF Init, Brought, TickChunks, FinalChunks, BodyOnly, Following, Free
  <2> QED
    BY <2>1, TypeInit
<1>2. Typed /\ Brought /\ [Next]_vars => Typed' /\ Brought'
  BY TypeStep, BroughtStep
<1>3. Brought => EndIsBrought
  BY DEF Brought, EndIsBrought, EndReachesServer
<1> QED
  BY <1>1, <1>2, <1>3, PTL DEF Spec

=============================================================================
