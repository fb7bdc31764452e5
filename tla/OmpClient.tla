------------------------------ MODULE OmpClient ------------------------------
(***************************************************************************)
(* The host's client of one OMP process                                    *)
(* (packages/omp-adapter/src/client.ts, OmpRpcClient, and framing.ts): the *)
(* handshake, requests and their answers, the write queue with its         *)
(* back-pressure, the reader, and the escalating shutdown, beside a child  *)
(* process that may answer, babble, ignore EOF and signals, or die.        *)
(*                                                                         *)
(* Actions are stretches of code between two awaits, and the events Node   *)
(* raises for the child and its pipes.                                     *)
(***************************************************************************)
EXTENDS Naturals, Sequences, FiniteSets

CONSTANTS
  Requests,         \* requests callers make once the client is ready
  Sides,            \* side-channel frames callers send (answers to OMP)
  Nego,             \* the negotiate_protocol request of the handshake
  MaxOutput,        \* bound: lines of OMP not yet read
  MaxNoise          \* bound: events and broken lines OMP ever writes

ASSUME ClientAssumption ==
  /\ IsFiniteSet(Requests) /\ IsFiniteSet(Sides) /\ Requests \cap Sides = {}
  /\ Nego \notin Requests \cup Sides
  /\ MaxOutput \in Nat /\ MaxNoise \in Nat

Commands == Requests \cup {Nego}
Ids == Commands \cup Sides

VARIABLES
  \* the client: #phase, #readError, the ready promise and frame, the two
  \* decoders' state (#protocolV2Enabled, an unfinished chunk sequence)
  phase, readError, readyP, v2, chunk,
  \* suspended coroutines: #start and #closeProcess
  startP, closeP,
  \* #pending with its dispatched flags, #writeQueue, the write awaiting drain
  pending, dispatched, queue, blocked, stdinEnded,
  \* how each request or send ended
  outcome,
  \* the child: process, its stdout, and what it will still do
  child, stdout, output, noise,
  \* history: what was written to the child's stdin, what it answered
  written, answered

clientVars == <<phase, readError, readyP, v2, chunk>>
coVars     == <<startP, closeP>>
writeVars  == <<queue, blocked, stdinEnded, written>>
callVars   == <<pending, dispatched, outcome>>
childVars  == <<child, stdout, output, noise, answered>>
vars == <<clientVars, coVars, writeVars, callVars, childVars>>

Nobody == "nobody"
Phases == <<"new", "starting", "ready", "closing", "closed">>
Rank(p) == CHOOSE n \in DOMAIN Phases : Phases[n] = p

\* Lines of OMP: its ready frame (supported or not), an answer, the two halves
\* of an event sent as rpc_chunk frames, and a line that is no frame.
Lines == [t : {"ready", "unsupported", "first", "second", "broken"}] \cup
         [t : {"ack", "error"}, r : Commands]
Line(t) == [t |-> t]

Init ==
  /\ phase = "new" /\ readError = FALSE /\ readyP = "pending" /\ v2 = FALSE /\ chunk = FALSE
  /\ startP = "no" /\ closeP = "no"
  /\ pending = {} /\ dispatched = {} /\ outcome = [i \in Ids |-> "none"]
  /\ queue = <<>> /\ blocked = Nobody /\ stdinEnded = FALSE /\ written = {}
  /\ child = "none" /\ stdout = "open" /\ output = <<>> /\ noise = 0 /\ answered = {}

----------------------------------------------------------------------------
\* Pieces of the code.  The operators named Faulty... are not part of the
\* system: each is a plausible slip in the definition below it, and the
\* project checks that the properties notice it.

\* #failRequests and #rejectReady.
FailedBy(why) == [i \in Ids |-> IF i \in pending THEN why ELSE outcome[i]]

FaultyReadyRejected == readyP
ReadyRejected == IF readyP = "pending" THEN "rejected" ELSE readyP

\* close(): the first caller starts #closeProcess, which rejects what is
\* pending and ends stdin; later callers share its promise.
BeginClose(why) ==
  /\ pending' = {} /\ outcome' = FailedBy(why)
  /\ readyP' = ReadyRejected
  /\ IF closeP # "no"
     THEN UNCHANGED <<closeP, phase, stdinEnded>>
     ELSE /\ phase' = IF phase \in {"new", "closed"} \/ child = "none" THEN "closed" ELSE "closing"
          /\ closeP' = IF child = "none" THEN "ok" ELSE "eof"
          /\ stdinEnded' = TRUE
  /\ UNCHANGED <<dispatched, queue, blocked, written>>

\* #failProtocol, which only the first error gets past.
FailProtocol ==
  IF readError THEN UNCHANGED <<clientVars, closeP, callVars, writeVars>>
  ELSE /\ readError' = TRUE
       /\ IF phase = "closed"
          THEN /\ pending' = {} /\ outcome' = FailedBy("protocol")
               /\ readyP' = ReadyRejected
               /\ UNCHANGED <<phase, closeP, dispatched, writeVars>>
          ELSE BeginClose("protocol")
       /\ UNCHANGED <<v2, chunk>>

----------------------------------------------------------------------------
\* Starting: spawn, the ready frame, negotiation.

Spawn ==
  /\ phase = "new" /\ closeP = "no"
  /\ phase' = "starting" /\ child' = "alive" /\ startP' = "ready?"
  /\ UNCHANGED <<readError, readyP, v2, chunk, closeP, writeVars, callVars,
                 stdout, output, noise, answered>>

\* spawn threw: start() closes a client that has no child, and rethrows.
SpawnThrows ==
  /\ phase = "new" /\ closeP = "no"
  /\ phase' = "closed" /\ readyP' = "rejected"
  /\ startP' = "failed" /\ closeP' = "ok"
  /\ UNCHANGED <<readError, v2, chunk, writeVars, callVars, childVars>>

Enqueue(i) == queue' = Append(queue, i)

\* The continuation behind the ready promise: negotiate, unless the client is
\* already on its way down.
ReadyArrived ==
  /\ startP = "ready?" /\ readyP = "resolved"
  /\ IF phase = "starting"
     THEN /\ startP' = "nego"
          /\ pending' = pending \cup {Nego}
          /\ Enqueue(Nego)
     ELSE startP' = "catch" /\ UNCHANGED <<pending, queue>>
  /\ UNCHANGED <<clientVars, closeP, dispatched, outcome, blocked, stdinEnded,
                 written, childVars>>

ReadyRefused ==
  /\ startP = "ready?" /\ readyP = "rejected"
  /\ startP' = "catch"
  /\ UNCHANGED <<clientVars, closeP, writeVars, callVars, childVars>>

FaultyNegotiated ==
  /\ startP = "nego" /\ outcome[Nego] # "none"
  /\ IF outcome[Nego] = "ok"
     THEN startP' = "ok" /\ phase' = "ready" /\ v2' = TRUE
     ELSE startP' = "catch" /\ UNCHANGED <<phase, v2>>
  /\ UNCHANGED <<readError, readyP, chunk, closeP, writeVars, callVars, childVars>>

\* The stdout callback that delivered the answer may have met an error since.
Negotiated ==
  /\ startP = "nego" /\ outcome[Nego] # "none"
  /\ IF outcome[Nego] = "ok" /\ ~readError /\ phase = "starting"
     THEN startP' = "ok" /\ phase' = "ready" /\ v2' = TRUE
     ELSE startP' = "catch" /\ UNCHANGED <<phase, v2>>
  /\ UNCHANGED <<readError, readyP, chunk, closeP, writeVars, callVars, childVars>>

\* start() closes what failed to start, and only then rejects.
StartCatches ==
  /\ startP = "catch"
  /\ startP' = "closing"
  /\ BeginClose("closed")
  /\ UNCHANGED <<readError, v2, chunk, childVars>>

StartFails ==
  /\ startP = "closing" /\ closeP \in {"ok", "failed"}
  /\ startP' = "failed"
  /\ UNCHANGED <<clientVars, closeP, writeVars, callVars, childVars>>

ReadyTimeout ==
  /\ phase = "starting"
  /\ FailProtocol
  /\ UNCHANGED <<startP, childVars>>

----------------------------------------------------------------------------
\* Requests, side-channel frames and the write queue.

Request(r) ==
  /\ phase = "ready" /\ outcome[r] = "none" /\ r \notin pending
  /\ pending' = pending \cup {r}
  /\ Enqueue(r)
  /\ UNCHANGED <<clientVars, coVars, dispatched, outcome, blocked, stdinEnded,
                 written, childVars>>

FaultySendSide(s) ==
  /\ phase = "ready" /\ outcome[s] = "none" /\ s \notin pending
  /\ pending' = pending \cup {s}
  /\ Enqueue(s)
  /\ UNCHANGED <<clientVars, coVars, dispatched, outcome, blocked, stdinEnded,
                 written, childVars>>

\* A side-channel frame expects no answer and has no timer of its own.
SendSide(s) ==
  /\ phase = "ready" /\ outcome[s] = "none"
  /\ outcome' = [outcome EXCEPT ![s] = "queued"]
  /\ Enqueue(s)
  /\ UNCHANGED <<clientVars, coVars, pending, dispatched, blocked, stdinEnded,
                 written, childVars>>

\* A failed write rejects its own promise: a request that is still pending, or
\* the send of a side-channel frame.
Fail(i) ==
  /\ outcome' = IF i \in pending \cup Sides THEN [outcome EXCEPT ![i] = "failed"] ELSE outcome
  /\ pending' = pending \ {i}

Written(i) == outcome' = IF i \in Sides THEN [outcome EXCEPT ![i] = "ok"] ELSE outcome

FaultyStillWanted(i) == TRUE

\* A request that expired or failed while it was queued is not written.
StillWanted(i) == i \in pending \cup Sides

SkipWrite ==
  /\ queue # <<>> /\ blocked = Nobody /\ ~StillWanted(Head(queue))
  /\ queue' = Tail(queue)
  /\ UNCHANGED <<clientVars, coVars, blocked, stdinEnded, written, callVars, childVars>>

\* stdin has ended, or broke when the child died.
StdinGone == stdinEnded \/ child # "alive"

WriteRefused ==
  /\ queue # <<>> /\ blocked = Nobody /\ StillWanted(Head(queue)) /\ StdinGone
  /\ Fail(Head(queue))
  /\ queue' = Tail(queue)
  /\ UNCHANGED <<clientVars, coVars, dispatched, blocked, stdinEnded, written, childVars>>

\* The frame is handed to the pipe, which takes it or asks to wait for drain.
Write ==
  /\ queue # <<>> /\ blocked = Nobody /\ StillWanted(Head(queue)) /\ ~stdinEnded
  /\ LET i == Head(queue) IN
     /\ dispatched' = dispatched \cup {i}
     /\ written' = written \cup {i}
     /\ queue' = Tail(queue)
     /\ \/ Written(i) /\ UNCHANGED blocked
        \/ blocked' = i /\ UNCHANGED outcome
  /\ UNCHANGED <<clientVars, coVars, pending, stdinEnded, childVars>>

Drain ==
  /\ blocked # Nobody /\ child = "alive"
  /\ Written(blocked)
  /\ blocked' = Nobody
  /\ UNCHANGED <<clientVars, coVars, pending, dispatched, queue, stdinEnded,
                 written, childVars>>

\* The pipe broke under a write that waited, or under nothing: an error event
\* on stdin rejects every pending request, a close only the waiting write.
StdinError ==
  /\ child = "exited"
  /\ blocked # Nobody \/ pending # {}
  /\ outcome' = [i \in Ids |-> IF i \in pending \/ (i = blocked /\ i \in Sides)
                               THEN "failed" ELSE outcome[i]]
  /\ pending' = {} /\ blocked' = Nobody
  /\ UNCHANGED <<clientVars, coVars, dispatched, queue, stdinEnded, written, childVars>>

TimeoutOutcome(r) == IF r \in dispatched THEN "unknown" ELSE "notDispatched"

RequestTimeout(r) ==
  /\ r \in pending
  /\ outcome' = [outcome EXCEPT ![r] = TimeoutOutcome(r)]
  /\ pending' = pending \ {r}
  /\ UNCHANGED <<clientVars, coVars, dispatched, writeVars, childVars>>

----------------------------------------------------------------------------
\* Reading stdout.

\* #handleFrame of an answer: to the request that asked, once.
Answer(line) ==
  IF line.r \in pending
  THEN /\ outcome' = [outcome EXCEPT ![line.r] = IF line.t = "ack" THEN "ok" ELSE "refused"]
       /\ pending' = pending \ {line.r}
       /\ v2' = (v2 \/ (line.r = Nego /\ line.t = "ack"))
       /\ UNCHANGED <<dispatched, readyP>>
  ELSE UNCHANGED <<callVars, v2, readyP>>

\* The logical frame of a line that is not a chunk.
Deliver(line) ==
  CASE line.t \in {"ack", "error"} ->
         Answer(line) /\ UNCHANGED <<phase, readError, chunk, closeP, writeVars>>
    [] line.t = "ready" /\ phase = "starting" ->
         /\ readyP' = IF readyP = "pending" THEN "resolved" ELSE readyP
         /\ UNCHANGED <<phase, readError, v2, chunk, closeP, writeVars, callVars>>
    [] line.t = "unsupported" /\ phase = "starting" /\ readyP = "pending" -> FailProtocol
    [] OTHER -> UNCHANGED <<clientVars, closeP, writeVars, callVars>>

\* What the decoders make of a line: only a whole chunk sequence, begun after
\* negotiation, is a frame, and nothing may come between its parts.
WellFormed(line) ==
  CASE line.t = "broken" -> FALSE
    [] line.t = "first" -> v2 /\ ~chunk
    [] line.t = "second" -> v2 /\ chunk
    [] OTHER -> ~chunk

ReadLine ==
  /\ output # <<>> /\ stdout = "open"
  /\ output' = Tail(output)
  /\ LET line == Head(output) IN
     CASE phase = "closed" -> UNCHANGED <<clientVars, closeP, writeVars, callVars>>
       [] phase # "closed" /\ ~WellFormed(line) -> FailProtocol
       [] phase # "closed" /\ WellFormed(line) /\ line.t = "first" ->
            chunk' = TRUE /\ UNCHANGED <<phase, readError, readyP, v2, closeP, writeVars, callVars>>
       [] phase # "closed" /\ WellFormed(line) /\ line.t = "second" ->
            chunk' = FALSE /\ UNCHANGED <<phase, readError, readyP, v2, closeP, writeVars, callVars>>
       [] OTHER -> Deliver(line)
  /\ UNCHANGED <<startP, child, stdout, noise, answered>>

\* One data event is decoded into lines before any of them is handled: a broken
\* one takes the lines of the same event down with it.
LoseBatch ==
  /\ stdout = "open" /\ phase # "closed"
  /\ \E n \in 2 .. Len(output) :
       /\ \E m \in 1 .. n : output[m].t = "broken"
       /\ output' = SubSeq(output, n + 1, Len(output))
  /\ FailProtocol
  /\ UNCHANGED <<startP, child, stdout, noise, answered>>

\* The end of stdout: unfinished chunks and an unexpected end are errors.
StdoutEnds ==
  /\ child = "exited" /\ stdout = "open" /\ output = <<>>
  /\ stdout' = "ended"
  /\ IF phase \in {"closing", "closed"} /\ ~(chunk /\ phase # "closed")
     THEN UNCHANGED <<clientVars, closeP, writeVars, callVars>>
     ELSE FailProtocol
  /\ UNCHANGED <<startP, child, output, noise, answered>>

----------------------------------------------------------------------------
\* The end of the process.

FaultyExitEvent ==
  /\ child = "dying"
  /\ child' = "exited"
  /\ phase' = IF phase \in {"closing", "closed"} THEN phase ELSE "closing"
  /\ pending' = {} /\ outcome' = FailedBy("exited")
  /\ UNCHANGED <<readError, readyP, v2, chunk, coVars, dispatched, writeVars, stdout,
                 output, noise, answered>>

\* No more commands are taken, but what OMP said last is still to be read.
ExitEvent ==
  /\ child = "dying"
  /\ child' = "exited"
  /\ phase' = IF phase \in {"closing", "closed"} THEN phase ELSE "closing"
  /\ UNCHANGED <<readError, readyP, v2, chunk, coVars, writeVars, callVars, stdout,
                 output, noise, answered>>

\* #waitForStdioClose after an exit nobody asked for.
StdioStuck ==
  /\ child = "exited" /\ stdout \in {"open", "ended"} /\ closeP = "no"
  /\ FailProtocol
  /\ UNCHANGED <<startP, childVars>>

CloseEvent ==
  /\ child = "exited" /\ stdout = "ended"
  /\ stdout' = "closed"
  /\ phase' = "closed"
  /\ pending' = {} /\ outcome' = FailedBy("exited")
  /\ readyP' = ReadyRejected
  /\ UNCHANGED <<readError, v2, chunk, coVars, dispatched, writeVars, child, output,
                 noise, answered>>

\* The caller closes the client (start() has returned it).
CallerCloses ==
  /\ startP = "ok" /\ closeP = "no"
  /\ BeginClose("closed")
  /\ UNCHANGED <<readError, v2, chunk, startP, childVars>>

\* #closeProcess: wait for the exit, then TERM, then KILL, then drain stdout.
Exited == child = "exited"
Escalation == [eof |-> "term", term |-> "kill"]

Reaped ==
  /\ closeP \in {"eof", "term", "kill"} /\ Exited
  /\ closeP' = "drain"
  /\ UNCHANGED <<clientVars, startP, writeVars, callVars, childVars>>

GraceOver ==
  /\ closeP \in {"eof", "term"} /\ ~Exited
  /\ closeP' = Escalation[closeP]
  /\ UNCHANGED <<clientVars, startP, writeVars, callVars, childVars>>

NotReaped ==
  /\ closeP = "kill" /\ ~Exited
  /\ closeP' = "failed"
  /\ UNCHANGED <<clientVars, startP, writeVars, callVars, childVars>>

\* The streams are destroyed: nothing more is read or written.
Closed(how) ==
  /\ closeP' = how
  /\ phase' = "closed"
  /\ Fail(blocked) /\ blocked' = Nobody
  /\ UNCHANGED <<readError, readyP, v2, chunk, startP, dispatched, queue, stdinEnded,
                 written, child, noise, answered>>

FaultyCloseDrained ==
  closeP = "drain" /\ Closed("ok") /\ UNCHANGED <<stdout, output>>

CloseDrained ==
  /\ closeP = "drain" /\ stdout = "closed"
  /\ Closed("ok") /\ UNCHANGED <<stdout, output>>

DrainTimeout ==
  /\ closeP = "drain" /\ stdout # "closed"
  /\ Closed("failed") /\ stdout' = "closed" /\ output' = <<>>

----------------------------------------------------------------------------
\* OMP (external).

Says(line) == Len(output) < MaxOutput /\ stdout = "open" /\ output' = Append(output, line)

OmpReady ==
  /\ child = "alive" /\ answered = {} /\ output = <<>> /\ readyP = "pending"
  /\ \E t \in {"ready", "unsupported"} : Says(Line(t))
  /\ UNCHANGED <<clientVars, coVars, writeVars, callVars, child, stdout, noise, answered>>

OmpAnswers(r) ==
  /\ child = "alive" /\ r \in written \ answered
  /\ \E t \in {"ack", "error"} : Says([t |-> t, r |-> r])
  /\ answered' = answered \cup {r}
  /\ UNCHANGED <<clientVars, coVars, writeVars, callVars, child, stdout, noise>>

OmpNoise ==
  /\ child = "alive" /\ noise < MaxNoise
  /\ \E t \in {"first", "second", "broken"} : Says(Line(t))
  /\ noise' = noise + 1
  /\ UNCHANGED <<clientVars, coVars, writeVars, callVars, child, stdout, answered>>

\* OMP stops: of itself, at EOF, or killed by a signal.
OmpDies ==
  /\ child = "alive"
  /\ child' = "dying"
  /\ UNCHANGED <<clientVars, coVars, writeVars, callVars, stdout, output, noise, answered>>

----------------------------------------------------------------------------

ReaderStep == ReadLine \/ LoseBatch \/ StdoutEnds
CloseStep ==
  \/ Reaped \/ GraceOver \/ NotReaped \/ CloseDrained \/ DrainTimeout
StartStep ==
  \/ ReadyArrived \/ ReadyRefused \/ Negotiated \/ StartCatches \/ StartFails
WriterStep == SkipWrite \/ WriteRefused \/ Write
ChildStep == OmpReady \/ (\E r \in Commands : OmpAnswers(r)) \/ OmpNoise \/ OmpDies

Next ==
  \/ Spawn \/ SpawnThrows \/ StartStep \/ ReadyTimeout
  \/ \E r \in Requests : Request(r)
  \/ \E s \in Sides : SendSide(s)
  \/ WriterStep \/ Drain \/ StdinError
  \/ \E r \in Commands : RequestTimeout(r)
  \/ ReaderStep \/ ExitEvent \/ StdioStuck \/ CloseEvent
  \/ CallerCloses \/ CloseStep
  \/ ChildStep

\* Timers fire and promise callbacks run; Node reports what the child did.
\* Nothing is assumed of OMP: it may stay silent, keep stdout open and, until
\* it is killed, live on.
Fairness ==
  /\ WF_vars(StartStep) /\ WF_vars(ReadyTimeout) /\ WF_vars(CloseStep)
  /\ WF_vars(StdioStuck)
  /\ WF_vars(ReadLine) /\ WF_vars(ExitEvent)
  /\ WF_vars(WriterStep)
  /\ \A r \in Commands : WF_vars(RequestTimeout(r))

Spec == Init /\ [][Next]_vars /\ Fairness

----------------------------------------------------------------------------
\* Properties.

Outcomes == {"none", "queued", "ok", "refused", "failed", "unknown", "notDispatched",
             "protocol", "closed", "exited"}

TypeOK ==
  /\ phase \in {Phases[n] : n \in DOMAIN Phases}
  /\ readError \in BOOLEAN /\ v2 \in BOOLEAN /\ chunk \in BOOLEAN
  /\ readyP \in {"pending", "resolved", "rejected"}
  /\ startP \in {"no", "ready?", "nego", "ok", "catch", "closing", "failed"}
  /\ closeP \in {"no", "eof", "term", "kill", "drain", "ok", "failed"}
  /\ pending \subseteq Commands /\ dispatched \subseteq Ids
  /\ outcome \in [Ids -> Outcomes]
  /\ queue \in Seq(Ids) /\ blocked \in Ids \cup {Nobody} /\ stdinEnded \in BOOLEAN
  /\ written \subseteq Ids /\ answered \subseteq Commands
  /\ child \in {"none", "alive", "dying", "exited"}
  /\ stdout \in {"open", "ended", "closed"}
  /\ output \in Seq(Lines) /\ noise \in Nat

\* A request reported as not dispatched has not been written and never will be,
\* however late the pipe drains: the caller may send it again.
NotDispatchedIsFinal ==
  \A r \in Commands : outcome[r] = "notDispatched" => r \notin written

\* What the process answered before it died reaches the caller: the exit alone
\* fails no request whose answer is still in the pipe.
LastWordsAreRead ==
  \A n \in DOMAIN output :
    output[n].t \in {"ack", "error"} => outcome[output[n].r] # "exited"

\* A client that began to close, or met a protocol error, is never ready again.
NoResurrection ==
  [][Rank(phase') >= Rank(phase) /\ (phase' = "ready" /\ phase # "ready" => ~readError')]_vars

\* A close that succeeds has reaped the process and read all of its output.
CloseMeansReaped ==
  closeP = "ok" => /\ child \in {"none", "exited"}
                   /\ child = "exited" => stdout = "closed" /\ output = <<>>
                   /\ pending = {}

\* start() always settles, and so do close() and every request: on a silent, a
\* babbling, a frozen and a dead process alike.
AllSettles ==
  /\ (startP # "no") ~> (startP \in {"ok", "failed"})
  /\ (closeP # "no") ~> (closeP \in {"ok", "failed"})
  /\ \A r \in Commands : (r \in pending) ~> (r \notin pending)
=============================================================================
