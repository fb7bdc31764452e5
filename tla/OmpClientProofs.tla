--------------------------- MODULE OmpClientProofs ---------------------------
(***************************************************************************)
(* Theorems about OmpClient, for any requests, side-channel frames and     *)
(* bounds: what a caller is told of a request it may send again, of the    *)
(* last words of a process that died, and of a close, is true; and a       *)
(* client only ever moves towards its end.                                 *)
(*                                                                         *)
(* The invariant says why.  A request leaves #pending when its outcome is  *)
(* known, only pending requests are written, and what is written is what   *)
(* is marked dispatched; the exit fails requests when stdout has been read *)
(* to its end; and a client that closes takes no more requests.            *)
(***************************************************************************)
EXTENDS OmpClient, TLAPS

\* #pending holds the requests without an outcome; negotiation is the first.
Unanswered ==
  /\ \A r \in pending : outcome[r] = "none"
  /\ startP \in {"no", "ready?"} => Nego \notin pending /\ outcome[Nego] = "none"

\* The dispatched flag is set with the write.
Flagged == dispatched = written

\* The end of stdout comes after its last line, and "exited" after the end.
Piped ==
  /\ stdout # "open" => output = <<>>
  /\ \A i \in Ids : outcome[i] = "exited" => stdout = "closed"

\* Before it starts a client has no process; once it closes it has no requests,
\* and stdout is drained only of a process that is gone.
Staged ==
  /\ phase = "new" => child = "none" /\ pending = {} /\ startP = "no"
  /\ closeP # "no" => phase \in {"closing", "closed"} /\ pending = {}
  /\ closeP = "drain" => child = "exited"

IInv ==
  /\ TypeOK /\ Unanswered /\ Flagged /\ Piped /\ Staged
  /\ NotDispatchedIsFinal /\ CloseMeansReaped
----------------------------------------------------------------------------
\* Lines, and the order of the phases.

\* A line of OMP has a kind, and an answer names the command it answers.
LEMMA LineFacts ==
  ASSUME NEW line \in Lines
  PROVE  /\ line.t \in {"ready", "unsupported", "first", "second", "broken", "ack", "error"}
         /\ line.t \in {"ack", "error"} => line.r \in Commands
  BY DEF Lines

\* The phases are in the order of a client's life.
LEMMA RankOrder ==
  /\ Rank("new") = 1 /\ Rank("starting") = 2 /\ Rank("ready") = 3
  /\ Rank("closing") = 4 /\ Rank("closed") = 5
  <1>1. DOMAIN Phases = 1 .. 5  BY DEF Phases
  <1>2. ASSUME NEW k \in 1 .. 5  PROVE Rank(Phases[k]) = k
    <2>1. \A n \in DOMAIN Phases : Phases[n] = Phases[k] => n = k
      BY <1>1, <1>2 DEF Phases
    <2> QED  BY <1>1, <2>1 DEF Rank
  <1> QED  BY <1>2 DEF Phases


\* The phases by name.
LEMMA PhaseNames ==
  {Phases[n] : n \in DOMAIN Phases} = {"new", "starting", "ready", "closing", "closed"}
  <1>1. DOMAIN Phases = 1 .. 5  BY DEF Phases
  <1>2. \A n \in 1 .. 5 : n = 1 \/ n = 2 \/ n = 3 \/ n = 4 \/ n = 5  OBVIOUS
  <1> QED  BY <1>1, <1>2 DEF Phases

\* Negotiation, requests and side-channel frames are different ids.
LEMMA IdsApart ==
  /\ Commands \cap Sides = {} /\ Commands \subseteq Ids /\ Sides \subseteq Ids
  /\ Nego \in Commands /\ Requests \subseteq Commands \ {Nego}
  BY ClientAssumption DEF Commands, Ids
----------------------------------------------------------------------------
\* Closing, which errors of the protocol, failed starts and callers begin.

\* What may meanwhile become of stdout.
PipeMoves ==
  /\ stdout' = stdout \/ (stdout = "open" /\ stdout' = "ended")
  /\ output' \in Seq(Lines) /\ (stdout' # "open" => output' = <<>>)

\* What closing a client leaves of the invariant, whatever else is unchanged.
LEMMA BeginCloseKeeps ==
  ASSUME IInv, NEW why \in {"protocol", "closed"}, BeginClose(why),
         readError' \in BOOLEAN, UNCHANGED <<v2, chunk, child, noise, answered>>,
         startP' \in {startP, "closing"},
         PipeMoves
  PROVE  IInv'
  <1> USE DEF PipeMoves
  <1>1. TypeOK'
    <2>1. outcome' \in [Ids -> Outcomes]
      BY DEF IInv, TypeOK, BeginClose, FailedBy, Outcomes
    <2>2. phase' \in {Phases[n] : n \in DOMAIN Phases}
      BY PhaseNames DEF IInv, TypeOK, BeginClose
    <2>3. /\ readyP' \in {"pending", "resolved", "rejected"}
          /\ closeP' \in {"no", "eof", "term", "kill", "drain", "ok", "failed"}
          /\ stdinEnded' \in BOOLEAN
      BY DEF IInv, TypeOK, BeginClose, ReadyRejected
    <2> QED  BY <2>1, <2>2, <2>3 DEF IInv, TypeOK, BeginClose
  <1>2. Unanswered' /\ Flagged'
    BY IdsApart DEF IInv, BeginClose, FailedBy, Unanswered, Flagged
  <1>3. Piped'
    BY DEF IInv, BeginClose, FailedBy, Piped
  <1>4. Staged'
    BY DEF IInv, BeginClose, Staged
  <1>5. NotDispatchedIsFinal'
    BY DEF IInv, TypeOK, BeginClose, FailedBy, NotDispatchedIsFinal
  <1>6. CloseMeansReaped'
    BY DEF IInv, BeginClose, CloseMeansReaped
  <1> QED  BY <1>1, <1>2, <1>3, <1>4, <1>5, <1>6 DEF IInv

\* So does a protocol error, whether it is the first or the client is closed.
LEMMA FailProtocolKeeps ==
  ASSUME IInv, FailProtocol, UNCHANGED <<startP, child, noise, answered>>, PipeMoves
  PROVE  IInv'
  <1>1. CASE readError
    <2>1. TypeOK'
      BY <1>1 DEF IInv, TypeOK, FailProtocol, PipeMoves, clientVars, callVars, writeVars
    <2> QED
      BY <1>1, <2>1
        DEF IInv, FailProtocol, PipeMoves, clientVars, callVars, writeVars, Unanswered,
           Flagged, Piped, Staged, NotDispatchedIsFinal, CloseMeansReaped, TypeOK
  <1>2. CASE ~readError /\ phase = "closed"
    <2>1. outcome' = FailedBy("protocol") /\ pending' = {}
      BY <1>2 DEF FailProtocol
    <2>2. outcome' \in [Ids -> Outcomes]
      BY <2>1 DEF IInv, TypeOK, FailedBy, Outcomes
    <2>3. TypeOK'
      BY <1>2, <2>1, <2>2 DEF IInv, TypeOK, FailProtocol, ReadyRejected, PipeMoves, writeVars
    <2>4. Unanswered' /\ Flagged' /\ NotDispatchedIsFinal'
      BY <1>2, <2>1, IdsApart DEF IInv, FailProtocol, FailedBy, Unanswered, Flagged,
           NotDispatchedIsFinal, writeVars
    <2>5. Piped' /\ Staged' /\ CloseMeansReaped'
      BY <1>2, <2>1 DEF IInv, FailProtocol, FailedBy, Piped, Staged, CloseMeansReaped,
           PipeMoves, writeVars
    <2> QED  BY <2>3, <2>4, <2>5 DEF IInv
  <1>3. CASE ~readError /\ phase # "closed"
    <2>1. BeginClose("protocol") /\ readError' = TRUE /\ UNCHANGED <<v2, chunk>>
      BY <1>3 DEF FailProtocol
    <2> QED  BY <2>1, BeginCloseKeeps
  <1> QED  BY <1>1, <1>2, <1>3

\* stdout as it was.
LEMMA PipeRests == ASSUME IInv, UNCHANGED <<stdout, output>>  PROVE PipeMoves
  BY DEF IInv, TypeOK, Piped, PipeMoves
----------------------------------------------------------------------------
\* The actions keep the invariant.

\* Starting: the process, its ready frame, the negotiation.
LEMMA StartKeeps ==
  ASSUME IInv, Spawn \/ SpawnThrows \/ ReadyArrived \/ ReadyRefused \/ Negotiated \/
         StartCatches \/ StartFails \/ ReadyTimeout
  PROVE  IInv'
  <1> USE DEF clientVars, coVars, writeVars, callVars, childVars
  <1>1. CASE Spawn
    <2>1. TypeOK'
      BY <1>1, PhaseNames DEF IInv, TypeOK, Spawn
    <2>2. Unanswered' /\ Flagged' /\ NotDispatchedIsFinal'
      BY <1>1 DEF IInv, Unanswered, Flagged, NotDispatchedIsFinal, Staged, Spawn
    <2>3. Piped' /\ Staged' /\ CloseMeansReaped'
      BY <1>1 DEF IInv, Piped, Staged, CloseMeansReaped, Spawn
    <2> QED  BY <2>1, <2>2, <2>3 DEF IInv
  <1>2. CASE SpawnThrows
    <2>1. TypeOK'
      BY <1>2, PhaseNames DEF IInv, TypeOK, SpawnThrows
    <2>2. Unanswered' /\ Flagged' /\ NotDispatchedIsFinal'
      BY <1>2 DEF IInv, Unanswered, Flagged, NotDispatchedIsFinal, SpawnThrows
    <2>3. Piped' /\ Staged' /\ CloseMeansReaped'
      BY <1>2 DEF IInv, Piped, Staged, CloseMeansReaped, SpawnThrows
    <2> QED  BY <2>1, <2>2, <2>3 DEF IInv
  <1>3. CASE ReadyArrived
    <2>1. TypeOK'
      BY <1>3, PhaseNames, IdsApart, SMTT(30) DEF IInv, TypeOK, Outcomes, ReadyArrived, Enqueue
    <2>2. Unanswered' /\ Flagged' /\ NotDispatchedIsFinal'
      BY <1>3 DEF IInv, Unanswered, Flagged, NotDispatchedIsFinal, ReadyArrived, Enqueue
    <2>3. Piped' /\ Staged' /\ CloseMeansReaped'
      BY <1>3 DEF IInv, Piped, Staged, CloseMeansReaped, ReadyArrived, Enqueue
    <2> QED  BY <2>1, <2>2, <2>3 DEF IInv
  <1>4. CASE ReadyRefused
    <2>1. TypeOK'
      BY <1>4 DEF IInv, TypeOK, ReadyRefused
    <2>2. Unanswered' /\ Flagged' /\ NotDispatchedIsFinal'
      BY <1>4 DEF IInv, Unanswered, Flagged, NotDispatchedIsFinal, ReadyRefused
    <2>3. Piped' /\ Staged' /\ CloseMeansReaped'
      BY <1>4 DEF IInv, Piped, Staged, CloseMeansReaped, ReadyRefused
    <2> QED  BY <2>1, <2>2, <2>3 DEF IInv
  <1>5. CASE Negotiated
    <2>1. phase' \in {Phases[k] : k \in DOMAIN Phases}
      BY <1>5, PhaseNames DEF IInv, TypeOK, Negotiated
    <2>2. startP' \in {"ok", "catch"} /\ v2' \in BOOLEAN
      BY <1>5 DEF IInv, TypeOK, Negotiated
    <2>3. TypeOK'
      BY <1>5, <2>1, <2>2 DEF IInv, TypeOK, Negotiated
    <2>4. Unanswered' /\ Flagged' /\ NotDispatchedIsFinal'
      BY <1>5 DEF IInv, Unanswered, Flagged, NotDispatchedIsFinal, Negotiated
    <2>5. Piped' /\ Staged' /\ CloseMeansReaped'
      BY <1>5 DEF IInv, Piped, Staged, CloseMeansReaped, Negotiated
    <2> QED  BY <2>3, <2>4, <2>5 DEF IInv
  <1>6. CASE StartCatches
    <2>1. BeginClose("closed") /\ startP' = "closing" /\ readError' = readError
          /\ UNCHANGED <<v2, chunk, childVars>>
      BY <1>6 DEF StartCatches
    <2>2. readError' \in BOOLEAN /\ PipeMoves
      BY <2>1, PipeRests DEF IInv, TypeOK
    <2> QED  BY <2>1, <2>2, BeginCloseKeeps
  <1>7. CASE StartFails
    <2>1. TypeOK'
      BY <1>7 DEF IInv, TypeOK, StartFails
    <2>2. Unanswered' /\ Flagged' /\ NotDispatchedIsFinal'
      BY <1>7 DEF IInv, Unanswered, Flagged, NotDispatchedIsFinal, StartFails
    <2>3. Piped' /\ Staged' /\ CloseMeansReaped'
      BY <1>7 DEF IInv, Piped, Staged, CloseMeansReaped, StartFails
    <2> QED  BY <2>1, <2>2, <2>3 DEF IInv
  <1>8. CASE ReadyTimeout
    BY <1>8, PipeRests, FailProtocolKeeps DEF ReadyTimeout
  <1> QED  BY <1>1, <1>2, <1>3, <1>4, <1>5, <1>6, <1>7, <1>8

\* Requests, frames, writes and their deadlines.
LEMMA CallKeeps ==
  ASSUME IInv, (\E r \in Requests : Request(r)) \/ (\E s \in Sides : SendSide(s)) \/
         SkipWrite \/ WriteRefused \/ Write \/ Drain \/ StdinError \/
         (\E r \in Commands : RequestTimeout(r))
  PROVE  IInv'
  <1> USE DEF clientVars, coVars, writeVars, callVars, childVars
  <1>1. CASE (\E r \in Requests : Request(r))
    <2>1. TypeOK'
      BY <1>1, IdsApart DEF IInv, TypeOK, Request, Enqueue
    <2>2. Unanswered' /\ Flagged' /\ NotDispatchedIsFinal'
      BY <1>1, IdsApart DEF IInv, Unanswered, Flagged, NotDispatchedIsFinal, Request, Enqueue
    <2>3. Piped' /\ Staged' /\ CloseMeansReaped'
      BY <1>1 DEF IInv, Piped, Staged, CloseMeansReaped, Request, Enqueue
    <2> QED  BY <2>1, <2>2, <2>3 DEF IInv
  <1>2. CASE (\E s \in Sides : SendSide(s))
    <2>1. TypeOK'
      BY <1>2, IdsApart DEF IInv, TypeOK, Outcomes, SendSide, Enqueue
    <2>2. Unanswered' /\ Flagged' /\ NotDispatchedIsFinal'
      BY <1>2, IdsApart
        DEF IInv, TypeOK, Unanswered, Flagged, NotDispatchedIsFinal, SendSide, Enqueue
    <2>3. Piped' /\ Staged' /\ CloseMeansReaped'
      BY <1>2 DEF IInv, Piped, Staged, CloseMeansReaped, SendSide, Enqueue
    <2> QED  BY <2>1, <2>2, <2>3 DEF IInv
  <1>3. CASE SkipWrite
    <2>1. TypeOK'
      BY <1>3 DEF IInv, TypeOK, SkipWrite
    <2>2. Unanswered' /\ Flagged' /\ NotDispatchedIsFinal'
      BY <1>3 DEF IInv, Unanswered, Flagged, NotDispatchedIsFinal, SkipWrite
    <2>3. Piped' /\ Staged' /\ CloseMeansReaped'
      BY <1>3 DEF IInv, Piped, Staged, CloseMeansReaped, SkipWrite
    <2> QED  BY <2>1, <2>2, <2>3 DEF IInv
  <1>4. CASE WriteRefused
    <2>1. TypeOK'
      BY <1>4 DEF IInv, TypeOK, Outcomes, WriteRefused, Fail, StillWanted, StdinGone
    <2>2. Unanswered' /\ Flagged' /\ NotDispatchedIsFinal'
      BY <1>4, IdsApart
        DEF IInv, Unanswered, Flagged, NotDispatchedIsFinal, WriteRefused, Fail, StillWanted,
            StdinGone
    <2>3. Piped' /\ Staged' /\ CloseMeansReaped'
      BY <1>4
        DEF IInv, Piped, Staged, CloseMeansReaped, WriteRefused, Fail, StillWanted, StdinGone
    <2> QED  BY <2>1, <2>2, <2>3 DEF IInv
  <1>5. CASE Write
    <2>1. TypeOK'
      BY <1>5 DEF IInv, TypeOK, Outcomes, Write, Written, StillWanted
    <2>2. Unanswered' /\ Flagged' /\ NotDispatchedIsFinal'
      BY <1>5, IdsApart
        DEF IInv, TypeOK, Unanswered, Flagged, NotDispatchedIsFinal, Write, Written, StillWanted
    <2>3. Piped' /\ Staged' /\ CloseMeansReaped'
      BY <1>5 DEF IInv, TypeOK, Piped, Staged, CloseMeansReaped, Write, Written, StillWanted
    <2> QED  BY <2>1, <2>2, <2>3 DEF IInv
  <1>6. CASE Drain
    <2>1. TypeOK'
      BY <1>6 DEF IInv, TypeOK, Outcomes, Drain, Written
    <2>2. Unanswered' /\ Flagged' /\ NotDispatchedIsFinal'
      BY <1>6, IdsApart
        DEF IInv, TypeOK, Unanswered, Flagged, NotDispatchedIsFinal, Drain, Written
    <2>3. Piped' /\ Staged' /\ CloseMeansReaped'
      BY <1>6 DEF IInv, Piped, Staged, CloseMeansReaped, Drain, Written
    <2> QED  BY <2>1, <2>2, <2>3 DEF IInv
  <1>7. CASE StdinError
    <2>1. TypeOK'
      BY <1>7 DEF IInv, TypeOK, Outcomes, StdinError
    <2>2. Unanswered' /\ Flagged' /\ NotDispatchedIsFinal'
      BY <1>7, IdsApart DEF IInv, Unanswered, Flagged, NotDispatchedIsFinal, StdinError
    <2>3. Piped' /\ Staged' /\ CloseMeansReaped'
      BY <1>7 DEF IInv, Piped, Staged, CloseMeansReaped, StdinError
    <2> QED  BY <2>1, <2>2, <2>3 DEF IInv
  <1>8. CASE (\E r \in Commands : RequestTimeout(r))
    <2>1. TypeOK'
      BY <1>8, IdsApart DEF IInv, TypeOK, Outcomes, RequestTimeout, TimeoutOutcome
    <2>2. Unanswered' /\ Flagged' /\ NotDispatchedIsFinal'
      BY <1>8
        DEF IInv, Unanswered, Flagged, NotDispatchedIsFinal, RequestTimeout, TimeoutOutcome
    <2>3. Piped' /\ Staged' /\ CloseMeansReaped'
      BY <1>8 DEF IInv, Piped, Staged, CloseMeansReaped, RequestTimeout, TimeoutOutcome
    <2> QED  BY <2>1, <2>2, <2>3 DEF IInv
  <1> QED  BY <1>1, <1>2, <1>3, <1>4, <1>5, <1>6, <1>7, <1>8

\* An answer settles the request that waits for it; no other line settles any.
LEMMA DeliverKeeps ==
  ASSUME IInv, NEW line \in Lines, Deliver(line), stdout = "open",
         UNCHANGED <<startP, child, stdout, noise, answered>>, output' \in Seq(Lines)
  PROVE  IInv'
  <1> USE DEF clientVars, callVars, writeVars
  <1>0. PipeMoves  BY DEF PipeMoves
  <1>1. CASE line.t \in {"ack", "error"}
    <2>1. line.r \in Commands  BY <1>1, LineFacts
    <2>2. Answer(line) /\ UNCHANGED <<phase, readError, chunk, closeP, writeVars>>
      BY <1>1 DEF Deliver
    <2>3. TypeOK'
      <3>1. outcome' \in [Ids -> Outcomes] /\ pending' \subseteq Commands /\ v2' \in BOOLEAN
            /\ UNCHANGED <<dispatched, readyP>>
        BY <2>1, <2>2 DEF IInv, TypeOK, Outcomes, Answer
      <3> QED  BY <2>2, <3>1 DEF IInv, TypeOK
    <2>4. Unanswered' /\ Flagged' /\ NotDispatchedIsFinal'
      BY <2>1, <2>2, IdsApart
        DEF IInv, TypeOK, Unanswered, Flagged, NotDispatchedIsFinal, Answer
    <2>5. Piped' /\ Staged' /\ CloseMeansReaped'
      BY <2>1, <2>2 DEF IInv, TypeOK, Piped, Staged, CloseMeansReaped, Answer
    <2> QED  BY <2>3, <2>4, <2>5 DEF IInv
  <1>2. CASE line.t \notin {"ack", "error"} /\ FailProtocol
    BY <1>0, <1>2, FailProtocolKeeps
  <1>3. CASE line.t \notin {"ack", "error"} /\ ~FailProtocol
    <2>1. /\ readyP' \in {readyP, "resolved"}
          /\ UNCHANGED <<phase, readError, v2, chunk, closeP, writeVars, callVars>>
      BY <1>3 DEF Deliver
    <2>2. TypeOK'  BY <2>1 DEF IInv, TypeOK
    <2> QED 
      BY <2>1, <2>2
        DEF IInv, Unanswered, Flagged, NotDispatchedIsFinal, Piped, Staged, CloseMeansReaped
  <1> QED  BY <1>1, <1>2, <1>3

\* Reading stdout: a line, a lost batch, the end.
LEMMA ReadKeeps ==
  ASSUME IInv, ReaderStep
  PROVE  IInv'
  <1> USE DEF clientVars, callVars, writeVars
  <1>1. CASE ReadLine
    <2> DEFINE line == Head(output)
    <2>1. /\ line \in Lines /\ output' \in Seq(Lines) /\ stdout = "open"
          /\ UNCHANGED <<startP, child, stdout, noise, answered>>
      BY <1>1 DEF ReadLine, IInv, TypeOK
    <2>2. PipeMoves  BY <2>1 DEF PipeMoves
    <2>3. \/ FailProtocol
          \/ Deliver(line)
          \/ chunk' \in BOOLEAN /\ UNCHANGED <<phase, readError, readyP, v2, closeP, writeVars, callVars>>
      BY <1>1 DEF ReadLine, IInv, TypeOK
    <2>4. CASE FailProtocol  BY <2>1, <2>2, <2>4, FailProtocolKeeps
    <2>5. CASE Deliver(line)  BY <2>1, <2>5, DeliverKeeps
    <2>6. CASE chunk' \in BOOLEAN /\ UNCHANGED <<phase, readError, readyP, v2, closeP, writeVars, callVars>>
      <3>1. TypeOK'  BY <2>1, <2>6 DEF IInv, TypeOK
      <3> QED 
        BY <2>1, <2>6, <3>1
          DEF IInv, Unanswered, Flagged, NotDispatchedIsFinal, Piped, Staged, CloseMeansReaped
    <2> QED  BY <2>3, <2>4, <2>5, <2>6
  <1>2. CASE LoseBatch
    <2>1. PICK k \in 2 .. Len(output) : output' = SubSeq(output, k + 1, Len(output))
      BY <1>2 DEF LoseBatch
    <2>2. output' \in Seq(Lines)  BY <2>1 DEF IInv, TypeOK
    <2>3. PipeMoves  BY <1>2, <2>2 DEF LoseBatch, PipeMoves
    <2> QED  BY <1>2, <2>3, FailProtocolKeeps DEF LoseBatch
  <1>3. CASE StdoutEnds
    <2>1. PipeMoves /\ UNCHANGED <<startP, child, output, noise, answered>> /\ stdout' = "ended" /\ output = <<>>
          /\ stdout = "open"
      BY <1>3 DEF StdoutEnds, PipeMoves, IInv
    <2>2. CASE FailProtocol  BY <2>1, <2>2, FailProtocolKeeps
    <2>3. CASE UNCHANGED <<clientVars, closeP, writeVars, callVars>>
      <3>1. TypeOK'  BY <2>1, <2>3 DEF IInv, TypeOK
      <3> QED 
        BY <2>1, <2>3, <3>1
          DEF IInv, Unanswered, Flagged, NotDispatchedIsFinal, Piped, Staged, CloseMeansReaped
    <2> QED  BY <1>3, <2>2, <2>3 DEF StdoutEnds
  <1> QED  BY <1>1, <1>2, <1>3 DEF ReaderStep

\* The end of the process and of the client.
LEMMA EndKeeps ==
  ASSUME IInv, ExitEvent \/ StdioStuck \/ CloseEvent \/ CallerCloses \/ Reaped \/
         GraceOver \/ NotReaped \/ CloseDrained \/ DrainTimeout
  PROVE  IInv'
  <1> USE DEF clientVars, coVars, writeVars, callVars, childVars
  <1>1. CASE ExitEvent
    <2>1. phase' \in {Phases[k] : k \in DOMAIN Phases}
      BY <1>1, PhaseNames DEF IInv, ExitEvent
    <2>2. TypeOK'
      BY <1>1, <2>1 DEF IInv, TypeOK, ExitEvent
    <2>3. Unanswered' /\ Flagged' /\ NotDispatchedIsFinal'
      BY <1>1 DEF IInv, Unanswered, Flagged, NotDispatchedIsFinal, ExitEvent
    <2>4. Piped' /\ Staged' /\ CloseMeansReaped'
      BY <1>1 DEF IInv, Piped, Staged, CloseMeansReaped, ExitEvent
    <2> QED  BY <2>2, <2>3, <2>4 DEF IInv
  <1>2. CASE StdioStuck
    BY <1>2, PipeRests, FailProtocolKeeps DEF StdioStuck
  <1>3. CASE CloseEvent
    <2>1. phase' \in {Phases[k] : k \in DOMAIN Phases}
      BY <1>3, PhaseNames DEF IInv, CloseEvent, FailedBy, ReadyRejected
    <2>2. outcome' \in [Ids -> Outcomes]
      BY <1>3 DEF IInv, TypeOK, Outcomes, CloseEvent, FailedBy, ReadyRejected
    <2>3. TypeOK'
      BY <1>3, <2>1, <2>2 DEF IInv, TypeOK, CloseEvent, FailedBy, ReadyRejected
    <2>4. Unanswered' /\ Flagged' /\ NotDispatchedIsFinal'
      BY <1>3, IdsApart
        DEF IInv, Unanswered, Flagged, NotDispatchedIsFinal, CloseEvent, FailedBy, ReadyRejected
    <2>5. Piped' /\ Staged' /\ CloseMeansReaped'
      BY <1>3 DEF IInv, Piped, Staged, CloseMeansReaped, CloseEvent, FailedBy, ReadyRejected
    <2> QED  BY <2>3, <2>4, <2>5 DEF IInv
  <1>4. CASE CallerCloses
    <2>1. BeginClose("closed") /\ UNCHANGED <<readError, v2, chunk, startP, childVars>>
      BY <1>4 DEF CallerCloses
    <2>2. readError' \in BOOLEAN /\ PipeMoves
      BY <2>1, PipeRests DEF IInv, TypeOK
    <2> QED  BY <2>1, <2>2, BeginCloseKeeps
  <1>5. CASE Reaped
    <2>1. TypeOK'
      BY <1>5 DEF IInv, TypeOK, Reaped, Exited
    <2>2. Unanswered' /\ Flagged' /\ NotDispatchedIsFinal'
      BY <1>5 DEF IInv, Unanswered, Flagged, NotDispatchedIsFinal, Reaped, Exited
    <2>3. Piped' /\ Staged' /\ CloseMeansReaped'
      BY <1>5 DEF IInv, Piped, Staged, CloseMeansReaped, Reaped, Exited
    <2> QED  BY <2>1, <2>2, <2>3 DEF IInv
  <1>6. CASE GraceOver
    <2>1. TypeOK'
      BY <1>6 DEF IInv, TypeOK, GraceOver, Exited, Escalation
    <2>2. Unanswered' /\ Flagged' /\ NotDispatchedIsFinal'
      BY <1>6 DEF IInv, Unanswered, Flagged, NotDispatchedIsFinal, GraceOver, Exited, Escalation
    <2>3. Piped' /\ Staged' /\ CloseMeansReaped'
      BY <1>6 DEF IInv, Piped, Staged, CloseMeansReaped, GraceOver, Exited, Escalation
    <2> QED  BY <2>1, <2>2, <2>3 DEF IInv
  <1>7. CASE NotReaped
    <2>1. TypeOK'
      BY <1>7 DEF IInv, TypeOK, NotReaped, Exited
    <2>2. Unanswered' /\ Flagged' /\ NotDispatchedIsFinal'
      BY <1>7 DEF IInv, Unanswered, Flagged, NotDispatchedIsFinal, NotReaped, Exited
    <2>3. Piped' /\ Staged' /\ CloseMeansReaped'
      BY <1>7 DEF IInv, Piped, Staged, CloseMeansReaped, NotReaped, Exited
    <2> QED  BY <2>1, <2>2, <2>3 DEF IInv
  <1>8. CASE CloseDrained
    <2>1. TypeOK'
      BY <1>8, PhaseNames, ZenonT(40) DEF IInv, TypeOK, Outcomes, CloseDrained, Closed, Fail
    <2>2. Unanswered' /\ Flagged' /\ NotDispatchedIsFinal'
      BY <1>8, IdsApart
        DEF IInv, Unanswered, Flagged, NotDispatchedIsFinal, CloseDrained, Closed, Fail
    <2>3. Piped' /\ Staged' /\ CloseMeansReaped'
      BY <1>8 DEF IInv, Piped, Staged, CloseMeansReaped, CloseDrained, Closed, Fail
    <2> QED  BY <2>1, <2>2, <2>3 DEF IInv
  <1>9. CASE DrainTimeout
    <2>1. phase' \in {Phases[k] : k \in DOMAIN Phases}
      BY <1>9, PhaseNames DEF IInv, DrainTimeout, Closed, Fail
    <2>2. outcome' \in [Ids -> Outcomes]
      BY <1>9 DEF IInv, TypeOK, Outcomes, DrainTimeout, Closed, Fail
    <2>3. TypeOK'
      BY <1>9, <2>1, <2>2 DEF IInv, TypeOK, DrainTimeout, Closed, Fail
    <2>4. Unanswered' /\ Flagged' /\ NotDispatchedIsFinal'
      BY <1>9, IdsApart
        DEF IInv, Unanswered, Flagged, NotDispatchedIsFinal, DrainTimeout, Closed, Fail
    <2>5. Piped' /\ Staged' /\ CloseMeansReaped'
      BY <1>9 DEF IInv, Piped, Staged, CloseMeansReaped, DrainTimeout, Closed, Fail
    <2> QED  BY <2>3, <2>4, <2>5 DEF IInv
  <1> QED  BY <1>1, <1>2, <1>3, <1>4, <1>5, <1>6, <1>7, <1>8, <1>9

\* What the process does.
LEMMA ChildKeeps ==
  ASSUME IInv, OmpReady \/ (\E r \in Commands : OmpAnswers(r)) \/ OmpNoise \/ OmpDies
  PROVE  IInv'
  <1> USE DEF clientVars, coVars, writeVars, callVars, childVars
  <1>1. CASE OmpReady
    <2>1. TypeOK'
      BY <1>1 DEF IInv, TypeOK, OmpReady, Says, Line, Lines
    <2>2. Unanswered' /\ Flagged' /\ NotDispatchedIsFinal'
      BY <1>1 DEF IInv, Unanswered, Flagged, NotDispatchedIsFinal, OmpReady, Says, Line, Lines
    <2>3. Piped' /\ Staged' /\ CloseMeansReaped'
      BY <1>1 DEF IInv, Piped, Staged, CloseMeansReaped, OmpReady, Says, Line, Lines
    <2> QED  BY <2>1, <2>2, <2>3 DEF IInv
  <1>2. CASE (\E r \in Commands : OmpAnswers(r))
    <2>1. TypeOK'
      BY <1>2 DEF IInv, TypeOK, OmpAnswers, Says, Lines
    <2>2. Unanswered' /\ Flagged' /\ NotDispatchedIsFinal'
      BY <1>2 DEF IInv, Unanswered, Flagged, NotDispatchedIsFinal, OmpAnswers, Says, Lines
    <2>3. Piped' /\ Staged' /\ CloseMeansReaped'
      BY <1>2 DEF IInv, Piped, Staged, CloseMeansReaped, OmpAnswers, Says, Lines
    <2> QED  BY <2>1, <2>2, <2>3 DEF IInv
  <1>3. CASE OmpNoise
    <2>1. TypeOK'
      BY <1>3 DEF IInv, TypeOK, OmpNoise, Says, Line, Lines
    <2>2. Unanswered' /\ Flagged' /\ NotDispatchedIsFinal'
      BY <1>3 DEF IInv, Unanswered, Flagged, NotDispatchedIsFinal, OmpNoise, Says, Line, Lines
    <2>3. Piped' /\ Staged' /\ CloseMeansReaped'
      BY <1>3 DEF IInv, Piped, Staged, CloseMeansReaped, OmpNoise, Says, Line, Lines
    <2> QED  BY <2>1, <2>2, <2>3 DEF IInv
  <1>4. CASE OmpDies
    <2>1. TypeOK'
      BY <1>4 DEF IInv, TypeOK, OmpDies
    <2>2. Unanswered' /\ Flagged' /\ NotDispatchedIsFinal'
      BY <1>4 DEF IInv, Unanswered, Flagged, NotDispatchedIsFinal, OmpDies
    <2>3. Piped' /\ Staged' /\ CloseMeansReaped'
      BY <1>4 DEF IInv, Piped, Staged, CloseMeansReaped, OmpDies
    <2> QED  BY <2>1, <2>2, <2>3 DEF IInv
  <1> QED  BY <1>1, <1>2, <1>3, <1>4

\* A new client satisfies the invariant, and every step keeps it.
THEOREM Initial == Init => IInv
  <1> SUFFICES ASSUME Init PROVE IInv  OBVIOUS
  <1>1. TypeOK
    <2>1. phase \in {Phases[k] : k \in DOMAIN Phases}  BY PhaseNames DEF Init
    <2>2. outcome \in [Ids -> Outcomes] /\ pending \subseteq Commands /\ answered \subseteq Commands
      BY DEF Init, Outcomes
    <2>3. queue \in Seq(Ids) /\ output \in Seq(Lines) /\ blocked \in Ids \cup {Nobody} /\ noise \in Nat
      BY DEF Init
    <2> QED  BY <2>1, <2>2, <2>3 DEF Init, TypeOK
  <1> QED
    BY <1>1, IdsApart
      DEF Init, IInv, Unanswered, Flagged, Piped, Staged, NotDispatchedIsFinal, CloseMeansReaped

LEMMA Inductive == ASSUME IInv, [Next]_vars PROVE IInv'
  <1>1. CASE UNCHANGED vars
    <2>1. TypeOK'
      BY <1>1 DEF IInv, TypeOK, vars, clientVars, coVars, writeVars, callVars, childVars
    <2> QED
      BY <1>1, <2>1
        DEF IInv, Unanswered, Flagged, Piped, Staged, NotDispatchedIsFinal, CloseMeansReaped,
           vars, clientVars, coVars, writeVars, callVars, childVars
  <1>2. CASE Next
    BY <1>2, StartKeeps, CallKeeps, ReadKeeps, EndKeeps, ChildKeeps
      DEF Next, StartStep, WriterStep, CloseStep, ChildStep
  <1> QED  BY <1>1, <1>2

\* The invariant of the client, for every size.
THEOREM ClientInvariance == Spec => []IInv
  BY Initial, Inductive, PTL DEF Spec

\* The fields of the client have their types.
THEOREM TypeCorrect == Spec => []TypeOK
  <1>1. IInv => TypeOK  BY DEF IInv
  <1> QED  BY <1>1, ClientInvariance, PTL

\* A request reported as not dispatched was not written and never will be, so the
\* caller may send it again (client.ts, the timer of request and #flush).
THEOREM SafeToSendAgain == Spec => []NotDispatchedIsFinal
  <1>1. IInv => NotDispatchedIsFinal  BY DEF IInv
  <1> QED  BY <1>1, ClientInvariance, PTL

\* An exit alone fails no request whose answer is still in the pipe: "exited" is
\* said when stdout has been read to its end.
THEOREM LastWords == Spec => []LastWordsAreRead
  <1>1. IInv => LastWordsAreRead
    BY LineFacts, IdsApart DEF IInv, TypeOK, Piped, LastWordsAreRead
  <1> QED  BY <1>1, ClientInvariance, PTL

\* A close that succeeds has reaped the process and read all it wrote.
THEOREM CloseReaps == Spec => []CloseMeansReaped
  <1>1. IInv => CloseMeansReaped  BY DEF IInv
  <1> QED  BY <1>1, ClientInvariance, PTL
----------------------------------------------------------------------------
\* Where a step may take the phase.

Onward ==
  \/ phase' = phase
  \/ phase = "new" /\ phase' = "starting"
  \/ phase = "starting" /\ phase' = "ready" /\ ~readError'
  \/ phase # "closed" /\ phase' = "closing"
  \/ phase' = "closed"

LEMMA BeginCloseOnward == \A why : BeginClose(why) => Onward
  BY DEF BeginClose, Onward

LEMMA FailProtocolOnward == FailProtocol => Onward
  BY BeginCloseOnward DEF FailProtocol, Onward, clientVars

LEMMA StepOnward == [Next]_vars => Onward
  <1> USE DEF Onward, clientVars, coVars
  <1>1. Spawn \/ SpawnThrows \/ StartStep \/ ReadyTimeout => Onward
    BY BeginCloseOnward, FailProtocolOnward
      DEF Spawn, SpawnThrows, StartStep, ReadyArrived, ReadyRefused, Negotiated, StartCatches, StartFails,
          ReadyTimeout
  <1>2. (\E r \in Requests : Request(r)) \/ (\E r \in Sides : SendSide(r)) => Onward
    BY DEF Request, SendSide
  <1>3. WriterStep \/ Drain \/ StdinError \/ (\E r \in Commands : RequestTimeout(r)) => Onward
    BY DEF WriterStep, SkipWrite, WriteRefused, Write, Drain, StdinError, RequestTimeout
  <1>4. ReaderStep => Onward
    BY FailProtocolOnward DEF ReaderStep, ReadLine, LoseBatch, StdoutEnds, Deliver
  <1>5. ExitEvent \/ StdioStuck \/ CloseEvent \/ CallerCloses \/ CloseStep => Onward
    BY BeginCloseOnward, FailProtocolOnward
      DEF ExitEvent, StdioStuck, CloseEvent, CallerCloses, CloseStep, Reaped, GraceOver, NotReaped, CloseDrained,
          DrainTimeout, Closed
  <1>6. ChildStep => Onward
    BY DEF ChildStep, OmpReady, OmpAnswers, OmpNoise, OmpDies
  <1>7. UNCHANGED vars => Onward
    BY DEF vars
  <1> QED  BY <1>1, <1>2, <1>3, <1>4, <1>5, <1>6, <1>7 DEF Next

\* A client that began to close, or met a protocol error, is never ready again,
\* whatever arrives for the start that is still suspended.
THEOREM NeverReadyAgain == Spec => NoResurrection
  <1>1. ASSUME IInv, IInv', [Next]_vars
        PROVE  Rank(phase') >= Rank(phase) /\ (phase' = "ready" /\ phase # "ready" => ~readError')
    <2>1. phase \in {"new", "starting", "ready", "closing", "closed"} /\ phase' \in {"new", "starting", "ready", "closing", "closed"}
      BY <1>1, PhaseNames DEF IInv, TypeOK
    <2>2. Onward  BY <1>1, StepOnward
    <2> QED  BY <2>1, <2>2, RankOrder DEF Onward
  <1> QED  BY <1>1, ClientInvariance, PTL DEF Spec, NoResurrection
=============================================================================
