----------------------------- MODULE CediaSession -----------------------------
(***************************************************************************)
(* One session of the Mac host (apps/host/src/service.ts, CediaHost) with  *)
(* the two tables of its durable store it writes (store.ts: sessions,      *)
(* commands), the OMP process it owns, and the crashes and restarts of     *)
(* either process.  Sessions share no state but the host process, so one   *)
(* session is modelled; what stops the host stops it.                      *)
(*                                                                         *)
(* The host is one JavaScript event loop.  An action is a stretch of code  *)
(* between two awaits; Calm says that no promise continuation is pending,  *)
(* which is when the loop takes up the next request, timer or I/O event.   *)
(***************************************************************************)
EXTENDS Naturals, Sequences, FiniteSets

CONSTANTS
  Cmds,             \* command ids that clients of the session use
  NoCmd,            \* no command
  MaxInc,           \* bound: OMP processes started for the session
  MaxDowns,         \* bound: crashes, shutdowns and fatal errors of the host
  MaxWaiting,       \* bound: calls queued behind one stop
  PipeMayLeak,      \* a child of OMP may keep OMP's stdout open after OMP exits
  JournalMayFail    \* recording a frame may throw (disk, oversized frame)

ASSUME CmdsAssumption == NoCmd \notin Cmds
ASSUME BoundsAssumption ==
  /\ MaxInc \in Nat
  /\ MaxDowns \in Nat
  /\ MaxWaiting \in Nat
ASSUME SwitchAssumption == PipeMayLeak \in BOOLEAN /\ JournalMayFail \in BOOLEAN

VARIABLES
  \* durable: rows of the sessions and commands tables
  sess, inc, status, req,
  \* the Runtime object: phase of its OmpRpcClient and the fields the code reads
  client, rtInc, closing, faulted, active, known,
  \* suspended coroutines: #starting, #stopping and its waiters, #inflight
  starting, stopping, after, disp,
  \* the host process, and frames of a runtime it has already given up on
  up, stray, downs,
  \* the OMP process and its pipes
  alive, held, inbox, turn, wire, orphan,
  \* history: writes to OMP's stdin, and commands OMP has finished with
  sent, sentTo, done

storeVars   == <<sess, inc, status, req>>
runtimeVars == <<client, rtInc, closing, faulted, active, known>>
callVars    == <<starting, stopping, after, disp>>
hostVars    == <<up, stray, downs>>
ompVars     == <<alive, held, inbox, turn, wire, orphan>>
historyVars == <<sent, sentTo, done>>
vars == <<storeVars, runtimeVars, callVars, hostVars, ompVars, historyVars>>

Kinds == {"turn", "simple"}   \* prompt and abort_and_prompt; every other command
Pending == {"claimed", "acknowledged"}
Terminal == {"completed", "failed", "outcome_unknown", "not_dispatched"}
FrameKinds == {"ack", "local", "fail", "start", "result", "end"}
Frames == [t : FrameKinds, c : Cmds \cup {NoCmd}]
Frame(t, c) == [t |-> t, c |-> c]

NoRequest == [kind |-> "simple", inc |-> 0]

Init ==
  /\ sess = "idle" /\ inc = 0
  /\ status = [c \in Cmds |-> "none"]
  /\ req = [c \in Cmds |-> NoRequest]
  /\ client = "none" /\ rtInc = 0 /\ closing = FALSE /\ faulted = FALSE
  /\ active = NoCmd /\ known = {}
  /\ starting = "no" /\ stopping = "no" /\ after = <<>>
  /\ disp = [c \in Cmds |-> "none"]
  /\ up = "up" /\ stray = <<>> /\ downs = 0
  /\ alive = FALSE /\ held = FALSE /\ inbox = <<>> /\ turn = NoCmd
  /\ wire = <<>> /\ orphan = FALSE
  /\ sent = [c \in Cmds |-> 0] /\ sentTo = [c \in Cmds |-> 0] /\ done = {}

----------------------------------------------------------------------------
\* The command rows.  The operators named Faulty... are not part of the
\* system: each is a plausible slip in the definition below it, and the
\* project checks that the properties notice it.

FaultyTransition(st, c, to) == [st EXCEPT ![c] = to]

\* transitionCommand, under the check for a terminal row its callers make.
Transition(st, c, to) ==
  IF st[c] \in Pending THEN [st EXCEPT ![c] = to] ELSE st

FaultyAbandoned(st) ==
  [c \in Cmds |-> IF st[c] = "claimed" THEN "outcome_unknown" ELSE st[c]]

\* #unknownCommands, and the same update in recoverPending.
Abandoned(st) ==
  [c \in Cmds |-> IF st[c] \in Pending THEN "outcome_unknown" ELSE st[c]]

FaultyClaimable(c) == status[c] \in {"none", "outcome_unknown"}

\* claimCommand inserts a row only for a new id.  A request that repeats an id
\* gets the existing row back, or a conflict when its content differs: neither
\* changes anything.
Claimable(c) == status[c] = "none"

\* A command names the OMP process it was composed for.
Fresh(i) == i = inc

----------------------------------------------------------------------------
\* The event loop.

Running == up \in {"up", "closing"}

\* No request handler is between its claim and its dispatch.
Synchronous == \A c \in Cmds : disp[c] # "claiming"

\* No promise continuation is due.
Calm ==
  /\ Running
  /\ \A c \in Cmds : disp[c] \in {"none", "queued", "written"}
  /\ stopping = "no" => after = <<>>
  /\ stopping = "waitStart" => starting # "no"
  /\ stopping = "closing" => client # "closed"

\* OmpRpcClient#failRequests: every request still pending is rejected.
FailRequests(d) ==
  [c \in Cmds |-> IF d[c] \in {"queued", "written"} THEN "unknown" ELSE d[c]]

FaultyClosing(cl) == cl

\* client.close(): stdin ends, and OMP is killed if it does not leave by itself.
Closing(cl) == IF cl = "ready" THEN "exiting" ELSE cl

RuntimeReady == client = "ready" /\ ~closing

----------------------------------------------------------------------------
\* Starting.  startSession answers from the running start or the ready
\* runtime without changing anything; the other cases are these.

FaultyMayResume == TRUE

MayResume == sess # "recovery_required"

StartSession ==
  /\ Calm /\ up = "up"
  /\ sess # "absent" /\ MayResume
  /\ stopping = "no" /\ starting = "no" /\ client = "none"
  /\ starting' = "probe"
  /\ UNCHANGED <<storeVars, runtimeVars, stopping, after, disp, hostVars, ompVars, historyVars>>

\* stopping.then(() => this.startSession(id))
StartAfterStop ==
  /\ Calm /\ up = "up" /\ sess # "absent"
  /\ stopping # "no" /\ Len(after) < MaxWaiting
  /\ after' = Append(after, "start")
  /\ UNCHANGED <<storeVars, runtimeVars, starting, stopping, disp, hostVars, ompVars, historyVars>>

\* #lost: give up on a runtime whose process is gone.  What its stdout still
\* holds will be read all the same, see StrayFrame; the requests it had in
\* flight will find terminal rows.
Lost ==
  /\ client' = "none" /\ active' = NoCmd /\ known' = {} /\ faulted' = FALSE
  /\ status' = Abandoned(status)
  /\ sess' = "recovery_required"
  /\ disp' = [c \in Cmds |-> "none"]
  /\ stray' = IF faulted THEN stray ELSE stray \o wire
  /\ wire' = <<>> /\ held' = FALSE
  /\ UNCHANGED <<inc, req, rtInc, closing, starting, stopping, after, up, downs,
                 alive, inbox, turn, orphan, historyVars>>

\* startSession over a runtime that is neither ready nor starting.
StartOverDead ==
  /\ Calm /\ up = "up"
  /\ stopping = "no" /\ starting = "no"
  /\ client \in {"exiting", "closed"} /\ ~closing
  /\ Lost

\* The same call when a failed stop left the runtime marked closing: #lost
\* returns at once, startSession calls itself from its continuation for ever,
\* and no other event of the process is served again.
StartHangs ==
  /\ Calm /\ up = "up"
  /\ stopping = "no" /\ starting = "no"
  /\ client # "none" /\ closing
  /\ up' = "hung"
  /\ UNCHANGED <<storeVars, runtimeVars, callVars, stray, downs, ompVars, historyVars>>

\* The version probe answered: a new incarnation is written, the runtime is
\* registered and its process is being spawned.  A session deleted meanwhile
\* makes the write throw before anything is registered.
ProbeOk ==
  /\ Calm /\ starting = "probe"
  /\ IF sess = "absent"
     THEN /\ starting' = "no"
          /\ UNCHANGED <<inc, client, rtInc, closing, faulted, active, known>>
     ELSE /\ inc < MaxInc
          /\ inc' = inc + 1 /\ rtInc' = inc + 1
          /\ client' = "opening" /\ closing' = FALSE /\ faulted' = FALSE
          /\ active' = NoCmd /\ known' = {}
          /\ starting' = "spawn"
  /\ UNCHANGED <<sess, status, req, stopping, after, disp, hostVars, ompVars, historyVars>>

ProbeFails ==
  /\ Calm /\ starting = "probe"
  /\ starting' = "no"
  /\ UNCHANGED <<storeVars, runtimeVars, stopping, after, disp, hostVars, ompVars, historyVars>>

\* runtime-lock.ts: a process that finds the session's lock held exits at once.
LockFree == ~alive /\ ~orphan

SpawnOk ==
  /\ Calm /\ starting = "spawn" /\ LockFree
  /\ client' = "ready" /\ starting' = "handshake"
  /\ alive' = TRUE /\ held' = FALSE /\ inbox' = <<>> /\ turn' = NoCmd /\ wire' = <<>>
  /\ UNCHANGED <<storeVars, rtInc, closing, faulted, active, known,
                 stopping, after, disp, hostVars, orphan, historyVars>>

SpawnFails ==
  /\ Calm /\ starting = "spawn"
  /\ client' = "none" /\ sess' = "stopped" /\ starting' = "no"
  /\ UNCHANGED <<inc, status, req, rtInc, closing, faulted, active, known,
                 stopping, after, disp, hostVars, ompVars, historyVars>>

\* get_state matched: only now does the row say idle.
HandshakeOk ==
  /\ Calm /\ starting = "handshake" /\ client = "ready" /\ ~faulted
  /\ sess' = "idle" /\ starting' = "subscribe"
  /\ UNCHANGED <<inc, status, req, runtimeVars, stopping, after, disp, hostVars, ompVars, historyVars>>

\* set_subagent_subscription answered: the watchdog timer runs from here.
SubscribeOk ==
  /\ Calm /\ starting = "subscribe" /\ client = "ready" /\ ~faulted
  /\ starting' = "no"
  /\ UNCHANGED <<storeVars, runtimeVars, stopping, after, disp, hostVars, ompVars, historyVars>>

\* A request of the handshake failed, or OMP resumed another session file.
StartFails ==
  /\ Calm /\ starting \in {"handshake", "subscribe"}
  /\ closing' = TRUE /\ starting' = "cleanup"
  /\ client' = Closing(client)
  /\ UNCHANGED <<storeVars, rtInc, faulted, active, known,
                 stopping, after, disp, hostVars, ompVars, historyVars>>

\* The failed start closed its process; whether that worked is ignored.
CleanupDone ==
  /\ Calm /\ starting = "cleanup" /\ client = "closed"
  /\ client' = "none" /\ closing' = FALSE /\ faulted' = FALSE
  /\ active' = NoCmd /\ known' = {}
  /\ sess' = "stopped" /\ starting' = "no"
  /\ UNCHANGED <<inc, status, req, rtInc, stopping, after, disp, hostVars, ompVars, historyVars>>

----------------------------------------------------------------------------
\* Commands.

\* command(): the request passes its checks and its row is claimed.
ClaimCommand(c, k, i) ==
  /\ Calm /\ up = "up" /\ sess # "absent"
  /\ Claimable(c) /\ Fresh(i) /\ starting = "no"
  /\ status' = [status EXCEPT ![c] = "claimed"]
  /\ req' = [req EXCEPT ![c] = [kind |-> k, inc |-> i]]
  /\ disp' = [disp EXCEPT ![c] = "claiming"]
  /\ UNCHANGED <<sess, inc, runtimeVars, starting, stopping, after, hostVars, ompVars, historyVars>>

\* One turn at a time: a turn command needs a free runtime.
CanDispatch(c) ==
  /\ RuntimeReady
  /\ req[c].kind = "turn" => active = NoCmd

RefuseCommand(c) ==
  /\ Running /\ disp[c] = "claiming" /\ ~CanDispatch(c)
  /\ status' = Transition(status, c, "not_dispatched")
  /\ disp' = [disp EXCEPT ![c] = "none"]
  /\ UNCHANGED <<sess, inc, req, runtimeVars, starting, stopping, after, hostVars, ompVars, historyVars>>

DispatchCommand(c) ==
  /\ Running /\ disp[c] = "claiming" /\ CanDispatch(c)
  /\ disp' = [disp EXCEPT ![c] = "queued"]
  /\ active' = IF req[c].kind = "turn" THEN c ELSE active
  /\ known' = known \cup {c}
  /\ UNCHANGED <<storeVars, client, rtInc, closing, faulted, starting, stopping, after,
                 hostVars, ompVars, historyVars>>

\* OmpRpcClient#writeNow, when the writes queued before this one have drained.
WriteCommand(c) ==
  /\ Running /\ Synchronous /\ disp[c] = "queued"
  /\ disp' = [disp EXCEPT ![c] = "written"]
  /\ sent' = [sent EXCEPT ![c] = @ + 1]
  /\ sentTo' = [sentTo EXCEPT ![c] = rtInc]
  /\ inbox' = IF alive THEN Append(inbox, c) ELSE inbox
  /\ UNCHANGED <<storeVars, runtimeVars, starting, stopping, after, hostVars,
                 alive, held, turn, wire, orphan, done>>

\* stdin was already destroyed with the process: nothing is written, and the
\* error that says so does not tell #dispatch as much.
WriteFails(c) ==
  /\ Running /\ Synchronous /\ disp[c] = "queued" /\ ~alive
  /\ disp' = [disp EXCEPT ![c] = "unknown"]
  /\ UNCHANGED <<storeVars, runtimeVars, starting, stopping, after, hostVars, ompVars, historyVars>>

FaultyTimeoutOutcome(d) == "notDispatched"

\* OmpRequestTimeoutError.outcome
TimeoutOutcome(d) == IF d = "written" THEN "unknown" ELSE "notDispatched"

FaultyExpires(c) == disp[c] = "queued"

\* The timer of a request is cleared when the request is settled, not before.
Expires(c) == disp[c] \in {"queued", "written"}

RequestTimeout(c) ==
  /\ Calm /\ Expires(c)
  /\ disp' = [disp EXCEPT ![c] = TimeoutOutcome(disp[c])]
  /\ UNCHANGED <<storeVars, runtimeVars, starting, stopping, after, hostVars, ompVars, historyVars>>

FaultyAnswer(c) == "completed"
UnmappedAnswer(c) == disp[c]

\* What a settled request says of its command: a turn that OMP accepted is
\* acknowledged, anything else OMP acknowledged is complete.
Answer(c) ==
  CASE disp[c] = "acked"         -> IF req[c].kind = "turn" THEN "acknowledged" ELSE "completed"
    [] disp[c] = "local"         -> "completed"
    [] disp[c] = "failed"        -> "failed"
    [] disp[c] = "notDispatched" -> "not_dispatched"
    [] OTHER                     -> "outcome_unknown"

FaultyFreesTurn(c, st) == TRUE

\* Whether the settled request ends its claim on the runtime's single turn.
FreesTurn(c, st) ==
  IF disp[c] \in {"acked", "local"}
  THEN status[c] \in Pending /\ Answer(c) = "completed"
  ELSE st[c] # "outcome_unknown"

\* #dispatch after its await.
SettleCommand(c) ==
  /\ Running /\ Synchronous
  /\ disp[c] \in {"acked", "local", "failed", "notDispatched", "unknown"}
  /\ LET st == Transition(status, c, Answer(c)) IN
       /\ status' = st
       /\ active' = IF active = c /\ FreesTurn(c, st) THEN NoCmd ELSE active
       /\ known' = IF st[c] \in Terminal \ {"outcome_unknown"} THEN known \ {c} ELSE known
  /\ disp' = [disp EXCEPT ![c] = "none"]
  /\ UNCHANGED <<sess, inc, req, client, rtInc, closing, faulted,
                 starting, stopping, after, hostVars, ompVars, historyVars>>

----------------------------------------------------------------------------
\* Frames from OMP: OmpRpcClient#handleFrame shows each to #onFrame first and
\* then matches a response with the request waiting for it.

\* The next frame of the runtime's process is one of kind t about c.
Receives(t, c) ==
  /\ Running /\ Synchronous
  /\ client \in {"ready", "exiting"} /\ ~faulted
  /\ wire # <<>> /\ Head(wire) = Frame(t, c)
  /\ wire' = Tail(wire)
  /\ UNCHANGED <<inc, req, client, rtInc, closing, faulted, starting, stopping, after,
                 hostVars, alive, held, inbox, turn, orphan, historyVars>>

Resolve(c, how) ==
  disp' = IF disp[c] = "written" THEN [disp EXCEPT ![c] = how] ELSE disp

ReceiveAck(c) ==
  /\ \/ Receives("ack", c) /\ Resolve(c, "acked")
     \/ Receives("local", c) /\ Resolve(c, "local")
  /\ UNCHANGED <<sess, status, active, known>>

\* A failed response, before or after the command was acknowledged.
ReceiveFailure(c) ==
  /\ Receives("fail", c) /\ Resolve(c, "failed")
  /\ IF c \in known
     THEN /\ status' = Transition(status, c, "failed")
          /\ active' = IF active = c THEN NoCmd ELSE active
     ELSE UNCHANGED <<status, active>>
  /\ UNCHANGED <<sess, known>>

ReceiveStart ==
  /\ Receives("start", NoCmd)
  /\ sess' = "running"
  /\ UNCHANGED <<status, active, known, disp>>

\* #complete
Complete(c) ==
  /\ status' = Transition(status, c, "completed")
  /\ active' = IF active = c THEN NoCmd ELSE active
  /\ known' = known \ {c}

\* prompt_result: the prompt was scheduled and did not invoke the agent.
ReceiveResult(c) ==
  /\ Receives("result", c)
  /\ IF c \in known THEN Complete(c) ELSE UNCHANGED <<status, active, known>>
  /\ UNCHANGED <<sess, disp>>

\* A terminal agent_end ends whatever turn is active.
ReceiveEnd ==
  /\ Receives("end", NoCmd)
  /\ IF active # NoCmd THEN Complete(active) ELSE UNCHANGED <<status, active, known>>
  /\ sess' = "idle"
  /\ UNCHANGED disp

\* #onFrame threw: the runtime is cut off and onFatal stops the whole host.
JournalFails ==
  /\ Running /\ Synchronous /\ JournalMayFail /\ downs < MaxDowns
  /\ client \in {"ready", "exiting"} /\ ~faulted /\ wire # <<>>
  /\ wire' = Tail(wire)
  /\ faulted' = TRUE /\ client' = "exiting"
  /\ disp' = FailRequests(disp)
  /\ up' = "closing" /\ downs' = downs + 1
  /\ UNCHANGED <<storeVars, rtInc, closing, active, known, starting, stopping, after,
                 stray, alive, held, inbox, turn, orphan, historyVars>>

IgnoreFrame ==
  /\ Running /\ Synchronous
  /\ client = "exiting" /\ faulted /\ wire # <<>>
  /\ wire' = Tail(wire)
  /\ UNCHANGED <<storeVars, runtimeVars, callVars, hostVars, alive, held, inbox, turn,
                 orphan, historyVars>>

\* #onFrame does not ask whether its runtime is still the session's: a turn that
\* starts or ends in the last frames of a process that #lost gave up on updates
\* the session row as well.  If the row is deleted the journal write throws, and
\* that stops the host.
StrayFrame ==
  /\ Running /\ Synchronous /\ stray # <<>>
  /\ stray' = Tail(stray)
  /\ IF sess = "absent"
     THEN up' = "closing" /\ UNCHANGED sess
     ELSE /\ sess' = CASE Head(stray).t = "start" -> "running"
                       [] Head(stray).t = "end" -> "idle"
                       [] OTHER -> sess
          /\ UNCHANGED up
  /\ UNCHANGED <<inc, status, req, runtimeVars, callVars, downs, ompVars, historyVars>>

----------------------------------------------------------------------------
\* The end of the OMP process as its client sees it.

ChildExit ==
  /\ Calm /\ client = "ready" /\ ~alive
  /\ client' = "exiting"
  /\ UNCHANGED <<storeVars, rtInc, closing, faulted, active, known, callVars, hostVars, ompVars, historyVars>>

\* stdout is read to its end, or given up after a second when a child of OMP
\* holds it open.
StdioEnds ==
  /\ Calm /\ client = "exiting" /\ ~alive
  /\ held \/ wire = <<>>
  /\ client' = "closed" /\ wire' = <<>>
  /\ disp' = FailRequests(disp)
  /\ UNCHANGED <<storeVars, rtInc, closing, faulted, active, known, starting, stopping, after,
                 hostVars, alive, held, inbox, turn, orphan, historyVars>>

FaultyWatchdogFires == FALSE

WatchdogFires == client = "closed" /\ ~closing

Watchdog ==
  /\ Calm /\ starting = "no" /\ WatchdogFires
  /\ Lost

----------------------------------------------------------------------------
\* Stopping and deleting.

BeginStop ==
  /\ closing' = TRUE
  /\ client' = Closing(client)
  /\ disp' = FailRequests(disp)
  /\ stopping' = "closing"
  /\ UNCHANGED <<rtInc, faulted, active, known, starting>>

WaitForStart ==
  /\ stopping' = "waitStart"
  /\ UNCHANGED <<runtimeVars, starting, disp>>

StopSession ==
  /\ Calm /\ stopping = "no"
  /\ \/ starting # "no" /\ WaitForStart
     \/ starting = "no" /\ client # "none" /\ BeginStop
  /\ UNCHANGED <<storeVars, after, hostVars, ompVars, historyVars>>

StopAfterStart ==
  /\ Running /\ stopping = "waitStart" /\ starting = "no"
  /\ IF client = "none"
     THEN stopping' = "no" /\ UNCHANGED <<runtimeVars, starting, disp>>
     ELSE BeginStop
  /\ UNCHANGED <<storeVars, after, hostVars, ompVars, historyVars>>

StopDone ==
  /\ Running /\ Synchronous
  /\ \A c \in Cmds : disp[c] = "none"
  /\ stopping = "closing" /\ client = "closed" /\ ~held
  /\ client' = "none" /\ closing' = FALSE /\ faulted' = FALSE
  /\ active' = NoCmd /\ known' = {}
  /\ status' = Abandoned(status)
  /\ sess' = "stopped" /\ stopping' = "no"
  /\ UNCHANGED <<inc, req, rtInc, starting, after, disp, hostVars, ompVars, historyVars>>

\* client.close() rejects when stdout could not be drained: the runtime stays
\* registered and marked closing, and whoever waited for the stop gets the error.
StopRejected ==
  /\ Running /\ Synchronous
  /\ \A c \in Cmds : disp[c] = "none"
  /\ stopping = "closing" /\ client = "closed" /\ held
  /\ stopping' = "no" /\ after' = <<>>
  /\ UNCHANGED <<storeVars, runtimeVars, starting, disp, hostVars, ompVars, historyVars>>

\* The row goes, and the rows of its commands with it.
DropSession ==
  /\ sess' = "absent"
  /\ status' = [c \in Cmds |-> "none"] /\ req' = [c \in Cmds |-> NoRequest]
  /\ sent' = [c \in Cmds |-> 0] /\ sentTo' = [c \in Cmds |-> 0] /\ done' = {}
  /\ UNCHANGED inc

DeleteSession ==
  /\ Calm /\ up = "up" /\ sess # "absent"
  /\ \/ /\ stopping # "no" /\ Len(after) < MaxWaiting
        /\ after' = Append(after, "delete")
        /\ UNCHANGED <<storeVars, runtimeVars, starting, stopping, disp, historyVars>>
     \/ /\ stopping = "no" /\ starting = "no" /\ client = "none"
        /\ DropSession
        /\ UNCHANGED <<runtimeVars, callVars>>
     \/ /\ stopping = "no"
        /\ \/ starting # "no" /\ WaitForStart
           \/ starting = "no" /\ client # "none" /\ BeginStop
        /\ after' = <<"delete">>
        /\ UNCHANGED <<storeVars, historyVars>>
  /\ UNCHANGED <<hostVars, ompVars>>

\* The stop is over: the calls that waited for it go on, in their order.  A start
\* is refused if close() came first, which a host that is closing may not have
\* called yet.
Restarts == client = "none" /\ sess # "absent" /\ MayResume

Continue ==
  /\ Running /\ stopping = "no" /\ after # <<>>
  /\ after' = Tail(after)
  /\ IF Head(after) = "delete"
     THEN /\ IF sess # "absent" THEN DropSession ELSE UNCHANGED <<storeVars, historyVars>>
          /\ UNCHANGED starting
     ELSE /\ \/ Restarts /\ starting' = "probe"
             \/ (~Restarts \/ up = "closing") /\ starting' = starting
          /\ UNCHANGED <<storeVars, historyVars>>
  /\ UNCHANGED <<runtimeVars, stopping, disp, hostVars, ompVars>>

Reconcile ==
  /\ Calm /\ up = "up" /\ client = "none"
  /\ sess = "recovery_required"
  /\ sess' = "stopped"
  /\ UNCHANGED <<inc, status, req, runtimeVars, callVars, hostVars, ompVars, historyVars>>

----------------------------------------------------------------------------
\* The host process.

\* SIGTERM, SIGINT or the lifetime watchdog: no request is taken from here on.
CloseHost ==
  /\ Calm /\ up = "up" /\ downs < MaxDowns
  /\ up' = "closing" /\ downs' = downs + 1
  /\ UNCHANGED <<storeVars, runtimeVars, callVars, stray, ompVars, historyVars>>

CloseStopsSession ==
  /\ Calm /\ up = "closing"
  /\ stopping = "no" /\ starting = "no" /\ client # "none" /\ ~closing
  /\ BeginStop
  /\ UNCHANGED <<storeVars, after, hostVars, ompVars, historyVars>>

\* Everything but the two tables is gone; OMP may outlive its host.
HostDown ==
  /\ up' = "down" /\ stray' = <<>>
  /\ client' = "none" /\ closing' = FALSE /\ faulted' = FALSE
  /\ active' = NoCmd /\ known' = {}
  /\ starting' = "no" /\ stopping' = "no" /\ after' = <<>>
  /\ disp' = [c \in Cmds |-> "none"]
  /\ orphan' = (orphan \/ alive)
  /\ alive' = FALSE /\ held' = FALSE /\ inbox' = <<>> /\ turn' = NoCmd /\ wire' = <<>>
  /\ UNCHANGED <<storeVars, rtInc, historyVars>>

HostExit ==
  /\ Calm /\ up = "closing"
  /\ stopping = "no" /\ starting = "no"
  /\ client = "none" \/ closing
  /\ HostDown
  /\ UNCHANGED downs

HostCrash ==
  /\ up # "down" /\ downs < MaxDowns
  /\ HostDown
  /\ downs' = downs + 1

\* DurableStore.open: recoverPending
OpenHost ==
  /\ up = "down"
  /\ up' = "up"
  /\ status' = Abandoned(status)
  /\ sess' = IF sess = "running" \/ \E c \in Cmds : status[c] \in Pending
             THEN "recovery_required" ELSE sess
  /\ UNCHANGED <<inc, req, runtimeVars, callVars, stray, downs, ompVars, historyVars>>

----------------------------------------------------------------------------
\* OMP, as the host code relies on it (docs/maintenance/CEDIA-PLAN.md, the
\* fixtures of apps/host/test): it reads commands in order, answers each once
\* at least, runs one turn at a time and ends each accepted turn with agent_end.

Emit(frames) == wire' = wire \o frames

OmpReads(c) ==
  /\ alive /\ inbox # <<>> /\ Head(inbox) = c
  /\ inbox' = Tail(inbox)
  /\ UNCHANGED <<storeVars, runtimeVars, callVars, hostVars, alive, held, orphan, sent, sentTo>>

OmpAnswers(c) ==
  /\ OmpReads(c)
  /\ \/ req[c].kind = "simple" /\ Emit(<<Frame("ack", c)>>)
     \/ req[c].kind = "turn" /\ Emit(<<Frame("local", c)>>)
     \/ req[c].kind = "turn" /\ Emit(<<Frame("ack", c), Frame("result", c)>>)
     \/ req[c].kind = "turn" /\ Emit(<<Frame("ack", c), Frame("fail", c)>>)
     \/ Emit(<<Frame("fail", c)>>)
  /\ done' = done \cup {c}
  /\ UNCHANGED turn

OmpStartsTurn(c) ==
  /\ OmpReads(c)
  /\ req[c].kind = "turn" /\ turn = NoCmd
  /\ Emit(<<Frame("ack", c), Frame("start", NoCmd)>>)
  /\ turn' = c
  /\ UNCHANGED done

OmpEndsTurn ==
  /\ alive /\ turn # NoCmd
  /\ Emit(<<Frame("end", NoCmd)>>)
  /\ done' = done \cup {turn} /\ turn' = NoCmd
  /\ UNCHANGED <<storeVars, runtimeVars, callVars, hostVars, alive, held, inbox, orphan, sent, sentTo>>

\* OMP exits on its own, or because its stdin was closed or it was killed.
OmpExits ==
  /\ alive
  /\ alive' = FALSE /\ inbox' = <<>> /\ turn' = NoCmd
  /\ held' \in IF PipeMayLeak THEN BOOLEAN ELSE {FALSE}
  /\ UNCHANGED <<storeVars, runtimeVars, callVars, hostVars, wire, orphan, historyVars>>

OrphanExits ==
  /\ orphan /\ orphan' = FALSE
  /\ UNCHANGED <<storeVars, runtimeVars, callVars, hostVars, alive, held, inbox, turn, wire, historyVars>>

----------------------------------------------------------------------------
Start == ProbeOk \/ ProbeFails \/ SpawnOk \/ SpawnFails \/ HandshakeOk \/ SubscribeOk
           \/ StartFails \/ CleanupDone

Requests ==
  \/ StartSession \/ StartAfterStop \/ StartOverDead \/ StartHangs
  \/ StopSession \/ DeleteSession \/ Reconcile
  \/ \E c \in Cmds, k \in Kinds, i \in 0 .. MaxInc : ClaimCommand(c, k, i)

CommandSteps ==
  \E c \in Cmds : \/ RefuseCommand(c) \/ DispatchCommand(c) \/ WriteCommand(c)
                  \/ WriteFails(c) \/ RequestTimeout(c) \/ SettleCommand(c)

FrameSteps ==
  \/ \E c \in Cmds : ReceiveAck(c) \/ ReceiveFailure(c) \/ ReceiveResult(c)
  \/ ReceiveStart \/ ReceiveEnd \/ JournalFails \/ IgnoreFrame \/ StrayFrame

EndSteps == ChildExit \/ StdioEnds \/ Watchdog \/ StopAfterStart \/ StopDone
              \/ StopRejected \/ Continue

HostSteps == CloseHost \/ CloseStopsSession \/ HostExit \/ HostCrash \/ OpenHost

OmpSteps ==
  \/ \E c \in Cmds : OmpAnswers(c) \/ OmpStartsTurn(c)
  \/ OmpEndsTurn \/ OmpExits \/ OrphanExits

Next == Requests \/ Start \/ CommandSteps \/ FrameSteps \/ EndSteps \/ HostSteps \/ OmpSteps

Spec == Init /\ [][Next]_vars

----------------------------------------------------------------------------
\* What the host owes its clients whatever is interrupted, and by what.

RowTypes ==
  /\ sess \in {"idle", "running", "stopped", "recovery_required", "absent"}
  /\ inc \in 0 .. MaxInc
  /\ status \in [Cmds -> {"none"} \cup Pending \cup Terminal]
  /\ req \in [Cmds -> [kind : Kinds, inc : 0 .. MaxInc]]

HostTypes ==
  /\ client \in {"none", "opening", "ready", "exiting", "closed"}
  /\ rtInc \in 0 .. MaxInc
  /\ active \in Cmds \cup {NoCmd} /\ known \in SUBSET Cmds
  /\ starting \in {"no", "probe", "spawn", "handshake", "subscribe", "cleanup"}
  /\ stopping \in {"no", "waitStart", "closing"}
  /\ after \in Seq({"start", "delete"})
  /\ disp \in [Cmds -> {"none", "claiming", "queued", "written", "acked", "local",
                        "failed", "notDispatched", "unknown"}]
  /\ up \in {"up", "closing", "down", "hung"}
  /\ stray \in Seq(Frames) /\ downs \in 0 .. MaxDowns

OmpTypes ==
  /\ inbox \in Seq(Cmds) /\ turn \in Cmds \cup {NoCmd} /\ wire \in Seq(Frames)
  /\ sent \in [Cmds -> Nat] /\ sentTo \in [Cmds -> 0 .. MaxInc] /\ done \in SUBSET Cmds

FlagTypes ==
  /\ closing \in BOOLEAN /\ faulted \in BOOLEAN
  /\ alive \in BOOLEAN /\ held \in BOOLEAN /\ orphan \in BOOLEAN

\* Every variable has a value that the code, or OMP, can give it.
TypeOK == RowTypes /\ HostTypes /\ OmpTypes /\ FlagTypes

\* A command id is written to OMP at most once for as long as its session exists,
\* and then to the very process the client composed it for, whatever is retried,
\* restarted or repeated (claimCommand, the incarnation check of command()).
DeliveredAtMostOnce ==
  \A c \in Cmds : sent[c] <= 1 /\ (sent[c] = 1 => sentTo[c] = req[c].inc)

\* The row does not lie.  "not_dispatched", on which a client may submit the work
\* again, means that nothing was written and that nothing will be (#enqueueWrite
\* drops the write of a request that expired) ...
NotDispatchedIsTrue ==
  \A c \in Cmds : status[c] = "not_dispatched" => sent[c] = 0 /\ disp[c] # "queued"

\* ... and only a command that was written is ever acknowledged, completed or failed.
AnsweredWasSent ==
  \A c \in Cmds : status[c] \in {"acknowledged", "completed", "failed"} => sent[c] = 1

\* A prompt is not reported complete while OMP may still be working on it: the
\* agent_end that completes a row (#onFrame, activeCommand) is that prompt's own.
NoFalseCompletion ==
  \A c \in Cmds : status[c] = "completed" => c \in done

\* The live OMP process has at most one unfinished turn in its input or at work, even
\* after requests timed out or failed and whatever the host has settled in between.
OneTurnAtOmp ==
  \A c, d \in Cmds :
    /\ alive /\ {c, d} \subseteq {e \in Cmds : req[e].kind = "turn" /\ sent[e] > 0} \ done
    /\ sentTo[c] = rtInc /\ sentTo[d] = rtInc
    => c = d

\* A session whose last work has an unknown outcome has no runtime that could take new
\* work: its owner reconciles first (#startSession).  Stopping is the exception that
\* proves it, and so is a host that is not there.
NoWorkInDoubt ==
  sess = "recovery_required" => starting = "no" /\ client = "none"

\* Who will settle an acknowledged row: a runtime that is not being closed, by the
\* frames of its turn or, when its process ends, by #lost; or the stop under way, when
\* client.close() resolves (#stopSession).
WillSettle ==
  \/ client # "none" /\ ~closing /\ starting = "no"
  \/ client # "none" /\ stopping = "closing" /\ ~held

\* The stop of the registered runtime rejects, or has: its stdout cannot be drained.
StopMustFail == client # "none" /\ closing /\ held

\* No unfinished row is left behind while the host runs.  A claimed row has its request
\* handler at work, and an acknowledged one has someone who will settle it, with one
\* exception: a stop that must fail leaves its runtime registered and marked closing,
\* without a timer, and the turn of that runtime stays acknowledged for as long as the
\* host lives (client.close(), #stopSession).
NoAbandonedCommand ==
  Running => \A c \in Cmds :
    /\ status[c] = "claimed" => disp[c] # "none"
    /\ status[c] = "acknowledged" => WillSettle \/ StopMustFail

Promise == INSTANCE CommandPromise WITH status <- status, delivered <- sent

\* The rows and the deliveries behave as CommandPromise says.
KeepsPromise == Promise!Spec

\* "Reconcile before resuming": only the owner, or the deletion of the session, ends
\* the state in which its last work has an unknown outcome (service.ts, #startSession).
RecoveryRequiresReconcile ==
  [][sess = "recovery_required" => sess' \in {"recovery_required", "stopped", "absent"}]_vars

\* One session cannot freeze the host for the others (service.ts, #startSession).
HostNeverFreezes == up # "hung"

----------------------------------------------------------------------------
\* Fairness.  A promise continuation that is due runs; a timer that is set fires,
\* so every start phase and every request ends one way or the other; frames and
\* the end of a process are delivered; a process that was told to end does, by
\* SIGKILL at the latest; a lock holder without a host ends at its closed stdin.
\* Nothing is assumed of clients, of OMP's work, or of anyone starting the host.
Fairness ==
  /\ WF_vars(ProbeOk \/ ProbeFails)
  /\ WF_vars(SpawnOk \/ SpawnFails)
  /\ WF_vars(HandshakeOk \/ SubscribeOk \/ StartFails)
  /\ WF_vars(CleanupDone)
  /\ \A c \in Cmds : /\ WF_vars(RefuseCommand(c) \/ DispatchCommand(c))
                     /\ WF_vars(WriteCommand(c) \/ WriteFails(c))
                     /\ WF_vars(RequestTimeout(c))
                     /\ WF_vars(SettleCommand(c))
  /\ WF_vars(FrameSteps)
  /\ WF_vars(ChildExit) /\ WF_vars(StdioEnds) /\ WF_vars(Watchdog)
  /\ WF_vars(StopAfterStart) /\ WF_vars(StopDone) /\ WF_vars(StopRejected)
  /\ WF_vars(Continue)
  /\ WF_vars(CloseStopsSession) /\ WF_vars(HostExit)
  /\ WF_vars(client = "exiting" /\ OmpExits)

FairSpec == Spec /\ Fairness

\* A claimed command does not stay claimed: its client learns something, unless the
\* host goes down, and then recoverPending speaks when the host is back.
ClaimsSettle ==
  \A c \in Cmds : status[c] = "claimed" ~> (status[c] # "claimed" \/ up = "down")

\* A turn that OMP accepted does not stay open once its process is gone.
DeadTurnsSettle ==
  \A c \in Cmds :
    (status[c] = "acknowledged" /\ client = "closed")
      ~> (status[c] # "acknowledged" \/ up = "down")

\* A host that was told to go does go: no start, stop or request can hold it, and the
\* stop of each session ends.
ShutdownEnds == up = "closing" ~> up = "down"
=============================================================================
