# Cedia host: a TLA+ model

Cedia runs coding agents (OMP processes) for its desktop and phone clients. The program that
matters for correctness is the **Mac host** (`apps/host`): one Node process that owns the OMP
processes, keeps what clients asked for in SQLite, and must never lose, repeat or misreport a
command, whatever crashes. This directory models that host, checks the model with TLC, and
proves with TLAPS the part of it that should hold for every size.

## The system

| Part | State it keeps | Operations | What makes it correct |
|---|---|---|---|
| Session host, `service.ts` | one `Runtime` per session (client, `closing`, `faulted`, `activeCommand`, `wireCommands`), the maps `#starting`, `#stopping`, `#inflight` | create, fork, start, command, respond, reconcile, stop, delete, close; frames, child exit, 250 ms watchdog | a command reaches OMP at most once and its row tells the truth; nothing resumes over unknown work; stops and shutdowns end |
| Durable store, `store.ts` | SQLite: sessions, commands, events, devices, checkpoints | claim, transition, abandon, append, page, recover at open | a terminal row is frozen; a journal without gaps |
| OMP client, `omp-adapter/client.ts` | phase, pending requests, write queue, memoised close | start, request, send, close; frames, timers, exit, stdio end | each request settles once; "not-dispatched" is never said of a written one |
| Wire framing, `framing.ts` | partial lines and chunks | push | reassembles exactly what was framed, or fails |
| UI broker, `ui.ts` | pending dialogs by token | ingest, respond, cancel, expire, dispose | at most one answer per dialog |
| Host dispatcher, `host.ts` | active invocations, reserved ids, output queue | handle call / uri / cancel, run, update, finish, time out, dispose | at most one terminal result, after its updates |
| Editor bridge, `editors.ts`, `native-editor.ts` | windows, pending requests, buffer snapshots | register, poll, respond, request; handle, snapshot, mutate | a request reaches one window once; a buffer never silently becomes a file |
| Provider login, `provider-auth.ts`, `model-catalog.ts` | the one login, a cache | login, respond, cancel, close; get, invalidate | one login at a time; no stale models |
| Host process, `cli.ts`, `server.ts`, `host-lifetime.ts` | lifetime flags | start, signal, fatal error, idle stop | never stops under work in flight; a stop ends |
| Routes, `router.ts`, `auth.ts` | pairing tokens | HTTP | event pages without gaps |
| Relay, `packages/relay` | control and data sockets, request ids, encrypted channels | connect, request, receive, reconnect, revoke | one handler run per id; ordered, bounded sends |
| Clients: macOS extension, agent window, iOS | projections of the event stream | pull, catch up, select, start | events once and in order; a client follows restarts |

The parts meet in four ways. Clients call the host over HTTP or the relay; the host calls OMP
over stdin and hears frames on stdout; everything inside the host is one JavaScript event loop,
so two operations interleave only where one of them awaits; and what must survive a crash is in
SQLite, written synchronously. What is hard: requests that arrive while a start or stop is
suspended, promise continuations that read state written before their await, frames of a process
that is already given up on, timers racing answers, and a crash between any two writes.

`PROJECT.json` lists every component with its status, and every hazard with its line.

## Modules

| Module | Models | Run |
|---|---|---|
| `CommandPromise` | what a command promises (abstract) | through `session` |
| `CediaSession`, `CediaSessionProofs` | `service.ts`, `store.ts`, `client.ts` as one session sees it | `session`, `session_live`, `zombie_stop`, `stray_frame` |
| `OmpClient`, `OmpClientProofs` | `omp-adapter/client.ts` with `framing.ts` | `omp_client` |
| `UiBroker` | `omp-adapter/ui.ts`, one incarnation | through `host_bridge` |
| `HostDispatcher` | `omp-adapter/host.ts` | through `host_bridge` |
| `HostBridge`, `HostBridgeProofs` | the dispatcher, two brokers and the ui_response rows as `service.ts` wires them | `host_bridge` |
| `ProviderAccess`, `ProviderAccessProofs` | `provider-auth.ts`, `model-catalog.ts` | `provider_access` |
| `EditorBridge`, `EditorBridgeProofs` | `native-editor.ts`, `editors.ts`, and `apps/macos/src/editor.ts` | `editor_bridge`, `editor_preflight` |
| `RelayHost`, `RelayLink`, `RelaySession`, `RelaySessionProofs` | `relay/host.ts`; the control connection of `relay/server.ts`; both under `relay/client.ts`, the handshake and the data sockets | `relay_session` |
| `EventLog`, `DesktopFeed`, `PhoneFeed` | the journal and its pages; the extension's and the phone's way of following it | through `devices` |
| `CommandDesk`, `DockSends`, `AgentTurns`, `PhoneSends` | what the host does with a device's request, over `CommandPromise`; prompts of the macOS task view, the Agents window and the phone | through `devices` |
| `Devices`, `DevicesProofs` | one task and the five surfaces that follow it and send to it | `devices`, `phone_recovers` |

Modules named `MC...` instantiate these for TLC. An operator named `Faulty...` is never part of the
system: it is a plausible slip in the definition that follows it, kept so that a property can be
shown to notice it.

### The command path

**`CommandPromise`** is the abstract specification of a command: its row (`status`) and how often
it reached OMP (`delivered`). Claim, deliver once while claimed, settle, abandon, forget.

**`CediaSession`** is one session in detail, with the store rows it writes, its `OmpRpcClient`,
the host process around it and OMP as the host relies on it.

| Variables | Code |
|---|---|
| `sess`, `inc`, `status`, `req` | rows of `sessions` and `commands`; incarnations are fresh UUIDs, here numbers |
| `client` | `#runtimes.get(id)` and its client's phase: none, opening (spawning), ready, exiting (`closing` phase), closed |
| `closing`, `faulted`, `active`, `known`, `rtInc` | fields of `Runtime`: `activeCommand`, the command ids in `wireCommands`, `session.incarnation` |
| `starting`, `stopping`, `after` | the await at which `#startSession` / `#stopSession` is suspended, and who waits on the stop |
| `disp[c]` | where the handler of command `c` is: between claim and dispatch, queued, written, or with its answer in hand |
| `stray` | frames in the pipe of a runtime that `#lost` has detached |
| `up`, `downs` | the host process: up, closing (a signal or fatal error), down, hung |
| `alive`, `inbox`, `turn`, `wire`, `held`, `orphan` | the OMP process, its stdin and stdout, a descendant holding stdout, and a process that outlived its host and its session lock |
| `sent`, `sentTo`, `done` | history: writes per command, the process written to, commands OMP is finished with |

An action is a stretch of code between two awaits. `Calm` (no continuation is due) guards what the
event loop takes up from outside, because the microtask queue drains first. Between a claim and its
dispatch there is no await, but there are two database writes, so they are two actions with only
a crash possible between them (`Synchronous`).

**`CediaSessionProofs`** holds the theorems. **`MCCediaSession`** instantiates `CediaSession` for TLC.

Abstractions, and what they leave out:

- One session. Sessions meet only in the maps keyed by id and in the host process; what stops the
  process (`JournalFails`, `StrayFrame` on a deleted row, `StartHangs`) is modelled in this one.
- A command is a prompt-like one (`turn`: prompt, abort_and_prompt) or any other (`simple`). The
  extra `get_state` after new_session, switch_session and branch is not modelled, nor is handoff's
  payload; `respond` is in `HostBridge`.
- The order of the client's write queue is not modelled: each queued command is written at some
  time. Protocol failures and the handshake inside `OmpRpcClient.start` are one step (`SpawnOk`,
  `SpawnFails`).
- OMP answers each command it reads, runs one turn at a time, ends a turn with `agent_end`, and
  may fail a prompt it has already acknowledged. Turns it starts on its own are not modelled.
- A deleted session id is not created again (ids are random; fork sources are left out).
- Requests that reach the host over the relay between the signal and `host.close()` are not
  modelled: a closing host takes no request, but calls that were already suspended go on.
- The requests a lost runtime had in flight are dropped with it: their rows are terminal by then.

### OMP's side of the bridge

**`OmpClient`** keeps the fields of `OmpRpcClient` (`phase`, `readError`, `pending`, `queue`, ...), the
suspended coroutines `#start` (`startP`) and `#closeProcess` (`closeP`), and the child with its pipes.
Node's events are actions: data (`ReadLine`), end of stdout, exit, close, error on stdin. A data
event is decoded into lines before one of them is handled, so a broken line takes the lines before
it along (`LoseBatch`). The frames of OMP are its ready frame, answers, the two halves of a chunked
event, and a line that is no frame.

**`HostDispatcher`** keeps per call the fields of `ActiveInvocation`, the place of its coroutine
(`stage`) and its output chain. A handler or authorizer that answers or throws past the deadline is
*dropped*: no result is written (`Dropped`). That is `host.ts:642-663`, and `host-races.test.ts:145`
expects it. **`UiBroker`** keeps the pending dialogs with their deadlines. **`HostBridge`** puts two
brokers (permissions, OMP's dialogs) behind the dispatcher: a call is a read, an edit whose
authorizer asks the user, or a permission request of OMP. The wait of frames for the host's startup
(`pendingHostFrames`) is not modelled. The host registers tools only, so every URI request is refused.

### Providers, editor, relay

**`ProviderAccess`**: one variable per field of `ProviderAuthManager`, and where each login or key
change is suspended. OMP's worker is a set member while its client is registered. The listing of
providers and the answers to a login's questions are left out: they change no state that is kept.

**`EditorBridge`** follows one file from the agent's call to the buffer: the host's pending request,
the window's batch of fetched requests (`pollEditor` serves one at a time, so `withLock` is never
contended), the await at `beforeApply`, the edit and its postcondition, and the user who types,
saves, closes and reloads. `found[c]` is history: what the change replaced. A text is a model value;
the text a call writes is named by the call. A stale response makes `pollEditor` drop the rest of
its batch (`LoseResponse`).

**`RelaySession`**: every `connect()` of the device is an epoch with a channel of its own; the Mac
keeps per channel the ledger of request ids (`records`), the slots and the running handlers. A
request id stands for its payload, so the branch that refuses a changed payload is not taken. A late
answer after the device's own timer is a protocol error and ends the connection (`StrayAnswer`): both
sides default to 30 s, so this is the usual end of a slow request. `connect()` has no timer of its own
until the WebSocket opens, which the fairness of `SocketOpens \/ SocketFails` covers. A server object is
started once: `remote.ts` makes a new one after `stop()`. An announcement that finds all data connections
taken is ignored (`server.ts:247`).

### The devices

**`EventLog`** is the journal as a sequence of incarnations and the pages the route may serve of it (cut
by count or bytes). **`DesktopFeed`** is `pullEvents`: one pull at a time, a reply for a task the user has
left is dropped and frees the poll. **`PhoneFeed`** is `catchUp`: several at once, pages from the page's own
cursor, then the session record. The phone's snapshot cache goes through the same reducer and is left
out; `PhoneFeed` takes `stateRef`, a render behind the reducer, to be current.

**`CommandDesk`** is what `service.command` does with a request that arrives, in the code's order: refuse
(stale, starting), replay or conflict, turn away, claim. What becomes of a claimed row is taken from
`CommandPromise`, which `CediaSession` is shown to implement, so the devices are checked against the
promise and not against one more copy of the host. A `call` may break anywhere: the device stops
listening and the request may still arrive. A command is its id, incarnation and text; `press` is history:
what the user did that asked for it.

| Module | Code | State |
|---|---|---|
| `DockSends` | `extension.ts` `sendCommand`, `dispatch-guard.ts`, the rows a pull reads | `dock`: draft, revision, `#inFlightCommandId`; `poll`; the window may be reloaded |
| `AgentTurns` | `cedia-adapter.ts` `thread.turn.start` | the attempt of a call, in `call` |
| `PhoneSends` | `App.tsx` `sendPrompt`, `dispatchCommand`, `selectSession`; `command-recovery.ts` | `held`: the incarnation in the state and in `stateRef`; `recall`: the rows a selection reads |

`shown` is what the surface says of a command. Left out: attachments, steering and queueing, the choice of
a model, other commands, and on the phone a tap before the paint of the one before it. Devices meet only
at the host, so an instance of **`Devices`** watches one surface (`device`); the others are the host's
starts, ends and turns of others, which happen at any time.

## Runs

| Run | Shows | Bounds |
|---|---|---|
| `session` | type correctness, seven safety invariants, and that the session implements `CommandPromise` | 2 commands, 2 OMP processes, 2 host failures, 1 waiting call, 3 unread frames; pipes may leak, the journal may fail |
| `session_live` | claims settle, turns of a dead OMP are given up on, shutdown ends | 1 command, 2 processes, 2 failures; pipes do not leak |
| `zombie_stop` (violation) | a start after a failed stop freezes the host | 1 command, 1 process; pipes may leak |
| `stray_frame` (violation) | a late frame lifts `recovery_required` | 1 command, 1 process |
| `omp_client` | every request settles once and honestly; start and close end; a close reaps | 1 request, 1 side frame, the handshake; 2 unread lines, 2 broken or chunked lines |
| `host_bridge` | at most one result per remembered call and nothing after it; effects need consent; the rows of answers are honest; `handle()` returns | 2 calls, 1 dialog, 2 answers, room for 1 call id, an id without room sent twice, 1 update |
| `provider_access` | cancelled never becomes a success, everything ends, the catalog follows changes | 2 logins, 1 key change, 2 fetches |
| `editor_bridge` | what the agent is told of a change is true; a buffer never becomes a plain file | 3 calls, 2 windows, 2 texts, 2 edits by the user, 2 handles |
| `editor_preflight` (violation) | a delete or move is submitted for a buffer changed since its check | 3 calls, 1 window |
| `relay_session` | answers are true, a handler runs once, a revoked device hears nothing, everything settles | 2 channels, 2 ids, 3 calls, ledgers of 2 and 1, one slot, one data and one control connection |
| `devices` | feeds: each event once and in order, the desktop catches up; prompts: run once per press, what is said of them is true, the desktop learns of every row | 3 events, 2 incarnations, pages of 2, 2 catch-ups, 3 navigations; 4 ids, 2 calls at a time, 1 broken request; 2 touches of the dock's draft, 2 turns, 2 prompts or selections |
| `phone_recovers` (violation) | the phone never gets past a page of two incarnations | 3 events, 2 incarnations |

Two commands are what attribution needs: the mistake to find is an `agent_end` credited to the
other prompt. Two processes give a restart, hence a stale incarnation and a frame of the first
process under the second; two failures give a crash during recovery from another. `MaxInc` stops the
model at the third start only; `MaxQueue` limits how far OMP runs ahead of the host and no
property depends on more than one turn's frames. Deadlock is not checked: a host that is down and
not started again, or hung, has really stopped.

The other bounds: two calls with room for one id reach the capacity answer and a stale answer of one
call beside the other; three editor calls are a snapshot, a change and a second change that overtakes
it, and two windows a reload; a channel whose ledger holds two ids has a repeated id beside a new one,
one whose ledger holds one reaches its end; `MaxSeen = 1` (4000 in the code) makes an overlapping page
reach beyond the key set, which is when only the cursor keeps events from showing twice; three events
in pages of two give a first and a last page and one that mixes two incarnations. Of prompts, two calls at
a time are a click twice on one draft, or a click and the edit under it; two turns or prompts are one that
meets the other's row or slot; four ids are two attempts of each; one broken request is an answer that is
lost while everything else goes well. A third touch in the dock (a resend after a reload and an edit) is
out of TLC's time.

What the safety properties of a session say:

- `DeliveredAtMostOnce`: an id is written once at most, to the process it was composed for.
- `NotDispatchedIsTrue`, `AnsweredWasSent`: the row is honest in both directions.
- `NoFalseCompletion`, `OneTurnAtOmp`: the single turn slot is what makes an id-less `agent_end`
  attributable. It is released on a failure or an undelivered prompt and kept on an unknown one.
- `NoWorkInDoubt`: no runtime exists or starts while the row says `recovery_required`.
- `NoAbandonedCommand`: a claimed row has its request handler at work; an acknowledged one has a runtime
  that is not being closed, or a stop under way that can succeed. It names its one exception,
  `StopMustFail`: see Finding 1.
- `KeepsPromise`: refinement of `CommandPromise` under `status`, `sent`.

And those of the other modules:

- `NotDispatchedIsFinal`, `LastWordsAreRead`, `CloseMeansReaped`, `NoResurrection` (`OmpClient`): a write that
  waits behind a blocked pipe is dropped once its caller was told so; an exit does not fail a request
  whose answer is still in the pipe; a successful close has read everything; nothing leaves `closing`.
- `ResultClosesCall`, `NoLateEffect` (`HostDispatcher`): the deadline's result does not wait for the chain, so
  everything queued must be silenced behind it. An id that was refused at capacity is the exception: it is
  not remembered (`host.ts:601`), so it gets a result each time OMP repeats it, and never a handler.
- `OneAnswerEach`, `ConsentBeforeEffect`, `NoOrphanQuestion`, `RowsTellTheTruth` (`HostBridge`): the user, the
  deadline, OMP and a shutdown race for one question, and the command row of an answer agrees with
  what the asker got.
- `CancelIsFinal`, `CatalogFollowsChanges` (`ProviderAccess`). The second allows what the code allows: a fetch
  that a key change overtook stores the old list until it expires.
- `OutcomeIsHonest`, `NeverBackToDisk` (`EditorBridge`): "applied" replaced exactly what the agent had read,
  "refused" touched nothing. The first exempts create, see below.
- `AnswersAreTrue`, `HandlerOnce`, `RevokedIsSilent` (`RelaySession`): success means the handler ran on the
  connection of the call; a handler that timed out keeps its slot; the device is authorized again at the send.
- `InOrderOnce`, `RunsOnce`, `ShownIsTrue` (`Devices`): over the reducers of both clients; no press of the user
  reaches OMP under two ids, also where a device tries again by itself; "not dispatched", "accepted" and
  "completed" are never shown against what OMP got, in whatever order answers, errors and polled rows
  arrive. `DockLearns` is why the desktop may doubt everything at an error: the next poll settles it.

### Fairness

`Fairness` asks for what Node and the timers give: due continuations run; every start phase
(10 s, 20 s and 30 s timers) and every request ends one way or another; frames and exits are
delivered; a process told to end does (SIGTERM, then SIGKILL); `close()` proceeds. Nothing is asked of
clients, of OMP's work, or of anyone restarting a host that is down, so liveness is stated up to
`up = "down"`. With leaking pipes `ShutdownEnds` and `ClaimsSettle` can fail through the frozen host,
which `zombie_stop` shows on its own, and `DeadTurnsSettle` through the runtime that a failed stop leaves
behind; `session_live` therefore excludes leaks.

The others ask for the same: timers fire and continuations run, and a request over a socket, a pipe
or HTTP ends one way or another because the code bounds it. `AllSettles` asks nothing of OMP, which
may be silent, keep stdout open and ignore signals; `HandleReturns` nothing of authorizers, handlers
or the user; `EverythingSettles` nothing of handlers; `NothingHangs` relies on the client's own bounds for
workers (`AllSettles`). The devices' feeds and polls assume their timers and a host that answers; a device
that is cut off is offline, and `DesktopFollows` and `DockLearns` are stated up to that. Nothing is assumed
of prompts: no property says that one is answered.

### Findings

1. *Frozen host.* `client.close()` rejects when a descendant of OMP keeps stdout open. `#stopSession`
   then leaves the runtime registered with `closing = true`. The next `startSession` finds a runtime
   that is neither ready nor starting, `#lost` returns at once because of `closing`, and the
   continuation calls `startSession` again without ever yielding to the event loop. It takes such a
   descendant: `FreezeNeedsLeak` proves that without one no reachable state is frozen. Even if nobody
   starts the session again, the turn it had acknowledged stays so until the host is restarted: the
   stop has cleared the watchdog's timer (`service.ts:514`) and never reaches `#unknownCommands`
   (`service.ts:518`), and `client.close()` answers every later stop with the same rejection.
   `NoAbandonedCommand` exempts this, and `AbandonNeedsLeak` proves that it takes the same descendant.
2. *Doubt lifted without reconciling.* `#onFrame` does not ask whether its runtime is still the
   session's. A start over a process whose exit was seen but whose stdout was not drained writes
   `recovery_required`, and the `agent_end` still in the pipe overwrites it with `idle`. Nothing else does
   it: `RevivalNeedsStray` proves that every other step leaves the doubt to the owner or to deletion.
3. *Guard not evaluated immediately before the edit.* `apps/macos/src/editor.ts:8` says the full guard is;
   `applyEdit` (line 646) awaits `beforeApply`, a call to the host, after the preflight. Edits of text check
   once more, deletes and moves do not, so what the user typed during the call goes with the file.
4. *The phone does not recover from a rotated incarnation.* `docs/maintenance/CEDIA-PLAN.md:1909` says it does.
   When the task is started again elsewhere and the phone's next page holds the last events of the old
   run and the first of the new one, the reducer rejects the page with its cursor, before and after
   the record is refreshed, and asks for the same page for ever.

Seen while modelling, without a run of their own:

- *Two sign-ins at once* (`provider-auth.ts:276`): `cancel()` while the worker is starting clears `#busy`. If
  another login takes the slot and the first worker then fails to start, the `catch` at line 226 clears it
  again, and a third login may run beside the second. `OverlapNeedsEarlyCancel` proves that nothing else
  puts two jobs at work at once.
- *Create refused, file made* (`apps/macos/src/editor.ts:852`): the second edit of a create asks the host again;
  if that call fails, the error does not say `mayHaveApplied`, although the empty file exists.
- *Skipped events on the desktop* (`extension.ts:1794`): the reply to a start swaps the record while a pull is in
  flight; the page it brings is read under the new incarnation, events of the other run are skipped, and
  the cursor moves past them. The same can happen when the same task is opened again during a pull
  (`extension.ts:2387`), and on the phone (`App.tsx:877`).
- *Retry that cannot succeed* (`cedia-adapter.ts:1303`): a turn that came back `not_dispatched` is sent again
  under the same id. The host replays the old row, or, when the start in between rotated the incarnation,
  answers with a conflict; it never dispatches it. `runTurn` of `chat-sessions.ts:956` and the edit-and-resend
  of `cedia-adapter.ts:1175` do not look at the answer at all, so a prompt turned away there is dropped silently.
- *Resend with the old incarnation* (`App.tsx:1070`): the second attempt reads `stateRef`, which an effect
  updates after the paint (`App.tsx:473`), so it may carry the incarnation that was just refused. It is
  refused again, and the prompt ends as unknown although nothing was sent. The composer stays
  shut while anything is unknown, and no row of the host will ever settle this one: until the app is
  started again the phone asks for a check that cannot end.
- *Old text under a new id* (`extension.ts:1892`): the revision in a prompt's id is read after the task was
  started, the text at the click. Edit the draft in between and the old text is sent as the new draft's
  command: a second click on the old draft then runs it twice (`RunsOnce` exempts this), and the new
  draft conflicts with it and is shown as unknown.

## Proofs

`CediaSessionProofs` proves, for any `Cmds` and any bounds:

- `TypeCorrect`: `Spec => []TypeOK`, in four lemmas (flags, rows, host, OMP), one step per action.
- `Invariance`: `Spec => []IInv`, and from it `AtMostOnce`, `NotDispatched`, `WorkInDoubt` and
  `NothingAbandoned` for the properties of the same meaning above.

None of the properties is inductive alone. At most one delivery needs that a claimed or queued
command has not been written (`DispatchOrder`), which needs that deleting the rows finds no handler
at work (`QuietPhases`: a start begins without commands and refuses new ones, a stop that waits for
a start meets none, a finished stop leaves none to the calls that waited for it). That the write goes
to the right process needs that a registered runtime carries the session's incarnation
(`CurrentRuntime`) and that no request outlives its client (`RequestsHaveClient`). That nothing is
abandoned needs that no row is open while OMP starts (`NothingOpenAtStart`) and why a runtime may be marked
`closing`: a failed start or a stop is closing it, or a stop failed over a held pipe (`ClosingHasReason`).

The second part of `CediaSessionProofs` adds what the pipes carry, `FInv`, on top of `IInv`: `OnlySentIsAnswered`,
`CompletionIsTrue` and `OneTurn` for the properties of the same meaning, and `Refinement`
(`Spec => KeepsPromise`). The host matches an `agent_end` with the active command by position alone, so
the argument is about the runtime's one slot. A turn that is queued, in OMP's input, at work, or whose
end frame is under way is the active command, and alone in that (`SlotHeld`); its row is open or unknown
and no frame that would free the slot names it; at most one end frame is under way, and it is that of
the active turn (`OneEnd`, `EndsOwnTurn`). What is under way was written (`WrittenFirst`) and what a
frame says of a command is so (`FramesTrue`); `PipesHaveClient` says that pipes are empty but for a
client that reads them. Steps fall into four kinds, each a lemma: something fades (`Fades`), a process
is given up (`Clears`), one row and its request move (`RowMoves`), or a pipe grows. For the refinement
every step is mapped to a step of the promise or to none (`PromiseStep`).

Its third part is about the two counterexamples among the runs: each has one circumstance behind it, and
without that the property holds for every value of the constants. `FreezeNeedsLeak` (`~PipeMayLeak =>
(Spec => []HostNeverFreezes)`) rests on `Unfrozen`: a runtime is marked `closing` only while a failed start or a
stop is closing it. `AbandonNeedsLeak` takes the exception out of `NoAbandonedCommand` with it: without a
leak every unfinished row has its handler, or someone who will settle it (`AlwaysSettled`). `RevivalNeedsStray` (`Spec => OnlyStraysRevive`) goes through the steps under `NoWorkInDoubt`:
without a runtime there is nothing to write the row but a frame of one that was given up on.

`RelaySessionProofs` proves, for any channels, ids, calls and capacities, `RunOnce` (`[]HandlerOnce`),
`TrueAnswers` (`[]AnswersAreTrue`) and `SilenceAfterRevocation`. A handler runs once because a live
channel keeps in its ledger every id it ever ran, and holds a slot for each that still runs; a success
is true because one that is recorded or in a frame was, and because a call that waits was made in the
epoch it waits in, so no frame of another channel can answer it.

Two more say that neither side is left hanging by the order of drops, retries and stops.
`OneControlConnection` (`Spec => []OneControl`): the Mac never has two control connections, and once
started it has one or a timer that will try again, until it is stopped. `NobodyWaitsForTheLost`
(`Spec => []NobodyLeftWaiting`): a caller of the device waits only on the connection that is open, so the
loss of one, which rejects the calls of its epoch alone, leaves nobody behind (`ClientShape`).

`UiBroker` proves `AnsweredOnce` (`BrokerSpec => []OneAnswer`) for any set of dialogs: a dialog that
waits has no answer, one that was never asked neither, and after `shut` nothing waits. Its step lemmas
are cited by the bridge through both instances.

`HostBridgeProofs` begins with the dispatcher alone and proves, for any set of calls and any capacities,
`TypeCorrect`, `OneResult` (`[]ResultClosesCall`) and `NothingLate` (`NoLateEffect`). That a result is the last
output of a call is not inductive: it needs that a result in the output chain is the chain's last element
and belongs to a call that completed in time (`Chained`), that what remains of the chain behind a written
result is silenced by the timeout or is the send that is still on its way (`Answered`), and that an id
outside `seen` was not touched, except for the answers that refuse it at capacity, after which no id is
reserved any more (`Untouched`).

Then it proves the same of the composition, for any calls, dialogs and responses, with `BridgeTypeCorrect`
(`[]BridgeTypeOK`). `BridgeIsDispatcher` shows that every step of the bridge is a dispatcher step or leaves the
dispatcher alone, so `BridgeOneResult` and `BridgeNothingLate` follow from the dispatcher's invariant;
`BridgeOneAnswer` follows in the same way from the broker's lemmas, for both brokers. `Consent`
(`[]ConsentBeforeEffect`) and `NoOrphans` (`[]NoOrphanQuestion`) need, in addition, that a call whose
authorizer has not answered has no grant yet unless it is an edit that was asked (`Unasked`). `TrueRows`
(`[]RowsTellTheTruth`) needs the rows and the questions side by side (`RowsOK`): a submitted row names one
question and the answer that question got, and an answer of the user is carried by one row. A question
that still waits has no answer, so the row written for the answer that arrives now is the only one; what
the clock, the asker or a shutdown answers is not an answer of the user and needs no row.

`OmpClientProofs` proves, for any requests and any bounds, `TypeCorrect`, `SafeToSendAgain`
(`[]NotDispatchedIsFinal`), `LastWords`, `CloseReaps` (`[]CloseMeansReaped`) and `NeverReadyAgain`. `#pending`
holds exactly requests without an outcome (`Unanswered`), only pending ones are written, and what is
written is what is marked dispatched (`Flagged`): so a request that was given up on while it waited
behind a blocked pipe is dropped when the pipe drains. The end of stdout comes after its last line, and
the failure "exited" after that end (`Piped`). A client that closes has no requests, takes none, and drains
only a process that is gone (`Staged`); every step moves it onward in its life (`Onward`).

`DevicesProofs` proves, for any ids, calls and bounds and for each surface, `OncePerPress` (`[]RunsOnce`) and
`WordsAreTrue` (`[]ShownIsTrue`). What a device has read is old by the time it shows it, so the argument is
about what stays true: a terminal row is frozen and a delivery is not undone (`Holds`); a command that
was refused has no row, and no request that could still give it one (`Dead`). A press belongs to
one command at a time (`PressOfOneRow`, `PressOfOneCall`): the Agents window retries under the same id, and the
phone makes a second id only when the first has no row and no request under way (`PhoneInv`). The dock has
no such memory; there the id itself names the window a draft was sent from (`IdsByWindow`), which is why its
theorem is of a draft written once. What the dock has is a guard on commands in flight;
`GuardHoldsNothingBack` proves that an id is in it only while a call of that window carries it, so
neither a reload nor an overtaking draft leaves a prompt that can never be sent. The steps of the host come in two kinds, rows that go on
(`RowsGoOn`) and a request that is served (`Serve`), and are treated once for all surfaces.

`DevicesProofs` then proves of the two followers `OrderedOnce` (`[]InOrderOnce`), for any journal, page size and
number of overlapping catch-ups. `FeedInv` says that a page under way was cut from a journal that only
grows, so its end is never beyond the journal's; that what is shown is increasing and behind the cursor;
and that a page on its way to the desktop begins at or behind its cursor, because only one pull is under
way and nothing else moves the cursor on. The phone has no such order between pages and filters event by
event instead. What a reducer adds is the page's accepted events in their order (`InOrder`); that every finite
set of sequence numbers has such an order is `InOrderFact`, by the least counterexample, since induction over
an operator is out of reach.

`DeskKeepsPromise` (`Spec => HostKeepsPromise`) closes the circle: the host of the devices steps as
`CommandPromise` does, like `CediaSession` (`Refinement`), so what the surfaces are checked against is what the
session is proved to keep. A command that is turned away is claimed and settled in one step here
(`TurnedAway`), because no device can look in between.

`EditorBridgeProofs` proves, for any calls, texts, windows and handles, `HonestOutcome` (`[]OutcomeIsHonest`) and
`DiskStaysShut` (`NeverBackToDisk`). Between the agent's guard and the edit lie the host's queue, the window's
batch, the call back to the host and the user. The invariant follows a change along them: a call has a
request only while it has no outcome, and the buffer was changed for it only after its change was handed
to a window (`CallsOK`); a fetched request is still out or its call gave up, is in the batch once, and only
the one at work may have touched the buffer (`BatchOK`); a view the agent has is not ahead of the document
(`ViewsOK`), so that when the edit landed and the postcondition finds the expected version, it found the
version the agent had read (`LandedOK`), and what the window answers is true (`AnswerOK`). A file is never a
plain one again because a window registers before the first view is given and is never forgotten
(`RegisteredOK`).

`ProviderAccessProofs` proves, for any sign-ins, key changes and fetches, `CancelledNeverSucceeds` (`CancelIsFinal`),
`CloseLeavesNone` (after `close()` no worker is left) and `CatalogIsDropped` (`CatalogFollowsChanges`). The
invariant says where a sign-in may be suspended with which report (`LoginOK`: one whose worker came up behind
a cancel only releases it) and that each worker belongs to a coroutine that will release it (`WorkersOK`).
The slot `#busy` is never lost (`SlotIsNeverLost`): while it is taken there is a job that will give it back,
which is not every job, since a sign-in cancelled while its worker starts has had the slot taken from it
(`WillRelease`). That cancel is also the only way to two jobs at once (`OverlapNeedsEarlyCancel`).

The assumptions are those of the modules: `NoCmd` is not a command, bounds are naturals, switches are
Boolean, the ids of calls and dialogs differ, the dock's revisions are ids. Every invariant and every action
property that a passing run checks is proved. Checked by TLC only: all liveness (`ClaimsSettle`,
`DeadTurnsSettle`, `ShutdownEnds`, `AllSettles`, `EverythingSettles`, `HandleReturns`, `NothingHangs`,
`DesktopFollows`, `DockLearns`), which is out of the prover's reach, and of course the four
properties that the code violates.

## Not modelled

- Terminal screens, artifacts, workspaces: a library and file-system calls without state others decide on.
- The agent window beyond the start of a turn: single calls, around a vendored renderer. Protocol types and
  validators: no state.
- Views, layout and other commands of the extension and the phone, pairing and its tokens, snapshot caches.
- The queue of sends before the relay's handshake (`encrypted-channel.ts:320`): its client sends nothing then.
- Byte and size limits of frames, payloads and pages, except where a page is cut.
- Cryptography of the relay; that keys match and frames arrive whole is assumed.
- Build and packaging scripts. Most of the repository's lines are these and the user interfaces, which
  is why the map covers the host, the adapter and the relay densely and the applications thinly.

## Plan

1. Prove what the modules say of each other: that the client a session sees is `OmpClient`, that the relay
   carries a device's calls as `CommandDesk` takes them.
2. The idle watchdog (`server.ts:85`), the turn slot as a liveness property (`service.ts:458`), the
   inventory of the editor, framing against a reference definition.
