------------------------------- MODULE RelayHost -------------------------------
(***************************************************************************)
(* The Mac's end of the encrypted relay channels (packages/relay/src:      *)
(* CediaRelayHost of host.ts, one per channel, behind the data sockets of  *)
(* CediaRelayServer).  A channel remembers every request id it ran, so a   *)
(* repeated id gets the recorded answer and never a second run.            *)
(*                                                                         *)
(* A request id stands for its payload: the caller repeats an id only with *)
(* the same request (its fingerprint), so the branch that closes a channel *)
(* on a different one is not taken here.                                   *)
(***************************************************************************)
EXTENDS Naturals, Sequences, FiniteSets

CONSTANTS
  Channels,         \* data connections, in the order clients open them
  Ids,              \* request ids
  MaxRequestIds,    \* ids a channel remembers, per channel
  MaxPending,       \* handler runs of one channel that have not settled
  MaxActive         \* handler runs of all channels together

ASSUME HostAssumption ==
  /\ Channels \subseteq Nat \ {0} /\ IsFiniteSet(Channels) /\ IsFiniteSet(Ids)
  /\ MaxRequestIds \in [Channels -> Nat \ {0}]
  /\ {MaxPending, MaxActive} \subseteq Nat \ {0}

VARIABLES
  host,             \* none, waiting (socket, no hello yet), serving, gone
  records,          \* #records: per channel and id: none, running, ok (the
                    \* handler's answer), failed (a timeout, or no room)
  slots,            \* #active: per channel, the ids whose handler holds a slot
  running,          \* handlers under way, also those of channels that are gone
  revoked,          \* authorize(token) says no
  net,              \* a data connection at the relay: unused, opening, up, down
  down,             \* frames on their way to the client, per channel
  starts            \* history: handler runs per channel and id

hostVars == <<host, records, slots, running, revoked, net, down, starts>>

Statuses == {"ok", "failed", "unauthorized", "busy"}
Response(i, s) == [id |-> i, status |-> s]
ReadyFrame == [id |-> "e2ee", status |-> "ready"]
NoRecords == [i \in Ids |-> "none"]

HostInit ==
  /\ host = [e \in Channels |-> "none"]
  /\ records = [e \in Channels |-> NoRecords]
  /\ slots = [e \in Channels |-> {}]
  /\ running = {} /\ revoked = FALSE
  /\ net = [e \in Channels |-> "unused"]
  /\ down = [e \in Channels |-> <<>>]
  /\ starts = [e \in Channels |-> [i \in Ids |-> 0]]

Serving(e) == host[e] = "serving"
Recorded(e) == {i \in Ids : records[e][i] # "none"}
Fresh(e, i) == ~revoked /\ records[e][i] = "none"
Record(e, i, st) == records' = [records EXCEPT ![e][i] = st]
Emit(e, f) == down' = [down EXCEPT ![e] = IF net[e] = "up" THEN Append(@, f) ELSE @]

----------------------------------------------------------------------------
\* The operators named Faulty... are not part of the system: each is a
\* plausible slip in the definition below it, and the project checks that the
\* properties notice it.

FaultySendResponse(e, i, s) == Emit(e, Response(i, s))

\* #sendResponse: the device is authorized again just before the answer leaves.
SendResponse(e, i, s) == Emit(e, Response(i, IF revoked THEN "unauthorized" ELSE s))

\* dispose(): the channel forgets its requests; a handler under way is told to
\* abort, and ends when it likes.
Dispose(E) ==
  /\ host' = [e \in Channels |-> IF e \in E THEN "gone" ELSE host[e]]
  /\ records' = [e \in Channels |-> IF e \in E THEN NoRecords ELSE records[e]]
  /\ slots' = [e \in Channels |-> IF e \in E THEN {} ELSE slots[e]]

Refuse(e, i) ==
  /\ revoked
  /\ SendResponse(e, i, "unauthorized")
  /\ UNCHANGED <<host, records, slots, running, starts>>

\* A known id: the recorded answer, or silence while the handler still runs.
Repeat(e, i) ==
  /\ ~revoked /\ records[e][i] # "none"
  /\ IF records[e][i] = "running" THEN UNCHANGED down ELSE SendResponse(e, i, records[e][i])
  /\ UNCHANGED <<host, records, slots, running, starts>>

\* The ledger is full: the client has to open another channel.
LedgerFull(e, i) ==
  /\ Fresh(e, i) /\ Cardinality(Recorded(e)) >= MaxRequestIds[e]
  /\ SendResponse(e, i, "busy")
  /\ Dispose({e})
  /\ UNCHANGED <<running, starts>>

SlotsFull(e, i) ==
  /\ Fresh(e, i) /\ Cardinality(Recorded(e)) < MaxRequestIds[e]
  /\ Cardinality(slots[e]) >= MaxPending
  /\ SendResponse(e, i, "busy")
  /\ UNCHANGED <<host, records, slots, running, starts>>

Admitted(e, i) ==
  /\ Fresh(e, i) /\ Cardinality(Recorded(e)) < MaxRequestIds[e]
  /\ Cardinality(slots[e]) < MaxPending

\* Beyond the server's own bound the run is answered without the handler.
ServerFull(e, i) ==
  /\ Admitted(e, i) /\ Cardinality(running) >= MaxActive
  /\ Record(e, i, "failed") /\ SendResponse(e, i, "failed")
  /\ UNCHANGED <<host, slots, running, starts>>

Run(e, i) ==
  /\ Admitted(e, i) /\ Cardinality(running) < MaxActive
  /\ slots' = [slots EXCEPT ![e] = @ \cup {i}]
  /\ running' = running \cup {<<e, i>>}
  /\ Record(e, i, "running")
  /\ starts' = [starts EXCEPT ![e][i] = @ + 1]
  /\ UNCHANGED <<host, down>>

\* #receive of a request frame.
Receive(e, i) ==
  Refuse(e, i) \/ Repeat(e, i) \/ LedgerFull(e, i) \/ SlotsFull(e, i) \/ ServerFull(e, i)
    \/ Run(e, i)

FaultyHandlerTimesOut(e, i) ==
  /\ Serving(e) /\ records[e][i] = "running"
  /\ Record(e, i, "failed") /\ SendResponse(e, i, "failed")
  /\ slots' = [slots EXCEPT ![e] = @ \ {i}]
  /\ UNCHANGED <<host, running, revoked, net, starts>>

\* The request's deadline: the answer is a timeout, the handler keeps its slot.
HandlerTimesOut(e, i) ==
  /\ Serving(e) /\ records[e][i] = "running"
  /\ Record(e, i, "failed") /\ SendResponse(e, i, "failed")
  /\ UNCHANGED <<host, slots, running, revoked, net, starts>>

\* The handler settles; its answer, a failure included, counts only if nothing
\* was answered yet.
HandlerEnds(e, i) ==
  /\ <<e, i>> \in running
  /\ running' = running \ {<<e, i>>}
  /\ slots' = [slots EXCEPT ![e] = @ \ {i}]
  /\ IF Serving(e) /\ records[e][i] = "running"
     THEN Record(e, i, "ok") /\ SendResponse(e, i, "ok")
     ELSE UNCHANGED <<records, down>>
  /\ UNCHANGED <<host, revoked, net, starts>>

Revoke ==
  /\ ~revoked /\ revoked' = TRUE
  /\ UNCHANGED <<host, records, slots, running, net, down, starts>>
=============================================================================
