----------------------------- MODULE CommandDesk -----------------------------
(***************************************************************************)
(* Commands between a device and the host (apps/host/src/service.ts,       *)
(* command, and store.ts, claimCommand).  What becomes of a claimed row is *)
(* what CommandPromise allows, which CediaSession implements; here is what *)
(* the host does with a request that reaches it, and the calls that carry  *)
(* requests and answers.  A call may break at any point: the device then   *)
(* stops listening, and the request may still arrive.                      *)
(***************************************************************************)
EXTENDS EventLog

CONSTANTS
  Ids,              \* command ids; nothing is sent when none is unused
  Calls             \* requests of a device that may be under way together

ASSUME DeskAssumption == Ids \subseteq Nat

VARIABLES
  phase,            \* of the task's OMP: "down", "probing", "starting", "ready"
  busy,             \* a turn of another device occupies it
  status,           \* the command rows
  delivered,        \* whether OMP got the command
  row,              \* what a row was claimed for
  call,
  shown             \* what the device shows of its commands

hostVars == <<phase, busy, status, delivered, row>>
deskVars == <<hostVars, call, shown>>

P == INSTANCE CommandPromise WITH Cmds <- Ids

NoRow  == [inc |-> 0, text |-> 0, press |-> <<0, 0>>]
\* "asked": the device waits for the task to be started; "record": it has the
\* record; "wire": the request is on its way; "held": the host works on it.
NoCall == [at |-> "idle", open |-> FALSE, id |-> 0, inc |-> 0, text |-> 0, press |-> <<0, 0>>,
           answer |-> "none", attempt |-> 1]

DeskInit ==
  /\ phase = "ready" /\ busy = FALSE
  /\ P!Init /\ row = [i \in Ids |-> NoRow]
  /\ call = [c \in Calls |-> NoCall]
  /\ shown = [i \in Ids |-> "none"]

Occupied == busy \/ \E i \in Ids : status[i] \in {"claimed", "acknowledged"}

\* startSession, from any device, on a task that is down, after a reconciliation
\* where one is due: the launcher is probed before the incarnation is rotated.
Start ==
  /\ phase = "down"
  /\ phase' = "probing"
  /\ UNCHANGED <<logVars, busy, status, delivered, row, call, shown>>
Launch ==
  /\ phase = "probing" /\ Rotate
  /\ phase' = "starting"
  /\ UNCHANGED <<busy, status, delivered, row, call, shown>>
Started ==
  /\ phase = "starting"
  /\ phase' = "ready"
  /\ UNCHANGED <<logVars, busy, status, delivered, row, call, shown>>
StartFails ==
  /\ phase \in {"probing", "starting"}
  /\ phase' = "down"
  /\ UNCHANGED <<logVars, busy, status, delivered, row, call, shown>>

\* OMP ends, stopped or lost.
TaskEnds ==
  /\ phase = "ready"
  /\ phase' = "down" /\ busy' = FALSE
  /\ P!Abandon
  /\ UNCHANGED <<logVars, row, call, shown>>

OtherTurn ==
  /\ phase = "ready" /\ (busy \/ ~Occupied)
  /\ busy' = ~busy
  /\ UNCHANGED <<logVars, phase, status, delivered, row, call, shown>>

\* #dispatch: the command reaches OMP, and OMP or a timeout settles it.
Advance ==
  /\ phase = "ready"
  /\ \E i \in Ids : P!Deliver(i) \/ \E to \in P!Terminal \cup {"acknowledged"} : P!Settle(i, to)
  /\ UNCHANGED <<logVars, phase, busy, row, call, shown>>

-----------------------------------------------------------------------------
(* What the host does with a request.                                      *)

\* The answer to a device that has hung up is lost.
Answered(c, answer) ==
  call' = [call EXCEPT ![c] = IF @.open THEN [@ EXCEPT !.at = "answered", !.answer = answer] ELSE NoCall]

Arrived(c) == call[c].at = "wire"
NewId(c)   == status[call[c].id] = "none"
Same(c)    == row[call[c].id].inc = call[c].inc /\ row[call[c].id].text = call[c].text
Claimed(c) == [inc |-> call[c].inc, text |-> call[c].text, press |-> call[c].press]
Allowed(c) == call[c].inc = incarnation /\ phase \notin {"probing", "starting"}

\* stale_incarnation and session_starting, before anything is claimed.
Refuse(c) ==
  /\ Arrived(c) /\ NewId(c) /\ ~Allowed(c)
  /\ Answered(c, "refused")
  /\ UNCHANGED <<logVars, hostVars, shown>>

\* The id has a row: the same request gets it, or what is in flight; another one
\* a conflict.
Replay(c) ==
  /\ Arrived(c) /\ ~NewId(c)
  /\ IF ~Same(c) THEN Answered(c, "conflict")
     ELSE IF status[call[c].id] = "claimed" THEN call' = [call EXCEPT ![c].at = "held"]
     ELSE Answered(c, status[call[c].id])
  /\ UNCHANGED <<logVars, hostVars, shown>>

\* OMP is not there, or a turn is active: the row is final at once.
TurnAway(c) ==
  /\ Arrived(c) /\ NewId(c) /\ Allowed(c) /\ (phase # "ready" \/ Occupied)
  /\ status' = [status EXCEPT ![call[c].id] = "not_dispatched"]
  /\ row' = [row EXCEPT ![call[c].id] = Claimed(c)]
  /\ Answered(c, "not_dispatched")
  /\ UNCHANGED <<logVars, phase, busy, delivered, shown>>

Claim(c) ==
  /\ Arrived(c) /\ NewId(c) /\ Allowed(c) /\ phase = "ready" /\ ~Occupied
  /\ P!Claim(call[c].id)
  /\ row' = [row EXCEPT ![call[c].id] = Claimed(c)]
  /\ call' = [call EXCEPT ![c].at = "held"]
  /\ UNCHANGED <<logVars, phase, busy, shown>>

\* #dispatch returns the row.
Conclude(c) ==
  /\ call[c].at = "held" /\ status[call[c].id] # "claimed"
  /\ Answered(c, status[call[c].id])
  /\ UNCHANGED <<logVars, hostVars, shown>>

\* A request whose device has hung up never arrives.
Lost(c) ==
  /\ Arrived(c) /\ ~call[c].open
  /\ call' = [call EXCEPT ![c] = NoCall]
  /\ UNCHANGED <<logVars, hostVars, shown>>

DeskNext ==
  \/ Start \/ Launch \/ Started \/ StartFails \/ TaskEnds \/ OtherTurn \/ Advance
  \/ \E c \in Calls : Refuse(c)
  \/ \E c \in Calls : Replay(c)
  \/ \E c \in Calls : TurnAway(c)
  \/ \E c \in Calls : Claim(c)
  \/ \E c \in Calls : Conclude(c)
  \/ \E c \in Calls : Lost(c)

-----------------------------------------------------------------------------
(* What a device does with a call.                                         *)

Waiting(c) == call[c].open /\ call[c].at \in {"wire", "held", "answered"}

\* The call breaks, or times out: the device hangs up.
HangUp(c) ==
  /\ Waiting(c) /\ RequestFails
  /\ call' = [call EXCEPT ![c] = IF @.at = "answered" THEN NoCall ELSE [@ EXCEPT !.open = FALSE]]

\* startSession fails, or its answer is lost.
EnsureBreaks(c) ==
  /\ call[c].at = "asked"
  /\ RequestFails \/ (phase = "down" /\ UNCHANGED logVars)
  /\ call' = [call EXCEPT ![c] = NoCall]

\* startSession answers with the record of a task that runs.
Ensured(c) ==
  /\ call[c].at = "asked" /\ phase = "ready"
  /\ call' = [call EXCEPT ![c] = [@ EXCEPT !.at = "record", !.inc = incarnation]]
  /\ UNCHANGED <<logVars, hostVars, shown>>

Arrive(c)  == call[c].open /\ call[c].at = "answered"
IsRow(c)   == call[c].answer \notin {"refused", "conflict"}
Done(c)    == call' = [call EXCEPT ![c] = NoCall]
\* randomUUID: any id that is not in use.
Unused     == {i \in Ids : shown[i] = "none"}
FreshId    == CHOOSE i \in Unused : TRUE

\* How a device words a row.
Worded(s) == CASE s \in {"claimed", "acknowledged"} -> "sent"
             [] s = "outcome_unknown" -> "unknown"
             [] OTHER -> s
=============================================================================
