------------------------------ MODULE DockSends ------------------------------
(***************************************************************************)
(* Prompts from the task view of the macOS extension                       *)
(* (apps/macos/src/extension.ts, sendCommand, and dispatch-guard.ts).  The *)
(* id of a prompt is made of the revision of the draft, so that two clicks *)
(* on one draft are one command.  The text is taken at the click, the      *)
(* revision when the task has been started.  Attachments, steering and     *)
(* queueing, which are parts of the id too, are left out.                  *)
(***************************************************************************)
EXTENDS CommandDesk

CONSTANT MaxTouches  \* bound on what the user does: edits, clicks, reloads

ASSUME DockAssumption == MaxTouches \in Nat /\ 0 .. (MaxTouches + 1) \subseteq Ids

VARIABLES
  dock,             \* draft, its revision, and what the guard remembers
  poll,             \* the getCommands of a pull, and whether there is a client
  reloads

dockVars == <<dock, poll, reloads>>

NewWindow == [rev |-> 0, draft |-> 1, edits |-> 1, touches |-> 0, inFlight |-> {}]
RestPoll == [at |-> "idle", rows |-> [i \in Ids |-> "none"], online |-> TRUE]
DockInit == dock = [NewWindow EXCEPT !.rev = 1] /\ poll = RestPoll /\ reloads = 0

\* persist_draft: a new text, a new revision.
Edit ==
  /\ dock.touches < MaxTouches
  /\ dock' = [dock EXCEPT !.rev = @ + 1, !.edits = @ + 1, !.draft = dock.edits + 1, !.touches = @ + 1]
  /\ UNCHANGED <<logVars, deskVars, poll, reloads>>

\* send_prompt, up to the call of ensureSession.
Click(c) ==
  /\ call[c] = NoCall /\ dock.draft # 0 /\ dock.touches < MaxTouches
  /\ dock' = [dock EXCEPT !.touches = @ + 1]
  /\ call' = [call EXCEPT ![c] = [NoCall EXCEPT !.at = "asked", !.open = TRUE, !.text = dock.draft,
                                                !.press = <<reloads, dock.draft>>]]
  /\ UNCHANGED <<logVars, hostVars, shown, poll, reloads>>

DockEnsured(c) == Ensured(c) /\ UNCHANGED dockVars

DockStartBreaks(c) == EnsureBreaks(c) /\ UNCHANGED <<hostVars, shown, dockVars>>

\* envelopeId.
Envelope == dock.rev

\* shouldDispatch refuses what is in flight; command_created keeps an entry
\* there is.
Dispatch(c) ==
  /\ call[c].at = "record"
  /\ IF dock.inFlight = {Envelope}
       THEN call' = [call EXCEPT ![c] = NoCall] /\ UNCHANGED <<dock, shown>>
       ELSE /\ call' = [call EXCEPT ![c] = [@ EXCEPT !.at = "wire", !.id = Envelope]]
            /\ dock' = [dock EXCEPT !.inFlight = {Envelope}]
            /\ shown' = [shown EXCEPT ![Envelope] = IF @ = "none" THEN "queued" ELSE @]
  /\ UNCHANGED <<logVars, hostVars, poll, reloads>>

Settled(i) == [dock EXCEPT !.inFlight = @ \ {i}]
FaultyDoubt(view) == [i \in Ids |-> IF view[i] \in {"queued", "sent"} THEN "not_dispatched" ELSE view[i]]
\* An error of a call marks what has no answer yet.
Doubt(view) == [i \in Ids |-> IF view[i] \in {"queued", "sent"} THEN "unknown" ELSE view[i]]

\* The row arrives.  An accepted text leaves the composer, unless it was edited.
TakeRow(c) ==
  /\ Arrive(c) /\ IsRow(c)
  /\ LET view == [shown EXCEPT ![call[c].id] = Worded(call[c].answer)]
     IN shown' = IF call[c].answer = "outcome_unknown" THEN Doubt(view) ELSE view
  /\ dock' = IF call[c].answer \in {"acknowledged", "completed"} /\ dock.draft = call[c].text
               THEN [Settled(call[c].id) EXCEPT !.draft = 0] ELSE Settled(call[c].id)
  /\ Done(c)
  /\ UNCHANGED <<logVars, hostVars, poll, reloads>>

\* "may have reached the host; it was not replayed".
TakeError(c) ==
  /\ Arrive(c) /\ ~IsRow(c)
  /\ shown' = Doubt([shown EXCEPT ![call[c].id] = "unknown"])
  /\ dock' = Settled(call[c].id)
  /\ Done(c)
  /\ UNCHANGED <<logVars, hostVars, poll, reloads>>
SendBreaks(c) ==
  /\ HangUp(c)
  /\ shown' = Doubt([shown EXCEPT ![call[c].id] = "unknown"])
  /\ dock' = Settled(call[c].id)
  /\ UNCHANGED <<hostVars, poll, reloads>>

\* pullEvents reads the command rows, and shows each as it was then.
ReadRows ==
  /\ poll.online /\ poll.at = "idle"
  /\ poll' = [poll EXCEPT !.at = "rows", !.rows = status]
  /\ UNCHANGED <<logVars, deskVars, dock, reloads>>
FaultyShowRow(view, s) == IF s = "none" \/ view = "unknown" THEN view ELSE Worded(s)
ShowRow(view, s) == IF s = "none" THEN view ELSE Worded(s)
ShowRows ==
  /\ poll.at = "rows"
  /\ shown' = [i \in Ids |-> ShowRow(shown[i], poll.rows[i])]
  /\ poll' = RestPoll
  /\ UNCHANGED <<logVars, hostVars, call, dock, reloads>>
PollBreaks ==
  /\ poll.at = "rows" /\ RequestFails
  /\ shown' = Doubt(shown)
  /\ poll' = [RestPoll EXCEPT !.online = FALSE]
  /\ UNCHANGED <<hostVars, call, dock, reloads>>
Redial ==
  /\ ~poll.online
  /\ poll' = RestPoll
  /\ UNCHANGED <<logVars, deskVars, dock, reloads>>

\* The window is reloaded: drafts are kept, the revision starts again.
Reload ==
  /\ dock.touches < MaxTouches
  /\ reloads' = reloads + 1
  /\ dock' = [NewWindow EXCEPT !.draft = dock.draft, !.edits = dock.edits, !.touches = dock.touches + 1]
  /\ shown' = [i \in Ids |-> "none"] /\ poll' = RestPoll
  /\ call' = [c \in Calls |-> IF call[c].at \in {"wire", "held"} THEN [call[c] EXCEPT !.open = FALSE] ELSE NoCall]
  /\ UNCHANGED <<logVars, hostVars>>

\* The timer of the polls.
PollStep == ReadRows \/ ShowRows

DockNext ==
  \/ Edit \/ ReadRows \/ ShowRows \/ PollBreaks \/ Redial \/ Reload
  \/ \E c \in Calls : Click(c)
  \/ \E c \in Calls : DockEnsured(c)
  \/ \E c \in Calls : Dispatch(c)
  \/ \E c \in Calls : TakeRow(c)
  \/ \E c \in Calls : TakeError(c)
  \/ \E c \in Calls : SendBreaks(c)
  \/ \E c \in Calls : DockStartBreaks(c)
=============================================================================
