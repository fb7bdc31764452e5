------------------------------ MODULE AgentTurns ------------------------------
(***************************************************************************)
(* Turns from the Agents window (apps/macos/agent-window/src/              *)
(* cedia-adapter.ts, thread.turn.start): the task is started, the prompt   *)
(* sent under the id of the window's command, and a turn the host did not  *)
(* dispatch is tried once more.  Steering, queueing and the choice of the  *)
(* model before the turn are left out.                                     *)
(***************************************************************************)
EXTENDS CommandDesk

CONSTANT MaxTurns    \* bound on the turns of the window

ASSUME TurnsAssumption == MaxTurns \in Nat

VARIABLE turns

\* ensureStarted, of the record just read.  shown is what the window is told.
Turn(c) ==
  /\ call[c] = NoCall /\ turns < MaxTurns /\ Unused # {}
  /\ turns' = turns + 1
  /\ shown' = [shown EXCEPT ![FreshId] = "queued"]
  /\ call' = [call EXCEPT ![c] = [NoCall EXCEPT !.at = "asked", !.open = TRUE, !.id = FreshId,
                                                !.text = turns', !.press = <<0, turns'>>]]
  /\ UNCHANGED <<logVars, hostVars>>

AgentEnsured(c) == Ensured(c) /\ UNCHANGED turns

Submit(c) ==
  /\ call[c].at = "record"
  /\ call' = [call EXCEPT ![c].at = "wire"]
  /\ UNCHANGED <<logVars, hostVars, shown, turns>>

\* "explicitly safe to retry with the same command id".
Retry(c) ==
  /\ Arrive(c) /\ call[c].answer = "not_dispatched" /\ call[c].attempt = 1
  /\ call' = [call EXCEPT ![c] = [@ EXCEPT !.at = "asked", !.attempt = 2, !.answer = "none"]]
  /\ UNCHANGED <<logVars, hostVars, shown, turns>>

\* The turn is accepted, or the command of the window fails.
Accepted == {"acknowledged", "completed"}
FinishTurn(c) ==
  /\ Arrive(c) /\ (call[c].answer = "not_dispatched" => call[c].attempt = 2)
  /\ shown' = [shown EXCEPT ![call[c].id] = IF call[c].answer \in Accepted THEN "accepted" ELSE "error"]
  /\ Done(c)
  /\ UNCHANGED <<logVars, hostVars, turns>>

TurnBreaks(c) ==
  /\ HangUp(c) \/ EnsureBreaks(c)
  /\ shown' = [shown EXCEPT ![call[c].id] = "error"]
  /\ UNCHANGED <<hostVars, turns>>

AgentNext ==
  \/ \E c \in Calls : Turn(c)
  \/ \E c \in Calls : AgentEnsured(c)
  \/ \E c \in Calls : Submit(c)
  \/ \E c \in Calls : Retry(c)
  \/ \E c \in Calls : FinishTurn(c)
  \/ \E c \in Calls : TurnBreaks(c)
=============================================================================
