------------------------------ MODULE PhoneSends ------------------------------
(***************************************************************************)
(* Prompts from the phone (apps/ios/App.tsx, sendPrompt, dispatchCommand   *)
(* and selectSession, and apps/ios/src/core/command-recovery.ts).  Every   *)
(* attempt has an id of its own, and only a refusal, which claims nothing, *)
(* is followed by a second one.  The handlers read the task through        *)
(* stateRef, which follows the state after the next paint; a tap is taken  *)
(* to come after the paint of the commands shown.                          *)
(***************************************************************************)
EXTENDS CommandDesk

CONSTANT MaxPrompts  \* bound on what the user does: prompts, selections

ASSUME PromptsAssumption == MaxPrompts \in Nat

VARIABLES
  held,             \* the incarnation of the task: in the state, and in stateRef
  recall,           \* the getCommands of a selection
  prompts

phoneSendVars == <<held, recall, prompts>>
NoRecall == [at |-> "idle", rows |-> [i \in Ids |-> "none"]]
PhoneSendInit == held = [state |-> 1, ref |-> 1] /\ recall = NoRecall /\ prompts = 0

Paint ==
  /\ held.ref # held.state
  /\ held' = [held EXCEPT !.ref = held.state]
  /\ UNCHANGED <<logVars, deskVars, recall, prompts>>

\* session_refresh, of any record read so far: catchUp's, or a start's.
Refresh(i) ==
  /\ held.state # i
  /\ held' = [held EXCEPT !.state = i]
  /\ UNCHANGED <<logVars, deskVars, recall, prompts>>

\* iosComposerHonesty: nothing unresolved, and no outcome unknown.
MaySend == \A i \in Ids : shown[i] \notin {"queued", "sent", "unknown"}

\* dispatchCommand, an attempt of it.
Attempt(c, n, text, press) ==
  /\ Unused # {}
  /\ call' = [call EXCEPT ![c] = [NoCall EXCEPT !.at = "wire", !.open = TRUE, !.id = FreshId, !.inc = held.ref,
                                                !.text = text, !.press = press, !.attempt = n]]

SendPrompt(c) ==
  /\ call[c] = NoCall /\ MaySend /\ prompts < MaxPrompts
  /\ prompts' = prompts + 1
  /\ Attempt(c, 1, prompts', <<0, prompts'>>)
  /\ shown' = [shown EXCEPT ![FreshId] = "sent"]
  /\ UNCHANGED <<logVars, hostVars, held, recall>>

Absorb(c) ==
  /\ Arrive(c) /\ IsRow(c)
  /\ shown' = [shown EXCEPT ![call[c].id] = Worded(call[c].answer)]
  /\ Done(c)
  /\ UNCHANGED <<logVars, hostVars, phoneSendVars>>

FaultyRetryable(c) == call[c].answer \notin {"acknowledged", "completed"} /\ call[c].attempt < 2
\* commandFailurePlan, of an error with a code of the host.
Retryable(c) == call[c].answer = "refused" /\ call[c].attempt < 2

\* A refusal: the row is marked, and the record read again.
Refused(c) ==
  /\ Arrive(c) /\ Retryable(c)
  /\ shown' = [shown EXCEPT ![call[c].id] = "not_dispatched"]
  /\ call' = [call EXCEPT ![c].at = "record"]
  /\ UNCHANGED <<logVars, hostVars, phoneSendVars>>

\* getSession answers: session_refresh, and the second attempt at once.
Resend(c) ==
  /\ call[c].at = "record"
  /\ held' = [held EXCEPT !.state = incarnation]
  /\ Attempt(c, 2, call[c].text, call[c].press)
  /\ shown' = [shown EXCEPT ![FreshId] = "sent"]
  /\ UNCHANGED <<logVars, hostVars, recall, prompts>>

\* The record could not be read.
RefreshBreaks(c) ==
  /\ call[c].at = "record" /\ RequestFails
  /\ shown' = [shown EXCEPT ![call[c].id] = "unknown"]
  /\ Done(c)
  /\ UNCHANGED <<hostVars, phoneSendVars>>

\* Any other failure: the outcome is unknown.
MarkUnknown(c) ==
  /\ Arrive(c) /\ ~IsRow(c) /\ ~Retryable(c)
  /\ shown' = [shown EXCEPT ![call[c].id] = "unknown"]
  /\ Done(c)
  /\ UNCHANGED <<logVars, hostVars, phoneSendVars>>
PromptBreaks(c) ==
  /\ HangUp(c)
  /\ shown' = [shown EXCEPT ![call[c].id] = "unknown"]
  /\ UNCHANGED <<hostVars, phoneSendVars>>

\* selectSession reads the command rows, and shows the ones it knows as they were.
Recall ==
  /\ recall.at = "idle" /\ prompts < MaxPrompts
  /\ recall' = [at |-> "rows", rows |-> status] /\ prompts' = prompts + 1
  /\ UNCHANGED <<logVars, deskVars, held>>
AbsorbAll ==
  /\ recall.at = "rows"
  /\ shown' = [i \in Ids |-> IF "none" \in {recall.rows[i], shown[i]} THEN shown[i] ELSE Worded(recall.rows[i])]
  /\ recall' = NoRecall
  /\ UNCHANGED <<logVars, hostVars, call, held, prompts>>

PhoneSendNext ==
  \/ Paint \/ Recall \/ AbsorbAll
  \/ \E i \in 1..incarnation : Refresh(i)
  \/ \E c \in Calls : SendPrompt(c)
  \/ \E c \in Calls : Absorb(c)
  \/ \E c \in Calls : Refused(c)
  \/ \E c \in Calls : Resend(c)
  \/ \E c \in Calls : RefreshBreaks(c)
  \/ \E c \in Calls : MarkUnknown(c)
  \/ \E c \in Calls : PromptBreaks(c)
=============================================================================
