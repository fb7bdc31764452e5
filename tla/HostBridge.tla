------------------------------ MODULE HostBridge ------------------------------
(***************************************************************************)
(* What the host wires between OMP and the user (apps/host/src/service.ts):*)
(* the dispatcher of host calls, whose authorizer asks the user through    *)
(* one UI broker (permissions); OMP's own dialogs in another (ui); and the *)
(* ui_response commands with which clients answer either.                  *)
(*                                                                         *)
(* A call is a read (let through), an edit (asks the user before its       *)
(* handler runs) or a permission request of OMP (its handler asks, and the *)
(* answer is the result).  When a call is aborted, its question is         *)
(* withdrawn in the same step.  The host registers tools only, so a URI    *)
(* request is refused (Refuse).                                            *)
(***************************************************************************)
EXTENDS HostDispatcher

CONSTANTS
  Prompts,          \* dialogs of OMP's extensions
  MaxQuestions,     \* maxSeenRequestIds of the broker of OMP's dialogs
  Responses         \* ids of ui_response commands

ASSUME BridgeAssumption ==
  /\ IsFiniteSet(Prompts) /\ IsFiniteSet(Responses)
  /\ Calls \cap Prompts = {}
  /\ MaxQuestions \in Nat

VARIABLES
  kind,             \* what a call is for
  grant,            \* what the policy answered the dispatcher or the handler
  pAsked, pPending, pClock, pAnswers,     \* runtime.permissions
  uAsked, uPending, uClock, uAnswers,     \* runtime.ui
  row               \* commands table: the ui_response commands

policyVars == <<kind, grant, pAsked, pPending, pClock, pAnswers>>
uiVars == <<uAsked, uPending, uClock, uAnswers>>
bridgeVars == <<dispatcherVars, policyVars, uiVars, row>>

Permissions == INSTANCE UiBroker WITH
  Dialogs <- Calls, MaxSeen <- MaxRequestIds, asked <- pAsked, pending <- pPending,
  clock <- pClock, answers <- pAnswers, shut <- disposed
Ui == INSTANCE UiBroker WITH
  Dialogs <- Prompts, MaxSeen <- MaxQuestions, asked <- uAsked, pending <- uPending,
  clock <- uClock, answers <- uAnswers, shut <- disposed

CallKinds == {"read", "edit", "permission"}
UserAnswers == {"yes", "no"}
NoRow == [st |-> "none", d |-> {}, r |-> "no"]

BridgeInit ==
  /\ Init /\ Permissions!BrokerInit /\ Ui!BrokerInit
  /\ kind = [i \in Calls |-> "read"]
  /\ grant = [i \in Calls |-> "none"]
  /\ row = [k \in Responses |-> NoRow]

----------------------------------------------------------------------------
\* The policy.


brokerP == <<pAsked, pPending, pClock, pAnswers>>

\* #permission and #nativePermission: record, then ask.  Recording may throw.
\* The dispatcher and this broker remember equally many ids, so there is room.
Ask(i) ==
  \/ /\ grant' = [grant EXCEPT ![i] = "waiting"]
     /\ Permissions!Ingest(i, TRUE)
  \/ grant' = [grant EXCEPT ![i] = "throws"] /\ UNCHANGED brokerP

Aborted(i) == flags[i] \cap {"cancelled", "timedOut"} # {}

FaultyWithdraw == UNCHANGED <<grant, brokerP>>

\* The abort listener of a question still open: withdraw it, and answer no.
Withdraw ==
  /\ pPending' = {i \in pPending : ~Aborted(i)'}
  /\ grant' = [i \in Calls |->
       IF grant[i] = "waiting" /\ Aborted(i)' THEN "deny" ELSE grant[i]]
  /\ UNCHANGED <<pAsked, pClock, pAnswers>>

FaultyAuthorization(i) ==
  IF kind[i] = "edit" /\ grant[i] # "throws" THEN grant[i] ELSE "allow"

\* The answer the dispatcher's authorizer gives: only an edit waits for one.
Authorization(i) == IF kind[i] = "edit" THEN grant[i] ELSE "allow"

Settled(i) == grant[i] \in {"allow", "deny", "throws"}

HandlerOutcomes(i) ==
  IF kind[i] # "permission" THEN {"returns", "throws"}
  ELSE IF ~Settled(i) THEN {}
  ELSE {IF grant[i] = "throws" THEN "throws" ELSE "returns"}

----------------------------------------------------------------------------
\* Calls of OMP.

CallArrives(i) ==
  /\ Arrive(i, "tool")
  /\ \E k \in CallKinds :
       /\ kind' = [kind EXCEPT ![i] = k]
       /\ IF k = "edit" THEN Ask(i) ELSE UNCHANGED <<grant, brokerP>>
  /\ UNCHANGED <<uiVars, row>>

AuthorizerWakes(i) ==
  /\ Authorization(i) \in {"allow", "deny", "throws"}
  /\ AuthorizerAnswers(i, Authorization(i))
  /\ IF kind[i] = "permission" /\ starts'[i] # starts[i] THEN Ask(i) ELSE Withdraw
  /\ UNCHANGED <<kind, uiVars, row>>

OtherCallStep(i) ==
  /\ \/ Cancel(i, "tool") \/ Refuse(i) \/ AtCapacity(i)
     \/ Update(i) \/ Send(i)
     \/ \E ok \in BOOLEAN : SendSettles(i, ok)
     \/ \E a \in HandlerOutcomes(i) : HandlerAnswers(i, a)
     \/ NoticeSettles(i) \/ DeadlinePasses(i) \/ TimerFires(i)
  /\ Withdraw
  /\ UNCHANGED <<kind, uiVars, row>>

----------------------------------------------------------------------------
\* The user's answers.  A client sends a response as a command under an id of
\* its own; the command is claimed in the store before the broker is asked.

SetRow(k, st, d, r) == row' = [row EXCEPT ![k] = [st |-> st, d |-> {d}, r |-> r]]

\* Stale, late or after the end: the row says so, whatever it was an answer to.
Reject(k) == row' = [row EXCEPT ![k].st = "not_dispatched"]

FreshRow(k) == row[k].st = "none"

\* respond to a permission: the broker's send is the resolver of the question,
\* so the answer is the grant before the promise settles.
AnswerPermission(k, i, r) ==
  /\ FreshRow(k)
  /\ \/ /\ Permissions!Respond(i, r)
        /\ grant' = [grant EXCEPT ![i] = IF r = "yes" /\ ~Aborted(i) THEN "allow" ELSE "deny"]
        /\ SetRow(k, "completed", i, r)
     \/ /\ ~disposed /\ Permissions!RespondLate(i)
        /\ grant' = [grant EXCEPT ![i] = "deny"]
        /\ Reject(k)
     \/ /\ i \notin pPending
        /\ Reject(k)
        /\ UNCHANGED <<grant, brokerP>>
  /\ UNCHANGED <<dispatcherVars, kind, uiVars>>

\* respond to a dialog of OMP: the answer is written to the process.
AnswerPrompt(k, p, r) ==
  /\ FreshRow(k)
  /\ \/ Ui!Respond(p, r) /\ SetRow(k, "claimed", p, r)
     \/ Ui!RespondLate(p) /\ Reject(k)
     \/ p \notin uPending /\ Reject(k) /\ UNCHANGED uiVars
  /\ UNCHANGED <<dispatcherVars, policyVars>>

FaultyPromptWritten(k) ==
  /\ row[k].st = "claimed"
  /\ \E st \in {"completed", "not_dispatched"} : row' = [row EXCEPT ![k].st = st]
  /\ UNCHANGED <<dispatcherVars, policyVars, uiVars>>

PromptWritten(k) ==
  /\ row[k].st = "claimed"
  /\ \E st \in {"completed", "outcome_unknown"} : row' = [row EXCEPT ![k].st = st]
  /\ UNCHANGED <<dispatcherVars, policyVars, uiVars>>

QuestionClock(i) ==
  /\ Permissions!ClockPasses(i)
  /\ UNCHANGED <<dispatcherVars, kind, grant, uiVars, row>>

QuestionExpires(i) ==
  /\ Permissions!Expire(i)
  /\ grant' = [grant EXCEPT ![i] = "deny"]
  /\ UNCHANGED <<dispatcherVars, kind, uiVars, row>>

PromptStep(p) ==
  /\ \/ \E timed \in BOOLEAN : Ui!Ingest(p, timed)
     \/ Ui!ServerCancel(p) \/ Ui!ClockPasses(p) \/ Ui!Expire(p)
  /\ UNCHANGED <<dispatcherVars, policyVars, row>>

\* ui.dispose and #disposePolicy: when OMP is lost, stopped or faulted.
Close ==
  /\ Dispose /\ Permissions!Shut /\ Ui!Shut
  /\ grant' = [i \in Calls |-> IF grant[i] = "waiting" THEN "deny" ELSE grant[i]]
  /\ UNCHANGED <<kind, row>>

BridgeNext ==
  \/ Close
  \/ \E i \in Calls :
       \/ CallArrives(i) \/ AuthorizerWakes(i) \/ OtherCallStep(i)
       \/ QuestionClock(i) \/ QuestionExpires(i)
  \/ \E p \in Prompts : PromptStep(p)
  \/ \E k \in Responses :
       \/ \E r \in UserAnswers :
            \/ \E i \in Calls : AnswerPermission(k, i, r)
            \/ \E p \in Prompts : AnswerPrompt(k, p, r)
       \/ PromptWritten(k)

\* Timers and promise callbacks run, and a write ends within its bounded wait;
\* nothing is assumed of OMP, of the handlers or of the user.
BridgeFairness ==
  \A i \in Calls :
    /\ WF_bridgeVars(DeadlinePasses(i) /\ OtherCallStep(i))
    /\ WF_bridgeVars(TimerFires(i) /\ OtherCallStep(i))
    /\ WF_bridgeVars(Send(i) /\ OtherCallStep(i))
    /\ WF_bridgeVars((\E ok \in BOOLEAN : SendSettles(i, ok)) /\ OtherCallStep(i))
    /\ WF_bridgeVars(NoticeSettles(i) /\ OtherCallStep(i))

BridgeSpec == BridgeInit /\ [][BridgeNext]_bridgeVars /\ BridgeFairness

----------------------------------------------------------------------------
\* Properties.

BridgeTypeOK ==
  /\ TypeOK /\ Permissions!BrokerTypeOK /\ Ui!BrokerTypeOK
  /\ kind \in [Calls -> CallKinds]
  /\ grant \in [Calls -> {"none", "waiting", "allow", "deny", "throws"}]
  /\ row \in [Responses ->
       [st : {"none", "claimed", "completed", "not_dispatched", "outcome_unknown"},
        d : SUBSET (Calls \cup Prompts), r : UserAnswers]]

\* No dialog, OMP's or the policy's, is answered twice or after it was withdrawn.
OneAnswerEach == Permissions!OneAnswer /\ Ui!OneAnswer

\* An edit runs its handler, and OMP's permission request gets its grant, only
\* when the user said yes to that very question.
ConsentBeforeEffect ==
  \A i \in Calls :
    /\ kind[i] = "edit" /\ starts[i] > 0 => grant[i] = "allow"
    /\ grant[i] = "allow" => pAnswers[i] = <<"yes">>

\* A question whose call was cancelled, timed out or closed can no longer be
\* answered: nothing the user still sees may grant it.
NoOrphanQuestion ==
  \A i \in pPending : ~disposed /\ ~Aborted(i) /\ grant[i] = "waiting"

Submitted == {"claimed", "completed", "outcome_unknown"}

AnswersOf(d) == IF d \in Calls THEN pAnswers[d] ELSE uAnswers[d]

\* The command row of an answer tells the truth: an answer that was given to the
\* asker has one row that says so (or that it is in doubt), and a row that says
\* not_dispatched belongs to an answer nobody got.
RowsTellTheTruth ==
  /\ \A k \in Responses : row[k].st \in Submitted =>
       \E d \in row[k].d : AnswersOf(d) = <<row[k].r>>
  /\ \A d \in Calls \cup Prompts :
       AnswersOf(d) \in {<<r>> : r \in UserAnswers} =>
         Cardinality({k \in Responses : row[k].st \in Submitted /\ d \in row[k].d}) = 1
=============================================================================
