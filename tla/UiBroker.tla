------------------------------- MODULE UiBroker -------------------------------
(***************************************************************************)
(* One incarnation of the extension UI broker                              *)
(* (packages/omp-adapter/src/ui.ts, ExtensionUiBroker): it holds the       *)
(* questions OMP, or the permission policy, has for the user, and gives    *)
(* each at most one answer, whether the user, the clock or the asker is    *)
(* first.  Every operation is synchronous up to the write of the answer.   *)
(***************************************************************************)
EXTENDS Naturals, Sequences, FiniteSets, TLAPS

CONSTANTS
  Dialogs,          \* ids of the interactive requests of this incarnation
  MaxSeen           \* maxSeenRequestIds

VARIABLES
  asked,            \* #seenRequestIds
  pending,          \* #pending: dialogs that wait for an answer
  clock,            \* deadline of a dialog: none, ahead, passed
  answers,          \* history: the answers written for a dialog
  shut              \* #disposed

brokerVars == <<asked, pending, clock, answers, shut>>

Answers == {"yes", "no"}                       \* what a user may answer
Replies == Answers \cup {"cancelled", "timedOut"}

BrokerInit ==
  /\ asked = {} /\ pending = {} /\ shut = FALSE
  /\ clock = [d \in Dialogs |-> "none"]
  /\ answers = [d \in Dialogs |-> <<>>]

Room(d) == ~shut /\ d \notin asked /\ Cardinality(asked) < MaxSeen

FaultyIngest(d, timed) ==
  /\ Room(d)
  /\ pending' = pending \cup {d}
  /\ clock' = [clock EXCEPT ![d] = IF timed THEN "ahead" ELSE "none"]
  /\ UNCHANGED <<asked, answers, shut>>

\* ingest of a select, confirm, input or editor request; a duplicate id, or one
\* beyond the capacity, leaves a diagnostic only.
Ingest(d, timed) ==
  /\ Room(d)
  /\ asked' = asked \cup {d}
  /\ pending' = pending \cup {d}
  /\ clock' = [clock EXCEPT ![d] = IF timed THEN "ahead" ELSE "none"]
  /\ UNCHANGED <<answers, shut>>

FaultyReply(d, r) ==
  /\ answers' = [answers EXCEPT ![d] = Append(@, r)]
  /\ UNCHANGED <<pending, asked, clock, shut>>

\* #takePending and #sendOnce: the dialog is claimed before it is answered.
Reply(d, r) ==
  /\ pending' = pending \ {d}
  /\ answers' = [answers EXCEPT ![d] = Append(@, r)]
  /\ UNCHANGED <<asked, clock, shut>>

\* respond and cancel.  An answer after the deadline expires the dialog, and is
\* stale like one for a dialog that is not pending.
Accepts(d) == d \in pending /\ clock[d] # "passed"
Respond(d, r) == Accepts(d) /\ Reply(d, r)
RespondLate(d) == d \in pending /\ clock[d] = "passed" /\ Reply(d, "timedOut")

\* The request of the asker to withdraw a dialog; nothing is sent.
ServerCancel(d) ==
  /\ d \in pending
  /\ pending' = pending \ {d}
  /\ UNCHANGED <<asked, clock, answers, shut>>

ClockPasses(d) ==
  /\ d \in pending /\ clock[d] = "ahead"
  /\ clock' = [clock EXCEPT ![d] = "passed"]
  /\ UNCHANGED <<asked, pending, answers, shut>>

Expire(d) == d \in pending /\ clock[d] = "passed" /\ Reply(d, "timedOut")

Shut ==
  /\ ~shut
  /\ shut' = TRUE /\ pending' = {}
  /\ UNCHANGED <<asked, clock, answers>>

BrokerNext ==
  \/ Shut
  \/ \E d \in Dialogs :
       \/ \E timed \in BOOLEAN : Ingest(d, timed)
       \/ \E r \in Answers \cup {"cancelled"} : Respond(d, r)
       \/ RespondLate(d) \/ ServerCancel(d) \/ ClockPasses(d) \/ Expire(d)

BrokerSpec == BrokerInit /\ [][BrokerNext]_brokerVars

----------------------------------------------------------------------------

BrokerTypeOK ==
  /\ asked \subseteq Dialogs /\ pending \subseteq asked
  /\ clock \in [Dialogs -> {"none", "ahead", "passed"}]
  /\ answers \in [Dialogs -> Seq(Replies)]
  /\ shut \in BOOLEAN

\* A dialog is answered at most once, and never while it may still be answered
\* again: the user, the deadline, the asker and the shutdown exclude each other.
OneAnswer ==
  \A d \in Dialogs :
    /\ Len(answers[d]) <= 1
    /\ answers[d] # <<>> => d \in asked /\ d \notin pending

----------------------------------------------------------------------------

BrokerInv == BrokerTypeOK /\ OneAnswer

\* One answer is kept by every step of the broker (and by what leaves it alone).
LEMMA BrokerStep == BrokerInv /\ [BrokerNext]_brokerVars => BrokerInv'
<1> SUFFICES ASSUME BrokerInv, [BrokerNext]_brokerVars PROVE BrokerInv'
  OBVIOUS
<1> USE DEF BrokerInv, BrokerTypeOK, OneAnswer, Answers, Replies
<1>1. CASE Shut
  BY <1>1 DEF Shut
<1>2. ASSUME NEW d \in Dialogs, NEW timed \in BOOLEAN, Ingest(d, timed) PROVE BrokerInv'
  BY <1>2 DEF Ingest, Room
<1>3. ASSUME NEW d \in Dialogs, d \in pending, NEW r \in Replies, Reply(d, r) PROVE BrokerInv'
  BY <1>3 DEF Reply
<1>4. ASSUME NEW d \in Dialogs, ServerCancel(d) PROVE BrokerInv'
  BY <1>4 DEF ServerCancel
<1>5. ASSUME NEW d \in Dialogs, ClockPasses(d) PROVE BrokerInv'
  BY <1>5 DEF ClockPasses
<1>6. CASE UNCHANGED brokerVars
  BY <1>6 DEF brokerVars
<1> QED
  BY <1>1, <1>2, <1>3, <1>4, <1>5, <1>6
     DEF BrokerNext, Respond, RespondLate, Expire, Accepts

\* Questions may be withdrawn, several at once, without an answer.
LEMMA BrokerWithdraws ==
  BrokerInv /\ pending' \subseteq pending /\ UNCHANGED <<asked, clock, answers, shut>> => BrokerInv'
BY DEF BrokerInv, BrokerTypeOK, OneAnswer

LEMMA BrokerStarts == BrokerInit => BrokerInv
<1> SUFFICES ASSUME BrokerInit PROVE BrokerInv
  OBVIOUS
<1>1. \A d \in Dialogs : answers[d] = <<>>
  BY DEF BrokerInit
<1>2. answers \in [Dialogs -> Seq(Replies)]
  BY DEF BrokerInit
<1>3. BrokerTypeOK
  BY <1>2 DEF BrokerInit, BrokerTypeOK
<1>4. OneAnswer
  BY <1>1 DEF OneAnswer
<1> QED
  BY <1>3, <1>4 DEF BrokerInv

\* A dialog gets at most one answer, for any set of dialogs and any capacity.
THEOREM AnsweredOnce == BrokerSpec => []OneAnswer
<1>1. BrokerInv => OneAnswer
  BY DEF BrokerInv
<1> QED
  BY <1>1, BrokerStarts, BrokerStep, PTL DEF BrokerSpec
=============================================================================
