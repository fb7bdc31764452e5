---------------------------- MODULE HostBridgeProofs ----------------------------
(***************************************************************************)
(* Theorems about the dispatcher of host calls, and about the bridge that  *)
(* contains it, for any calls, dialogs and capacities.                     *)
(*                                                                         *)
(* HostDispatcher: a call there is room for gets one result and nothing    *)
(* after it, and no handler starts late.  Neither is inductive alone: what *)
(* the output chain still holds, and why a call is no longer live, decide  *)
(* what may be written behind a result.                                    *)
(*                                                                         *)
(* HostBridge: its dispatcher behaves as HostDispatcher does, each question*)
(* has one answer, effects have the user's consent, and the rows of the    *)
(* ui_response commands tell the truth.                                    *)
(***************************************************************************)
EXTENDS HostBridge, FiniteSetTheorems, TLAPS

ResultLast(s) == \A n \in 1 .. Len(s) : s[n] = "result" => n = Len(s)
NoResult(s) == \A n \in 1 .. Len(s) : s[n] # "result"

\* An id that was not reserved is untouched, but for the answers AtCapacity
\* gives, and after the first of them no id is ever reserved.
Untouched(i) ==
  i \notin seen =>
    /\ stage[i] = "new" /\ i \notin listed /\ flags[i] = {}
    /\ chain[i] = <<>> /\ ~sending[i] /\ starts[i] = 0
    /\ sent[i] # <<>> => ~(Cardinality(seen) < MaxRequestIds)

Refused(i) ==
  stage[i] = "refused" => i \notin listed /\ chain[i] = <<>> /\ ~sending[i]

NotStarted(i) == stage[i] = "authorizing" => starts[i] = 0

\* A result that is queued is the last output of a call that completed in time.
Chained(i) ==
  /\ "timedOut" \in flags[i] => "completed" \in flags[i]
  /\ sending[i] => chain[i] # <<>>
  /\ ResultLast(chain[i])
  /\ ~NoResult(chain[i]) => "completed" \in flags[i] /\ "timedOut" \notin flags[i]

\* Once the result is out, what is left of the chain is silenced or empty.
Answered(i) ==
  /\ i \in seen => ResultLast(sent[i])
  /\ i \in seen /\ ~NoResult(sent[i]) =>
       \/ stage[i] = "refused"
       \/ "timedOut" \in flags[i]
       \/ /\ "completed" \in flags[i]
          /\ chain[i] = <<>> \/ (sending[i] /\ Head(chain[i]) = "result")

CallInv(i) == Untouched(i) /\ Refused(i) /\ NotStarted(i) /\ Chained(i) /\ Answered(i)
IInv == TypeOK /\ \A i \in Calls : CallInv(i)

----------------------------------------------------------------------------
\* Sequences of outputs.

LEMMA AppendResult ==
  ASSUME NEW s \in Seq(Outputs), NoResult(s)
  PROVE  /\ Append(s, "result") \in Seq(Outputs) /\ ResultLast(Append(s, "result"))
         /\ ~NoResult(Append(s, "result"))
<1>1. Len(Append(s, "result")) = Len(s) + 1 /\ Append(s, "result")[Len(s) + 1] = "result"
  OBVIOUS
<1>2. \A n \in 1 .. Len(s) : Append(s, "result")[n] = s[n]
  OBVIOUS
<1> QED
  BY <1>1, <1>2 DEF NoResult, ResultLast, Outputs

LEMMA AppendUpdate ==
  ASSUME NEW s \in Seq(Outputs), NoResult(s)
  PROVE  Append(s, "update") \in Seq(Outputs) /\ NoResult(Append(s, "update"))
<1>1. Len(Append(s, "update")) = Len(s) + 1 /\ Append(s, "update")[Len(s) + 1] = "update"
  OBVIOUS
<1>2. \A n \in 1 .. Len(s) : Append(s, "update")[n] = s[n]
  OBVIOUS
<1> QED
  BY <1>1, <1>2 DEF NoResult, Outputs

LEMMA NoneIsLast == ASSUME NEW s, NoResult(s) PROVE ResultLast(s)
BY DEF NoResult, ResultLast

LEMMA EmptyIsClean == <<>> \in Seq(Outputs) /\ NoResult(<<>>)
BY DEF NoResult

\* What is left behind the head of a chain.
LEMMA TailOfChain ==
  ASSUME NEW s \in Seq(Outputs), s # <<>>, ResultLast(s)
  PROVE  /\ Tail(s) \in Seq(Outputs) /\ Head(s) \in Outputs
         /\ ResultLast(Tail(s)) /\ (~NoResult(Tail(s)) => ~NoResult(s))
         /\ Head(s) = "result" => Tail(s) = <<>> /\ ~NoResult(s)
<1>1. Len(s) \in Nat /\ Len(s) >= 1 /\ Len(Tail(s)) = Len(s) - 1 /\ Head(s) = s[1]
  OBVIOUS
<1>2. \A n \in 1 .. Len(Tail(s)) : Tail(s)[n] = s[n + 1]
  BY SMTT(30)
<1>3. Head(s) = "result" => Len(s) = 1
  <2>1. 1 \in 1 .. Len(s)
    BY <1>1
  <2> QED
    BY <1>1, <2>1 DEF ResultLast
<1>4. Tail(s) \in Seq(Outputs) /\ Head(s) \in Outputs
  OBVIOUS
<1>5. Head(s) = "result" => Tail(s) = <<>>
  BY <1>1, <1>3, <1>4
<1>6. ResultLast(Tail(s))
  <2> SUFFICES ASSUME NEW n \in 1 .. Len(Tail(s)), Tail(s)[n] = "result" PROVE n = Len(Tail(s))
    BY DEF ResultLast
  <2>1. n \in Nat /\ n + 1 \in 1 .. Len(s) /\ s[n + 1] = "result"
    BY <1>1, <1>2
  <2>2. n + 1 = Len(s)
    BY <2>1 DEF ResultLast
  <2>3. n = Len(s) - 1
    <3> DEFINE l == Len(s)
    <3>1. l \in Nat /\ n \in Nat /\ n + 1 = l
      BY <1>1, <2>1, <2>2
    <3> HIDE DEF l
    <3>2. n = l - 1
      BY <3>1
    <3> QED
      BY <3>2, Zenon DEF l
  <2> QED
    BY <1>1, <2>3, Zenon
<1>7. ~NoResult(Tail(s)) => ~NoResult(s)
  BY <1>1, <1>2 DEF NoResult
<1> QED
  BY <1>1, <1>3, <1>4, <1>5, <1>6, <1>7 DEF NoResult

----------------------------------------------------------------------------
\* Steps.

\* What a live call has not done yet.
LEMMA LiveCall ==
  ASSUME IInv, NEW i \in Calls, Live(i)
  PROVE  /\ i \in seen /\ i \in listed /\ ~disposed
         /\ stage[i] # "refused"
         /\ "completed" \notin flags[i] /\ "timedOut" \notin flags[i] /\ "cancelled" \notin flags[i]
         /\ NoResult(chain[i]) /\ NoResult(sent[i])
         /\ chain[i] # <<>> => Head(chain[i]) # "result"
<1> USE DEF IInv, TypeOK, CallInv, Untouched, Refused, Chained, Answered, Live
<1>1. /\ i \in seen /\ i \in listed /\ ~disposed
      /\ stage[i] # "refused"
      /\ "completed" \notin flags[i] /\ "timedOut" \notin flags[i] /\ "cancelled" \notin flags[i]
      /\ NoResult(chain[i]) /\ NoResult(sent[i])
  OBVIOUS
<1>2. chain[i] # <<>> => Head(chain[i]) # "result"
  BY <1>1, TailOfChain
<1> QED
  BY <1>1, <1>2

Same(j) ==
  /\ j \in listed' <=> j \in listed
  /\ stage'[j] = stage[j] /\ flags'[j] = flags[j] /\ chain'[j] = chain[j]
  /\ sending'[j] = sending[j] /\ sent'[j] = sent[j] /\ starts'[j] = starts[j]

\* The other calls: a step touches one, and reserves an id only with room left.
LEMMA OtherCall ==
  ASSUME IInv, NEW j \in Calls, Same(j), j \in seen' <=> j \in seen,
         seen' = seen \/ Cardinality(seen) < MaxRequestIds
  PROVE  CallInv(j)'
BY DEF IInv, CallInv, Untouched, Refused, NotStarted, Chained, Answered, Same
\* The deadline of a live call, whoever notices it.
LEMMA TimeoutInv ==
  ASSUME IInv, NEW i \in Calls, Live(i), Timeout(i),
         stage' = stage \/ GiveUp(i), UNCHANGED <<chain, disposed, seen, op, due, sending, resolved, starts>>
  PROVE  IInv'
<1> USE DEF Timeout, Raise, Give, GiveUp
<1>1. TypeOK'
  BY LiveCall, AppendResult DEF IInv, TypeOK, Stages, Flags, Outputs, Operations
<1>2. ASSUME NEW j \in Calls, j # i PROVE CallInv(j)'
  <2>1. Same(j) /\ (j \in seen' <=> j \in seen)
    BY <1>2 DEF IInv, TypeOK, Same
  <2>2. seen' = seen \/ Cardinality(seen) < MaxRequestIds
    OBVIOUS
  <2> QED
    BY <2>1, <2>2, OtherCall
<1>3. CallInv(i)'
  BY LiveCall, AppendResult DEF IInv, TypeOK, CallInv, Untouched, Refused, NotStarted, Chained, Answered
<1> QED
  BY <1>1, <1>2, <1>3 DEF IInv

\* The result of a live call goes behind its updates.
LEMMA FinishInv ==
  ASSUME IInv, NEW i \in Calls, Live(i), Finish(i),
         UNCHANGED <<disposed, seen, op, due, sending, resolved, starts>>
  PROVE  IInv'
<1> USE DEF Finish, Raise
<1>1. TypeOK'
  BY LiveCall, AppendResult DEF IInv, TypeOK, Stages, Flags, Outputs, Operations
<1>2. ASSUME NEW j \in Calls, j # i PROVE CallInv(j)'
  <2>1. Same(j) /\ (j \in seen' <=> j \in seen)
    BY <1>2 DEF IInv, TypeOK, Same
  <2>2. seen' = seen \/ Cardinality(seen) < MaxRequestIds
    OBVIOUS
  <2> QED
    BY <2>1, <2>2, OtherCall
<1>3. CallInv(i)'
  <2>1. /\ i \in seen /\ NoResult(sent[i]) /\ stage[i] # "refused"
        /\ "timedOut" \notin flags[i] /\ NoResult(chain[i]) /\ chain[i] \in Seq(Outputs)
    BY LiveCall DEF IInv, TypeOK
  <2>2. /\ flags'[i] = flags[i] \cup {"completed"} /\ chain'[i] = Append(chain[i], "result")
        /\ stage'[i] = "finishing" /\ UNCHANGED <<seen, sent, sending, starts>>
    BY DEF IInv, TypeOK
  <2>3. /\ ResultLast(chain'[i]) /\ chain'[i] # <<>>
    BY <2>1, <2>2, AppendResult
  <2>4. Untouched(i)' /\ Refused(i)' /\ NotStarted(i)'
    BY <2>1, <2>2 DEF Untouched, Refused, NotStarted
  <2>5. Chained(i)'
    BY <2>1, <2>2, <2>3 DEF Chained
  <2>6. Answered(i)'
    BY <2>1, <2>2 DEF IInv, CallInv, Answered
  <2> QED
    BY <2>4, <2>5, <2>6 DEF CallInv
<1> QED
  BY <1>1, <1>2, <1>3 DEF IInv

LEMMA DroppedInv ==
  ASSUME IInv, NEW i \in Calls, stage[i] \in {"authorizing", "handling"}, Dropped(i),
         UNCHANGED <<disposed, seen, op, due, sending, resolved, starts>>
  PROVE  IInv'
<1> USE DEF Dropped, GiveUp
<1>1. TypeOK'
  BY DEF IInv, TypeOK, Stages, Flags, Outputs, Operations
<1>2. ASSUME NEW j \in Calls, j # i PROVE CallInv(j)'
  <2>1. Same(j) /\ (j \in seen' <=> j \in seen)
    BY <1>2 DEF IInv, TypeOK, Same
  <2>2. seen' = seen \/ Cardinality(seen) < MaxRequestIds
    OBVIOUS
  <2> QED
    BY <2>1, <2>2, OtherCall
<1>3. CallInv(i)'
  BY DEF IInv, TypeOK, CallInv, Untouched, Refused, NotStarted, Chained, Answered
<1> QED
  BY <1>1, <1>2, <1>3 DEF IInv

LEMMA ArriveInv ==
  ASSUME IInv, NEW i \in Calls, NEW o \in Operations, Arrive(i, o)
  PROVE  IInv'
<1> USE DEF Arrive, Reserve
<1>1. TypeOK'
  BY DEF IInv, TypeOK, Stages, Flags, Outputs, Operations
<1>2. ASSUME NEW j \in Calls, j # i PROVE CallInv(j)'
  <2>1. Same(j) /\ (j \in seen' <=> j \in seen)
    BY <1>2 DEF IInv, TypeOK, Same
  <2>2. seen' = seen \/ Cardinality(seen) < MaxRequestIds
    OBVIOUS
  <2> QED
    BY <2>1, <2>2, OtherCall
<1>3. CallInv(i)'
  BY DEF IInv, TypeOK, CallInv, Untouched, Refused, NotStarted, Chained, Answered
<1> QED
  BY <1>1, <1>2, <1>3 DEF IInv

LEMMA RefuseInv ==
  ASSUME IInv, NEW i \in Calls, Refuse(i)
  PROVE  IInv'
<1> USE DEF Refuse, Reserve, Give
<1>1. TypeOK'
  BY EmptyIsClean, AppendResult DEF IInv, TypeOK, Stages, Flags, Outputs, Operations
<1>2. ASSUME NEW j \in Calls, j # i PROVE CallInv(j)'
  <2>1. Same(j) /\ (j \in seen' <=> j \in seen)
    BY <1>2 DEF IInv, TypeOK, Same
  <2>2. seen' = seen \/ Cardinality(seen) < MaxRequestIds
    OBVIOUS
  <2> QED
    BY <2>1, <2>2, OtherCall
<1>3. CallInv(i)'
  BY EmptyIsClean, AppendResult DEF IInv, TypeOK, CallInv, Untouched, Refused, NotStarted, Chained, Answered
<1> QED
  BY <1>1, <1>2, <1>3 DEF IInv

LEMMA SeenCounts == TypeOK => Cardinality(seen) \in Nat
BY DispatcherAssumption, FS_Subset, FS_CardinalityType DEF TypeOK

LEMMA AtCapacityInv ==
  ASSUME IInv, NEW i \in Calls, AtCapacity(i)
  PROVE  IInv'
<1> USE DEF AtCapacity, Give
<1>1. TypeOK'
  <2>1. Append(sent[i], "result") \in Seq(Outputs)
    BY DEF IInv, TypeOK, Outputs
  <2> QED
    BY <2>1 DEF IInv, TypeOK
<1>2. ASSUME NEW j \in Calls, j # i PROVE CallInv(j)'
  <2>1. Same(j) /\ (j \in seen' <=> j \in seen)
    BY <1>2 DEF IInv, TypeOK, Same
  <2>2. seen' = seen \/ Cardinality(seen) < MaxRequestIds
    OBVIOUS
  <2> QED
    BY <2>1, <2>2, OtherCall
<1>3. ~(Cardinality(seen) < MaxRequestIds)
  BY SeenCounts, DispatcherAssumption DEF IInv
<1>4. CallInv(i)'
  BY <1>3 DEF IInv, CallInv, Untouched, Refused, NotStarted, Chained, Answered
<1> QED
  BY <1>1, <1>2, <1>4 DEF IInv

LEMMA CancelInv ==
  ASSUME IInv, NEW i \in Calls, NEW o \in Operations, Cancel(i, o)
  PROVE  IInv'
<1> USE DEF Cancel, Raise
<1>1. TypeOK'
  BY DEF IInv, TypeOK, Stages, Flags, Outputs, Operations
<1>2. ASSUME NEW j \in Calls, j # i PROVE CallInv(j)'
  <2>1. Same(j) /\ (j \in seen' <=> j \in seen)
    BY <1>2 DEF IInv, TypeOK, Same
  <2>2. seen' = seen \/ Cardinality(seen) < MaxRequestIds
    OBVIOUS
  <2> QED
    BY <2>1, <2>2, OtherCall
<1>3. CallInv(i)'
  BY DEF IInv, TypeOK, CallInv, Untouched, Refused, NotStarted, Chained, Answered
<1> QED
  BY <1>1, <1>2, <1>3 DEF IInv

LEMMA RunsInv ==
  ASSUME IInv, NEW i \in Calls, stage[i] = "authorizing", Runs(i),
         UNCHANGED <<disposed, seen, op, due, sending, resolved>>
  PROVE  IInv'
<1> USE DEF Runs
<1>1. TypeOK'
  BY LiveCall DEF IInv, TypeOK, Stages, Flags, Outputs, Operations
<1>2. ASSUME NEW j \in Calls, j # i PROVE CallInv(j)'
  <2>1. Same(j) /\ (j \in seen' <=> j \in seen)
    BY <1>2 DEF IInv, TypeOK, Same
  <2>2. seen' = seen \/ Cardinality(seen) < MaxRequestIds
    OBVIOUS
  <2> QED
    BY <2>1, <2>2, OtherCall
<1>3. CallInv(i)'
  BY LiveCall DEF IInv, TypeOK, CallInv, Untouched, Refused, NotStarted, Chained, Answered
<1> QED
  BY <1>1, <1>2, <1>3 DEF IInv

LEMMA NoticeInv ==
  ASSUME IInv, NEW i \in Calls, NoticeSettles(i)
  PROVE  IInv'
<1> USE DEF NoticeSettles
<1>1. TypeOK'
  BY DEF IInv, TypeOK, Stages, Flags, Outputs, Operations
<1>2. ASSUME NEW j \in Calls, j # i PROVE CallInv(j)'
  <2>1. Same(j) /\ (j \in seen' <=> j \in seen)
    BY <1>2 DEF IInv, TypeOK, Same
  <2>2. seen' = seen \/ Cardinality(seen) < MaxRequestIds
    OBVIOUS
  <2> QED
    BY <2>1, <2>2, OtherCall
<1>3. CallInv(i)'
  BY DEF IInv, TypeOK, CallInv, Untouched, Refused, NotStarted, Chained, Answered
<1> QED
  BY <1>1, <1>2, <1>3 DEF IInv

LEMMA DeadlineInv ==
  ASSUME IInv, NEW i \in Calls, DeadlinePasses(i)
  PROVE  IInv'
<1> USE DEF DeadlinePasses
<1>1. TypeOK'
  BY DEF IInv, TypeOK, Stages, Flags, Outputs, Operations
<1>2. ASSUME NEW j \in Calls, j # i PROVE CallInv(j)'
  <2>1. Same(j) /\ (j \in seen' <=> j \in seen)
    BY <1>2 DEF IInv, TypeOK, Same
  <2>2. seen' = seen \/ Cardinality(seen) < MaxRequestIds
    OBVIOUS
  <2> QED
    BY <2>1, <2>2, OtherCall
<1>3. CallInv(i)'
  BY DEF IInv, TypeOK, CallInv, Untouched, Refused, NotStarted, Chained, Answered
<1> QED
  BY <1>1, <1>2, <1>3 DEF IInv

\* An update of a live call is queued.
LEMMA UpdateInv ==
  ASSUME IInv, NEW i \in Calls, Live(i), chain' = [chain EXCEPT ![i] = Append(@, "update")],
         UNCHANGED <<disposed, seen, listed, op, stage, flags, due, sending,
                     notice, resolved, sent, starts>>
  PROVE  IInv'
<1> USE DEF Live
<1>1. TypeOK'
  BY LiveCall, AppendUpdate, NoneIsLast DEF IInv, TypeOK, Stages, Flags, Outputs, Operations
<1>2. ASSUME NEW j \in Calls, j # i PROVE CallInv(j)'
  <2>1. Same(j) /\ (j \in seen' <=> j \in seen)
    BY <1>2 DEF IInv, TypeOK, Same
  <2>2. seen' = seen \/ Cardinality(seen) < MaxRequestIds
    OBVIOUS
  <2> QED
    BY <2>1, <2>2, OtherCall
<1>3. CallInv(i)'
  <2>1. /\ i \in seen /\ NoResult(sent[i]) /\ NoResult(chain[i]) /\ chain[i] \in Seq(Outputs)
        /\ stage[i] # "refused"
    BY LiveCall DEF IInv, TypeOK
  <2>2. chain'[i] = Append(chain[i], "update")
    BY DEF IInv, TypeOK
  <2>3. NoResult(chain'[i]) /\ ResultLast(chain'[i]) /\ chain'[i] # <<>>
    BY <2>1, <2>2, AppendUpdate, NoneIsLast
  <2>4. Untouched(i)' /\ Refused(i)' /\ NotStarted(i)'
    BY <2>1 DEF IInv, CallInv, Untouched, Refused, NotStarted
  <2>5. Chained(i)'
    BY <2>3 DEF IInv, CallInv, Chained
  <2>6. Answered(i)'
    BY <2>1 DEF IInv, CallInv, Answered
  <2> QED
    BY <2>4, <2>5, <2>6 DEF CallInv
<1> QED
  BY <1>1, <1>2, <1>3 DEF IInv

\* The head of a chain is done, sent or not.
LEMMA AdvanceInv ==
  ASSUME IInv, NEW i \in Calls, chain[i] # <<>>, Advance(i),
         NEW S \in SUBSET {"outputFailed"}, Raise(i, S),
         sending' = [sending EXCEPT ![i] = FALSE],
         UNCHANGED <<disposed, seen, op, due, notice, sent, starts>>
  PROVE  IInv'
<1>1. /\ chain[i] \in Seq(Outputs) /\ ResultLast(chain[i])
      /\ Tail(chain[i]) \in Seq(Outputs) /\ Head(chain[i]) \in Outputs
      /\ ResultLast(Tail(chain[i])) /\ (~NoResult(Tail(chain[i])) => ~NoResult(chain[i]))
      /\ Head(chain[i]) = "result" => Tail(chain[i]) = <<>> /\ ~NoResult(chain[i])
  <2>1. chain[i] \in Seq(Outputs) /\ ResultLast(chain[i])
    BY DEF IInv, TypeOK, CallInv, Chained
  <2> QED
    BY <2>1, TailOfChain
<1>2. /\ chain' = [chain EXCEPT ![i] = Tail(chain[i])]
      /\ flags' = [flags EXCEPT ![i] = @ \cup S]
      /\ listed' = listed \/ listed' = listed \ {i}
      /\ resolved' = resolved \/ resolved' = [resolved EXCEPT ![i] = TRUE]
      /\ stage' = stage \/ stage' = [stage EXCEPT ![i] = "over"]
  BY DEF Advance, Raise, GiveUp
<1>3. TypeOK'
  BY <1>1, <1>2 DEF IInv, TypeOK, Stages, Flags
<1>4. ASSUME NEW j \in Calls, j # i PROVE CallInv(j)'
  <2>1. Same(j) /\ (j \in seen' <=> j \in seen)
    BY <1>2, <1>4 DEF IInv, TypeOK, Same
  <2> QED
    BY <2>1, OtherCall
<1>5. CallInv(i)'
  <2>1. /\ chain'[i] = Tail(chain[i]) /\ flags'[i] = flags[i] \cup S
        /\ sending'[i] = FALSE /\ sent'[i] = sent[i] /\ seen' = seen /\ starts'[i] = starts[i]
        /\ stage'[i] \in {stage[i], "over"} /\ (i \in listed' => i \in listed)
    BY <1>2 DEF IInv, TypeOK
  <2>2. i \in seen /\ stage[i] # "refused"
    BY DEF IInv, CallInv, Untouched, Refused
  <2>3. Untouched(i)' /\ Refused(i)' /\ NotStarted(i)'
    BY <2>1, <2>2 DEF IInv, CallInv, Untouched, Refused, NotStarted
  <2>4. Chained(i)'
    BY <1>1, <2>1 DEF IInv, CallInv, Chained
  <2>5. Answered(i)'
    <3>1. ResultLast(sent[i])
      BY <2>2 DEF IInv, CallInv, Answered
    <3>2. ASSUME ~NoResult(sent[i])
          PROVE  "timedOut" \in flags[i] \/ ("completed" \in flags[i] /\ Tail(chain[i]) = <<>>)
      BY <1>1, <2>2, <3>2 DEF IInv, CallInv, Chained, Answered
    <3> QED
      BY <2>1, <3>1, <3>2 DEF Answered
  <2> QED
    BY <2>3, <2>4, <2>5 DEF CallInv
<1> QED
  BY <1>3, <1>4, <1>5 DEF IInv

\* The head of a chain goes to the writer: nothing was sent behind a result yet.
LEMMA HeadSentInv ==
  ASSUME IInv, NEW i \in Calls, chain[i] # <<>>, ~sending[i],
         ~Silenced(i, Head(chain[i])), Give(i, Head(chain[i])),
         sending' = [sending EXCEPT ![i] = TRUE],
         UNCHANGED <<listed, stage, flags, chain, resolved, disposed, seen, op, due,
                     notice, starts>>
  PROVE  IInv'
<1>1. chain[i] \in Seq(Outputs) /\ ResultLast(chain[i]) /\ sent[i] \in Seq(Outputs)
  BY DEF IInv, TypeOK, CallInv, Chained
<1>2. Head(chain[i]) \in Outputs /\ (Head(chain[i]) = "result" => ~NoResult(chain[i]))
  BY <1>1, TailOfChain
<1>3. i \in seen /\ stage[i] # "refused"
  BY DEF IInv, CallInv, Untouched, Refused
<1>4. NoResult(sent[i])
  <2> SUFFICES ASSUME ~NoResult(sent[i]) PROVE FALSE
    OBVIOUS
  <2>1. "timedOut" \in flags[i]
    BY <1>3 DEF IInv, CallInv, Answered
  <2>2. Head(chain[i]) = "result"
    BY <1>2, <2>1 DEF Silenced, Outputs
  <2> QED
    BY <1>2, <2>1, <2>2 DEF IInv, CallInv, Chained
<1>5. /\ sent'[i] = Append(sent[i], Head(chain[i])) /\ sent'[i] \in Seq(Outputs)
      /\ sent' = [sent EXCEPT ![i] = Append(sent[i], Head(chain[i]))]
  BY <1>1, <1>2 DEF Give, IInv, TypeOK
<1>6. ResultLast(sent'[i]) /\ (~NoResult(sent'[i]) => Head(chain[i]) = "result")
  BY <1>1, <1>2, <1>4, <1>5, AppendResult, AppendUpdate, NoneIsLast DEF Outputs
<1>7. TypeOK'
  BY <1>5 DEF IInv, TypeOK
<1>8. ASSUME NEW j \in Calls, j # i PROVE CallInv(j)'
  <2>1. Same(j) /\ (j \in seen' <=> j \in seen)
    BY <1>5, <1>8 DEF IInv, TypeOK, Same
  <2> QED
    BY <2>1, OtherCall
<1>9. CallInv(i)'
  <2>1. sending'[i] = TRUE
    BY DEF IInv, TypeOK
  <2>2. Untouched(i)' /\ Refused(i)' /\ NotStarted(i)' /\ Chained(i)'
    BY <1>3 DEF IInv, CallInv, Untouched, Refused, NotStarted, Chained
  <2>3. Answered(i)'
    BY <1>2, <1>6, <2>1 DEF IInv, CallInv, Chained, Answered
  <2> QED
    BY <2>2, <2>3 DEF CallInv
<1> QED
  BY <1>7, <1>8, <1>9 DEF IInv

LEMMA SendInv ==
  ASSUME IInv, NEW i \in Calls, Send(i)
  PROVE  IInv'
<1>1. CASE Advance(i) /\ sending' = sending
  <2>1. sending' = [sending EXCEPT ![i] = FALSE]
    BY <1>1 DEF Send, IInv, TypeOK
  <2>2. Raise(i, {}) \/ Raise(i, {"outputFailed"})
    BY <1>1 DEF Send, Raise, Advance, Give, IInv, TypeOK
  <2>3. chain[i] # <<>> /\ UNCHANGED <<disposed, seen, op, due, notice, sent, starts>>
    BY <1>1 DEF Send, IInv, TypeOK
  <2> QED
    BY <1>1, <2>1, <2>2, <2>3, AdvanceInv
<1>2. CASE /\ ~Silenced(i, Head(chain[i])) /\ Give(i, Head(chain[i]))
           /\ sending' = [sending EXCEPT ![i] = TRUE]
           /\ UNCHANGED <<listed, stage, flags, chain, resolved>>
  BY <1>2, HeadSentInv DEF Send
<1> QED
  BY <1>1, <1>2 DEF Send

LEMMA SendSettlesInv ==
  ASSUME IInv, NEW i \in Calls, NEW ok \in BOOLEAN, SendSettles(i, ok)
  PROVE  IInv'
<1>1. chain[i] # <<>>
  BY DEF SendSettles, IInv, CallInv, Chained
<1>2. PICK S \in SUBSET {"outputFailed"} : Raise(i, S)
  BY DEF SendSettles
<1> QED
  BY <1>1, <1>2, AdvanceInv DEF SendSettles

LEMMA DisposeInv ==
  ASSUME IInv, Dispose
  PROVE  IInv'
<1> USE DEF Dispose
<1>1. TypeOK'
  BY DEF IInv, TypeOK, Flags
<1>2. ASSUME NEW i \in Calls PROVE CallInv(i)'
  BY DEF IInv, TypeOK, CallInv, Untouched, Refused, NotStarted, Chained, Answered
<1> QED
  BY <1>1, <1>2 DEF IInv

----------------------------------------------------------------------------
\* Theorems.

LEMMA CallStepInv ==
  ASSUME IInv, NEW i \in Calls, CallStep(i)
  PROVE  IInv'
<1>1. ASSUME NEW a \in {"allow", "deny", "throws"}, AuthorizerAnswers(i, a) PROVE IInv'
  BY <1>1, RunsInv, FinishInv, TimeoutInv, DroppedInv
     DEF AuthorizerAnswers, Runs, Denies, Expires, Dropped, Finish
<1>2. ASSUME NEW a \in {"returns", "throws"}, HandlerAnswers(i, a) PROVE IInv'
  BY <1>2, FinishInv, TimeoutInv, DroppedInv DEF HandlerAnswers, Expires, Dropped, Finish
<1>3. CASE Update(i)
  BY <1>3, UpdateInv, TimeoutInv DEF Update, Timeout
<1>4. CASE TimerFires(i)
  BY <1>4, TimeoutInv DEF TimerFires
<1> QED
  BY <1>1, <1>2, <1>3, <1>4, ArriveInv, CancelInv, RefuseInv, AtCapacityInv, SendInv,
     SendSettlesInv, NoticeInv, DeadlineInv DEF CallStep

LEMMA StepInv == IInv /\ [Next]_dispatcherVars => IInv'
<1> SUFFICES ASSUME IInv, [Next]_dispatcherVars PROVE IInv'
  OBVIOUS
<1>1. CASE UNCHANGED dispatcherVars
  BY <1>1 DEF dispatcherVars, IInv, TypeOK, CallInv, Untouched, Refused, NotStarted,
              Chained, Answered
<1> QED
  BY <1>1, CallStepInv, DisposeInv DEF Next

LEMMA InitInv == Init => IInv
<1> SUFFICES ASSUME Init PROVE IInv
  OBVIOUS
<1>1. TypeOK
  BY EmptyIsClean DEF Init, TypeOK, Stages, Flags, Operations
<1>2. \A i \in Calls : chain[i] = <<>> /\ sent[i] = <<>> /\ ~sending[i] /\ flags[i] = {}
                      /\ stage[i] = "new" /\ starts[i] = 0 /\ listed = {} /\ seen = {}
  BY DEF Init
<1>3. ASSUME NEW i \in Calls PROVE CallInv(i)
  <2>1. NoResult(chain[i]) /\ ResultLast(chain[i]) /\ NoResult(sent[i]) /\ ResultLast(sent[i])
    BY <1>2, EmptyIsClean, NoneIsLast
  <2> QED
    BY <1>2, <2>1 DEF CallInv, Untouched, Refused, NotStarted, Chained, Answered
<1> QED
  BY <1>1, <1>3 DEF IInv

LEMMA ClosesFromInv == IInv => ResultClosesCall
<1> SUFFICES ASSUME IInv, NEW i \in Calls
             PROVE  \/ ResultLast(sent[i])
                    \/ i \notin seen /\ Cardinality(seen) >= MaxRequestIds /\ starts[i] = 0
  BY DEF ResultClosesCall, ResultLast
<1>1. CASE i \in seen
  BY <1>1 DEF IInv, CallInv, Answered
<1>2. CASE i \notin seen /\ sent[i] # <<>>
  BY <1>2, SeenCounts, DispatcherAssumption DEF IInv, CallInv, Untouched
<1>3. CASE sent[i] = <<>>
  BY <1>3 DEF ResultLast
<1> QED
  BY <1>1, <1>2, <1>3

NoLateStep ==
  \A i \in Calls :
    /\ starts'[i] # starts[i] => starts[i] = 0 /\ Results(i) = {}
    /\ "cancelled" \in flags[i] => sent'[i] = sent[i] /\ starts'[i] = starts[i]

LEMMA NoneWithoutResult ==
  ASSUME IInv, NEW i \in Calls, NoResult(sent[i]) PROVE Results(i) = {}
<1>1. DOMAIN sent[i] = 1 .. Len(sent[i])
  BY DEF IInv, TypeOK
<1> QED
  BY <1>1 DEF Results, NoResult

\* What a step may write and start, one action at a time.
LEMMA StepIsNotLate == IInv /\ [Next]_dispatcherVars => NoLateStep
<1> SUFFICES ASSUME IInv, [Next]_dispatcherVars, NEW i \in Calls
             PROVE  /\ starts'[i] # starts[i] => starts[i] = 0 /\ Results(i) = {}
                    /\ "cancelled" \in flags[i] => sent'[i] = sent[i] /\ starts'[i] = starts[i]
  BY DEF NoLateStep
<1> DEFINE Quiet == "cancelled" \in flags[i] => sent'[i] = sent[i]
<1>1. CASE UNCHANGED dispatcherVars \/ Dispose
  BY <1>1 DEF dispatcherVars, Dispose
<1>2. ASSUME NEW k \in Calls, CallStep(k)
      PROVE  \/ starts' = starts /\ Quiet
             \/ k = i /\ Runs(i) /\ NotStarted(i) /\ stage[i] = "authorizing"
             \/ k # i /\ starts'[i] = starts[i] /\ sent' = sent
  <2> USE DEF IInv, TypeOK
  <2>1. CASE Refuse(k) \/ AtCapacity(k)
    BY <2>1 DEF Refuse, AtCapacity, Reserve, Give, CallInv, Untouched
  <2>2. ASSUME Live(k), Timeout(k), starts' = starts PROVE starts' = starts /\ Quiet
    BY <2>2, LiveCall DEF Timeout, Give
  <2>3. CASE Send(k)
    BY <2>3 DEF Send, Silenced, Give
  <2>4. ASSUME NEW a \in {"allow", "deny", "throws"}, AuthorizerAnswers(k, a), ~Runs(k)
        PROVE  starts' = starts /\ Quiet
    BY <2>4, <2>2 DEF AuthorizerAnswers, Denies, Expires, Dropped, Finish
  <2>5. ASSUME stage[k] = "authorizing", Runs(k)
        PROVE  \/ k = i /\ Runs(i) /\ NotStarted(i) /\ stage[i] = "authorizing"
               \/ k # i /\ starts'[i] = starts[i] /\ sent' = sent
    BY <2>5 DEF Runs, CallInv
  <2>6. ASSUME NEW a \in {"returns", "throws"}, HandlerAnswers(k, a) PROVE starts' = starts /\ Quiet
    BY <2>6, <2>2 DEF HandlerAnswers, Expires, Dropped, Finish
  <2>7. CASE Update(k)
    BY <2>7, <2>2 DEF Update
  <2>8. CASE TimerFires(k)
    BY <2>8, <2>2 DEF TimerFires
  <2>9. CASE \/ \E o \in Operations : Arrive(k, o) \/ Cancel(k, o)
             \/ \E ok \in BOOLEAN : SendSettles(k, ok)
             \/ NoticeSettles(k) \/ DeadlinePasses(k)
    BY <2>9 DEF Arrive, Cancel, SendSettles, NoticeSettles, DeadlinePasses
  <2> QED
    BY <1>2, <2>1, <2>3, <2>4, <2>5, <2>6, <2>7, <2>8, <2>9 DEF CallStep, AuthorizerAnswers
<1>3. ASSUME Runs(i), NotStarted(i), stage[i] = "authorizing"
      PROVE  starts[i] = 0 /\ Results(i) = {} /\ "cancelled" \notin flags[i]
  BY <1>3, LiveCall, NoneWithoutResult DEF Runs, NotStarted
<1> QED
  BY <1>1, <1>2, <1>3 DEF Next

\* A dispatcher's state is well typed, for any calls and any capacity.
THEOREM TypeCorrect == Spec => []TypeOK
<1>1. IInv => TypeOK
  BY DEF IInv
<1> QED
  BY <1>1, InitInv, StepInv, PTL DEF Spec

\* OMP gets one result at most for a call the dispatcher has room for, and nothing
\* about the call after it; one it has no room for is refused, however often, and
\* never runs.
THEOREM OneResult == Spec => []ResultClosesCall
BY InitInv, StepInv, ClosesFromInv, PTL DEF Spec

\* No handler starts twice or behind a result, and what was cancelled is silent.
THEOREM NothingLate == Spec => NoLateEffect
<1>1. IInv /\ [Next]_dispatcherVars => [NoLateStep]_dispatcherVars
  BY StepIsNotLate
<1>2. Spec => [][NoLateStep]_dispatcherVars
  BY <1>1, InitInv, StepInv, PTL DEF Spec
<1> QED
  BY <1>2 DEF NoLateEffect, NoLateStep

----------------------------------------------------------------------------
\* Every step of the bridge is one of the dispatcher, or leaves it alone.

LEMMA BridgeIsDispatcher == [BridgeNext]_bridgeVars => [Next]_dispatcherVars
<1> SUFFICES ASSUME [BridgeNext]_bridgeVars PROVE [Next]_dispatcherVars
  OBVIOUS
<1>1. CASE UNCHANGED bridgeVars
  BY <1>1 DEF bridgeVars, dispatcherVars
<1>2. CASE Close
  BY <1>2 DEF Close, Next
<1>3. ASSUME NEW i \in Calls, CallArrives(i) PROVE Next
  BY <1>3 DEF CallArrives, Next, CallStep, Operations
<1>4. ASSUME NEW i \in Calls, AuthorizerWakes(i) PROVE Next
  BY <1>4 DEF AuthorizerWakes, Next, CallStep
<1>5. ASSUME NEW i \in Calls, OtherCallStep(i) PROVE Next
  BY <1>5 DEF OtherCallStep, HandlerOutcomes, Next, CallStep, Operations
<1>6. ASSUME NEW i \in Calls, QuestionClock(i) \/ QuestionExpires(i) PROVE UNCHANGED dispatcherVars
  BY <1>6 DEF QuestionClock, QuestionExpires
<1>7. ASSUME NEW p \in Prompts, PromptStep(p) PROVE UNCHANGED dispatcherVars
  BY <1>7 DEF PromptStep
<1>8. ASSUME NEW k \in Responses, NEW r \in UserAnswers,
             \/ \E i \in Calls : AnswerPermission(k, i, r)
             \/ \E p \in Prompts : AnswerPrompt(k, p, r)
             \/ PromptWritten(k)
      PROVE  UNCHANGED dispatcherVars
  BY <1>8 DEF AnswerPermission, AnswerPrompt, PromptWritten
<1>9. ASSUME NEW k \in Responses, PromptWritten(k) PROVE UNCHANGED dispatcherVars
  BY <1>9 DEF PromptWritten
<1> QED
  BY <1>1, <1>2, <1>3, <1>4, <1>5, <1>6, <1>7, <1>8, <1>9 DEF BridgeNext

\* The bridge gives OMP one result for a call at most and nothing after it, but for
\* an id refused at capacity, which is refused again each time and never runs.
THEOREM BridgeOneResult == BridgeSpec => []ResultClosesCall
<1>1. BridgeInit => Init
  BY DEF BridgeInit
<1> QED
  BY <1>1, BridgeIsDispatcher, InitInv, StepInv, ClosesFromInv, PTL DEF BridgeSpec

\* And no handler starts twice, behind a result or after a cancellation.
THEOREM BridgeNothingLate == BridgeSpec => NoLateEffect
<1>1. BridgeInit => Init
  BY DEF BridgeInit
<1>2. IInv /\ [Next]_dispatcherVars => [NoLateStep]_dispatcherVars
  BY StepIsNotLate
<1>3. BridgeSpec => [][NoLateStep]_dispatcherVars
  BY <1>1, <1>2, BridgeIsDispatcher, InitInv, StepInv, PTL DEF BridgeSpec
<1> QED
  BY <1>3 DEF NoLateEffect, NoLateStep

----------------------------------------------------------------------------
\* Each question has one answer.

LEMMA PermissionsStep ==
  Permissions!BrokerInv /\ [BridgeNext]_bridgeVars => Permissions!BrokerInv'
<1> SUFFICES ASSUME Permissions!BrokerInv, [BridgeNext]_bridgeVars PROVE Permissions!BrokerInv'
  OBVIOUS
<1>1. [Permissions!BrokerNext]_(Permissions!brokerVars) => Permissions!BrokerInv'
  BY Permissions!BrokerStep
<1>2. Withdraw /\ disposed' = disposed => Permissions!BrokerInv'
  BY Permissions!BrokerWithdraws DEF Withdraw
<1>3. CASE UNCHANGED <<brokerP, disposed>>
  BY <1>1, <1>3 DEF brokerP, Permissions!brokerVars
<1>4. CASE Close
  BY <1>1, <1>4 DEF Close, Permissions!BrokerNext
<1>5. ASSUME NEW i \in Calls, Ask(i), disposed' = disposed PROVE Permissions!BrokerInv'
  BY <1>1, <1>3, <1>5 DEF Ask, Permissions!BrokerNext
<1>6. ASSUME NEW i \in Calls, CallArrives(i) PROVE Permissions!BrokerInv'
  BY <1>3, <1>5, <1>6 DEF CallArrives, Arrive
<1>7. ASSUME NEW i \in Calls, AuthorizerWakes(i) PROVE Permissions!BrokerInv'
  BY <1>2, <1>5, <1>7 DEF AuthorizerWakes, AuthorizerAnswers
<1>8. ASSUME NEW i \in Calls, OtherCallStep(i) PROVE Permissions!BrokerInv'
  BY <1>2, <1>8 DEF OtherCallStep, Cancel, Refuse, AtCapacity, Update, Send, SendSettles,
                    HandlerAnswers, NoticeSettles, DeadlinePasses, TimerFires
<1>9. ASSUME NEW i \in Calls, QuestionClock(i) \/ QuestionExpires(i) PROVE Permissions!BrokerInv'
  BY <1>1, <1>9 DEF QuestionClock, QuestionExpires, Permissions!BrokerNext
<1>10. ASSUME NEW k \in Responses, NEW i \in Calls, NEW r \in UserAnswers, AnswerPermission(k, i, r)
       PROVE  Permissions!BrokerInv'
  BY <1>1, <1>3, <1>10 DEF AnswerPermission, Permissions!BrokerNext, UserAnswers,
                           Permissions!Answers, dispatcherVars
<1>11. ASSUME NEW k \in Responses, NEW p \in Prompts, NEW r \in UserAnswers, AnswerPrompt(k, p, r)
       PROVE  Permissions!BrokerInv'
  BY <1>3, <1>11 DEF AnswerPrompt, dispatcherVars, policyVars, brokerP
<1>12. ASSUME NEW p \in Prompts, PromptStep(p) PROVE Permissions!BrokerInv'
  BY <1>3, <1>12 DEF PromptStep, dispatcherVars, policyVars, brokerP
<1>13. ASSUME NEW k \in Responses, PromptWritten(k) PROVE Permissions!BrokerInv'
  BY <1>3, <1>13 DEF PromptWritten, dispatcherVars, policyVars, brokerP
<1>14. CASE UNCHANGED bridgeVars
  BY <1>3, <1>14 DEF bridgeVars, dispatcherVars, policyVars, brokerP
<1> QED
  BY <1>4, <1>6, <1>7, <1>8, <1>9, <1>10, <1>11, <1>12, <1>13, <1>14 DEF BridgeNext

LEMMA UiStep == Ui!BrokerInv /\ [BridgeNext]_bridgeVars => Ui!BrokerInv'
<1> SUFFICES ASSUME Ui!BrokerInv, [BridgeNext]_bridgeVars PROVE Ui!BrokerInv'
  OBVIOUS
<1>1. [Ui!BrokerNext]_(Ui!brokerVars) => Ui!BrokerInv'
  BY Ui!BrokerStep
<1>2. CASE UNCHANGED <<uiVars, disposed>>
  BY <1>1, <1>2 DEF uiVars, Ui!brokerVars
<1>3. CASE Close
  BY <1>1, <1>3 DEF Close, Ui!BrokerNext
<1>4. ASSUME NEW i \in Calls, CallArrives(i) PROVE Ui!BrokerInv'
  BY <1>2, <1>4 DEF CallArrives, Arrive
<1>5. ASSUME NEW i \in Calls, AuthorizerWakes(i) PROVE Ui!BrokerInv'
  BY <1>2, <1>5 DEF AuthorizerWakes, AuthorizerAnswers
<1>6. ASSUME NEW i \in Calls, OtherCallStep(i) PROVE Ui!BrokerInv'
  BY <1>2, <1>6 DEF OtherCallStep, Cancel, Refuse, AtCapacity, Update, Send, SendSettles,
                    HandlerAnswers, NoticeSettles, DeadlinePasses, TimerFires
<1>7. ASSUME NEW i \in Calls, QuestionClock(i) \/ QuestionExpires(i) PROVE Ui!BrokerInv'
  BY <1>2, <1>7 DEF QuestionClock, QuestionExpires, dispatcherVars
<1>8. ASSUME NEW k \in Responses, NEW i \in Calls, NEW r \in UserAnswers, AnswerPermission(k, i, r)
      PROVE  Ui!BrokerInv'
  BY <1>2, <1>8 DEF AnswerPermission, dispatcherVars
<1>9. ASSUME NEW k \in Responses, NEW p \in Prompts, NEW r \in UserAnswers, AnswerPrompt(k, p, r)
      PROVE  Ui!BrokerInv'
  BY <1>1, <1>2, <1>9 DEF AnswerPrompt, Ui!BrokerNext, UserAnswers, Ui!Answers, dispatcherVars
<1>10. ASSUME NEW p \in Prompts, PromptStep(p) PROVE Ui!BrokerInv'
  BY <1>1, <1>10 DEF PromptStep, Ui!BrokerNext, dispatcherVars
<1>11. ASSUME NEW k \in Responses, PromptWritten(k) PROVE Ui!BrokerInv'
  BY <1>2, <1>11 DEF PromptWritten, dispatcherVars
<1>12. CASE UNCHANGED bridgeVars
  BY <1>2, <1>12 DEF bridgeVars, dispatcherVars
<1> QED
  BY <1>3, <1>4, <1>5, <1>6, <1>7, <1>8, <1>9, <1>10, <1>11, <1>12 DEF BridgeNext

\* No dialog, OMP's or the policy's, is answered twice or after a withdrawal.
THEOREM BridgeOneAnswer == BridgeSpec => []OneAnswerEach
<1> DEFINE Inv == Permissions!BrokerInv /\ Ui!BrokerInv
<1>1. BridgeInit => Inv
  BY Permissions!BrokerStarts, Ui!BrokerStarts DEF BridgeInit
<1>2. Inv /\ [BridgeNext]_bridgeVars => Inv'
  BY PermissionsStep, UiStep
<1>3. Inv => OneAnswerEach
  BY DEF OneAnswerEach, Permissions!BrokerInv, Ui!BrokerInv
<1> QED
  BY <1>1, <1>2, <1>3, PTL DEF BridgeSpec

----------------------------------------------------------------------------
\* Effects have consent.

BridgeTypes ==
  /\ kind \in [Calls -> CallKinds]
  /\ grant \in [Calls -> {"none", "waiting", "allow", "deny", "throws"}]

\* Nobody asks for a call that is not there, or for a permission request whose
\* handler has not begun.
Unasked ==
  \A i \in Calls :
    i \notin seen \/ (kind[i] = "permission" /\ stage[i] = "authorizing") => grant[i] = "none"

PolicyInv ==
  /\ IInv /\ Permissions!BrokerInv /\ Ui!BrokerInv
  /\ BridgeTypes /\ ConsentBeforeEffect /\ NoOrphanQuestion /\ Unasked

\* A question that is open has had no answer, and its call waits for one.
LEMMA OpenQuestion ==
  ASSUME PolicyInv, NEW i \in pPending
  PROVE  i \in Calls /\ pAnswers[i] = <<>> /\ grant[i] = "waiting" /\ ~disposed /\ ~Aborted(i)
BY DEF PolicyInv, NoOrphanQuestion, Permissions!BrokerInv, Permissions!BrokerTypeOK,
       Permissions!OneAnswer

\* Asking for a call that is live, or not yet begun.
LEMMA AskKeeps ==
  ASSUME PolicyInv, NEW i \in Calls, Ask(i), grant[i] = "none", kind' \in [Calls -> CallKinds],
         \A j \in Calls : j # i => kind'[j] = kind[j] /\ starts'[j] = starts[j] /\ flags'[j] = flags[j],
         kind'[i] = "edit" => starts'[i] = 0,
         ~Aborted(i)', ~disposed, disposed' = disposed
  PROVE  BridgeTypes' /\ ConsentBeforeEffect' /\ NoOrphanQuestion'
<1>1. i \notin pPending
  BY OpenQuestion
<1>2. \/ /\ grant' = [grant EXCEPT ![i] = "waiting"]
         /\ pPending' = pPending \cup {i} /\ pAnswers' = pAnswers
      \/ /\ grant' = [grant EXCEPT ![i] = "throws"]
         /\ pPending' = pPending /\ pAnswers' = pAnswers
  BY DEF Ask, Permissions!Ingest, brokerP
<1>3. BridgeTypes'
  BY <1>2 DEF PolicyInv, BridgeTypes
<1>4. ConsentBeforeEffect'
  BY <1>2 DEF PolicyInv, BridgeTypes, ConsentBeforeEffect
<1>5. NoOrphanQuestion'
  BY <1>1, <1>2, OpenQuestion DEF PolicyInv, BridgeTypes, NoOrphanQuestion, Aborted
<1> QED
  BY <1>3, <1>4, <1>5

\* Withdrawing, when the step raised flags or started a handler with consent.
LEMMA WithdrawKeeps ==
  ASSUME PolicyInv, Withdraw, kind' = kind, disposed' = disposed,
         \A j \in Calls : starts'[j] = starts[j] \/ (kind[j] = "edit" => grant[j] = "allow")
  PROVE  BridgeTypes' /\ ConsentBeforeEffect' /\ NoOrphanQuestion'
<1>1. \A j \in Calls : grant'[j] = grant[j] \/ (grant[j] = "waiting" /\ grant'[j] = "deny")
  BY DEF Withdraw
<1>2. BridgeTypes'
  BY DEF Withdraw, PolicyInv, BridgeTypes
<1>3. ConsentBeforeEffect'
  BY <1>1 DEF Withdraw, PolicyInv, ConsentBeforeEffect
<1>4. NoOrphanQuestion'
  <2>1. \A j \in pPending' : j \in pPending /\ ~Aborted(j)' /\ grant'[j] = "waiting"
    BY OpenQuestion DEF Withdraw
  <2> QED
    BY <2>1, OpenQuestion DEF NoOrphanQuestion
<1> QED
  BY <1>2, <1>3, <1>4

\* A step that leaves calls alone and settles at most the open question of one.
LEMMA SettleKeeps ==
  ASSUME PolicyInv, UNCHANGED <<dispatcherVars, kind>>,
         \/ UNCHANGED <<grant, pPending, pAnswers>>
         \/ \E i \in pPending, g \in {"allow", "deny"} :
              /\ grant' = [grant EXCEPT ![i] = g]
              /\ pPending' = pPending \ {i}
              /\ \A j \in Calls : j # i => pAnswers'[j] = pAnswers[j]
              /\ g = "allow" => pAnswers'[i] = <<"yes">>
  PROVE  BridgeTypes' /\ ConsentBeforeEffect' /\ NoOrphanQuestion' /\ Unasked'
<1> USE DEF PolicyInv, dispatcherVars
<1>1. CASE UNCHANGED <<grant, pPending, pAnswers>>
  BY <1>1 DEF BridgeTypes, ConsentBeforeEffect, NoOrphanQuestion, Unasked, Aborted
<1>2. ASSUME NEW i \in pPending, NEW g \in {"allow", "deny"},
             grant' = [grant EXCEPT ![i] = g],
             pPending' = pPending \ {i},
             \A j \in Calls : j # i => pAnswers'[j] = pAnswers[j],
             g = "allow" => pAnswers'[i] = <<"yes">>
      PROVE  BridgeTypes' /\ ConsentBeforeEffect' /\ NoOrphanQuestion' /\ Unasked'
  <2>1. i \in Calls /\ grant[i] = "waiting"
    BY <1>2, OpenQuestion
  <2>2. BridgeTypes'
    BY <1>2, <2>1 DEF BridgeTypes
  <2>3. \A j \in Calls : grant'[j] = IF j = i THEN g ELSE grant[j]
    BY <1>2, <2>1 DEF BridgeTypes
  <2>4. ConsentBeforeEffect'
    BY <1>2, <2>1, <2>3 DEF ConsentBeforeEffect
  <2>5. NoOrphanQuestion'
    BY <1>2, <2>1, <2>3, OpenQuestion DEF NoOrphanQuestion, Aborted
  <2>6. Unasked'
    BY <2>1, <2>3 DEF Unasked
  <2> QED
    BY <2>2, <2>4, <2>5, <2>6
<1> QED
  BY <1>1, <1>2

PolicyParts == BridgeTypes /\ ConsentBeforeEffect /\ NoOrphanQuestion /\ Unasked

LEMMA ArrivesKeeps ==
  ASSUME PolicyInv, NEW i \in Calls, CallArrives(i)
  PROVE  PolicyParts'
<1>1. PICK k \in CallKinds :
        /\ kind' = [kind EXCEPT ![i] = k]
        /\ IF k = "edit" THEN Ask(i) ELSE UNCHANGED <<grant, brokerP>>
  BY DEF CallArrives
<1>2. /\ i \notin seen /\ seen' = seen \cup {i} /\ ~disposed /\ disposed' = disposed
      /\ stage' = [stage EXCEPT ![i] = "authorizing"] /\ flags' = [flags EXCEPT ![i] = {}]
      /\ starts' = starts
  BY DEF CallArrives, Arrive, Reserve
<1>3. grant[i] = "none" /\ starts[i] = 0 /\ i \notin pPending
  BY <1>2, OpenQuestion DEF PolicyInv, Unasked, IInv, CallInv, Untouched
<1>4. /\ kind' \in [Calls -> CallKinds] /\ kind'[i] = k /\ ~Aborted(i)'
      /\ \A j \in Calls : j # i => /\ kind'[j] = kind[j] /\ starts'[j] = starts[j]
                                   /\ flags'[j] = flags[j] /\ stage'[j] = stage[j]
  BY <1>1, <1>2 DEF PolicyInv, BridgeTypes, IInv, TypeOK, Aborted
<1>5. BridgeTypes' /\ ConsentBeforeEffect' /\ NoOrphanQuestion'
  <2>1. CASE k = "edit"
    BY <1>1, <1>2, <1>3, <1>4, <2>1, AskKeeps
  <2>2. CASE k # "edit"
    <3>1. UNCHANGED <<grant, pPending, pAnswers>>
      BY <1>1, <2>2 DEF brokerP
    <3>2. BridgeTypes'
      BY <3>1, <1>4 DEF PolicyInv, BridgeTypes
    <3>3. ConsentBeforeEffect'
      BY <3>1, <1>4, <2>2, <1>3 DEF PolicyInv, ConsentBeforeEffect
    <3>4. NoOrphanQuestion'
      BY <3>1, <1>2, <1>3, <1>4, OpenQuestion DEF NoOrphanQuestion, Aborted
    <3> QED
      BY <3>2, <3>3, <3>4
  <2> QED
    BY <2>1, <2>2
<1>6. Unasked'
  <2>1. \A j \in Calls : j # i => grant'[j] = grant[j]
    BY <1>1 DEF Ask, PolicyInv, BridgeTypes
  <2>2. kind'[i] # "edit" => grant'[i] = "none"
    BY <1>1, <1>3, <1>4
  <2> QED
    BY <1>2, <1>4, <2>1, <2>2 DEF PolicyInv, Unasked
<1> QED
  BY <1>5, <1>6 DEF PolicyParts

LEMMA WakesKeeps ==
  ASSUME PolicyInv, NEW i \in Calls, AuthorizerWakes(i)
  PROVE  PolicyParts'
<1>1. /\ stage[i] = "authorizing" /\ i \in seen /\ seen' = seen /\ disposed' = disposed
      /\ kind' = kind
  BY DEF AuthorizerWakes, AuthorizerAnswers, PolicyInv, IInv, CallInv, Untouched
<1>2. \A j \in Calls : stage'[j] = "authorizing" => stage[j] = "authorizing"
  BY <1>1 DEF AuthorizerWakes, AuthorizerAnswers, Runs, Denies, Finish, Expires, Dropped,
              GiveUp, PolicyInv, IInv, TypeOK
<1>3. starts' = starts \/ (Runs(i) /\ Authorization(i) = "allow")
  BY DEF AuthorizerWakes, AuthorizerAnswers, Denies, Expires, Dropped
<1>4. CASE kind[i] = "permission" /\ starts'[i] # starts[i]
  <2>1. Runs(i) /\ Ask(i) /\ grant[i] = "none"
    BY <1>1, <1>3, <1>4 DEF AuthorizerWakes, PolicyInv, Unasked
  <2>2. /\ flags' = flags /\ ~Aborted(i)' /\ ~disposed /\ stage'[i] = "handling"
        /\ \A j \in Calls : j # i => starts'[j] = starts[j]
    BY <2>1, LiveCall DEF Runs, Aborted, PolicyInv, IInv, TypeOK
  <2>3. BridgeTypes' /\ ConsentBeforeEffect' /\ NoOrphanQuestion'
    BY <1>1, <1>4, <2>1, <2>2, AskKeeps DEF PolicyInv, BridgeTypes
  <2>4. Unasked'
    BY <1>1, <1>2, <2>1, <2>2 DEF Ask, PolicyInv, BridgeTypes, Unasked
  <2> QED
    BY <2>3, <2>4 DEF PolicyParts
<1>5. CASE ~(kind[i] = "permission" /\ starts'[i] # starts[i])
  <2>1. Withdraw
    BY <1>5 DEF AuthorizerWakes
  <2>2. \A j \in Calls : starts'[j] = starts[j] \/ (kind[j] = "edit" => grant[j] = "allow")
    BY <1>3 DEF Runs, Authorization, PolicyInv, IInv, TypeOK
  <2>3. BridgeTypes' /\ ConsentBeforeEffect' /\ NoOrphanQuestion'
    BY <1>1, <2>1, <2>2, WithdrawKeeps
  <2>4. Unasked'
    BY <1>1, <1>2, <2>1 DEF Withdraw, PolicyInv, Unasked
  <2> QED
    BY <2>3, <2>4 DEF PolicyParts
<1> QED
  BY <1>4, <1>5

LEMMA OtherKeeps ==
  ASSUME PolicyInv, NEW i \in Calls, OtherCallStep(i)
  PROVE  PolicyParts'
<1> USE DEF OtherCallStep, Cancel, Refuse, AtCapacity, Update, Send, SendSettles, HandlerAnswers,
            NoticeSettles, DeadlinePasses, TimerFires
<1>1. starts' = starts /\ disposed' = disposed /\ kind' = kind /\ Withdraw
  OBVIOUS
<1>2. seen \subseteq seen'
  BY DEF Reserve
<1>3. \A j \in Calls : stage'[j] = "authorizing" => stage[j] = "authorizing"
  BY DEF Advance, Finish, Expires, Dropped, GiveUp, PolicyInv, IInv, TypeOK
<1> HIDE DEF OtherCallStep, Cancel, Refuse, AtCapacity, Update, Send, SendSettles, HandlerAnswers,
             NoticeSettles, DeadlinePasses, TimerFires
<1>4. BridgeTypes' /\ ConsentBeforeEffect' /\ NoOrphanQuestion'
  BY <1>1, WithdrawKeeps
<1>5. Unasked'
  BY <1>1, <1>2, <1>3 DEF Withdraw, PolicyInv, Unasked
<1> QED
  BY <1>4, <1>5 DEF PolicyParts

LEMMA UserKeeps ==
  ASSUME PolicyInv, NEW k \in Responses, NEW i \in Calls, NEW r \in UserAnswers,
         AnswerPermission(k, i, r)
  PROVE  PolicyParts'
<1> USE DEF PolicyParts
<1>1. ASSUME Permissions!Respond(i, r),
             grant' = [grant EXCEPT ![i] = IF r = "yes" /\ ~Aborted(i) THEN "allow" ELSE "deny"],
             UNCHANGED <<dispatcherVars, kind>>
      PROVE  PolicyParts'
  <2>1. i \in pPending /\ pAnswers[i] = <<>>
    BY <1>1, OpenQuestion DEF Permissions!Respond, Permissions!Accepts
  <2>2. /\ pPending' = pPending \ {i} /\ pAnswers'[i] = <<r>>
        /\ \A j \in Calls : j # i => pAnswers'[j] = pAnswers[j]
    BY <1>1, <2>1 DEF Permissions!Respond, Permissions!Reply, PolicyInv, Permissions!BrokerInv,
                      Permissions!BrokerTypeOK
  <2> QED
    BY <1>1, <2>1, <2>2, SettleKeeps
<1>2. ASSUME i \in pPending, Permissions!Reply(i, "timedOut"), grant' = [grant EXCEPT ![i] = "deny"],
             UNCHANGED <<dispatcherVars, kind>>
      PROVE  PolicyParts'
  <2>1. /\ pPending' = pPending \ {i}
        /\ \A j \in Calls : j # i => pAnswers'[j] = pAnswers[j]
    BY <1>2 DEF Permissions!Reply, PolicyInv, Permissions!BrokerInv, Permissions!BrokerTypeOK
  <2> QED
    BY <1>2, <2>1, SettleKeeps
<1>3. ASSUME UNCHANGED <<dispatcherVars, kind, grant, pPending, pAnswers>> PROVE PolicyParts'
  BY <1>3, SettleKeeps
<1>4. CASE AnswerPermission(k, i, r)
  BY <1>1, <1>2, <1>3, <1>4 DEF AnswerPermission, Permissions!RespondLate, brokerP
<1> QED
  BY <1>4

LEMMA ClockKeeps ==
  ASSUME PolicyInv, NEW i \in Calls, QuestionExpires(i) \/ QuestionClock(i)
  PROVE  PolicyParts'
<1> USE DEF PolicyParts
<1>1. CASE QuestionExpires(i)
  <2>1. i \in pPending /\ grant' = [grant EXCEPT ![i] = "deny"] /\ UNCHANGED <<dispatcherVars, kind>>
    BY <1>1 DEF QuestionExpires, Permissions!Expire
  <2>2. /\ pPending' = pPending \ {i}
        /\ \A j \in Calls : j # i => pAnswers'[j] = pAnswers[j]
    BY <1>1 DEF QuestionExpires, Permissions!Expire, Permissions!Reply, PolicyInv,
                Permissions!BrokerInv, Permissions!BrokerTypeOK
  <2> QED
    BY <2>1, <2>2, SettleKeeps
<1>2. CASE QuestionClock(i)
  <2>1. UNCHANGED <<dispatcherVars, kind, grant, pPending, pAnswers>>
    BY <1>2 DEF QuestionClock, Permissions!ClockPasses
  <2> QED
    BY <2>1, SettleKeeps
<1> QED
  BY <1>1, <1>2

LEMMA CloseKeeps ==
  ASSUME PolicyInv, Close
  PROVE  PolicyParts'
<1>1. /\ pPending' = {} /\ pAnswers' = pAnswers /\ kind' = kind /\ starts' = starts
      /\ seen' = seen /\ stage' = stage
  BY DEF Close, Dispose, Permissions!Shut
<1>2. grant' = [j \in Calls |-> IF grant[j] = "waiting" THEN "deny" ELSE grant[j]]
  BY DEF Close
<1> QED
  BY <1>1, <1>2 DEF PolicyParts, PolicyInv, BridgeTypes, ConsentBeforeEffect, NoOrphanQuestion, Unasked

LEMMA PolicyStep == PolicyInv /\ [BridgeNext]_bridgeVars => PolicyInv'
<1> SUFFICES ASSUME PolicyInv, [BridgeNext]_bridgeVars PROVE PolicyInv'
  OBVIOUS
<1>1. IInv' /\ Permissions!BrokerInv' /\ Ui!BrokerInv'
  BY BridgeIsDispatcher, StepInv, PermissionsStep, UiStep DEF PolicyInv
<1>2. PolicyParts'
  <2>1. ASSUME UNCHANGED <<dispatcherVars, policyVars>> PROVE PolicyParts'
    BY <2>1, SettleKeeps DEF policyVars, PolicyParts
  <2>2. CASE UNCHANGED bridgeVars
    BY <2>1, <2>2 DEF bridgeVars
  <2>3. ASSUME NEW k \in Responses, NEW p \in Prompts, NEW r \in UserAnswers, AnswerPrompt(k, p, r)
        PROVE  PolicyParts'
    BY <2>1, <2>3 DEF AnswerPrompt
  <2>4. ASSUME NEW p \in Prompts, PromptStep(p) PROVE PolicyParts'
    BY <2>1, <2>4 DEF PromptStep
  <2>5. ASSUME NEW k \in Responses, PromptWritten(k) PROVE PolicyParts'
    BY <2>1, <2>5 DEF PromptWritten
  <2>6. ASSUME NEW i \in Calls, QuestionClock(i) \/ QuestionExpires(i) PROVE PolicyParts'
    BY <2>6, ClockKeeps
  <2> QED
    BY <2>2, <2>3, <2>4, <2>5, <2>6, ArrivesKeeps, WakesKeeps, OtherKeeps, UserKeeps, CloseKeeps
       DEF BridgeNext
<1> QED
  BY <1>1, <1>2 DEF PolicyInv, PolicyParts

LEMMA PolicyStarts == BridgeInit => PolicyInv
<1> SUFFICES ASSUME BridgeInit PROVE PolicyInv
  OBVIOUS
<1>1. IInv /\ Permissions!BrokerInv /\ Ui!BrokerInv
  BY InitInv, Permissions!BrokerStarts, Ui!BrokerStarts DEF BridgeInit
<1>2. BridgeTypes /\ ConsentBeforeEffect /\ NoOrphanQuestion /\ Unasked
  BY DEF BridgeInit, Init, Permissions!BrokerInit, BridgeTypes, CallKinds, ConsentBeforeEffect,
         NoOrphanQuestion, Unasked
<1> QED
  BY <1>1, <1>2 DEF PolicyInv

\* An edit runs, and a permission is granted, only after the user's yes to that
\* very question.
THEOREM Consent == BridgeSpec => []ConsentBeforeEffect
<1>1. PolicyInv => ConsentBeforeEffect
  BY DEF PolicyInv
<1> QED
  BY <1>1, PolicyStarts, PolicyStep, PTL DEF BridgeSpec

\* What the user still sees belongs to a call that may still use the answer.
THEOREM NoOrphans == BridgeSpec => []NoOrphanQuestion
<1>1. PolicyInv => NoOrphanQuestion
  BY DEF PolicyInv
<1> QED
  BY <1>1, PolicyStarts, PolicyStep, PTL DEF BridgeSpec

----------------------------------------------------------------------------
\* The command rows of answers tell the truth.

RowTypes ==
  row \in [Responses ->
    [st : {"none", "claimed", "completed", "not_dispatched", "outcome_unknown"},
     d : SUBSET (Calls \cup Prompts), r : UserAnswers]]

Questions == Calls \cup Prompts
UserGiven == {<<r>> : r \in UserAnswers}
Carries(k, d) == row[k].st \in Submitted /\ d \in row[k].d

\* A submitted row carries the answer its question got, and an answer of the user
\* is carried by one row and no other.
RowsOK ==
  /\ \A k \in Responses : row[k].st \in Submitted =>
       \E d \in Questions : row[k].d = {d} /\ AnswersOf(d) = <<row[k].r>>
  /\ \A d \in Questions : AnswersOf(d) \in UserGiven =>
       \E k \in Responses : Carries(k, d) /\ \A j \in Responses : Carries(j, d) => j = k

RowsInv == PolicyInv /\ RowTypes /\ RowsOK

\* No question gets an answer of the user.
NoneGiven ==
  \A d \in Questions :
    AnswersOf(d)' = AnswersOf(d) \/ (AnswersOf(d) = <<>> /\ AnswersOf(d)' \notin UserGiven)

LEMMA OpenIsUnanswered ==
  ASSUME PolicyInv
  PROVE  /\ \A i \in Calls : i \in pPending => AnswersOf(i) = <<>>
         /\ \A p \in Prompts : p \in uPending => AnswersOf(p) = <<>>
<1>1. \A i \in Calls : i \in pPending => pAnswers[i] = <<>>
  BY OpenQuestion
<1>2. \A p \in Prompts : p \in uPending => uAnswers[p] = <<>>
  BY DEF PolicyInv, Ui!BrokerInv, Ui!OneAnswer
<1> QED
  BY <1>1, <1>2, BridgeAssumption DEF AnswersOf

\* An answer of the clock is not one of the user.
LEMMA ExpiryGivesNone ==
  ASSUME PolicyInv, NEW d \in Questions, AnswersOf(d) = <<>>,
         \/ d \in Calls /\ pAnswers' = [pAnswers EXCEPT ![d] = Append(@, "timedOut")] /\ UNCHANGED uAnswers
         \/ d \in Prompts /\ uAnswers' = [uAnswers EXCEPT ![d] = Append(@, "timedOut")] /\ UNCHANGED pAnswers
  PROVE  NoneGiven
<1>1. Append(<<>>, "timedOut") = <<"timedOut">> /\ <<"timedOut">> \notin UserGiven
  BY DEF UserGiven, UserAnswers
<1>2. DOMAIN pAnswers = Calls /\ DOMAIN uAnswers = Prompts
  BY DEF PolicyInv, Permissions!BrokerInv, Permissions!BrokerTypeOK, Ui!BrokerInv, Ui!BrokerTypeOK
<1>3. ASSUME NEW e \in Questions, e # d PROVE AnswersOf(e)' = AnswersOf(e)
  BY <1>2, <1>3 DEF AnswersOf, Questions
<1>4. AnswersOf(d)' = <<"timedOut">>
  BY <1>1, <1>2, BridgeAssumption DEF AnswersOf, Questions
<1> QED
  BY <1>1, <1>3, <1>4 DEF NoneGiven

\* Rows stay, or one that was never submitted is refused.
LEMMA RowsStay ==
  ASSUME RowsInv, NoneGiven,
         \A k \in Responses :
           /\ row'[k].st \in Submitted <=> row[k].st \in Submitted
           /\ row[k].st \in Submitted => row'[k].d = row[k].d /\ row'[k].r = row[k].r
  PROVE  RowsOK'
<1> USE DEF RowsInv
<1>1. ASSUME NEW k \in Responses, row'[k].st \in Submitted
      PROVE  \E d \in Questions : row'[k].d = {d} /\ AnswersOf(d)' = <<row'[k].r>>
  <2>1. PICK d \in Questions : row[k].d = {d} /\ AnswersOf(d) = <<row[k].r>>
    BY <1>1 DEF RowsOK
  <2>2. AnswersOf(d)' = AnswersOf(d)
    BY <2>1 DEF NoneGiven
  <2> QED
    BY <1>1, <2>1, <2>2
<1>2. ASSUME NEW d \in Questions, AnswersOf(d)' \in UserGiven
      PROVE  \E k \in Responses : Carries(k, d)' /\ \A j \in Responses : Carries(j, d)' => j = k
  <2>1. AnswersOf(d) \in UserGiven
    BY <1>2 DEF NoneGiven
  <2>2. PICK k \in Responses : Carries(k, d) /\ \A j \in Responses : Carries(j, d) => j = k
    BY <2>1 DEF RowsOK
  <2> QED
    BY <2>2 DEF Carries
<1> QED
  BY <1>1, <1>2 DEF RowsOK, Questions, Submitted

\* A row is written for an answer that a question gets now.
LEMMA RowWritten ==
  ASSUME RowsInv, NEW k \in Responses, FreshRow(k), NEW d \in Questions, NEW r \in UserAnswers,
         NEW st \in {"claimed", "completed"}, SetRow(k, st, d, r),
         AnswersOf(d) = <<>>, AnswersOf(d)' = <<r>>,
         \A e \in Questions : e # d => AnswersOf(e)' = AnswersOf(e)
  PROVE  RowTypes' /\ RowsOK'
<1> USE DEF RowsInv
<1>1. /\ row'[k] = [st |-> st, d |-> {d}, r |-> r]
      /\ \A j \in Responses : j # k => row'[j] = row[j]
      /\ RowTypes'
  BY DEF SetRow, RowTypes, Questions
<1>2. row[k].st \notin Submitted /\ st \in Submitted
  BY DEF FreshRow, Submitted
<1>3. ASSUME NEW j \in Responses, row'[j].st \in Submitted
      PROVE  \E e \in Questions : row'[j].d = {e} /\ AnswersOf(e)' = <<row'[j].r>>
  <2>1. CASE j = k
    BY <1>1, <2>1
  <2>2. CASE j # k
    <3>1. PICK e \in Questions : row[j].d = {e} /\ AnswersOf(e) = <<row[j].r>>
      BY <1>1, <1>3, <2>2 DEF RowsOK
    <3> QED
      BY <1>1, <2>2, <3>1
  <2> QED
    BY <2>1, <2>2
<1>4. \A j \in Responses : ~Carries(j, d)
  <2>1. ASSUME NEW j \in Responses, Carries(j, d) PROVE FALSE
    <3>1. PICK e \in Questions : row[j].d = {e} /\ AnswersOf(e) = <<row[j].r>>
      BY <2>1 DEF RowsOK, Carries
    <3>2. e = d
      BY <2>1, <3>1 DEF Carries
    <3> QED
      BY <3>1, <3>2
  <2> QED
    BY <2>1
<1>5. ASSUME NEW e \in Questions, AnswersOf(e)' \in UserGiven
      PROVE  \E j \in Responses : Carries(j, e)' /\ \A h \in Responses : Carries(h, e)' => h = j
  <2>1. CASE e = d
    BY <1>1, <1>2, <1>4, <2>1 DEF Carries
  <2>2. CASE e # d
    <3>1. PICK j \in Responses : Carries(j, e) /\ \A h \in Responses : Carries(h, e) => h = j
      BY <1>5, <2>2 DEF RowsOK
    <3> QED
      BY <1>1, <1>2, <2>2, <3>1 DEF Carries
  <2> QED
    BY <2>1, <2>2
<1> QED
  BY <1>1, <1>3, <1>5 DEF RowsOK, Questions, Submitted

LEMMA RowRefused ==
  ASSUME RowsInv, NEW k \in Responses, FreshRow(k), Reject(k), NoneGiven
  PROVE  RowTypes' /\ RowsOK'
<1>1. /\ row'[k] = [row[k] EXCEPT !.st = "not_dispatched"]
      /\ \A j \in Responses : j # k => row'[j] = row[j]
  BY DEF Reject, RowsInv, RowTypes
<1>2. RowTypes'
  BY DEF Reject, RowsInv, RowTypes
<1>3. row'[k].st \notin Submitted /\ row[k].st \notin Submitted
  BY <1>1 DEF RowsInv, RowTypes, FreshRow, Submitted
<1> QED
  BY <1>1, <1>2, <1>3, RowsStay

LEMMA RowsAlone ==
  ASSUME RowsInv, NoneGiven, UNCHANGED row
  PROVE  RowTypes' /\ RowsOK'
BY RowsStay DEF RowsInv, RowTypes

LEMMA AnswersAlone == ASSUME UNCHANGED <<pAnswers, uAnswers>> PROVE NoneGiven
BY DEF NoneGiven, AnswersOf

LEMMA AskedAlone ==
  ASSUME NEW i \in Calls, CallArrives(i) \/ AuthorizerWakes(i) \/ OtherCallStep(i) \/ QuestionClock(i)
  PROVE  UNCHANGED <<pAnswers, uAnswers, row>>
<1>1. Ask(i) => UNCHANGED pAnswers
  BY DEF Ask, Permissions!Ingest, brokerP
<1>2. Withdraw => UNCHANGED pAnswers
  BY DEF Withdraw
<1> QED
  BY <1>1, <1>2 DEF CallArrives, AuthorizerWakes, OtherCallStep, QuestionClock, Permissions!ClockPasses,
                    uiVars, brokerP

LEMMA UserRows ==
  ASSUME RowsInv, NEW k \in Responses, NEW r \in UserAnswers,
         \/ \E i \in Calls : AnswerPermission(k, i, r)
         \/ \E p \in Prompts : AnswerPrompt(k, p, r)
  PROVE  RowTypes' /\ RowsOK'
<1> USE BridgeAssumption DEF RowsInv
<1>1. DOMAIN pAnswers = Calls /\ DOMAIN uAnswers = Prompts /\ Append(<<>>, r) = <<r>>
  BY DEF PolicyInv, Permissions!BrokerInv, Permissions!BrokerTypeOK, Ui!BrokerInv, Ui!BrokerTypeOK
<1>2. ASSUME NEW i \in Calls, AnswerPermission(k, i, r) PROVE RowTypes' /\ RowsOK'
  <2>1. FreshRow(k) /\ UNCHANGED uAnswers /\ i \in Questions
    BY <1>2 DEF AnswerPermission, uiVars, Questions
  <2>2. CASE Permissions!Respond(i, r) /\ SetRow(k, "completed", i, r)
    <3>1. pAnswers[i] = <<>> /\ pAnswers' = [pAnswers EXCEPT ![i] = Append(@, r)]
      BY <2>2, OpenQuestion DEF Permissions!Respond, Permissions!Accepts, Permissions!Reply
    <3>2. AnswersOf(i) = <<>> /\ AnswersOf(i)' = <<r>>
      BY <1>1, <3>1 DEF AnswersOf
    <3>3. \A e \in Questions : e # i => AnswersOf(e)' = AnswersOf(e)
      BY <1>1, <2>1, <3>1 DEF AnswersOf, Questions
    <3> QED
      BY <2>1, <2>2, <3>2, <3>3, RowWritten
  <2>3. CASE Permissions!RespondLate(i) /\ Reject(k)
    <3>1. AnswersOf(i) = <<>> /\ pAnswers' = [pAnswers EXCEPT ![i] = Append(@, "timedOut")]
      BY <2>3, OpenIsUnanswered DEF Permissions!RespondLate, Permissions!Reply
    <3>2. NoneGiven
      BY <2>1, <3>1, ExpiryGivesNone
    <3> QED
      BY <2>1, <2>3, <3>2, RowRefused
  <2>4. CASE Reject(k) /\ UNCHANGED brokerP
    BY <2>1, <2>4, AnswersAlone, RowRefused DEF brokerP
  <2> QED
    BY <1>2, <2>2, <2>3, <2>4 DEF AnswerPermission
<1>3. ASSUME NEW p \in Prompts, AnswerPrompt(k, p, r) PROVE RowTypes' /\ RowsOK'
  <2>1. FreshRow(k) /\ UNCHANGED pAnswers /\ p \in Questions /\ p \notin Calls
    BY <1>3 DEF AnswerPrompt, policyVars, Questions
  <2>2. CASE Ui!Respond(p, r) /\ SetRow(k, "claimed", p, r)
    <3>1. AnswersOf(p) = <<>> /\ uAnswers' = [uAnswers EXCEPT ![p] = Append(@, r)]
      BY <2>2, OpenIsUnanswered DEF Ui!Respond, Ui!Accepts, Ui!Reply
    <3>2. AnswersOf(p)' = <<r>>
      BY <1>1, <2>1, <3>1 DEF AnswersOf
    <3>3. \A e \in Questions : e # p => AnswersOf(e)' = AnswersOf(e)
      BY <1>1, <2>1, <3>1 DEF AnswersOf, Questions
    <3> QED
      BY <2>1, <2>2, <3>1, <3>2, <3>3, RowWritten
  <2>3. CASE Ui!RespondLate(p) /\ Reject(k)
    <3>1. AnswersOf(p) = <<>> /\ uAnswers' = [uAnswers EXCEPT ![p] = Append(@, "timedOut")]
      BY <2>3, OpenIsUnanswered DEF Ui!RespondLate, Ui!Reply
    <3>2. NoneGiven
      BY <2>1, <3>1, ExpiryGivesNone
    <3> QED
      BY <2>1, <2>3, <3>2, RowRefused
  <2>4. CASE Reject(k) /\ UNCHANGED uiVars
    BY <2>1, <2>4, AnswersAlone, RowRefused DEF uiVars
  <2> QED
    BY <1>3, <2>2, <2>3, <2>4 DEF AnswerPrompt
<1> QED
  BY <1>2, <1>3

LEMMA RowsStep == RowsInv /\ [BridgeNext]_bridgeVars => RowsInv'
<1> SUFFICES ASSUME RowsInv, [BridgeNext]_bridgeVars PROVE RowsInv'
  OBVIOUS
<1>1. PolicyInv'
  BY PolicyStep DEF RowsInv
<1>2. ASSUME UNCHANGED <<pAnswers, uAnswers, row>> PROVE RowTypes' /\ RowsOK'
  BY <1>2, AnswersAlone, RowsAlone
<1>3. UNCHANGED bridgeVars \/ Close => RowTypes' /\ RowsOK'
  BY <1>2 DEF bridgeVars, policyVars, uiVars, Close, Permissions!Shut, Ui!Shut
<1>4. ASSUME NEW i \in Calls, CallArrives(i) \/ AuthorizerWakes(i) \/ OtherCallStep(i) \/ QuestionClock(i)
      PROVE  RowTypes' /\ RowsOK'
  BY <1>2, <1>4, AskedAlone
<1>5. ASSUME NEW i \in Calls, QuestionExpires(i) PROVE RowTypes' /\ RowsOK'
  <2>1. /\ AnswersOf(i) = <<>> /\ i \in Questions /\ UNCHANGED <<uAnswers, row>>
        /\ pAnswers' = [pAnswers EXCEPT ![i] = Append(@, "timedOut")]
    BY <1>5, OpenIsUnanswered
       DEF QuestionExpires, Permissions!Expire, Permissions!Reply, uiVars, RowsInv, Questions
  <2> QED
    BY <2>1, ExpiryGivesNone, RowsAlone DEF RowsInv
<1>6. ASSUME NEW p \in Prompts, PromptStep(p) PROVE RowTypes' /\ RowsOK'
  <2>1. UNCHANGED <<pAnswers, row>> /\ p \in Questions
    BY <1>6 DEF PromptStep, policyVars, Questions
  <2>2. CASE Ui!Expire(p)
    <3>1. AnswersOf(p) = <<>> /\ uAnswers' = [uAnswers EXCEPT ![p] = Append(@, "timedOut")]
      BY <2>2, OpenIsUnanswered DEF Ui!Expire, Ui!Reply, RowsInv
    <3> QED
      BY <2>1, <3>1, ExpiryGivesNone, RowsAlone DEF RowsInv
  <2>3. CASE ~Ui!Expire(p)
    BY <1>2, <1>6, <2>1, <2>3 DEF PromptStep, Ui!Ingest, Ui!ServerCancel, Ui!ClockPasses
  <2> QED
    BY <2>2, <2>3
<1>7. ASSUME NEW k \in Responses, PromptWritten(k) PROVE RowTypes' /\ RowsOK'
  <2>1. PICK st \in {"completed", "outcome_unknown"} : row' = [row EXCEPT ![k].st = st]
    BY <1>7 DEF PromptWritten
  <2>2. RowTypes'
    BY <2>1 DEF RowsInv, RowTypes
  <2>3. /\ row'[k] = [row[k] EXCEPT !.st = st] /\ \A j \in Responses : j # k => row'[j] = row[j]
        /\ row[k].st \in Submitted /\ st \in Submitted
    BY <1>7, <2>1 DEF PromptWritten, RowsInv, RowTypes, Submitted
  <2>4. row'[k].st = st /\ row'[k].d = row[k].d /\ row'[k].r = row[k].r
    BY <2>3 DEF RowsInv, RowTypes
  <2>5. NoneGiven
    BY <1>7, AnswersAlone DEF PromptWritten, policyVars, uiVars
  <2> QED
    BY <2>2, <2>3, <2>4, <2>5, RowsStay
<1>8. RowTypes' /\ RowsOK'
  BY <1>3, <1>4, <1>5, <1>6, <1>7, UserRows DEF BridgeNext
<1> QED
  BY <1>1, <1>8 DEF RowsInv

LEMMA RowsStart == BridgeInit => RowsInv
<1> SUFFICES ASSUME BridgeInit PROVE RowsInv
  OBVIOUS
<1>1. RowTypes
  BY DEF BridgeInit, NoRow, RowTypes, UserAnswers
<1>2. \A d \in Questions : AnswersOf(d) = <<>>
  BY DEF BridgeInit, Permissions!BrokerInit, Ui!BrokerInit, AnswersOf, Questions
<1>3. RowsOK
  BY <1>2 DEF RowsOK, BridgeInit, NoRow, Submitted, UserGiven
<1> QED
  BY <1>1, <1>3, PolicyStarts DEF RowsInv

\* The command row of an answer tells the truth: an answer that reached the asker
\* has one row that says so, and a row that says not_dispatched none (service.ts).
THEOREM TrueRows == BridgeSpec => []RowsTellTheTruth
<1>1. ASSUME RowsInv PROVE RowsTellTheTruth
  <2>1. ASSUME NEW d \in Questions, AnswersOf(d) \in UserGiven
        PROVE  Cardinality({k \in Responses : row[k].st \in Submitted /\ d \in row[k].d}) = 1
    <3>1. PICK k \in Responses : Carries(k, d) /\ \A j \in Responses : Carries(j, d) => j = k
      BY <1>1, <2>1 DEF RowsInv, RowsOK
    <3>2. {j \in Responses : row[j].st \in Submitted /\ d \in row[j].d} = {k}
      BY <3>1 DEF Carries
    <3> QED
      BY <3>2, FS_Singleton
  <2>2. ASSUME NEW k \in Responses, row[k].st \in Submitted
        PROVE  \E d \in row[k].d : AnswersOf(d) = <<row[k].r>>
    BY <1>1, <2>2 DEF RowsInv, RowsOK
  <2> QED
    BY <2>1, <2>2 DEF RowsTellTheTruth, Questions, UserGiven
<1> QED
  BY <1>1, RowsStart, RowsStep, PTL DEF BridgeSpec

\* Every reachable state of the bridge is well typed.
THEOREM BridgeTypeCorrect == BridgeSpec => []BridgeTypeOK
<1>1. RowsInv => BridgeTypeOK
  BY DEF RowsInv, RowTypes, PolicyInv, IInv, Permissions!BrokerInv, Ui!BrokerInv, BridgeTypes, BridgeTypeOK
<1> QED
  BY <1>1, RowsStart, RowsStep, PTL DEF BridgeSpec
=================================================================================
