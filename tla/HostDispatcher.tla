---------------------------- MODULE HostDispatcher ----------------------------
(***************************************************************************)
(* The host's side of OMP's tool and URI bridge                            *)
(* (packages/omp-adapter/src/host.ts, OmpHostDispatcher).  OMP asks for an *)
(* effect with a call; the dispatcher asks the authorizer, runs the        *)
(* registered handler, and writes updates and one result back.  OMP may    *)
(* cancel a call, a deadline ends it, and the bridge may be disposed while *)
(* any of this is suspended.                                               *)
(*                                                                         *)
(* The state is kept per call id.  An action is a stretch of code between  *)
(* two awaits; the authorizer, the handler and the writer are functions of *)
(* the caller, which answer when and how they like.                        *)
(***************************************************************************)
EXTENDS Naturals, Sequences, FiniteSets

CONSTANTS
  Calls,            \* ids of tool calls and URI requests OMP makes
  MaxRequestIds,    \* maxRequestIds: ids one dispatcher remembers
  MaxOut,           \* bound: frames queued or written for one call
  MaxRefusals       \* bound: times OMP repeats an id there is no room for

ASSUME DispatcherAssumption ==
  /\ IsFiniteSet(Calls)
  /\ MaxRequestIds \in Nat
  /\ MaxOut \in Nat
  /\ MaxRefusals \in Nat

VARIABLES
  disposed,         \* #disposed
  seen,             \* #seenIds
  listed,           \* #active: ids of invocations that may still be cancelled
  op,               \* ActiveInvocation.operation
  stage,            \* where the coroutine #runTool or #runUri is
  flags,            \* the Boolean fields of the ActiveInvocation that are true
  due,              \* the deadline has passed
  chain,            \* outputs queued on outputChain, the head being next
  sending,          \* the head of the chain awaits the writer
  notice,           \* the timeout result: not needed, awaiting the writer, settled
  resolved,         \* the promise handle() awaits has been resolved
  \* history: the frames given to the writer, and the handlers started
  sent, starts

dispatcherVars == <<disposed, seen, listed, op, stage, flags, due, chain,
                    sending, notice, resolved, sent, starts>>

Operations == {"tool", "uri"}
Stages == {"new", "refused", "authorizing", "handling", "finishing", "over"}
Flags == {"cancelled", "completed", "timedOut", "outputFailed"}
Outputs == {"update", "result"}

Init ==
  /\ disposed = FALSE /\ seen = {} /\ listed = {}
  /\ op = [i \in Calls |-> "tool"]
  /\ stage = [i \in Calls |-> "new"]
  /\ flags = [i \in Calls |-> {}]
  /\ due = [i \in Calls |-> FALSE]
  /\ chain = [i \in Calls |-> <<>>]
  /\ sending = [i \in Calls |-> FALSE]
  /\ notice = [i \in Calls |-> "none"]
  /\ resolved = [i \in Calls |-> FALSE]
  /\ sent = [i \in Calls |-> <<>>]
  /\ starts = [i \in Calls |-> 0]

----------------------------------------------------------------------------
\* Pieces of the code.  The operators named Faulty... are not part of the
\* system: each is a plausible slip in the definition below it, and the
\* project checks that the properties notice it.

Started(i) == stage[i] \notin {"new", "refused"}

FaultyLive(i) == ~disposed /\ "completed" \notin flags[i]
Live(i) == ~disposed /\ flags[i] \cap {"cancelled", "completed"} = {} /\ i \in listed

Raise(i, new) == flags' = [flags EXCEPT ![i] = @ \cup new]

Give(i, output) == sent' = [sent EXCEPT ![i] = Append(@, output)]

FaultyFinish(i) ==
  /\ stage' = [stage EXCEPT ![i] = "finishing"]
  /\ chain' = [chain EXCEPT ![i] = Append(@, "result")]
  /\ UNCHANGED <<flags, listed, notice, sent>>

\* #finish of a live call: no timer from here on, the result behind the updates.
Finish(i) ==
  /\ stage' = [stage EXCEPT ![i] = "finishing"]
  /\ Raise(i, {"completed"})
  /\ chain' = [chain EXCEPT ![i] = Append(@, "result")]
  /\ UNCHANGED <<listed, notice, sent>>

\* #timeout of a live call: its result does not wait for the chain.
Timeout(i) ==
  /\ Raise(i, {"completed", "timedOut"})
  /\ listed' = listed \ {i}
  /\ Give(i, "result")
  /\ notice' = [notice EXCEPT ![i] = "waiting"]

GiveUp(i) == stage' = [stage EXCEPT ![i] = "over"]

\* expireIfDue, then isLive: what a coroutine does when it wakes up.
Expires(i) == Live(i) /\ due[i] /\ Timeout(i) /\ GiveUp(i) /\ UNCHANGED chain
Dropped(i) == ~Live(i) /\ GiveUp(i) /\ UNCHANGED <<flags, listed, notice, chain, sent>>

----------------------------------------------------------------------------
\* Frames of OMP.  Every id is remembered before anything else happens.

Reserve(i) ==
  /\ i \notin seen /\ Cardinality(seen) < MaxRequestIds
  /\ seen' = seen \cup {i}

\* A well-formed call of a registered tool or scheme: #startActive, and
\* #runTool or #runUri up to the authorizer.
Arrive(i, o) ==
  /\ ~disposed
  /\ Reserve(i)
  /\ listed' = listed \cup {i}
  /\ op' = [op EXCEPT ![i] = o]
  /\ stage' = [stage EXCEPT ![i] = "authorizing"]
  /\ flags' = [flags EXCEPT ![i] = {}]
  /\ UNCHANGED <<disposed, due, chain, sending, notice, resolved, sent, starts>>

\* Malformed, not registered, not writable or without a handler.
Refuse(i) ==
  /\ ~disposed
  /\ Reserve(i)
  /\ stage' = [stage EXCEPT ![i] = "refused"]
  /\ Give(i, "result")
  /\ UNCHANGED <<disposed, listed, op, flags, due, chain, sending, notice,
                 resolved, starts>>

\* No room for another id: an error result, and the id is not remembered, so
\* that its repetitions are no duplicates and are answered as well.
AtCapacity(i) ==
  /\ ~disposed /\ i \notin seen /\ Cardinality(seen) >= MaxRequestIds
  /\ Len(sent[i]) < MaxRefusals
  /\ Give(i, "result")
  /\ UNCHANGED <<disposed, seen, listed, op, stage, flags, due, chain, sending,
                 notice, resolved, starts>>

FaultyCancel(i, o) ==
  /\ ~disposed /\ i \in listed /\ op[i] = o
  /\ Raise(i, {"cancelled"})
  /\ listed' = listed \ {i}
  /\ UNCHANGED <<disposed, seen, op, stage, due, chain, sending, notice,
                 resolved, sent, starts>>

\* host_tool_cancel or host_uri_cancel; a stale one is only reported.
Cancel(i, o) ==
  /\ ~disposed /\ i \in listed /\ op[i] = o
  /\ Raise(i, {"cancelled"})
  /\ listed' = listed \ {i}
  /\ resolved' = [resolved EXCEPT ![i] = TRUE]
  /\ UNCHANGED <<disposed, seen, op, stage, due, chain, sending, notice, sent, starts>>

----------------------------------------------------------------------------
\* The coroutine of a call.

\* A denial, or an authorizer that throws: the latter does not look at the clock.
Denies(i, answer) ==
  /\ Live(i) /\ (answer = "throws" \/ ~due[i])
  /\ Finish(i) /\ UNCHANGED starts

Runs(i) ==
  /\ Live(i) /\ ~due[i]
  /\ stage' = [stage EXCEPT ![i] = "handling"]
  /\ starts' = [starts EXCEPT ![i] = @ + 1]
  /\ UNCHANGED <<flags, listed, notice, chain, sent>>

AuthorizerAnswers(i, answer) ==
  /\ stage[i] = "authorizing"
  /\ \/ answer = "allow" /\ Runs(i)
     \/ answer \in {"deny", "throws"} /\ Denies(i, answer)
     \/ answer # "throws" /\ Expires(i) /\ UNCHANGED starts
     \/ Dropped(i) /\ UNCHANGED starts
  /\ UNCHANGED <<disposed, seen, op, due, sending, resolved>>

\* A handler that throws is not held to the deadline here; one that returns is.
HandlerAnswers(i, answer) ==
  /\ stage[i] = "handling"
  /\ \/ Live(i) /\ (answer = "throws" \/ ~due[i]) /\ Finish(i)
     \/ answer = "returns" /\ Expires(i)
     \/ Dropped(i)
  /\ UNCHANGED <<disposed, seen, op, due, sending, resolved, starts>>

\* context.update, which a handler keeps and may call at any later time.
Update(i) ==
  /\ op[i] = "tool" /\ starts[i] > 0 /\ Live(i)
  /\ \/ /\ ~due[i]
        /\ Len(chain[i]) + Len(sent[i]) < MaxOut
        /\ chain' = [chain EXCEPT ![i] = Append(@, "update")]
        /\ UNCHANGED <<flags, listed, notice, sent>>
     \/ due[i] /\ Timeout(i) /\ UNCHANGED chain
  /\ UNCHANGED <<disposed, seen, op, stage, due, sending, resolved, starts>>

----------------------------------------------------------------------------
\* The output chain of a call: one output after the other.

Silenced(i, output) ==
  \/ disposed
  \/ flags[i] \cap {"cancelled", "outputFailed"} # {}
  \/ output = "update" /\ "timedOut" \in flags[i]

\* The head of the chain is done; behind a result comes the end of #finish.
Advance(i) ==
  /\ chain' = [chain EXCEPT ![i] = Tail(@)]
  /\ IF Head(chain[i]) = "result"
     THEN /\ listed' = listed \ {i}
          /\ resolved' = [resolved EXCEPT ![i] = TRUE]
          /\ GiveUp(i)
     ELSE UNCHANGED <<listed, resolved, stage>>

Send(i) ==
  /\ chain[i] # <<>> /\ ~sending[i]
  /\ \/ /\ Silenced(i, Head(chain[i]))
        /\ Advance(i) /\ UNCHANGED <<flags, sending, sent>>
     \/ /\ ~Silenced(i, Head(chain[i])) /\ due[i]
        /\ Raise(i, {"outputFailed"}) /\ Advance(i) /\ UNCHANGED <<sending, sent>>
     \/ /\ ~Silenced(i, Head(chain[i])) /\ ~due[i]
        /\ Give(i, Head(chain[i]))
        /\ sending' = [sending EXCEPT ![i] = TRUE]
        /\ UNCHANGED <<listed, stage, flags, chain, resolved>>
  /\ UNCHANGED <<disposed, seen, op, due, notice, starts>>

\* The writer answered, threw, or did not answer within its bounded wait.
SendSettles(i, ok) ==
  /\ sending[i]
  /\ sending' = [sending EXCEPT ![i] = FALSE]
  /\ Raise(i, IF ok /\ ~due[i] THEN {} ELSE {"outputFailed"})
  /\ Advance(i)
  /\ UNCHANGED <<disposed, seen, op, due, notice, sent, starts>>

NoticeSettles(i) ==
  /\ notice[i] = "waiting"
  /\ notice' = [notice EXCEPT ![i] = "settled"]
  /\ resolved' = [resolved EXCEPT ![i] = TRUE]
  /\ UNCHANGED <<disposed, seen, listed, op, stage, flags, due, chain, sending,
                 sent, starts>>

----------------------------------------------------------------------------
\* Time, and the end of the bridge.

DeadlinePasses(i) ==
  /\ Started(i) /\ ~due[i]
  /\ due' = [due EXCEPT ![i] = TRUE]
  /\ UNCHANGED <<disposed, seen, listed, op, stage, flags, chain, sending,
                 notice, resolved, sent, starts>>

TimerFires(i) ==
  /\ due[i] /\ Live(i)
  /\ Timeout(i)
  /\ UNCHANGED <<disposed, seen, op, stage, due, chain, sending, resolved, starts>>

Dispose ==
  /\ ~disposed
  /\ disposed' = TRUE
  /\ flags' = [i \in Calls |-> IF i \in listed THEN flags[i] \cup {"cancelled"} ELSE flags[i]]
  /\ resolved' = [i \in Calls |-> resolved[i] \/ i \in listed]
  /\ listed' = {}
  /\ UNCHANGED <<seen, op, stage, due, chain, sending, notice, sent, starts>>

CallStep(i) ==
  \/ \E o \in Operations : Arrive(i, o) \/ Cancel(i, o)
  \/ Refuse(i) \/ AtCapacity(i)
  \/ \E a \in {"allow", "deny", "throws"} : AuthorizerAnswers(i, a)
  \/ \E a \in {"returns", "throws"} : HandlerAnswers(i, a)
  \/ Update(i) \/ Send(i)
  \/ \E ok \in BOOLEAN : SendSettles(i, ok)
  \/ NoticeSettles(i) \/ DeadlinePasses(i) \/ TimerFires(i)

Next == Dispose \/ \E i \in Calls : CallStep(i)

\* The clock and timers run, promise callbacks run, and a write is waited for
\* at most sendTimeoutMs.  Nothing is assumed of OMP, authorizers or handlers.
DispatcherFairness ==
  \A i \in Calls :
    /\ WF_dispatcherVars(DeadlinePasses(i))
    /\ WF_dispatcherVars(TimerFires(i))
    /\ WF_dispatcherVars(Send(i))
    /\ WF_dispatcherVars(\E ok \in BOOLEAN : SendSettles(i, ok))
    /\ WF_dispatcherVars(NoticeSettles(i))

Spec == Init /\ [][Next]_dispatcherVars /\ DispatcherFairness

----------------------------------------------------------------------------
\* Properties.

TypeOK ==
  /\ disposed \in BOOLEAN
  /\ seen \subseteq Calls /\ listed \subseteq Calls
  /\ op \in [Calls -> Operations]
  /\ stage \in [Calls -> Stages]
  /\ flags \in [Calls -> SUBSET Flags]
  /\ due \in [Calls -> BOOLEAN]
  /\ chain \in [Calls -> Seq(Outputs)]
  /\ sending \in [Calls -> BOOLEAN]
  /\ notice \in [Calls -> {"none", "waiting", "settled"}]
  /\ resolved \in [Calls -> BOOLEAN]
  /\ sent \in [Calls -> Seq(Outputs)]
  /\ starts \in [Calls -> Nat]

\* OMP gets at most one result for a call, and nothing about the call after it:
\* not when the deadline, the handler, a queued update and a duplicate id race.
\* The exception is an id refused at capacity (#reserveId): it is not remembered,
\* so it gets a result each time OMP repeats it, but a handler never.
ResultClosesCall ==
  \A i \in Calls :
    \/ \A n \in 1 .. Len(sent[i]) : sent[i][n] = "result" => n = Len(sent[i])
    \/ i \notin seen /\ Cardinality(seen) >= MaxRequestIds /\ starts[i] = 0

Results(i) == {n \in DOMAIN sent[i] : sent[i][n] = "result"}

\* A handler runs at most once for a call, and never after the result told OMP
\* that the call was denied, too late or failed.  What OMP cancelled, or the end
\* of the bridge aborted, starts no handler and writes nothing more, wherever
\* its coroutine was suspended.
NoLateEffect ==
  [][\A i \in Calls :
       /\ starts'[i] # starts[i] => starts[i] = 0 /\ Results(i) = {}
       /\ "cancelled" \in flags[i] => sent'[i] = sent[i] /\ starts'[i] = starts[i]]_dispatcherVars

\* handle() returns for every call it started, even when the authorizer, the
\* handler or the writer never answers.
HandleReturns == \A i \in Calls : Started(i) ~> resolved[i]
=============================================================================
