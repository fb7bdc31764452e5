----------------------------- MODULE RelaySession -----------------------------
(***************************************************************************)
(* A device and its Mac over the relay: CediaRelayClient                   *)
(* (packages/relay/src/client.ts), the handshake of the encrypted channel  *)
(* (encrypted-channel.ts), the data sockets CediaRelayServer opens for     *)
(* announced clients (server.ts) and the request endpoint behind them      *)
(* (RelayHost), under the control connection (RelayLink).                  *)
(*                                                                         *)
(* Every connect() of the client is an epoch, with a channel of its own.   *)
(* Frames of a channel arrive in order until the connection is lost.       *)
(* Encryption and the shape of frames are left out: keys match.            *)
(***************************************************************************)
EXTENDS RelayHost, RelayLink

CONSTANTS
  MaxCalls,         \* bound: calls of request()
  MaxPendingCalls,  \* maxPendingRequests of the client
  MaxConnections    \* data connections of the server

ASSUME SessionAssumption ==
  /\ MaxCalls \in Nat /\ {MaxPendingCalls, MaxConnections} \subseteq Nat \ {0}

VARIABLES
  cState,           \* #state; idle stands for closed too: connect() takes both alike
  epoch,            \* #epoch
  attached,         \* #socket is set
  chan,             \* the client's channel: none, handshaking, open
  pend,             \* #pending: request ids, each with the epoch of its call
  calls,            \* calls made so far
  result,           \* what the last caller with this id was told
  madeIn,           \* history: the epoch of that call
  up                \* frames sent to the host, per channel

clientVars == <<cState, epoch, attached, chan, pend, calls, result, madeIn>>
vars == <<hostVars, linkVars, clientVars, up>>

Hello == "e2ee_hello"
Waiting == "waiting"

Init ==
  /\ HostInit /\ LinkInit
  /\ cState = "idle" /\ epoch = 0 /\ attached = FALSE /\ chan = "none"
  /\ pend = {} /\ calls = 0
  /\ result = [i \in Ids |-> "none"] /\ madeIn = [i \in Ids |-> 0]
  /\ up = [e \in Channels |-> <<>>]

hostOnly == <<host, records, slots, running, revoked, starts>>
Net(e, st) == net' = [net EXCEPT ![e] = st]
Alive(e) == host[e] \in {"waiting", "serving"}
IdsOf(P) == {p[1] : p \in P}
Tell(P, what) == result' = [i \in Ids |-> IF i \in IdsOf(P) THEN what ELSE result[i]]

----------------------------------------------------------------------------
\* The client.

\* #rejectPending of the current epoch.
RejectPending ==
  LET mine == {p \in pend : p[2] = epoch}
  IN pend' = pend \ mine /\ Tell(mine, "lost")

\* fail, #protocolError: the connection is over, and whoever waits is told.
Lose ==
  /\ cState' = "idle" /\ attached' = FALSE /\ chan' = "none"
  /\ RejectPending
  /\ Net(epoch, "down") /\ down' = [down EXCEPT ![epoch] = <<>>]
  /\ UNCHANGED <<hostOnly, linkVars, epoch, calls, madeIn, up>>

Connect ==
  /\ cState = "idle" /\ epoch + 1 \in Channels
  /\ epoch' = epoch + 1 /\ cState' = "connecting" /\ attached' = TRUE
  /\ chan' = "none" /\ Net(epoch + 1, "opening")
  /\ UNCHANGED <<hostOnly, down, linkVars, pend, calls, result, madeIn, up>>

\* createClientChannel sends its hello, and repeats it until the host is ready.
SocketOpens ==
  /\ attached /\ net[epoch] = "opening"
  /\ Net(epoch, "up") /\ chan' = "handshaking"
  /\ up' = [up EXCEPT ![epoch] = Append(@, Hello)]
  /\ UNCHANGED <<hostOnly, down, linkVars, cState, epoch, attached, pend, calls, result, madeIn>>

\* (A bound: two at a time, and none once an answer is under way.)
HelloAgain ==
  /\ chan = "handshaking" /\ net[epoch] = "up"
  /\ Len(up[epoch]) < 2 /\ down[epoch] = <<>>
  /\ up' = [up EXCEPT ![epoch] = Append(@, Hello)]
  /\ UNCHANGED <<hostVars, linkVars, clientVars>>

SocketFails == attached /\ net[epoch] = "opening" /\ Lose

HandshakeTimesOut == attached /\ chan = "handshaking" /\ Lose

SeesClose ==
  /\ attached /\ net[epoch] = "down" /\ down[epoch] = <<>>
  /\ Lose

Close == attached /\ Lose

\* The caller chooses the id; whoever repeats one repeats the request.
Request(i) ==
  /\ cState = "open" /\ chan = "open"
  /\ calls < MaxCalls /\ calls' = calls + 1
  /\ Cardinality(pend) < MaxPendingCalls /\ i \notin IdsOf(pend)
  /\ pend' = pend \cup {<<i, epoch>>}
  /\ result' = [result EXCEPT ![i] = Waiting]
  /\ madeIn' = [madeIn EXCEPT ![i] = epoch]
  /\ up' = [up EXCEPT ![epoch] = IF net[epoch] = "up" THEN Append(@, i) ELSE @]
  /\ UNCHANGED <<hostVars, linkVars, cState, epoch, attached, chan>>

FaultyRequestTimesOut(i) ==
  /\ \E p \in pend : p[1] = i /\ Tell({p}, "timeout")
  /\ UNCHANGED <<hostVars, linkVars, cState, epoch, attached, chan, pend, calls, madeIn, up>>

RequestTimesOut(i) ==
  /\ \E p \in pend : p[1] = i /\ pend' = pend \ {p} /\ Tell({p}, "timeout")
  /\ UNCHANGED <<hostVars, linkVars, cState, epoch, attached, chan, calls, madeIn, up>>

\* The frame at the head of the current channel.
Arrived(e) == attached /\ e = epoch /\ down[e] # <<>>
Taken(e) ==
  /\ down' = [down EXCEPT ![e] = Tail(@)]
  /\ UNCHANGED <<hostOnly, net>>
Answers(e) == {p \in pend : p = <<Head(down[e]).id, e>>}

ReadyArrives(e) ==
  /\ Arrived(e) /\ Head(down[e]) = ReadyFrame /\ Taken(e)
  /\ IF chan = "handshaking"
     THEN chan' = "open" /\ cState' = "open"
     ELSE UNCHANGED <<chan, cState>>
  /\ UNCHANGED <<linkVars, epoch, attached, pend, calls, result, madeIn, up>>

AnswerArrives(e) ==
  /\ Arrived(e) /\ Head(down[e]) # ReadyFrame /\ Answers(e) # {}
  /\ Taken(e)
  /\ pend' = pend \ Answers(e) /\ Tell(Answers(e), Head(down[e]).status)
  /\ UNCHANGED <<linkVars, cState, epoch, attached, chan, calls, madeIn, up>>

\* An answer nobody waits for any more, usually one that came after its request
\* timed out, is a protocol error and ends the connection.
StrayAnswer(e) ==
  /\ Arrived(e) /\ Head(down[e]) # ReadyFrame /\ Answers(e) = {}
  /\ Lose

----------------------------------------------------------------------------
\* The data connections of the host.

\* The relay announces the client over the control connection (connected, sync).
Announced(e) ==
  /\ life = "started" /\ \E s \in Sockets : ctl[s] = "open"
  /\ net[e] = "up" /\ host[e] = "none"
  /\ Cardinality({d \in Channels : Alive(d)}) < MaxConnections
  /\ host' = [host EXCEPT ![e] = "waiting"]
  /\ UNCHANGED <<records, slots, running, revoked, net, down, starts,
                 linkVars, clientVars, up>>

NextUp(e) == up' = [up EXCEPT ![e] = Tail(@)] /\ UNCHANGED <<linkVars, clientVars>>

\* handleHello of the first hello, handleDaemonRehello of a repeated one.
HelloArrives(e) ==
  /\ Alive(e) /\ up[e] # <<>> /\ Head(up[e]) = Hello
  /\ host' = [host EXCEPT ![e] = "serving"]
  /\ Emit(e, ReadyFrame)
  /\ NextUp(e)
  /\ UNCHANGED <<records, slots, running, revoked, starts, net>>

RequestArrives(e) ==
  /\ Serving(e) /\ up[e] # <<>> /\ Head(up[e]) # Hello
  /\ Receive(e, Head(up[e])) /\ UNCHANGED revoked
  /\ IF Serving(e)'
     THEN NextUp(e) /\ UNCHANGED net
     ELSE up' = [up EXCEPT ![e] = <<>>] /\ Net(e, "down") /\ UNCHANGED <<linkVars, clientVars>>

\* #closeDataSocket: the socket closed, or no hello came in time.
DataSocketCloses(e) ==
  /\ Alive(e) /\ (host[e] = "waiting" \/ net[e] = "down")
  /\ Dispose({e}) /\ Net(e, "down")
  /\ up' = [up EXCEPT ![e] = <<>>]
  /\ UNCHANGED <<running, revoked, down, starts, linkVars, clientVars>>

Stop ==
  /\ StopLink
  /\ Dispose({e \in Channels : Alive(e)})
  /\ net' = [e \in Channels |-> IF Alive(e) THEN "down" ELSE net[e]]
  /\ up' = [e \in Channels |-> IF Alive(e) THEN <<>> ELSE up[e]]
  /\ UNCHANGED <<running, revoked, down, starts, clientVars>>

\* The network or the relay loses a connection, with the frames under way.
Lost(e) ==
  /\ net[e] = "up" /\ Net(e, "down")
  /\ up' = [up EXCEPT ![e] = <<>>] /\ down' = [down EXCEPT ![e] = <<>>]
  /\ UNCHANGED <<hostOnly, linkVars, clientVars>>

----------------------------------------------------------------------------

Untouched == UNCHANGED <<linkVars, clientVars, up>>

ClientStep(e) == ReadyArrives(e) \/ AnswerArrives(e) \/ StrayAnswer(e)
HostStep(e) == Announced(e) \/ HelloArrives(e) \/ RequestArrives(e) \/ DataSocketCloses(e)

Next ==
  \/ Connect \/ SocketOpens \/ HelloAgain \/ SocketFails \/ HandshakeTimesOut
  \/ SeesClose \/ Close
  \/ \E i \in Ids : Request(i) \/ RequestTimesOut(i)
  \/ \E e \in Channels : ClientStep(e) \/ HostStep(e) \/ Lost(e)
  \/ \E e \in Channels, i \in Ids :
       (HandlerTimesOut(e, i) \/ HandlerEnds(e, i)) /\ Untouched
  \/ Revoke /\ Untouched
  \/ LinkStep /\ UNCHANGED <<hostVars, clientVars, up>>
  \/ Stop

\* Sockets open or fail, timers fire.  Handlers and the user owe nothing.
Fairness ==
  /\ WF_vars(SocketOpens \/ SocketFails \/ HandshakeTimesOut)
  /\ WF_vars(\E i \in Ids : RequestTimesOut(i))
  /\ WF_vars(\E s \in Sockets : (TimerFires(s) \/ Opens(s) \/ Fails(s))
                                 /\ UNCHANGED <<hostVars, clientVars, up>>)

Spec == Init /\ [][Next]_vars /\ Fairness

----------------------------------------------------------------------------
\* Properties.

\* A caller told of success had its request carried out, on the connection it
\* was made on, and a caller told of a revoked device was on a revoked one.
AnswersAreTrue ==
  \A i \in Ids :
    /\ result[i] = "ok" => starts[madeIn[i]][i] > 0 /\ <<madeIn[i], i>> \notin running
    /\ result[i] = "unauthorized" => revoked
    /\ result[i] = Waiting <=> i \in IdsOf(pend)

\* However often a client repeats a request on a channel it is run once, and
\* the runs a live channel has not seen the end of, timed out or not, hold its
\* slots, so that it never has more than MaxPending of them.
HandlerOnce ==
  \A e \in Channels :
    /\ \A i \in Ids : starts[e][i] <= 1
    /\ Serving(e) => {i \in Ids : <<e, i>> \in running} \subseteq slots[e]
    /\ Cardinality(slots[e]) <= MaxPending

\* Once the device is revoked, no handler starts and no answer but the refusal
\* leaves the host, not even one recorded or computed before.
RevokedIsSilent ==
  [][revoked => /\ running' \subseteq running
                /\ \A e \in Channels : Len(down'[e]) > Len(down[e]) =>
                     down'[e][Len(down'[e])].status \in {"unauthorized", "ready"}]_vars

\* Every connect() and every request settles, whatever the host does, and a
\* started server that has no control connection tries another.
EverythingSettles ==
  /\ cState = "connecting" ~> cState # "connecting"
  /\ \A i \in Ids : result[i] = Waiting ~> result[i] # Waiting
  /\ life = "started" /\ control = {} ~> life = "stopped" \/ control # {}
=============================================================================
