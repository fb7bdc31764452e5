------------------------------- MODULE RelayLink -------------------------------
(***************************************************************************)
(* The control connection of CediaRelayServer (packages/relay/src/         *)
(* server.ts) to the relay: start, stop, and the reconnection with a       *)
(* growing delay that follows every loss.  The relay announces clients     *)
(* over it (RelaySession opens their data connections).                    *)
(***************************************************************************)
EXTENDS Naturals, FiniteSets

CONSTANTS
  Sockets           \* control sockets at one time (a bound)

ASSUME LinkAssumption == IsFiniteSet(Sockets)

VARIABLES
  life,             \* new, started, stopped (#started, #stopped)
  control,          \* #control, as a set of at most one socket
  connecting,       \* #connecting: the socket its promise waits for, likewise
  timer,            \* #reconnectTimer is set
  ctl               \* a control socket: unused, opening, open

linkVars == <<life, control, connecting, timer, ctl>>

LinkInit ==
  /\ life = "new" /\ timer = FALSE
  /\ control = {} /\ connecting = {}
  /\ ctl = [s \in Sockets |-> "unused"]

Becomes(s, st) == ctl' = [ctl EXCEPT ![s] = st]

FaultySchedule(busy) == timer' = (timer \/ (life = "started" /\ connecting = {}))

\* #scheduleReconnect, when busy sockets are still being waited for.
Schedule(busy) == timer' = (timer \/ (life = "started" /\ busy = {}))

\* #beginConnectControl, #connectControl.
Begin(s) ==
  /\ connecting = {} /\ ctl[s] = "unused"
  /\ Becomes(s, "opening")
  /\ control' = {s} /\ connecting' = {s}

\* start(); while an attempt is under way it only joins that attempt.
Start(s) ==
  /\ life = "new" /\ life' = "started"
  /\ Begin(s)
  /\ UNCHANGED timer

TimerFires(s) ==
  /\ timer /\ timer' = FALSE
  /\ Begin(s)
  /\ UNCHANGED life

Opens(s) ==
  /\ ctl[s] = "opening" /\ Becomes(s, "open")
  /\ connecting' = connecting \ {s}
  /\ UNCHANGED <<life, control, timer>>

\* The socket closes before it was open: the attempt's promise rejects, and its
\* finally clears the attempt before it schedules the next.
Fails(s) ==
  /\ ctl[s] = "opening" /\ Becomes(s, "unused")
  /\ control' = control \ {s} /\ connecting' = connecting \ {s}
  /\ Schedule(connecting')
  /\ UNCHANGED life

\* A control socket that was open closes.
Drops(s) ==
  /\ ctl[s] = "open" /\ Becomes(s, "unused")
  /\ control' = control \ {s}
  /\ Schedule(connecting)
  /\ UNCHANGED <<life, connecting>>

\* stop(), without the data connections.  What the closed socket still reports
\* finds the server stopped.
StopLink ==
  /\ life = "started" /\ life' = "stopped"
  /\ timer' = FALSE /\ control' = {} /\ connecting' = {}
  /\ ctl' = [s \in Sockets |-> "unused"]

LinkStep == \E s \in Sockets : Start(s) \/ TimerFires(s) \/ Opens(s) \/ Fails(s) \/ Drops(s)
=============================================================================
