------------------------------ MODULE EventLog ------------------------------
(***************************************************************************)
(* The journal of one task (apps/host/src/store.ts, events) and the pages  *)
(* the host serves of it (apps/host/src/router.ts).  Sequence numbers run  *)
(* on when the task is started again; every event carries the incarnation  *)
(* that wrote it.                                                          *)
(***************************************************************************)
EXTENDS Naturals, Sequences, FiniteSets

CONSTANTS
  MaxLog,           \* bound on the journal
  MaxIncarnation,   \* bound on the starts of the task
  PageSize,         \* limit of the events request
  MaxFaults         \* bound on the requests that fail

ASSUME LogAssumption ==
  /\ MaxLog \in Nat /\ MaxIncarnation \in Nat \ {0} /\ PageSize \in Nat \ {0}

VARIABLES
  log,              \* the incarnation of every event, by sequence number
  incarnation,      \* the session record's incarnation
  faults            \* bound

logVars == <<log, incarnation, faults>>

LogInit == log = <<>> /\ incarnation = 1 /\ faults = 0

\* appendEvent, of a frame of the running OMP.
AppendEvent ==
  /\ Len(log) < MaxLog
  /\ log' = Append(log, incarnation)
  /\ UNCHANGED <<incarnation, faults>>

\* startSession, from whatever device: the record gets a new incarnation.
Rotate ==
  /\ incarnation < MaxIncarnation
  /\ incarnation' = incarnation + 1
  /\ UNCHANGED <<log, faults>>

\* A request of a device does not get through, or its answer does not.
RequestFails ==
  /\ faults < MaxFaults
  /\ faults' = faults + 1
  /\ UNCHANGED <<log, incarnation>>

\* readEvents and the events route: events after the cursor, at least one if
\* there is any, cut where the page or its bytes are full.
Pages(after) ==
  {[from |-> after, last |-> n, more |-> n < Len(log)] :
     n \in {m \in after..(after + PageSize) : m <= Len(log) /\ (m = after => Len(log) <= after)}}

Events(page) == (page.from + 1)..page.last

\* Those events of a page that a device takes, in the order in which it gets them.
InOrder(S) ==
  CHOOSE s \in [1..Cardinality(S) -> S] : \A j, k \in 1..Cardinality(S) : j < k => s[j] < s[k]
=============================================================================
