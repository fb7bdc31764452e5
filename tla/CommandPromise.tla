---------------------------- MODULE CommandPromise ----------------------------
(***************************************************************************)
(* What the host promises about a command, whatever happens to the host    *)
(* process, to OMP or to the connection of the client that submitted it.   *)
(*                                                                         *)
(* A command gets one durable row.  The row is claimed before anything is  *)
(* delivered, the delivery happens at most once and only while the row is  *)
(* still merely claimed, "not_dispatched" is only ever said of a command   *)
(* that was not and will not be delivered, an answer of OMP (acknowledged, *)
(* completed, failed) is only ever said of one that was, and a terminal    *)
(* row is frozen for as long as its session exists.                        *)
(*                                                                         *)
(* CediaSession implements this module; nothing here models code directly. *)
(***************************************************************************)
EXTENDS Naturals

CONSTANT Cmds                \* the command ids clients use in one session

VARIABLES status,            \* what the row of each command says
          delivered          \* how often the command reached an OMP process

vars == <<status, delivered>>

Terminal == {"completed", "failed", "outcome_unknown", "not_dispatched"}

Init ==
  /\ status = [c \in Cmds |-> "none"]
  /\ delivered = [c \in Cmds |-> 0]

Claim(c) ==
  /\ status[c] = "none"
  /\ status' = [status EXCEPT ![c] = "claimed"]
  /\ UNCHANGED delivered

Deliver(c) ==
  /\ status[c] = "claimed"
  /\ delivered[c] = 0
  /\ delivered' = [delivered EXCEPT ![c] = 1]
  /\ UNCHANGED status

MayBecome(c, to) ==
  \/ /\ to \in {"acknowledged", "completed", "failed"}
     /\ delivered[c] = 1
  \/ /\ to = "not_dispatched"
     /\ delivered[c] = 0
  \/ to = "outcome_unknown"

Settle(c, to) ==
  /\ status[c] \in {"claimed", "acknowledged"} \ {to}
  /\ MayBecome(c, to)
  /\ status' = [status EXCEPT ![c] = to]
  /\ UNCHANGED delivered

\* The OMP process, or the host itself, is gone: what is unfinished is unknown.
Abandon ==
  /\ status' = [c \in Cmds |-> IF status[c] \in {"claimed", "acknowledged"}
                               THEN "outcome_unknown" ELSE status[c]]
  /\ UNCHANGED delivered

\* The session is deleted, and its command rows with it.
Forget == status' = [c \in Cmds |-> "none"] /\ delivered' = [c \in Cmds |-> 0]

Next ==
  \/ \E c \in Cmds : Claim(c) \/ Deliver(c)
  \/ \E c \in Cmds, to \in Terminal \cup {"acknowledged"} : Settle(c, to)
  \/ Abandon
  \/ Forget

Spec == Init /\ [][Next]_vars
=============================================================================
