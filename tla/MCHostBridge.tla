----------------------------- MODULE MCHostBridge -----------------------------
(***************************************************************************)
(* HostBridge for TLC.  Liveness is checked, so no symmetry is used.       *)
(***************************************************************************)
EXTENDS HostBridge
=============================================================================
