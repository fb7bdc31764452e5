---------------------------- MODULE MCRelaySession ----------------------------
(***************************************************************************)
(* RelaySession for TLC.  The second channel remembers one id only, so that*)
(* a second request meets a full ledger.                                   *)
(***************************************************************************)
EXTENDS RelaySession

MCMaxRequestIds == <<2, 1>>
=============================================================================
