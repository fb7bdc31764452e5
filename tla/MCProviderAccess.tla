--------------------------- MODULE MCProviderAccess ---------------------------
(***************************************************************************)
(* ProviderAccess for TLC.                                                 *)
(***************************************************************************)
EXTENDS ProviderAccess
=============================================================================
