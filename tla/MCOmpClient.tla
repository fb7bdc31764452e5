----------------------------- MODULE MCOmpClient -----------------------------
(***************************************************************************)
(* OmpClient for TLC.                                                      *)
(***************************************************************************)
EXTENDS OmpClient
=============================================================================
