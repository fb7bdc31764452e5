------------------------------ MODULE MCDevices ------------------------------
(***************************************************************************)
(* Three events and two runs of a task, in pages of two; four commands in  *)
(* two calls at a time.                                                    *)
(***************************************************************************)
EXTENDS Devices

MCCatchups == 1..2
MCIds == 0..3
MCCalls == 1..2
MCDevices == {"desktop", "phone", "dock", "agent", "composer"}
MCPhone == {"phone"}
=============================================================================
