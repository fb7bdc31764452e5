--------------------------- MODULE MCCediaSession ---------------------------
(***************************************************************************)
(* CediaSession for TLC: command ids are interchangeable model values, and *)
(* ActionBound keeps the search finite.                                    *)
(***************************************************************************)
EXTENDS CediaSession, TLC

Symmetry == Permutations(Cmds)

CONSTANT MaxQueue            \* bound: frames of OMP not yet read

\* OMP stops producing frames while the host has MaxQueue unread ones.
SmallQueues == Len(wire) <= MaxQueue /\ Len(stray) <= MaxQueue
=============================================================================
