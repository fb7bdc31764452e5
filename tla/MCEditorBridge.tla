--------------------------- MODULE MCEditorBridge ---------------------------
(***************************************************************************)
(* Two calls of the agent after a first one, two windows one after the     *)
(* other, and a user who types, saves, closes and creates.                 *)
(***************************************************************************)
EXTENDS EditorBridge, TLC

CONSTANTS c1, c2, c3, t1, t2

MCCalls == {c1, c2, c3}
MCTexts == {t1, t2}
Symmetric == Permutations(MCCalls) \cup Permutations(MCTexts)
=============================================================================
