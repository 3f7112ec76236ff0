----------------------------- MODULE MCUndoRedo -----------------------------
(***************************************************************************)
(* The desktop and one address for other windows, which show two drawers   *)
(* in turn; which is which does not matter.                                *)
(***************************************************************************)
EXTENDS UndoRedo, TLC
CONSTANTS desk, w1, d1, d2, none

MCWindow == {desk, w1}
MCDir == {d1, d2}
MCSymmetry == Permutations(MCDir)
=============================================================================
