----------------------------- MODULE MCWindowTask -----------------------------
(***************************************************************************)
(* One window with two child processes and at most one guest.              *)
(***************************************************************************)
EXTENDS WindowTask, TLC

CONSTANTS c1, c2, g1

MCTask  == {Own, c1, c2, g1}
MCChild == {c1, c2}
Symmetry == Permutations(MCChild)
=============================================================================
