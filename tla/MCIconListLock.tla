---------------------------- MODULE MCIconListLock ----------------------------
(***************************************************************************)
(* A window process and one or two other tasks on its icon list.           *)
(***************************************************************************)
EXTENDS IconListLock, TLC

Symmetry == Permutations(Task \ {Own})
=============================================================================
