------------------------------ MODULE MCPatches ------------------------------
(***************************************************************************)
(* Two standard patches, one of each other kind, and two other programs.   *)
(***************************************************************************)
EXTENDS Patches, TLC
CONSTANTS s1, s2, e1, h1, p1, p2

MCStandard == {s1, s2}
MCEmulation == {e1}
MCHard == {h1}
MCProgram == {p1, p2}
=============================================================================
