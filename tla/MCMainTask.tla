----------------------------- MODULE MCMainTask -----------------------------
(***************************************************************************)
(* The main window and other windows, a program that resets Scalos and one *)
(* that opens drawers.                                                     *)
(***************************************************************************)
EXTENDS MainTask, TLC
CONSTANTS mw, w1, w2, a1, a2, o1

MCTask == {Main} \cup Opener
=============================================================================
