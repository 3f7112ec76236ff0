------------------------------- MODULE MCBTree -------------------------------
(***************************************************************************)
(* Seven keys make trees of height four; with six a double rotation meets  *)
(* a grandchild that leans to one side.  One key can be given something    *)
(* else when it comes again.                                               *)
(***************************************************************************)
EXTENDS BTree
CONSTANTS d1, d2, null

MCKey == 1 .. 7
MCData == {d1, d2}
MCContents == [k \in MCKey |-> IF k = 3 THEN MCData ELSE {d1}]
=============================================================================
