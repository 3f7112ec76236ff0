------------------------------- MODULE ExecList -------------------------------
(***************************************************************************)
(* The lists of exec.library, as sequences of their nodes.  exec is not    *)
(* part of the repository: a loop that goes through a list and takes some  *)
(* of its nodes off with Remove() leaves the others in their order.        *)
(***************************************************************************)
EXTENDS Integers, Sequences, FiniteSets

Places(q, S) == {i \in 1 .. Len(q) : q[i] \in S}

(***************************************************************************)
(* The places of nodes of S in the lists of all W.                         *)
(***************************************************************************)
PlacesIn(lists, W, S) == UNION {{w} \X Places(lists[w], S) : w \in W}

(***************************************************************************)
(* q without the nodes of S: its k-th node is the one that has k of the    *)
(* nodes left up to it.                                                    *)
(***************************************************************************)
Without(q, S) ==
  LET kept == (1 .. Len(q)) \ Places(q, S)
  IN  [k \in 1 .. Cardinality(kept) |->
         q[CHOOSE i \in kept : Cardinality({j \in kept : j <= i}) = k]]
=============================================================================
