-------------------------------- MODULE BTree --------------------------------
(***************************************************************************)
(* The AVL tree of main/BTree.c and how ScanDir.c, AutoUpdate.c and the    *)
(* patches of Open() and Close() use it.  A key is never removed: it is    *)
(* hidden, and its node is used again.                                     *)
(*                                                                         *)
(* The tree is a record in a record.  left and right are fields, so one    *)
(* operator says what the code says twice, for the left and for the right. *)
(***************************************************************************)
EXTENDS Integers, FiniteSets

CONSTANTS
  Key,       \* names, or file handles
  Data,      \* what belongs to them
  Contents,  \* bound: which of Data may belong to each key
  NoData,    \* NULL
  Sizes,     \* btr_NodeCount is a size_t: it has Sizes values
  MaxShort   \* bound: how often memory is short

ASSUME KeyAssumption == Key \subseteq Int /\ NoData \notin Data
ASSUME ContentsAssumption == Contents \in [Key -> SUBSET Data]
ASSUME NumberAssumption ==
  Sizes \in Nat /\ MaxShort \in Nat /\ Sizes > Cardinality(Key) + MaxShort

VARIABLES
  root,   \* btr_Root
  count,  \* btr_NodeCount
  short,  \* how often there was no memory for a node of this tree
  table   \* ghost: what its callers think belongs to each key

vars == <<root, count, short, table>>

Side == {"left", "right"}
Other(side) == IF side = "left" THEN "right" ELSE "left"

Balanced == 0
Heavy(side) == IF side = "left" THEN 1 ELSE -1   \* LEFT_HEAVY, RIGHT_HEAVY

Null == [node |-> FALSE]
Garbage == [node |-> FALSE, garbage |-> TRUE]  \* after a NULL pointer was followed

Node(k, d) ==
  [node |-> TRUE, key |-> k, data |-> d, balance |-> Balanced, hidden |-> FALSE,
   left |-> Null, right |-> Null]

(***************************************************************************)
(* btr_Compare: all three callers compare the second key with the first.   *)
(***************************************************************************)
SideOf(t, k) == IF t.key < k THEN "left" ELSE "right"

RotateInnerForgotten(t, side) ==   \* mutant: the grandchild's balance is not looked at
  LET other  == Other(side)
      child  == t[side]
      gchild == child[other]
  IN  IF child.balance = Heavy(side)
      THEN [child EXCEPT !.balance = Balanced,
              ![other] = [t EXCEPT ![side] = child[other], !.balance = Balanced]]
      ELSE [gchild EXCEPT !.balance = Balanced,
              ![side]  = [child EXCEPT ![other] = gchild[side], !.balance = Balanced],
              ![other] = [t EXCEPT ![side] = gchild[other], !.balance = Balanced]]

(***************************************************************************)
(* rotate_left and rotate_right: the subtree of that side is too high.     *)
(***************************************************************************)
Rotate(t, side) ==
  LET other  == Other(side)
      child  == t[side]
      gchild == child[other]
      Tilt(b, s) == IF gchild.balance = b THEN Heavy(s) ELSE Balanced
  IN  CASE child = Null -> Garbage
        [] child # Null /\ child.balance = Heavy(side) ->
             [child EXCEPT !.balance = Balanced,
                ![other] = [t EXCEPT ![side] = child[other], !.balance = Balanced]]
        [] child # Null /\ child.balance # Heavy(side) /\ gchild = Null -> Garbage
        [] OTHER ->
             [gchild EXCEPT !.balance = Balanced,
                ![side]  = [child EXCEPT ![other] = gchild[side],
                              !.balance = Tilt(Heavy(other), side)],
                ![other] = [t EXCEPT ![side] = gchild[other],
                              !.balance = Tilt(Heavy(side), other)]]

RebalanceAdds(t, side) ==   \* mutant: adds up and does not rotate
  [tree |-> [t EXCEPT !.balance = @ + Heavy(side)], balanced |-> FALSE, exists |-> FALSE]

(***************************************************************************)
(* The subtree of that side may have become higher by one.                 *)
(***************************************************************************)
Rebalance(t, side) ==
  LET Result(tree, balanced) == [tree |-> tree, balanced |-> balanced, exists |-> FALSE]
  IN  CASE t.balance = Heavy(side) -> Result(Rotate(t, side), TRUE)
        [] t.balance = Balanced    -> Result([t EXCEPT !.balance = Heavy(side)], FALSE)
        [] OTHER                   -> Result([t EXCEPT !.balance = Balanced], TRUE)

SameKeyOld(t, d) ==   \* mutant: the node keeps what belonged to the key before
  [tree |-> [t EXCEPT !.hidden = FALSE], balanced |-> TRUE, exists |-> ~t.hidden]

SameKey(t, d) ==
  IF t.hidden
  THEN [tree |-> [t EXCEPT !.data = d, !.hidden = FALSE], balanced |-> TRUE, exists |-> FALSE]
  ELSE [tree |-> t, balanced |-> FALSE, exists |-> TRUE]

(***************************************************************************)
(* BTreeInternalInsert.  Without memory the node is not there, but the     *)
(* nodes above are told that their subtree is higher.                      *)
(***************************************************************************)
RECURSIVE BTreeInternalInsert(_, _, _, _)
BTreeInternalInsert(t, k, d, memory) ==
  CASE t = Null    -> [tree |-> IF memory THEN Node(k, d) ELSE Null,
                       balanced |-> FALSE, exists |-> FALSE]
    [] t # Null /\ t.key = k -> SameKey(t, d)
    [] OTHER ->
         LET side  == SideOf(t, k)
             r     == BTreeInternalInsert(t[side], k, d, memory)
             above == [t EXCEPT ![side] = r.tree]
         IN  CASE r.tree = Garbage        -> r
               [] r.tree # Garbage /\ (r.exists \/ r.balanced) -> [r EXCEPT !.tree = above]
               [] OTHER                   -> Rebalance(above, side)

RECURSIVE BTreeInternalHideNode(_, _)
BTreeInternalHideNode(t, k) ==
  CASE t = Null -> t
    [] t # Null /\ t.key = k -> [t EXCEPT !.hidden = TRUE]
    [] OTHER -> [t EXCEPT ![SideOf(t, k)] = BTreeInternalHideNode(@, k)]

RECURSIVE BTreeFind(_, _)
BTreeFind(t, k) ==
  CASE t = Null -> NoData
    [] t # Null /\ t.key = k -> IF t.hidden THEN NoData ELSE t.data
    [] OTHER -> BTreeFind(t[SideOf(t, k)], k)

Plus(n)  == (count + n) % Sizes
Minus(n) == (count + Sizes - n) % Sizes

Empty == [k \in Key |-> NoData]

Init == root = Null /\ count = 0 /\ short = 0 /\ table = Empty
-----------------------------------------------------------------------------
(***************************************************************************)
(* BTreeInsert.  Scanning a directory does not look at its result.         *)
(***************************************************************************)
Insert(k, d) ==
  /\ root # Garbage
  /\ LET r == BTreeInternalInsert(root, k, d, TRUE) IN
     /\ root' = r.tree
     /\ count' = IF r.exists THEN count ELSE Plus(1)
  /\ table' = [table EXCEPT ![k] = IF @ = NoData THEN d ELSE @]
  /\ UNCHANGED short

RECURSIVE KeysOf(_)
KeysOf(t) == IF t = Null THEN {} ELSE {t.key} \cup KeysOf(t.left) \cup KeysOf(t.right)

InsertFails(k, d) ==
  /\ short < MaxShort
  /\ root # Garbage /\ k \notin KeysOf(root)
  /\ root' = BTreeInternalInsert(root, k, d, FALSE).tree
  /\ count' = Plus(1)
  /\ short' = short + 1
  /\ UNCHANGED table

(***************************************************************************)
(* sca_Open, for a file handle that is there already: hidden and inserted  *)
(* again.                                                                  *)
(***************************************************************************)
Reopen(k, d) ==
  /\ root # Garbage /\ BTreeFind(root, k) # NoData
  /\ root' = BTreeInternalInsert(BTreeInternalHideNode(root, k), k, d, TRUE).tree
  /\ table' = [table EXCEPT ![k] = d]
  /\ UNCHANGED <<count, short>>

(***************************************************************************)
(* BTreeHide, of a key that BTreeFind has found: an icon meets its file,   *)
(* or a file is closed.                                                    *)
(***************************************************************************)
Hide(k) ==
  /\ root # Garbage /\ BTreeFind(root, k) # NoData
  /\ root' = BTreeInternalHideNode(root, k)
  /\ count' = Minus(1)
  /\ table' = [table EXCEPT ![k] = NoData]
  /\ UNCHANGED short

(***************************************************************************)
(* BTreeDispose, and BTreeCreate for the next directory.                   *)
(***************************************************************************)
Dispose ==
  /\ root # Garbage
  /\ root' = Null /\ count' = 0 /\ short' = 0 /\ table' = Empty

Next ==
  \/ \E k \in Key :
       \/ \E d \in Contents[k] : Insert(k, d) \/ InsertFails(k, d) \/ Reopen(k, d)
       \/ Hide(k)
  \/ Dispose

Spec == Init /\ [][Next]_vars
-----------------------------------------------------------------------------
RECURSIVE Fits(_, _)
Fits(t, keys) ==
  t # Null =>
    /\ t.key \in keys /\ t.data \in Data /\ t.hidden \in BOOLEAN
    /\ t.balance \in {Heavy("left"), Balanced, Heavy("right")}
    /\ \A side \in Side : Fits(t[side], {k \in keys \ {t.key} : SideOf(t, k) = side})

(***************************************************************************)
(* The tree is a search tree, each key in it once, whatever was rotated    *)
(* and even if memory was short.                                           *)
(***************************************************************************)
TypeOK ==
  /\ root # Garbage => Fits(root, Key)
  /\ count \in 0 .. Sizes - 1
  /\ short \in 0 .. MaxShort
  /\ table \in [Key -> Data \cup {NoData}]

RECURSIVE Height(_)
Height(t) ==
  IF t = Null THEN 0
  ELSE LET l == Height(t.left) r == Height(t.right)
       IN  1 + (IF l > r THEN l ELSE r)

RECURSIVE BalanceIsExact(_)
BalanceIsExact(t) ==
  t # Null =>
    /\ t.balance = Height(t.left) - Height(t.right)
    /\ BalanceIsExact(t.left) /\ BalanceIsExact(t.right)

(***************************************************************************)
(* Every avln_Balance is the difference in height of the two subtrees, in  *)
(* whatever order keys come, are hidden and come again: no search takes    *)
(* longer than in an AVL tree, and no rotation follows a NULL pointer.     *)
(* After a node could not be allocated neither is so.                      *)
(***************************************************************************)
AVL == short = 0 => root # Garbage /\ BalanceIsExact(root)

(***************************************************************************)
(* For its callers the tree is a table: BTreeFind finds what was inserted  *)
(* last and not hidden since, and nothing else, through every rotation,    *)
(* and even after memory was short, until a NULL pointer is followed.      *)
(* btr_NodeCount is the number of keys that can be found.                  *)
(***************************************************************************)
FindsWhatBelongs ==
  /\ root # Garbage => \A k \in Key : BTreeFind(root, k) = table[k]
  /\ short = 0 => count = Cardinality({k \in Key : table[k] # NoData})
=============================================================================
