------------------------------- MODULE TreeInt -------------------------------
(***************************************************************************)
(* The benchmark of hw1/treeint/treeint.c: calls, one after the other,     *)
(* through the operations of the tree that was asked for.  Both trees      *)
(* share their variables here, as only one of them is ever there.          *)
(***************************************************************************)
EXTENDS Integers, FiniteSets

CONSTANTS
  Key, NULL, NONE,
  Random  \* Random[ops]: the keys that seeds other than 0 draw

Ops == {"s-tree", "rbtree"}

ASSUME TreeIntAssumption ==
  /\ IsFiniteSet(Key) /\ Key = 0 .. Cardinality(Key) - 1
  /\ NULL \notin Key /\ NONE \notin Key
  /\ NONE \notin {"insert", "remove", "find"} /\ NONE \notin BOOLEAN
  /\ \A o \in Ops : Random[o] \subseteq Key

VARIABLES root, child, parent, alive, pc, op, key, ret, n, p, d,
  hint, del,  \* of the s-tree only
  color,      \* of the rbtree only
  ops, seed,
  i           \* the calls made, if the seed is 0

bothVars == <<root, child, parent, alive, pc, op, key, ret, n, p, d>>
clientVars == <<ops, seed, i>>
vars == <<bothVars, hint, del, color, clientVars>>

ST == INSTANCE STree
RB == INSTANCE RbTree

Init ==
  /\ ST!Init /\ RB!Init
  /\ ops \in Ops /\ seed \in {0, 1} /\ i = 0

-----------------------------------------------------------------------------
(* The operations of the tree, whose other tree's fields do not exist.     *)
Use(stree, rbtree) ==
  \/ ops = "s-tree" /\ stree /\ UNCHANGED color
  \/ ops = "rbtree" /\ rbtree /\ UNCHANGED <<hint, del>>

Call(o, k) == Use(ST!Call(o, k), RB!Call(o, k))

tree_size == Cardinality(Key)

(* Seed 0: the keys are inserted and then found in their order.  They are  *)
(* removed in any order, of which that of main is one.                     *)
Linear ==
  /\ seed = 0
  /\ \/ i < tree_size /\ Call("insert", i) /\ i' = i + 1
     \/ i \in tree_size .. 2 * tree_size - 1 /\ Call("find", i - tree_size) /\ i' = i + 1
     \/ i = 2 * tree_size /\ (\E v \in Key : Call("remove", v)) /\ UNCHANGED i
  /\ UNCHANGED <<ops, seed>>

(* Other seeds: any keys, and also in an order other than main's, which    *)
(* has insertions first and removals last.                                 *)
RandomKey ==
  /\ seed # 0
  /\ \E o \in {"insert", "find", "remove"}, v \in Random[ops] : Call(o, v)
  /\ UNCHANGED clientVars

Step == Use(ST!Step, RB!Step) /\ UNCHANGED clientVars

Destroy ==
  /\ seed = 0 => i = 2 * tree_size
  /\ Use(ST!st_destroy, RB!treeint_rb_destroy)
  /\ UNCHANGED clientVars

Terminating == pc = "destroyed" /\ UNCHANGED vars

Next == Linear \/ RandomKey \/ Step \/ Destroy \/ Terminating

(* A call that has begun goes on.                                          *)
Spec == Init /\ [][Next]_vars /\ WF_vars(Step)

-----------------------------------------------------------------------------
(* What each tree says of its pointers, which every loop trusts: that they *)
(* stay inside the tree, that it has every node once and in order, and     *)
(* that a node's parent is the one whose child it is.                      *)
TreeOK ==
  IF ops = "s-tree" THEN ST!TypeOK /\ ST!TreeOK ELSE RB!TypeOK /\ RB!TreeOK

(* The rules of the red-black tree hold between calls, and within them as  *)
(* the comments in its loops say: see RbTree.                              *)
RedBlack == ops = "rbtree" => RB!RedBlack

(* The calls of either tree behave as those on a set, and return.          *)
S == INSTANCE KeySet WITH
       set <- IF pc = "destroyed" THEN {} ELSE IF ops = "s-tree" THEN ST!Members ELSE RB!Members

ImplementsKeySet == S!Spec
=============================================================================
