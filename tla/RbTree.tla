-------------------------------- MODULE RbTree -------------------------------
(***************************************************************************)
(* The red-black tree of hw1/treeint/rbtree.c with the integers of         *)
(* treeint_rb.c as its keys.  A node is its key, as there is never more    *)
(* than one node of a key, and __rb_parent_color is parent and color.  The *)
(* code that is written once for a left and once for a right child is      *)
(* modelled once, with the side as a parameter.  One action is one round   *)
(* of a loop, or what comes before or after it.                            *)
(***************************************************************************)
EXTENDS Integers, FiniteSets

CONSTANTS Key, NULL, NONE

Side == {"LEFT", "RIGHT"}
Other(s) == IF s = "LEFT" THEN "RIGHT" ELSE "LEFT"

RB_RED == 0
RB_BLACK == 1

VARIABLES
  root,
  child,    \* child["LEFT"][m], child["RIGHT"][m]: m->rb_left, m->rb_right
  parent,
  color,
  alive,    \* the nodes that were allocated and not freed
  pc,       \* the loop that the call under way is in
  op, key,  \* the call under way, or NONE
  ret,      \* whether it succeeds, once that is known
  n, p,     \* the loop's node and parent
  d         \* the side of p that the way down has taken

treeVars == <<root, child, parent, color>>
callVars == <<op, key>>
loopVars == <<n, p, d>>
vars == <<treeVars, alive, pc, callVars, ret, loopVars>>

Init ==
  /\ root = NULL
  /\ child = [s \in Side |-> [m \in Key |-> NULL]]
  /\ parent = [m \in Key |-> NULL] /\ color = [m \in Key |-> RB_RED]
  /\ alive = {}
  /\ pc = "ready" /\ op = NONE /\ key = NONE /\ ret = NONE
  /\ n = NULL /\ p = NULL /\ d = NONE

-----------------------------------------------------------------------------
(* What the assignments of one round do to the tree t.                     *)
tree == [root |-> root, child |-> child, parent |-> parent, color |-> color]

Become(t) ==
  root' = t.root /\ child' = t.child /\ parent' = t.parent /\ color' = t.color

set_parent(t, m, q) == IF m = NULL THEN t ELSE [t EXCEPT !.parent[m] = q]

set_parent_color(t, m, q, c) ==
  IF m = NULL THEN t ELSE [t EXCEPT !.parent[m] = q, !.color[m] = c]

change_child(t, old, new, q) ==
  IF q = NULL THEN [t EXCEPT !.root = new]
  ELSE LET s == IF t.child["LEFT"][q] = old THEN "LEFT" ELSE "RIGHT"
       IN  [t EXCEPT !.child[s][q] = new]

rotate_set_parents(t, old, new, c) ==
  change_child([t EXCEPT !.parent = [@ EXCEPT ![new] = t.parent[old], ![old] = new],
                         !.color = [@ EXCEPT ![new] = t.color[old], ![old] = c]],
               old, new, t.parent[old])

(* The links of a rotation in which y, the child of x on side s, goes up.  *)
turn(t, x, y, s) ==
  [t EXCEPT !.child[s][x] = t.child[Other(s)][y], !.child[Other(s)][y] = x]

-----------------------------------------------------------------------------
(* treeint_rb_insert, treeint_rb_remove and treeint_rb_find begin at the   *)
(* root ...                                                                *)
Call(o, k) ==
  /\ pc = "ready"
  /\ pc' = "find" /\ op' = o /\ key' = k
  /\ n' = root
  /\ UNCHANGED <<treeVars, alive, ret, p, d>>

Return(result) ==
  /\ pc' = "return" /\ ret' = result
  /\ n' = NULL /\ p' = NULL /\ d' = NONE

(* ... and go down.                                                        *)
find ==
  /\ pc = "find" /\ n # NULL /\ n # key
  /\ p' = n
  /\ d' = IF key < n THEN "LEFT" ELSE "RIGHT"
  /\ n' = child[d'][n]
  /\ UNCHANGED <<treeVars, alive, pc, callVars, ret>>

found ==
  /\ pc = "find" /\ n = key /\ op # "remove"
  /\ Return(op = "find")
  /\ UNCHANGED <<treeVars, alive, callVars>>

not_found ==
  /\ pc = "find" /\ n = NULL /\ op # "insert"
  /\ Return(FALSE)
  /\ UNCHANGED <<treeVars, alive, callVars>>

(* The new node: red, without children, at the end of the way.             *)
rb_link_node ==
  /\ pc = "find" /\ n = NULL /\ op = "insert"
  /\ alive' = alive \cup {key}
  /\ LET t == [set_parent_color(tree, key, p, RB_RED) EXCEPT
                 !.child = [s \in Side |-> [@[s] EXCEPT ![key] = NULL]]]
     IN  Become(IF p = NULL THEN [t EXCEPT !.root = key]
                ELSE [t EXCEPT !.child[d][p] = key])
  /\ pc' = "insert" /\ ret' = TRUE
  /\ n' = key /\ p' = NULL /\ d' = NONE
  /\ UNCHANGED callVars

-----------------------------------------------------------------------------
(* __rb_insert: the rounds of its loop.                                    *)
insert_root ==
  /\ pc = "insert" /\ parent[n] = NULL
  /\ color' = [color EXCEPT ![n] = RB_BLACK]
  /\ Return(ret)
  /\ UNCHANGED <<root, child, parent, alive, callVars>>

insert_black_parent ==
  /\ pc = "insert" /\ parent[n] # NULL /\ color[parent[n]] = RB_BLACK
  /\ Return(ret)
  /\ UNCHANGED <<treeVars, alive, callVars>>

gparent == parent[parent[n]]
ParentSide == IF parent[n] # child["RIGHT"][gparent] THEN "LEFT" ELSE "RIGHT"
uncle == child[Other(ParentSide)][gparent]
Is(c, m) == m # NULL /\ color[m] = c
RedParent == pc = "insert" /\ Is(RB_RED, parent[n])

(* Mutant: the color flips, and that is all.                               *)
insert_flip_done ==
  /\ RedParent /\ Is(RB_RED, uncle)
  /\ color' = [color EXCEPT ![uncle] = RB_BLACK, ![parent[n]] = RB_BLACK, ![gparent] = RB_RED]
  /\ Return(ret)
  /\ UNCHANGED <<root, child, parent, alive, callVars>>

(* Case 1: the color flips; it goes on with the grandparent.               *)
insert_flip ==
  /\ RedParent /\ Is(RB_RED, uncle)
  /\ color' = [color EXCEPT ![uncle] = RB_BLACK, ![parent[n]] = RB_BLACK, ![gparent] = RB_RED]
  /\ n' = gparent
  /\ UNCHANGED <<root, child, parent, alive, pc, callVars, ret, p, d>>

(* Cases 2 and 3: a node on the inner side first takes its parent's place. *)
insert_rotate ==
  /\ RedParent /\ ~ Is(RB_RED, uncle)
  /\ LET g == gparent
         s == ParentSide
         q == parent[n]
         middle == child[s][n]
         straight ==
           IF child[Other(s)][q] = n
           THEN set_parent_color(set_parent_color(turn(tree, q, n, Other(s)), middle, q, RB_BLACK),
                                 q, n, RB_RED)
           ELSE tree
         top == IF child[Other(s)][q] = n THEN n ELSE q
         tmp == straight.child[Other(s)][top]
     IN  Become(rotate_set_parents(
                  set_parent_color(turn(straight, g, top, s), tmp, g, RB_BLACK),
                  g, top, RB_RED))
  /\ Return(ret)
  /\ UNCHANGED <<alive, callVars>>

-----------------------------------------------------------------------------
(* __rb_erase_augmented: what is left to do is ____rb_erase_color, whose   *)
(* node is NULL at first, if there is something to rebalance.              *)
Rebalance(q) ==
  /\ pc' = IF q # NULL THEN "erase" ELSE "erased"
  /\ ret' = TRUE
  /\ n' = NULL /\ p' = q

(* Case 1: no more than one child, which takes the node's place and color. *)
erase_easy ==
  /\ pc = "find" /\ n = key /\ op = "remove"
  /\ \E s \in Side : child[s][n] = NULL
  /\ LET left == child["LEFT"][n]
         c == IF left = NULL THEN child["RIGHT"][n] ELSE left
     IN  /\ Become(change_child(set_parent_color(tree, c, parent[n], color[n]), n, c, parent[n]))
         /\ Rebalance(IF c = NULL /\ color[n] = RB_BLACK THEN parent[n] ELSE NULL)
  /\ d' = NONE
  /\ UNCHANGED <<alive, callVars>>

(* The successor is the leftmost node of the right subtree.                *)
erase_down ==
  /\ pc = "find" /\ n = key /\ op = "remove"
  /\ \A s \in Side : child[s][n] # NULL
  /\ pc' = "successor" /\ n' = child["RIGHT"][n] /\ p' = n' /\ d' = NONE
  /\ UNCHANGED <<treeVars, alive, callVars, ret>>

erase_successor ==
  /\ pc = "successor" /\ child["LEFT"][n] # NULL
  /\ p' = n /\ n' = child["LEFT"][n]
  /\ UNCHANGED <<treeVars, alive, pc, callVars, ret, d>>

(* Mutant: the child that the successor leaves is forgotten.               *)
erase_replace_lost ==
  /\ pc = "successor" /\ child["LEFT"][n] = NULL
  /\ LET child2 == child["RIGHT"][n]
         right == child["RIGHT"][key]
         left == child["LEFT"][key]
         lifted == IF p = n THEN tree
                   ELSE set_parent([tree EXCEPT !.child["LEFT"][p] = NULL,
                                                !.child["RIGHT"][n] = right], right, n)
         placed == change_child(set_parent([lifted EXCEPT !.child["LEFT"][n] = left], left, n),
                                key, n, parent[key])
     IN  /\ Become([set_parent_color(placed, child2, p, RB_BLACK) EXCEPT
                      !.parent[n] = placed.parent[key], !.color[n] = color[key]])
         /\ Rebalance(IF child2 = NULL /\ color[n] = RB_BLACK THEN p ELSE NULL)
  /\ UNCHANGED <<alive, callVars, d>>

(* Cases 2 and 3: it takes the node's place and color, and its own child   *)
(* goes where it was: under p, which is itself if it was the node's child. *)
erase_replace ==
  /\ pc = "successor" /\ child["LEFT"][n] = NULL
  /\ LET child2 == child["RIGHT"][n]
         right == child["RIGHT"][key]
         left == child["LEFT"][key]
         lifted == IF p = n THEN tree
                   ELSE set_parent([tree EXCEPT !.child["LEFT"][p] = child2,
                                                !.child["RIGHT"][n] = right], right, n)
         placed == change_child(set_parent([lifted EXCEPT !.child["LEFT"][n] = left], left, n),
                                key, n, parent[key])
     IN  /\ Become([set_parent_color(placed, child2, p, RB_BLACK) EXCEPT
                      !.parent[n] = placed.parent[key], !.color[n] = color[key]])
         /\ Rebalance(IF child2 = NULL /\ color[n] = RB_BLACK THEN p ELSE NULL)
  /\ UNCHANGED <<alive, callVars, d>>

-----------------------------------------------------------------------------
(* ____rb_erase_color: the rounds of its loop.                             *)
NodeSide == IF n # child["RIGHT"][p] THEN "LEFT" ELSE "RIGHT"
sibling == child[Other(NodeSide)][p]
Outer == child[Other(NodeSide)][sibling]
Inner == child[NodeSide][sibling]

(* Case 1: a red sibling takes the place of the parent; the round goes on  *)
(* with the sibling that the node has then.                                *)
erase_red_sibling ==
  /\ pc = "erase" /\ color[sibling] = RB_RED
  /\ Become(rotate_set_parents(
              set_parent_color(turn(tree, p, sibling, Other(NodeSide)), Inner, p, RB_BLACK),
              p, sibling, RB_RED))
  /\ UNCHANGED <<alive, pc, callVars, ret, loopVars>>

BlackSibling == pc = "erase" /\ color[sibling] = RB_BLACK

(* Case 2: the sibling becomes red, which a red parent makes up for.       *)
erase_flip ==
  /\ BlackSibling /\ ~ Is(RB_RED, Outer) /\ ~ Is(RB_RED, Inner)
  /\ color' = [color EXCEPT ![sibling] = RB_RED, ![p] = RB_BLACK]
  /\ IF color[p] = RB_BLACK /\ parent[p] # NULL
     THEN n' = p /\ p' = parent[p] /\ UNCHANGED pc
     ELSE n' = NULL /\ p' = NULL /\ pc' = "erased"
  /\ UNCHANGED <<root, child, parent, alive, callVars, ret, d>>

(* Cases 3 and 4: a red child of the sibling becomes black; if it is the   *)
(* inner one it takes the sibling's place first.                           *)
erase_rotate ==
  /\ BlackSibling /\ \E m \in {Outer, Inner} : Is(RB_RED, m)
  /\ LET s == NodeSide
         o == Other(s)
         inner == ~ Is(RB_RED, Outer)
         up == IF inner THEN Inner ELSE sibling
         outer == IF inner THEN sibling ELSE Outer
         turned == [turn(tree, sibling, Inner, s) EXCEPT !.child[o][p] = Inner]
         straight == IF inner
                     THEN set_parent_color(turned, child[o][Inner], sibling, RB_BLACK)
                     ELSE tree
     IN  Become(rotate_set_parents(
                  set_parent(
                    set_parent_color(turn(straight, p, up, o), outer, up, RB_BLACK),
                    straight.child[s][up], p),
                  p, up, RB_BLACK))
  /\ pc' = "erased" /\ n' = NULL /\ p' = NULL
  /\ UNCHANGED <<alive, callVars, ret, d>>

(* The erased node is freed, with its fields.                              *)
erased ==
  /\ pc = "erased"
  /\ alive' = alive \ {key}
  /\ child' = [s \in Side |-> [child[s] EXCEPT ![key] = NULL]]
  /\ parent' = [parent EXCEPT ![key] = NULL]
  /\ color' = [color EXCEPT ![key] = RB_RED]
  /\ Return(ret)
  /\ UNCHANGED <<root, callVars>>

return ==
  /\ pc = "return"
  /\ pc' = "ready" /\ op' = NONE /\ key' = NONE /\ ret' = NONE
  /\ UNCHANGED <<treeVars, alive, loopVars>>

-----------------------------------------------------------------------------
(* The nodes of the subtree at m.                                          *)
Subtree(m) ==
  LET below[T \in SUBSET Key] ==
        LET more == T \cup ({child[s][x] : s \in Side, x \in T} \ {NULL})
        IN  IF more = T THEN T ELSE below[more]
  IN  below[{m} \ {NULL}]

treeint_rb_destroy ==
  /\ pc = "ready"
  /\ pc' = "destroyed"
  /\ alive' = alive \ Subtree(root)
  /\ root' = NULL
  /\ UNCHANGED <<child, parent, color, callVars, ret, loopVars>>

Step ==
  \/ find \/ found \/ not_found \/ rb_link_node
  \/ insert_root \/ insert_black_parent \/ insert_flip \/ insert_rotate
  \/ erase_easy \/ erase_down \/ erase_successor \/ erase_replace
  \/ erase_red_sibling \/ erase_flip \/ erase_rotate \/ erased \/ return

Terminating == pc = "destroyed" /\ UNCHANGED vars

Next ==
  \/ \E o \in {"insert", "remove", "find"}, k \in Key : Call(o, k)
  \/ Step \/ treeint_rb_destroy \/ Terminating

(* A call that has begun goes on.                                          *)
Spec == Init /\ [][Next]_vars /\ WF_vars(Step)

-----------------------------------------------------------------------------
(* The nodes in the tree: those alive, but for one already unlinked.       *)
Members == IF pc \in {"erase", "erased"} THEN alive \ {key} ELSE alive

(* The type invariant.                                                     *)
TypeOK ==
  /\ root \in Members \cup {NULL}
  /\ child \in [Side -> [Key -> Key \cup {NULL}]] /\ parent \in [Key -> Key \cup {NULL}]
  /\ color \in [Key -> {RB_RED, RB_BLACK}] /\ alive \subseteq Key
  /\ pc \in {"ready", "find", "insert", "successor", "erase", "erased", "return", "destroyed"}
  /\ op \in {"insert", "remove", "find", NONE} /\ key \in Key \cup {NONE}
  /\ ret \in BOOLEAN \cup {NONE}
  /\ n \in Members \cup {NULL} /\ p \in Members \cup {NULL} /\ d \in Side \cup {NONE}

(* The tree has every node once and in order, and its pointers agree, also *)
(* between the rounds of a loop.                                           *)
TreeOK ==
  pc # "destroyed" =>
    /\ Subtree(root) = Members
    /\ \A m \in Members :
         /\ \A s \in Side : child[s][m] # NULL => parent[child[s][m]] = m
         /\ parent[m] = NULL <=> m = root
         /\ \A x \in Subtree(child["LEFT"][m]) : x < m
         /\ \A x \in Subtree(child["RIGHT"][m]) : x > m

(* The ends of the paths from the root, and their black nodes.             *)
Leaf == {l \in Members \X Side : child[l[2]][l[1]] = NULL}
Blacks(l) == Cardinality({m \in Members : l[1] \in Subtree(m) /\ color[m] = RB_BLACK})

(* A leaf path through p and the loop's node, which may be the leaf.       *)
Through(l) == IF n # NULL THEN l[1] \in Subtree(n) ELSE l = <<p, NodeSide>>

(* What the comments of both loops say is so at the head of every round:   *)
(* an insertion's node is red, and nothing is wrong but that its parent    *)
(* may be red too; an erasure's node is black and below the root, and      *)
(* nothing is wrong but that the paths through it have one black node too  *)
(* few.  Otherwise all is well: a black root, no red node with a red       *)
(* child, and as many black nodes on every path.                           *)
RedBlack ==
  pc # "destroyed" =>
    /\ pc = "insert" => color[n] = RB_RED
    /\ pc = "erase" => /\ p # NULL
                       /\ ~ Is(RB_RED, n)
                       /\ n # root
    /\ Is(RB_RED, root) => pc = "insert" /\ n = root
    /\ \A m \in Members :
         Is(RB_RED, m) /\ Is(RB_RED, parent[m]) => pc = "insert" /\ m = n
    /\ Cardinality({Blacks(l) + IF pc = "erase" /\ Through(l) THEN 1 ELSE 0 : l \in Leaf}) <= 1
=============================================================================
