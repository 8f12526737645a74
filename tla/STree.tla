-------------------------------- MODULE STree --------------------------------
(***************************************************************************)
(* The S-Tree of hw1/treeint/s_tree.c with the integers of treeint_st.c as *)
(* its keys.  A node is its key, as there is never more than one node of a *)
(* key.  The functions that come as a left and a right one are modelled    *)
(* once, with the side as a parameter.  One action is one round of a loop  *)
(* or of a recursion, so that what is found on the way down is kept while  *)
(* nothing says that it is still true.                                     *)
(***************************************************************************)
EXTENDS Integers, FiniteSets

CONSTANTS Key, NULL, NONE

Side == {"LEFT", "RIGHT"}
Other(s) == IF s = "LEFT" THEN "RIGHT" ELSE "LEFT"

VARIABLES
  root,
  child,    \* child["LEFT"][n], child["RIGHT"][n]: st_left(n), st_right(n)
  parent,
  hint,
  alive,    \* the nodes that were created and not destroyed
  pc,       \* the loop that the call under way is in
  op, key,  \* the call under way, or NONE
  ret,      \* whether it succeeds, once that is known
  n,        \* the node the loop has come to
  p, d,     \* of __st_find: the last node on the way, and the side taken
  del       \* of __st_remove: the node to be removed

treeVars == <<root, child, parent, hint>>
callVars == <<op, key>>
pathVars == <<p, d>>
vars == <<treeVars, alive, pc, callVars, ret, n, pathVars, del>>

(* An assignment through the pointer x, if it is not NULL.                 *)
Put(f, x, value) == IF x = NULL THEN f ELSE [f EXCEPT ![x] = value]

Init ==
  /\ root = NULL
  /\ child = [s \in Side |-> [m \in Key |-> NULL]]
  /\ parent = [m \in Key |-> NULL] /\ hint = [m \in Key |-> 0]
  /\ alive = {}
  /\ pc = "ready" /\ op = NONE /\ key = NONE /\ ret = NONE
  /\ n = NULL /\ p = NULL /\ d = NONE /\ del = NULL

-----------------------------------------------------------------------------
(* st_insert, st_remove and st_find begin at the root ...                  *)
Call(o, k) ==
  /\ pc = "ready"
  /\ pc' = "find" /\ op' = o /\ key' = k
  /\ n' = root
  /\ UNCHANGED <<treeVars, alive, ret, pathVars, del>>

Return(result) ==
  /\ pc' = "return" /\ ret' = result
  /\ n' = NULL /\ p' = NULL /\ d' = NONE /\ del' = NULL

(* ... and go down.                                                        *)
find ==
  /\ pc = "find" /\ n # NULL /\ n # key
  /\ p' = n
  /\ d' = IF n > key THEN "LEFT" ELSE "RIGHT"
  /\ n' = child[d'][n]
  /\ UNCHANGED <<treeVars, alive, pc, callVars, ret, del>>

found ==
  /\ pc = "find" /\ n = key /\ op # "remove"
  /\ Return(op = "find")
  /\ UNCHANGED <<treeVars, alive, callVars>>

not_found ==
  /\ pc = "find" /\ n = NULL /\ op # "insert"
  /\ Return(FALSE)
  /\ UNCHANGED <<treeVars, alive, callVars>>

(* The tree with the new node, and what comes after.                       *)
st_insert ==
  /\ pc = "find" /\ n = NULL /\ op = "insert"
  /\ alive' = alive \cup {key}
  /\ hint' = [hint EXCEPT ![key] = 0]
  /\ parent' = [parent EXCEPT ![key] = p]
  /\ LET created == [s \in Side |-> [child[s] EXCEPT ![key] = NULL]]
     IN  IF root = NULL
         THEN root' = key /\ child' = created /\ Return(TRUE)
         ELSE /\ child' = [created EXCEPT ![d] = Put(@, p, key)]
              /\ pc' = "update" /\ n' = key /\ ret' = TRUE
              /\ p' = NULL /\ d' = NONE
              /\ UNCHANGED <<root, del>>
  /\ UNCHANGED callVars

-----------------------------------------------------------------------------
(* __st_remove: the node that takes del's place is the first one of the    *)
(* right subtree, or else the last of the left one.                        *)
From == IF child["RIGHT"][del] # NULL THEN "RIGHT" ELSE "LEFT"

st_remove ==
  /\ pc = "find" /\ n = key /\ op = "remove"
  /\ pc' = "first" /\ del' = key
  /\ n' = IF child["RIGHT"][key] # NULL THEN child["RIGHT"][key] ELSE child["LEFT"][key]
  /\ p' = NULL /\ d' = NONE
  /\ UNCHANGED <<treeVars, alive, callVars, ret>>

(* st_first and st_last.                                                   *)
first ==
  /\ pc = "first" /\ n # NULL /\ child[Other(From)][n] # NULL
  /\ n' = child[Other(From)][n]
  /\ UNCHANGED <<treeVars, alive, pc, callVars, ret, pathVars, del>>

(* The link to m in its parent q, if it has one, leads to r instead.       *)
Redirect(tree, q, m, r) ==
  LET s == IF tree["LEFT"][q] = m THEN "LEFT" ELSE "RIGHT"
  IN  IF q = NULL THEN tree ELSE [tree EXCEPT ![s][q] = r]

(* Mutant: the root stays.                                                 *)
replace_root_kept ==
  /\ pc = "first" /\ n # NULL /\ child[Other(From)][n] = NULL
  /\ LET s == From
         o == Other(s)
         q == parent[n]
         lifted == child[o][q] = n  \* n was not del's own child
         moved == IF lifted THEN [child EXCEPT ![o][q] = child[s][n]] ELSE child
         adopted == IF child[s][del] # n THEN [moved EXCEPT ![s][n] = child[s][del]] ELSE moved
         up == IF lifted THEN Put(parent, child[s][n], q) ELSE parent
         top == IF child[s][del] # n THEN Put(up, child[s][del], n) ELSE up
     IN  /\ child' = Redirect([adopted EXCEPT ![o][n] = child[o][del]], parent[del], del, n)
         /\ parent' = Put([top EXCEPT ![n] = parent[del]], child[o][del], n)
         /\ n' = child'[s][n]
  /\ UNCHANGED root
  /\ pc' = "update" /\ ret' = TRUE
  /\ UNCHANGED <<hint, alive, callVars, pathVars, del>>

(* st_replace_right and st_replace_left; st_update is next, on the child   *)
(* of the node that has taken the place.  The store to st_parent(rp) is    *)
(* left out, as st_rparent(n) or st_lparent(n) is the same field and later.*)
replace ==
  /\ pc = "first" /\ n # NULL /\ child[Other(From)][n] = NULL
  /\ LET s == From
         o == Other(s)
         q == parent[n]
         lifted == child[o][q] = n  \* n was not del's own child
         moved == IF lifted THEN [child EXCEPT ![o][q] = child[s][n]] ELSE child
         adopted == IF child[s][del] # n THEN [moved EXCEPT ![s][n] = child[s][del]] ELSE moved
         up == IF lifted THEN Put(parent, child[s][n], q) ELSE parent
         top == IF child[s][del] # n THEN Put(up, child[s][del], n) ELSE up
     IN  /\ child' = Redirect([adopted EXCEPT ![o][n] = child[o][del]], parent[del], del, n)
         /\ parent' = Put([top EXCEPT ![n] = parent[del]], child[o][del], n)
         /\ n' = child'[s][n]
  /\ root' = IF del = root THEN n ELSE root
  /\ pc' = "update" /\ ret' = TRUE
  /\ UNCHANGED <<hint, alive, callVars, pathVars, del>>

(* A node without children is cut off.                                     *)
cut_off ==
  /\ pc = "first" /\ n = NULL
  /\ root' = IF del = root THEN NULL ELSE root
  /\ child' = Redirect(child, parent[del], del, NULL)
  /\ n' = parent[del]
  /\ pc' = "update" /\ ret' = TRUE
  /\ UNCHANGED <<parent, hint, alive, callVars, pathVars, del>>

-----------------------------------------------------------------------------
Depth(tree, s, m) == IF tree[s][m] = NULL THEN 0 ELSE hint[tree[s][m]] + 1
st_balance(m) == Depth(child, "LEFT", m) - Depth(child, "RIGHT", m)

st_max_hint(tree, m) ==
  LET l == Depth(tree, "LEFT", m)
      r == Depth(tree, "RIGHT", m)
  IN  IF l > r THEN l ELSE r

(* st_rotate_left and st_rotate_right: the child of n on side s goes up.   *)
rotate(s) ==
  LET o == Other(s)
      l == child[s][n]
  IN  /\ child' = Redirect([child EXCEPT ![s][n] = child[o][l], ![o][l] = n], parent[n], n, l)
      /\ parent' = Put([parent EXCEPT ![l] = parent[n], ![n] = l], child[o][l], n)
      /\ root' = IF n = root THEN l ELSE root

(* st_update of one node; it goes on with the parent from before.          *)
st_update ==
  /\ pc = "update" /\ n # NULL
  /\ \/ st_balance(n) < -1 /\ rotate("RIGHT")
     \/ st_balance(n) > 1 /\ rotate("LEFT")
     \/ st_balance(n) \in -1 .. 1 /\ UNCHANGED <<root, child, parent>>
  /\ hint' = [hint EXCEPT ![n] = st_max_hint(child', n)]
  /\ n' = IF hint'[n] = 0 \/ hint'[n] # hint[n] THEN parent[n] ELSE NULL
  /\ UNCHANGED <<alive, pc, callVars, ret, pathVars, del>>

(* The update is over, and a removed node is destroyed with its fields.    *)
updated ==
  /\ pc = "update" /\ n = NULL
  /\ alive' = alive \ {del}
  /\ child' = [s \in Side |-> Put(child[s], del, NULL)]
  /\ parent' = Put(parent, del, NULL)
  /\ hint' = Put(hint, del, 0)
  /\ Return(ret)
  /\ UNCHANGED <<root, callVars>>

return ==
  /\ pc = "return"
  /\ pc' = "ready" /\ op' = NONE /\ key' = NONE /\ ret' = NONE
  /\ UNCHANGED <<treeVars, alive, n, pathVars, del>>

-----------------------------------------------------------------------------
(* The nodes of the subtree at m.                                          *)
Subtree(m) ==
  LET below[T \in SUBSET Key] ==
        LET more == T \cup ({child[s][x] : s \in Side, x \in T} \ {NULL})
        IN  IF more = T THEN T ELSE below[more]
  IN  below[{m} \ {NULL}]

st_destroy ==
  /\ pc = "ready"
  /\ pc' = "destroyed"
  /\ alive' = alive \ Subtree(root)
  /\ root' = NULL
  /\ UNCHANGED <<child, parent, hint, callVars, ret, n, pathVars, del>>

Step ==
  \/ find \/ found \/ not_found \/ st_insert \/ st_remove \/ first \/ replace \/ cut_off
  \/ st_update \/ updated \/ return

Terminating == pc = "destroyed" /\ UNCHANGED vars

Next ==
  \/ \E o \in {"insert", "remove", "find"}, k \in Key : Call(o, k)
  \/ Step \/ st_destroy \/ Terminating

(* A call that has begun goes on.                                          *)
Spec == Init /\ [][Next]_vars /\ WF_vars(Step)

-----------------------------------------------------------------------------
(* The nodes in the tree: those alive, but for one already cut off.        *)
Members == IF pc = "update" THEN alive \ {del} ELSE alive

(* The type invariant.                                                     *)
TypeOK ==
  /\ root \in Members \cup {NULL}
  /\ child \in [Side -> [Key -> Key \cup {NULL}]] /\ parent \in [Key -> Key \cup {NULL}]
  /\ hint \in [Key -> Nat]
  /\ alive \subseteq Key
  /\ pc \in {"ready", "find", "first", "update", "return", "destroyed"}
  /\ op \in {"insert", "remove", "find", NONE} /\ key \in Key \cup {NONE}
  /\ ret \in BOOLEAN \cup {NONE}
  /\ n \in Members \cup {NULL} /\ p \in Members \cup {NULL}
  /\ d \in Side \cup {NONE} /\ del \in alive \cup {NULL}

(* The tree has every node once and in order, and its pointers agree.      *)
TreeOK ==
  pc # "destroyed" =>
    /\ Subtree(root) = Members
    /\ \A m \in Members :
         /\ \A s \in Side : child[s][m] # NULL => parent[child[s][m]] = m
         /\ parent[m] = NULL <=> m = root
         /\ \A x \in Subtree(child["LEFT"][m]) : x < m
         /\ \A x \in Subtree(child["RIGHT"][m]) : x > m

(* "S-Tree: A self-balancing binary search tree" (s_tree.c): between calls *)
(* no path is long.  The sources name no bound; taken here is the one of   *)
(* red-black trees, where a path of h nodes takes n >= 2^(h/2) - 1 nodes.  *)
(* The behaviour that breaks it ends in a list, so any bound would fail.   *)
Level(k) == {m \in Members : Cardinality({x \in Members : m \in Subtree(x)}) = k}

Balanced ==
  pc = "ready" =>
    \A h \in 1 .. Cardinality(Key) : Level(h) # {} => 2 ^ h <= (Cardinality(Members) + 1) ^ 2
=============================================================================
