-------------------------------- MODULE KeySet -------------------------------
(***************************************************************************)
(* What the interface of hw1/treeint/s_tree.h promises: a set of keys, and *)
(* calls, one at a time, that insert, remove or find a key, each of which  *)
(* returns and says whether it could.                                      *)
(***************************************************************************)
CONSTANTS Key, NONE

VARIABLES
  set,
  op, key,  \* the call that is under way, or NONE
  ret       \* what it will return: TRUE for 0 or a node, or NONE

keySetVars == <<set, op, key, ret>>

Init == set = {} /\ op = NONE /\ key = NONE /\ ret = NONE

Call(o, k) ==
  /\ op = NONE
  /\ op' = o /\ key' = k
  /\ UNCHANGED <<set, ret>>

Answer ==
  /\ op # NONE /\ ret = NONE
  /\ ret' = (IF op = "insert" THEN key \notin set ELSE key \in set)
  /\ set' = CASE op = "insert" -> set \cup {key}
              [] op = "remove" -> set \ {key}
              [] op = "find"   -> set
  /\ UNCHANGED <<op, key>>

Return ==
  /\ ret # NONE
  /\ op' = NONE /\ key' = NONE /\ ret' = NONE
  /\ UNCHANGED set

(* Everything is given back.                                               *)
Destroy ==
  /\ op = NONE
  /\ set' = {}
  /\ UNCHANGED <<op, key, ret>>

Next ==
  \/ \E o \in {"insert", "remove", "find"}, k \in Key : Call(o, k)
  \/ Answer \/ Return \/ Destroy

Spec == Init /\ [][Next]_keySetVars /\ WF_keySetVars(Answer \/ Return)
=============================================================================
