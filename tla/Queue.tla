-------------------------------- MODULE Queue --------------------------------
(***************************************************************************)
(* What hw3/mpmc.c promises: a queue in which a value has its place from   *)
(* the moment its enqueue begins, and in which the dequeues are served in  *)
(* the order in which they begin, each with the value of its own place,    *)
(* however long that takes to come.                                        *)
(***************************************************************************)
EXTENDS Naturals, Sequences

CONSTANTS Dequeuer, Value, NULL

VARIABLES
  order,  \* the values, in the order of their enqueues
  line,   \* how many dequeues have begun
  place,  \* place[c]: the place of c's dequeue, from 0, or NULL
  array   \* the values that dequeues have returned

queueVars == <<order, line, place, array>>

Init == order = <<>> /\ line = 0 /\ place = [c \in Dequeuer |-> NULL] /\ array = {}

(* A value is enqueued once.                                               *)
Enqueue(v) ==
  /\ \A n \in DOMAIN order : order[n] # v
  /\ order' = Append(order, v)
  /\ UNCHANGED <<line, place, array>>

Join(c) ==
  /\ place[c] = NULL
  /\ place' = [place EXCEPT ![c] = line]
  /\ line' = line + 1
  /\ UNCHANGED <<order, array>>

Return(c) ==
  /\ place[c] # NULL /\ place[c] < Len(order)
  /\ array' = array \cup {order[place[c] + 1]}
  /\ place' = [place EXCEPT ![c] = NULL]
  /\ UNCHANGED <<order, line>>

Next == \/ \E v \in Value : Enqueue(v)
        \/ \E c \in Dequeuer : Join(c) \/ Return(c)

Spec == Init /\ [][Next]_queueVars
=============================================================================
