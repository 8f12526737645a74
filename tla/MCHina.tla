-------------------------------- MODULE MCHina --------------------------------
(* The pool with NR_THREADS workers, numbered like their deques.           *)
EXTENDS Hina

MCThread == Deque \cup {Main}
MCTid == [t \in MCThread |-> IF t = Main THEN 0 ELSE t]
MCWork == 1 .. WORKS

(* The properties excuse all states after a hidden resize: these are not   *)
(* explored.                                                               *)
NothingHidden == ~hidden
===============================================================================
