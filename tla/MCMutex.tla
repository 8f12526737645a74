------------------------------- MODULE MCMutex -------------------------------
(* Three threads of three priorities on one mutex, of either protocol.     *)
EXTENDS MutexClient, TLC

CONSTANTS t1, t2, t3, m1

MCThread == {t1, t2, t3}
MCMutex == {m1}
MCPrio == (t1 :> 1) @@ (t2 :> 2) @@ (t3 :> 3)
=============================================================================
