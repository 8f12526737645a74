---------------------------- MODULE MCClockGraph ----------------------------
(* The clock and two nodes: the binary counter counts to four.             *)
EXTENDS ClockGraph

MCThread == Node \cup {Main}
MCMutex == {"mutex"} \X Object
MCCond == {"cond"} \X Object
MCAddr == MCMutex \cup MCCond
MCMutexOf == [x \in Object |-> <<"mutex", x>>]
MCCondOf == [x \in Object |-> <<"cond", x>>]
MCPrio == [t \in MCThread |-> 0]
=============================================================================
