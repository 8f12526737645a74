------------------------------- MODULE MCMpmc --------------------------------
(* Two producers and two consumers; the first of each does one more.       *)
EXTENDS Mpmc, TLC

CONSTANT COUNTS_PER_THREAD

CONSTANTS p1, p2, c1, c2

MCThread == {p1, p2, c1, c2}
MCAddr == {c1, c2}
MCEnqueueHandles == <<p1, p2>>
MCDequeueHandles == <<c1, c2>>
MCCounts == (p1 :> COUNTS_PER_THREAD) @@ (c1 :> COUNTS_PER_THREAD)
              @@ [t \in {p2, c2} |-> COUNTS_PER_THREAD - 1]
=============================================================================
