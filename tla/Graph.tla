-------------------------------- MODULE Graph --------------------------------
(***************************************************************************)
(* What the program hw2/example/main.c computes, with every operation on   *)
(* its clock and on its nodes as one atomic step that waits until it can   *)
(* be done: no mutex, no condition variable, no lost or spurious wake-up.  *)
(*                                                                         *)
(* Node n and its thread are both called n.  A thread repeats: wait for    *)
(* tick number want, wait for the parent's signal, then tick the clock and *)
(* signal its own node in turns: a binary counter, each node a bit of it.  *)
(***************************************************************************)
EXTENDS Integers

CONSTANTS N,      \* the number of nodes, N_NODES
          Main    \* the main thread

Node == 0 .. N - 1
Worker == Node \cup {Main}

VARIABLES
  ticks,  \* clock.ticks, -1 after clock_stop
  ready,  \* ready[n]: node n has a signal nobody waited for yet
  loc,    \* loc[t]: the operation t is in
  want,   \* want[n]: the i of thread_func
  bit     \* bit[n]: the bit of thread_func

graphVars == <<ticks, ready, loc, want, bit>>

Loc == {"clock_wait", "node_wait", "act", "next", "exit", "done",
        "tick", "wait", "stop", "join"}

Init ==
  /\ ticks = 0
  /\ ready = [n \in Node |-> FALSE]
  /\ loc = [t \in Worker |-> IF t = Main THEN "tick" ELSE "clock_wait"]
  /\ want = [n \in Node |-> 1]
  /\ bit = [n \in Node |-> FALSE]

Move(t, from, to) == loc[t] = from /\ loc' = [loc EXCEPT ![t] = to]

(* clock_tick: a stopped clock stays stopped.                              *)
AdvanceClock == ticks' = IF ticks >= 0 THEN ticks + 1 ELSE ticks

SetReady(n) == ready' = [ready EXCEPT ![n] = TRUE]

ClockWait(n) ==
  /\ \/ ticks >= want[n] /\ Move(n, "clock_wait", IF n = 0 THEN "act" ELSE "node_wait")
     \/ ticks < 0 /\ Move(n, "clock_wait", "exit")
  /\ UNCHANGED <<ticks, ready, want, bit>>

NodeWait(n) ==
  /\ Move(n, "node_wait", "act")
  /\ ready[n - 1]
  /\ ready' = [ready EXCEPT ![n - 1] = FALSE]
  /\ UNCHANGED <<ticks, want, bit>>

(* The last signal was waited for: ready is one Boolean, not a count.      *)
Signal(n) ==
  /\ Move(n, "act", "next") /\ bit[n]
  /\ ~ready[n]
  /\ SetReady(n)
  /\ UNCHANGED <<ticks, want, bit>>

Tick(n) ==
  /\ Move(n, "act", "next") /\ ~bit[n]
  /\ AdvanceClock
  /\ UNCHANGED <<ready, want, bit>>

NextRound(n) ==
  /\ Move(n, "next", "clock_wait")
  /\ want' = [want EXCEPT ![n] = @ + 1]
  /\ bit' = [bit EXCEPT ![n] = ~@]
  /\ UNCHANGED <<ticks, ready>>

Exit(n) ==
  /\ Move(n, "exit", "done")
  /\ SetReady(n)
  /\ UNCHANGED <<ticks, want, bit>>

MainStep ==
  /\ \/ Move(Main, "tick", "wait") /\ AdvanceClock
     \/ Move(Main, "wait", "stop") /\ ticks >= 2^N /\ UNCHANGED ticks
     \/ Move(Main, "stop", "join") /\ ticks' = -1
     \/ /\ Move(Main, "join", "done")
        /\ \A n \in Node : loc[n] = "done"
        /\ UNCHANGED ticks
  /\ UNCHANGED <<ready, want, bit>>

NodeStep(n) ==
  ClockWait(n) \/ NodeWait(n) \/ Signal(n) \/ Tick(n) \/ NextRound(n) \/ Exit(n)

Next == MainStep \/ \E n \in Node : NodeStep(n)

(* The same as [Next]_graphVars; the stutter, the step a program that       *)
(* implements this makes most often, is first for TLC to try.              *)
Safety == Init /\ [][UNCHANGED graphVars \/ Next]_graphVars

Spec == /\ Safety
        /\ WF_graphVars(MainStep)
        /\ \A n \in Node : WF_graphVars(NodeStep(n))
=============================================================================
