----------------------------- MODULE ClockGraph -----------------------------
(***************************************************************************)
(* The program hw2/example/main.c on top of the mutex and the condition    *)
(* variable: a clock and N nodes, each with a mutex and a condition        *)
(* variable of its own, one thread per node, and the main thread.          *)
(*                                                                         *)
(* A label of this module is a place of the program between two calls;     *)
(* what is done under a mutex is one action with the call that follows it, *)
(* since only the owner of that mutex reads or writes it.                  *)
(***************************************************************************)
EXTENDS Cond, Integers

CONSTANTS N,         \* the number of nodes, N_NODES
          Main,      \* the main thread
          Clock,     \* the clock; node n is the number n, and its thread too
          MutexOf, CondOf,  \* the mutex and the condition variable of each
          SURPRISES  \* bound: spurious returns of futex_wait in a behaviour

Node == 0 .. N - 1
Object == Node \cup {Clock}

ASSUME GraphAssumption ==
  /\ N \in Nat \ {0} /\ Main \notin Node /\ Clock \notin Node
  /\ Thread = Node \cup {Main}
  /\ MutexOf \in [Object -> Mutex] /\ CondOf \in [Object -> Cond]
  /\ \A x, y \in Object : x # y => MutexOf[x] # MutexOf[y] /\ CondOf[x] # CondOf[y]
  /\ SURPRISES \in Nat

VARIABLES
  ticks,  \* clock.ticks
  ready,  \* ready[n]: node.ready
  want,   \* want[t]: the argument ticks of clock_wait, i in a node's thread
  bit,    \* bit[n]: the bit of thread_func
  go,     \* go[t]: the result of the last clock_wait
  surprises

graphVars == <<ticks, ready, want, bit, go>>
vars == <<mutexVars, condVars, graphVars, surprises>>

ProgramPC == {"clock_wait", "cw_check", "cw_ret", "nw_check", "act", "ns_set",
  "ns_signal", "ct_tick", "ct_bcast", "next", "m_tick", "m_stop", "cs_stop",
  "cs_bcast", "m_join", "done"}

Parent(n) == n - 1   \* main links node n to node n - 1; node 0 has no parent

Init ==
  /\ FutexInit /\ MutexInit({PRIO_NONE}) /\ CondInit
  /\ pc = [t \in Thread |-> IF t = Main THEN "m_tick" ELSE "clock_wait"]
  /\ mtx = [t \in Thread |-> MutexOf[Clock]]
  /\ ret = [t \in Thread |-> "cw_check"]
  /\ fail = [t \in Thread |-> "spin"]
  /\ spin = [t \in Thread |-> 0]
  /\ cnd = [t \in Thread |-> NoCond]
  /\ seq = [t \in Thread |-> 0]
  /\ cret = [t \in Thread |-> "none"]
  /\ ticks = 0
  /\ ready = [n \in Node |-> FALSE]
  /\ want = [t \in Thread |-> IF t = Main THEN 2^N ELSE 1]
  /\ bit = [n \in Node |-> FALSE]
  /\ go = [t \in Thread |-> TRUE]
  /\ surprises = 0

lockFrame == <<waitq, state, proto, holder, spin>>

LockOf(t, x, r) == mutex_lock(t, MutexOf[x], r) /\ UNCHANGED lockFrame
UnlockOf(t, x, r) == mutex_unlock(t, MutexOf[x], r) /\ UNCHANGED lockFrame
WaitOn(t, x, r) == cond_wait(t, CondOf[x], MutexOf[x], r)

-----------------------------------------------------------------------------
(* clock_wait: the call, the loop, the return.                             *)

clock_wait(t) ==
  /\ At(t, "clock_wait")
  /\ LockOf(t, Clock, "cw_check")
  /\ UNCHANGED <<condVars, graphVars>>

(* Mutant: clock_wait returns one tick early.                              *)
cw_check_early(t) ==
  /\ At(t, "cw_check")
  /\ \/ /\ 0 <= ticks /\ ticks + 1 < want[t]
        /\ WaitOn(t, Clock, "cw_check")
        /\ UNCHANGED go
     \/ /\ ticks < 0 \/ ticks + 1 >= want[t]
        /\ go' = [go EXCEPT ![t] = ticks >= 0]
        /\ UnlockOf(t, Clock, IF t = Main THEN "m_stop" ELSE "cw_ret")
        /\ UNCHANGED condVars
  /\ UNCHANGED <<ticks, ready, want, bit>>

cw_check(t) ==
  /\ At(t, "cw_check")
  /\ \/ /\ 0 <= ticks /\ ticks < want[t]
        /\ WaitOn(t, Clock, "cw_check")
        /\ UNCHANGED go
     \/ /\ ticks < 0 \/ ticks >= want[t]
        /\ go' = [go EXCEPT ![t] = ticks >= want[t]]
        /\ UnlockOf(t, Clock, IF t = Main THEN "m_stop" ELSE "cw_ret")
        /\ UNCHANGED condVars
  /\ UNCHANGED <<ticks, ready, want, bit>>

(* thread_func goes on in the loop, or leaves it and signals a last time.  *)
cw_ret(n) ==
  /\ At(n, "cw_ret")
  /\ \/ go[n] /\ n # 0 /\ LockOf(n, Parent(n), "nw_check")
     \/ go[n] /\ n = 0 /\ Goto(n, "act") /\ UNCHANGED <<lockFrame, mtx, ret, fail>>
     \/ ~go[n] /\ LockOf(n, n, "ns_set")
  /\ UNCHANGED <<condVars, graphVars>>

-----------------------------------------------------------------------------
(* node_wait, node_signal and clock_tick.                                  *)
nw_check(n) ==
  /\ At(n, "nw_check")
  /\ \/ ~ready[Parent(n)] /\ WaitOn(n, Parent(n), "nw_check") /\ UNCHANGED ready
     \/ /\ ready[Parent(n)]
        /\ ready' = [ready EXCEPT ![Parent(n)] = FALSE]
        /\ UnlockOf(n, Parent(n), "act")
        /\ UNCHANGED condVars
  /\ UNCHANGED <<ticks, want, bit, go>>

act(n) ==
  /\ At(n, "act")
  /\ IF bit[n] THEN LockOf(n, n, "ns_set") ELSE LockOf(n, Clock, "ct_tick")
  /\ UNCHANGED <<condVars, graphVars>>

ns_set(n) ==
  /\ At(n, "ns_set")
  /\ ready' = [ready EXCEPT ![n] = TRUE]
  /\ UnlockOf(n, n, "ns_signal")
  /\ UNCHANGED <<condVars, ticks, want, bit, go>>

ns_signal(n) ==
  /\ At(n, "ns_signal")
  /\ cond_signal(n, CondOf[n], IF go[n] THEN "next" ELSE "done")
  /\ UNCHANGED graphVars

(* Mutant: a clock at zero is taken for a stopped one.                     *)
ct_tick_past_zero(t) ==
  /\ At(t, "ct_tick")
  /\ ticks' = IF ticks > 0 THEN ticks + 1 ELSE ticks
  /\ UnlockOf(t, Clock, "ct_bcast")
  /\ UNCHANGED <<condVars, ready, want, bit, go>>

ct_tick(t) ==
  /\ At(t, "ct_tick")
  /\ ticks' = IF ticks >= 0 THEN ticks + 1 ELSE ticks
  /\ UnlockOf(t, Clock, "ct_bcast")
  /\ UNCHANGED <<condVars, ready, want, bit, go>>

ct_bcast(t) ==
  /\ At(t, "ct_bcast")
  /\ cond_broadcast(t, CondOf[Clock], MutexOf[Clock],
                    IF t = Main THEN "clock_wait" ELSE "next")
  /\ UNCHANGED graphVars

next(n) ==
  /\ At(n, "next")
  /\ want' = [want EXCEPT ![n] = @ + 1]
  /\ bit' = [bit EXCEPT ![n] = ~@]
  /\ LockOf(n, Clock, "cw_check")
  /\ UNCHANGED <<condVars, ticks, ready, go>>

NodeThread(n) ==
  \/ cw_ret(n) \/ nw_check(n) \/ act(n) \/ ns_set(n) \/ ns_signal(n) \/ next(n)

-----------------------------------------------------------------------------
(* The main thread: clock_tick, clock_wait, clock_stop, pthread_join.      *)

m_tick(t) ==
  /\ At(t, "m_tick")
  /\ LockOf(t, Clock, "ct_tick")
  /\ UNCHANGED <<condVars, graphVars>>

m_stop(t) ==
  /\ At(t, "m_stop")
  /\ LockOf(t, Clock, "cs_stop")
  /\ UNCHANGED <<condVars, graphVars>>

cs_stop(t) ==
  /\ At(t, "cs_stop")
  /\ ticks' = -1
  /\ UnlockOf(t, Clock, "cs_bcast")
  /\ UNCHANGED <<condVars, ready, want, bit, go>>

cs_bcast(t) ==
  /\ At(t, "cs_bcast")
  /\ cond_broadcast(t, CondOf[Clock], MutexOf[Clock], "m_join")
  /\ UNCHANGED graphVars

m_join(t) ==
  /\ At(t, "m_join")
  /\ \A n \in Node : At(n, "done")
  /\ Goto(t, "done")
  /\ UNCHANGED <<lockFrame, mtx, ret, fail, condVars, graphVars>>

MainThread(t) == m_tick(t) \/ m_stop(t) \/ cs_stop(t) \/ cs_bcast(t) \/ m_join(t)

-----------------------------------------------------------------------------
ThreadStep(t) ==
  /\ \/ clock_wait(t) \/ cw_check(t) \/ ct_tick(t) \/ ct_bcast(t)
     \/ t \in Node /\ NodeThread(t)
     \/ MainThread(t)
     \/ CondStep(t) /\ UNCHANGED graphVars
  /\ UNCHANGED surprises

Surprise(t) ==
  /\ surprises < SURPRISES
  /\ surprises' = surprises + 1
  /\ Spurious(t)
  /\ UNCHANGED <<condVars, graphVars>>

AllDone == \A t \in Thread : At(t, "done")

Terminating == AllDone /\ UNCHANGED vars

Next == (\E t \in Thread : ThreadStep(t) \/ Surprise(t)) \/ Terminating

(***************************************************************************)
(* Fairness: while some thread can run, some thread runs.  Which one is    *)
(* left to the scheduler: nothing in the program spins without a bound, so *)
(* no thread has to be given its turn for the others to end.  Spurious     *)
(* returns are finitely many (SURPRISES) and never owed.                   *)
(***************************************************************************)
Spec == Init /\ [][Next]_vars /\ WF_vars(\E t \in Thread : ThreadStep(t))

-----------------------------------------------------------------------------
(***************************************************************************)
(* No requeued waiter is lost: while a thread sleeps on a mutex, the word  *)
(* says so, or an awake thread is about to wake it or to write             *)
(* MUTEX_SLEEPING into the word.  After a broadcast that thread is the one *)
(* waiter it woke, which writes it at AAAA at the latest.                  *)
(***************************************************************************)
RequeuedNotLost ==
  \A m \in Mutex : waitq[m] # {} =>
    \/ MUTEX_SLEEPING \in state[m]
    \/ \E t \in Thread :
         /\ mtx[t] = m /\ ~Asleep(t)
         /\ \/ pc[t] \in {"unlock_wake", "lock_xchg", "cond_or"}
            \/ pc[t] \in {"trylock_load", "trylock_or", "lock_wait"} /\ ret[t] = "cond_or"

(* t has changed the predicate of object x and will yet signal it.         *)
SignalPC(x) == IF x = Clock THEN {"ct_bcast", "cs_bcast"} ELSE {"ns_signal"}

Signalling(t, x) ==
  /\ ~Asleep(t)
  /\ \/ pc[t] \in {"signal_wake", "bcast_requeue"} /\ cnd[t] = CondOf[x]
     \/ x \in {Clock, t} /\ pc[t] \in SignalPC(x)
     \/ /\ x \in {Clock, t}
        /\ pc[t] \in {"unlock_xchg", "unlock_wake"} /\ ret[t] \in SignalPC(x)

(***************************************************************************)
(* No missed signal: a thread that sleeps on a condition variable waits    *)
(* for something that is not so yet, or a signal for it is on its way.     *)
(* The predicate is changed under the mutex, the signal is sent after the  *)
(* unlock, and cond_wait reads seq before it gives the mutex up.           *)
(***************************************************************************)
NoMissedSignal ==
  /\ \A t \in waitq[CondOf[Clock]] :
       \/ 0 <= ticks /\ ticks < want[t]
       \/ \E s \in Thread : Signalling(s, Clock)
  /\ \A n \in Node : waitq[CondOf[n]] # {} =>
       \/ ~ready[n]
       \/ \E s \in Thread : Signalling(s, n)

(***************************************************************************)
(* The operations on the clock and the nodes are atomic, and those that    *)
(* wait do return: the program implements Graph.  A thread is, for Graph,  *)
(* in the operation whose effect it has not had yet.                       *)
(***************************************************************************)
Place(t) == CASE pc[t] \in CondPC -> cret[t]
              [] pc[t] \in ProgramPC -> pc[t]
              [] OTHER -> IF ret[t] \in CondPC THEN cret[t] ELSE ret[t]

MainLoc(place) ==
  CASE place \in {"m_tick", "ct_tick"} -> "tick"
    [] place \in {"ct_bcast", "clock_wait", "cw_check"} -> "wait"
    [] place \in {"m_stop", "cs_stop"} -> "stop"
    [] place \in {"cs_bcast", "m_join"} -> "join"
    [] OTHER -> "done"

NodeLoc(n, place) ==
  CASE place \in {"clock_wait", "cw_check"} -> "clock_wait"
    [] place \in {"cw_ret", "ns_set"} /\ ~go[n] -> "exit"
    [] place = "nw_check" \/ (place = "cw_ret" /\ go[n] /\ n # 0) -> "node_wait"
    [] \/ place \in {"act", "ct_tick"}
       \/ place = "ns_set" /\ go[n]
       \/ place = "cw_ret" /\ go[n] /\ n = 0 -> "act"
    [] place \in {"ct_bcast", "next"} \/ (place = "ns_signal" /\ go[n]) -> "next"
    [] OTHER -> "done"

G == INSTANCE Graph WITH
       loc <- [t \in Thread |-> IF t = Main THEN MainLoc(Place(t))
                                            ELSE NodeLoc(t, Place(t))],
       want <- [n \in Node |-> want[n]]

(* Refinement: see above.  That it goes on until it is done is Termination.*)
ImplementsGraph == G!Safety

(* The program ends: no thread sleeps or spins for ever.                   *)
Termination == <>AllDone
=============================================================================
