------------------------------ MODULE PerfRing -------------------------------
(***************************************************************************)
(* One contention_test of hw2/perf-test/main.c: threads that go round a    *)
(* ring of mutexes, one more than there are threads, and the line on which *)
(* they wait for each other before.  The mutexes of the ring do what Lock  *)
(* says; one that is handed over is released and acquired.  The pthread    *)
(* mutexes around ready_count and the start are external.                  *)
(***************************************************************************)
EXTENDS Integers, FiniteSets

CONSTANTS THREAD_MAX, THREAD_ITERS

ASSUME PerfRingAssumption == THREAD_MAX \in Nat \ {0} /\ THREAD_ITERS \in Nat \ {0}

(* Mutant: no mutex is left over.                                          *)
LOCK_MAX_short == THREAD_MAX

LOCK_MAX == THREAD_MAX + 1

Thread == 0 .. THREAD_MAX - 1
Mutex == 0 .. LOCK_MAX - 1

VARIABLES
  owner, wants,  \* of the mutexes of the ring: see Lock
  pc,
  i, loop,       \* the thread's mutex, and its round
  ready_count,
  line,          \* the threads whose start_mutex main holds
  main, k        \* what main does, and for which thread

L == INSTANCE Lock

lockVars == <<owner, wants>>
mainVars == <<main, k>>
vars == <<lockVars, pc, i, loop, ready_count, line, mainVars>>

Init ==
  /\ L!Init
  /\ pc = [t \in Thread |-> "none"]
  /\ i = [t \in Thread |-> t] /\ loop = [t \in Thread |-> 1]
  /\ ready_count = 0 /\ line = {}
  /\ main = "create" /\ k = 0

Goto(t, here, there) == pc[t] = here /\ pc' = [pc EXCEPT ![t] = there]

-----------------------------------------------------------------------------
(* thread_func                                                             *)
next(m) == (m + 1) % LOCK_MAX

lock_first(t) ==
  /\ Goto(t, "first", "get_first")
  /\ L!Request(t, i[t])
  /\ UNCHANGED <<i, loop, ready_count, line, mainVars>>

got_first(t) ==
  /\ Goto(t, "get_first", "ready")
  /\ L!Acquire(t, i[t])
  /\ UNCHANGED <<i, loop, ready_count, line, mainVars>>

(* Mutant: the count from before is compared.                              *)
ready_late(t) ==
  /\ Goto(t, "ready", "line")
  /\ ready_count' = ready_count + 1
  /\ main' = IF main = "asleep" /\ ready_count = THREAD_MAX THEN "ready" ELSE main
  /\ UNCHANGED <<lockVars, i, loop, line, k>>

(* Under ready_mutex: the last one signals, which wakes main if it waits.  *)
ready(t) ==
  /\ Goto(t, "ready", "line")
  /\ ready_count' = ready_count + 1
  /\ main' = IF main = "asleep" /\ ready_count' = THREAD_MAX THEN "ready" ELSE main
  /\ UNCHANGED <<lockVars, i, loop, line, k>>

(* start_mutex is locked and unlocked.                                     *)
start(t) ==
  /\ t \notin line
  /\ Goto(t, "line", "loop")
  /\ UNCHANGED <<lockVars, i, loop, ready_count, line, mainVars>>

(* Mutant: one round too many.                                             *)
lock_next_late(t) ==
  /\ loop[t] <= THREAD_ITERS
  /\ Goto(t, "loop", "get_next")
  /\ L!Request(t, next(i[t]))
  /\ UNCHANGED <<i, loop, ready_count, line, mainVars>>

lock_next(t) ==
  /\ loop[t] < THREAD_ITERS
  /\ Goto(t, "loop", "get_next")
  /\ L!Request(t, next(i[t]))
  /\ UNCHANGED <<i, loop, ready_count, line, mainVars>>

got_next(t) ==
  /\ Goto(t, "get_next", "unlock")
  /\ L!Acquire(t, next(i[t]))
  /\ UNCHANGED <<i, loop, ready_count, line, mainVars>>

unlock(t) ==
  /\ Goto(t, "unlock", "loop")
  /\ L!Release(t, i[t])
  /\ i' = [i EXCEPT ![t] = next(i[t])] /\ loop' = [loop EXCEPT ![t] = @ + 1]
  /\ UNCHANGED <<ready_count, line, mainVars>>

unlock_last(t) ==
  /\ loop[t] = THREAD_ITERS
  /\ Goto(t, "loop", "ended")
  /\ L!Release(t, i[t])
  /\ UNCHANGED <<i, loop, ready_count, line, mainVars>>

thread_func(t) ==
  \/ lock_first(t) \/ got_first(t) \/ ready(t) \/ start(t)
  \/ lock_next(t) \/ got_next(t) \/ unlock(t) \/ unlock_last(t)

-----------------------------------------------------------------------------
(* contention_test.  main does something for each thread, one by one.      *)
ForEach(here, there) ==
  /\ main = here
  /\ IF k + 1 < THREAD_MAX THEN k' = k + 1 /\ UNCHANGED main ELSE k' = 0 /\ main' = there

(* Mutant: the thread is created before its start_mutex is locked.         *)
create_unlocked ==
  /\ ForEach("create", "ready")
  /\ pc' = [pc EXCEPT ![k] = "first"]
  /\ UNCHANGED <<lockVars, i, loop, ready_count, line>>

create ==
  /\ ForEach("create", "ready")
  /\ line' = line \cup {k}
  /\ pc' = [pc EXCEPT ![k] = "first"]
  /\ UNCHANGED <<lockVars, i, loop, ready_count>>

(* Mutant: main does not wait for the last thread.                         *)
wait_ready_short ==
  /\ main = "ready"
  /\ main' = IF ready_count + 1 < THREAD_MAX THEN "asleep" ELSE "start"
  /\ UNCHANGED <<lockVars, pc, i, loop, ready_count, line, k>>

(* Under ready_mutex, which pthread_cond_wait releases.                    *)
wait_ready ==
  /\ main = "ready"
  /\ main' = IF ready_count < THREAD_MAX THEN "asleep" ELSE "start"
  /\ UNCHANGED <<lockVars, pc, i, loop, ready_count, line, k>>

(* pthread_cond_wait may return by itself.                                 *)
spurious ==
  /\ main = "asleep" /\ main' = "ready"
  /\ UNCHANGED <<lockVars, pc, i, loop, ready_count, line, k>>

unlock_start ==
  /\ ForEach("start", "join")
  /\ line' = line \ {k}
  /\ UNCHANGED <<lockVars, pc, i, loop, ready_count>>

join ==
  /\ pc[k] = "ended"
  /\ ForEach("join", "done")
  /\ UNCHANGED <<lockVars, pc, i, loop, ready_count, line>>

contention_test == create \/ wait_ready \/ unlock_start \/ join

Terminating == main = "done" /\ UNCHANGED vars

Next == contention_test \/ spurious \/ (\E t \in Thread : thread_func(t)) \/ Terminating

(* Every thread goes on; a mutex that stays free is acquired.              *)
Spec ==
  /\ Init /\ [][Next]_vars
  /\ WF_vars(contention_test) /\ \A t \in Thread : WF_vars(thread_func(t))

-----------------------------------------------------------------------------
ThreadPC ==
  {"none", "first", "get_first", "ready", "line", "loop", "get_next", "unlock", "ended"}

(* The type invariant.                                                     *)
TypeOK ==
  /\ owner \in [Mutex -> SUBSET Thread] /\ wants \in [Thread -> SUBSET Mutex]
  /\ pc \in [Thread -> ThreadPC]
  /\ i \in [Thread -> Mutex] /\ loop \in [Thread -> 1 .. THREAD_ITERS]
  /\ ready_count \in 0 .. THREAD_MAX /\ line \subseteq Thread
  /\ main \in {"create", "ready", "asleep", "start", "join", "done"} /\ k \in Thread

(* How far a thread has come, counted in mutexes.                          *)
At(t) == t + loop[t] - 1

(* The threads go round without any of them overtaking, or being lapped    *)
(* by, another: "those are arranged in a ring", and each thread waits for  *)
(* the one before it only.                                                 *)
NoOvertaking ==
  \A s, t \in Thread : s < t => At(s) < At(t) /\ At(t) < At(s) + LOCK_MAX

HasTwo(t) == \E m, q \in Mutex : m # q /\ t \in owner[m] /\ t \in owner[q]

(* "at every moment, only one thread is able to acquire two locks and so   *)
(* make progress", and it does not before all have come to the line, with  *)
(* their first mutex.                                                      *)
OneMoves ==
  /\ \A s, t \in Thread : HasTwo(s) /\ HasTwo(t) => s = t
  /\ (\E t \in Thread : HasTwo(t)) =>
       \A s \in Thread : pc[s] \notin {"none", "first", "get_first", "ready"}

(* What main and the threads cannot go on from by themselves.              *)
MainBlocked ==
  \/ main = "asleep"
  \/ main = "join" /\ pc[k] # "ended"

Blocked(t) ==
  \/ pc[t] \in {"none", "ended"}
  \/ pc[t] = "get_first" /\ owner[i[t]] # {}
  \/ pc[t] = "line" /\ t \in line
  \/ pc[t] = "get_next" /\ owner[next(i[t])] # {}

(* Somebody can always go on, although every thread holds a mutex of the   *)
(* ring while it waits for the next, and main and the threads wait for     *)
(* each other at the start.                                                *)
NoDeadlock == MainBlocked => \E t \in Thread : ~ Blocked(t)

(* And everybody does, to the end.                                         *)
Termination == <>(main = "done")
=============================================================================
