----------------------------- MODULE MutexClient -----------------------------
(***************************************************************************)
(* Threads that use one mutex at a time, as the threads of hw2/pi-test do: *)
(* lock, critical section, unlock; mutex_trylock is called as well, the    *)
(* only operation of the interface that no program of the repository uses  *)
(* directly.  Each thread makes at most ROUNDS calls and then stops.       *)
(***************************************************************************)
EXTENDS Mutex

CONSTANT ROUNDS   \* bound: the lock and trylock calls a thread makes

ASSUME ClientAssumption == ROUNDS \in Nat /\ Mutex # {}

VARIABLE rounds   \* rounds[t]: the calls t has made

vars == <<mutexVars, rounds>>

ClientPC == {"idle", "held"}

Init ==
  /\ FutexInit
  /\ MutexInit({PRIO_NONE, PRIO_INHERIT})
  /\ pc = [t \in Thread |-> "idle"]
  /\ mtx \in {[t \in Thread |-> m] : m \in Mutex}
  /\ ret = [t \in Thread |-> "idle"]
  /\ fail = [t \in Thread |-> "spin"]
  /\ spin = [t \in Thread |-> 0]
  /\ rounds = [t \in Thread |-> 0]

clientFrame == <<waitq, state, proto, holder, spin>>

Lock(t) ==
  /\ At(t, "idle")
  /\ rounds[t] < ROUNDS
  /\ rounds' = [rounds EXCEPT ![t] = @ + 1]
  /\ \E m \in Mutex : mutex_lock(t, m, "held")
  /\ UNCHANGED clientFrame

TryLock(t) ==
  /\ At(t, "idle")
  /\ rounds[t] < ROUNDS
  /\ rounds' = [rounds EXCEPT ![t] = @ + 1]
  /\ \E m \in Mutex : mutex_trylock(t, m, "held", "idle")
  /\ UNCHANGED clientFrame

Unlock(t) ==
  /\ At(t, "held")
  /\ mutex_unlock(t, mtx[t], "idle")
  /\ UNCHANGED <<clientFrame, rounds>>

ThreadStep(t) ==
  \/ Lock(t) \/ TryLock(t) \/ Unlock(t)
  \/ MutexStep(t) /\ UNCHANGED rounds

AllDone == \A t \in Thread : At(t, "idle") /\ rounds[t] = ROUNDS

Terminating == AllDone /\ UNCHANGED vars

Next ==
  \/ \E t \in Thread : ThreadStep(t)
  \/ \E t \in Thread : Spurious(t) /\ UNCHANGED rounds
  \/ Terminating

(***************************************************************************)
(* Fairness: every thread that can run is scheduled again and again, which *)
(* the default Linux policy gives each thread.  Nothing is assumed of      *)
(* spurious wake-ups, nor of who wins a race for the word.                 *)
(***************************************************************************)
Spec == Init /\ [][Next]_vars /\ \A t \in Thread : WF_vars(ThreadStep(t))

-----------------------------------------------------------------------------
(* The type invariant: every variable has the type its C counterpart has,  *)
(* and the two counters stay within their loops.                           *)
TypeOK ==
  /\ waitq \in [Addr -> SUBSET Thread]
  /\ state \in [Mutex -> SUBSET Field]
  /\ proto \in [Mutex -> {PRIO_NONE, PRIO_INHERIT}]
  /\ holder \in [Mutex -> SUBSET Thread]
  /\ pc \in [Thread -> MutexPC \cup ClientPC]
  /\ mtx \in [Thread -> Mutex]
  /\ ret \in [Thread -> ClientPC]
  /\ fail \in [Thread -> {"spin", "idle"}]
  /\ spin \in [Thread -> 0 .. MUTEX_SPINS - 1]
  /\ rounds \in [Thread -> 0 .. ROUNDS]

(* The labels between the return of a lock call and the access that gives  *)
(* the mutex back: the critical section.                                   *)
OwnerPC == {"held", "unlock_xchg", "unlock_pi", "unlock_kernel"}

InSection(t) == pc[t] \in OwnerPC /\ ~Asleep(t)

(***************************************************************************)
(* Mutual exclusion: two threads are never in the critical section of one  *)
(* mutex, whatever the mix of fast paths, slow paths, kernel hand-overs    *)
(* and spurious wake-ups that let them in.                                 *)
(***************************************************************************)
MutualExclusion ==
  \A s, t \in Thread :
    InSection(s) /\ InSection(t) /\ mtx[s] = mtx[t] => s = t

(***************************************************************************)
(* No lost wake-up: while a thread sleeps on a mutex, something is bound   *)
(* to wake it.  Default protocol: the word still says that there are       *)
(* sleepers, or an unlocker is about to wake one, or an awake thread is    *)
(* about to write MUTEX_SLEEPING back.  PI: the word names an owner and    *)
(* has FUTEX_WAITERS, so that the unlock goes through the kernel.          *)
(***************************************************************************)
Awaited(m) ==
  IF proto[m] = PRIO_NONE
    THEN \/ MUTEX_SLEEPING \in state[m]
         \/ \E t \in Thread : /\ mtx[t] = m
                              /\ ~Asleep(t)
                              /\ pc[t] \in {"unlock_wake", "lock_xchg"}
    ELSE FUTEX_WAITERS \in state[m] /\ state[m] \cap Thread # {}

NoLostWakeup == \A m \in Mutex : waitq[m] # {} => Awaited(m)

(***************************************************************************)
(* No priority bypass: a PI mutex never goes to a thread while another     *)
(* thread of a higher priority sleeps on it; the user-space fast path does *)
(* not overtake the kernel's queue (what hw2/pi-test sets out to show).    *)
(***************************************************************************)
InPriorityOrder(m) ==
  proto[m] = PRIO_INHERIT =>
    \A t \in holder'[m] \ holder[m] : \A w \in waitq'[m] : Prio[w] <= Prio[t]

NoPriorityBypass == [][\A m \in Mutex : InPriorityOrder(m)]_vars

(***************************************************************************)
(* The abstract lock this implements.  A thread asks for its mutex from    *)
(* the call until it owns it: while its pc is on a lock path, and while it *)
(* sleeps in the kernel's queue (where its pc is already the return label).*)
(***************************************************************************)
LockPC == {"trylock_load", "trylock_or", "lock_xchg", "lock_wait",
           "trylock_pi", "lock_pi"}

Wants(t) == IF pc[t] \in LockPC \/ Asleep(t) THEN {mtx[t]} ELSE {}

L == INSTANCE Lock WITH owner <- holder, wants <- [t \in Thread |-> Wants(t)]

(* Both protocols implement the abstract lock: a call of mutex_lock or     *)
(* mutex_trylock that succeeds has made its caller the only owner, and     *)
(* only the owner gives the mutex up or hands it to a waiter.              *)
ImplementsLock == L!Spec

(***************************************************************************)
(* Every call returns: the threads all make their ROUNDS calls and stop.   *)
(* No thread is left asleep, or spinning for ever.                         *)
(***************************************************************************)
Termination == <>AllDone
=============================================================================
