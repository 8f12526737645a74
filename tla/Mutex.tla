-------------------------------- MODULE Mutex --------------------------------
(***************************************************************************)
(* The futex mutex of hw2/mutex.h in both its protocols: the default one   *)
(* (PRIO_NONE) and the priority-inheritance one (PRIO_INHERIT).            *)
(*                                                                         *)
(* One action is one atomic access to mutex->state or one system call, and *)
(* is named after the function and the access.  The int `state' is the set *)
(* of the fields set in it:                                                *)
(*   PRIO_NONE     a subset of {MUTEX_LOCKED, MUTEX_SLEEPING};             *)
(*   PRIO_INHERIT  the tid of the owner and the kernel's FUTEX_WAITERS bit.*)
(* The empty set is the value 0.                                           *)
(*                                                                         *)
(* A call records where it returns to in ret[t]; the caller's module gives *)
(* the labels.  `holder' is a history variable: the threads that own the   *)
(* mutex, from the access that gives it to them to the one that gives it   *)
(* back.  No guard reads it.                                               *)
(***************************************************************************)
EXTENDS Futex

CONSTANTS Mutex,                         \* the mutexes: each is a futex word
          MUTEX_LOCKED, MUTEX_SLEEPING,  \* the fields of a default word
          FUTEX_WAITERS,                 \* the kernel's field of a PI word
          PRIO_NONE, PRIO_INHERIT,       \* the protocols
          MUTEX_SPINS,                   \* trylocks before the slow path
          Prio                           \* Prio[t]: scheduling priority of t

ASSUME MutexAssumption ==
  /\ Mutex \subseteq Addr
  /\ MUTEX_LOCKED # MUTEX_SLEEPING
  /\ {MUTEX_LOCKED, MUTEX_SLEEPING, FUTEX_WAITERS} \cap Thread = {}
  /\ PRIO_NONE # PRIO_INHERIT
  /\ MUTEX_SPINS \in Nat \ {0}
  /\ Prio \in [Thread -> Nat]

VARIABLES
  state,   \* state[m]: the atomic word of mutex m
  proto,   \* proto[m]: the protocol mutex_init installed in m
  holder,  \* holder[m]: the threads that own m (history)
  pc,      \* pc[t]: the atomic access t is about to make
  mtx,     \* mtx[t]: the mutex argument of t's current call
  ret,     \* ret[t]: where that call returns to
  fail,    \* fail[t]: where a failed trylock continues, "spin" in mutex_lock
  spin     \* spin[t]: the loop counter i of mutex_lock

mutexVars == <<waitq, state, proto, holder, pc, mtx, ret, fail, spin>>

Field == Thread \cup {MUTEX_LOCKED, MUTEX_SLEEPING, FUTEX_WAITERS}

DefaultPC == {"trylock_load", "trylock_or", "lock_xchg", "lock_wait",
              "unlock_xchg", "unlock_wake"}
PiPC == {"trylock_pi", "lock_pi", "unlock_pi", "unlock_kernel"}
MutexPC == DefaultPC \cup PiPC

At(t, label) == pc[t] = label /\ ~Asleep(t)

Goto(t, label) == pc' = [pc EXCEPT ![t] = label]

(* mutex_init: the word is 0 and the protocol's functions are installed.   *)
MutexInit(protocols) ==
  /\ state = [m \in Mutex |-> {}]
  /\ proto \in [Mutex -> protocols]
  /\ holder = [m \in Mutex |-> {}]

-----------------------------------------------------------------------------
(* Calls through the mutex's function pointers.                            *)

TryEntry(m) == IF proto[m] = PRIO_NONE THEN "trylock_load" ELSE "trylock_pi"

Call(t, m, entry, r, f) ==
  /\ Goto(t, entry)
  /\ mtx' = [mtx EXCEPT ![t] = m]
  /\ ret' = [ret EXCEPT ![t] = r]
  /\ fail' = [fail EXCEPT ![t] = f]

mutex_lock(t, m, r) == Call(t, m, TryEntry(m), r, "spin")

mutex_trylock(t, m, r, f) == Call(t, m, TryEntry(m), r, f)

mutex_unlock(t, m, r) ==
  Call(t, m, IF proto[m] = PRIO_NONE THEN "unlock_xchg" ELSE "unlock_pi",
       r, "spin")

-----------------------------------------------------------------------------
(* What the accesses have in common.                                       *)

Acquired(t) ==
  /\ holder' = [holder EXCEPT ![mtx[t]] = @ \cup {t}]
  /\ Goto(t, ret[t])

(* Mutant: the loop of mutex_lock makes one attempt too many.              *)
TryFailed_one_more(t) ==
  \/ fail[t] # "spin" /\ Goto(t, fail[t]) /\ UNCHANGED spin
  \/ /\ fail[t] = "spin" /\ spin[t] + 1 <= MUTEX_SPINS
     /\ Goto(t, TryEntry(mtx[t]))
     /\ spin' = [spin EXCEPT ![t] = @ + 1]
  \/ /\ fail[t] = "spin" /\ spin[t] + 1 > MUTEX_SPINS
     /\ Goto(t, IF proto[mtx[t]] = PRIO_NONE THEN "lock_xchg" ELSE "lock_pi")
     /\ spin' = [spin EXCEPT ![t] = 0]

(***************************************************************************)
(* A trylock failed: a direct caller gets `false', mutex_lock spins until  *)
(* its counter reaches MUTEX_SPINS and then takes the slow path.  The      *)
(* counter goes back to 0 where it leaves its scope.                       *)
(***************************************************************************)
TryFailed(t) ==
  \/ /\ fail[t] # "spin"
     /\ Goto(t, fail[t])
     /\ UNCHANGED spin
  \/ /\ fail[t] = "spin"
     /\ spin[t] + 1 < MUTEX_SPINS
     /\ Goto(t, TryEntry(mtx[t]))
     /\ spin' = [spin EXCEPT ![t] = @ + 1]
  \/ /\ fail[t] = "spin"
     /\ spin[t] + 1 >= MUTEX_SPINS
     /\ Goto(t, IF proto[mtx[t]] = PRIO_NONE THEN "lock_xchg" ELSE "lock_pi")
     /\ spin' = [spin EXCEPT ![t] = 0]

SetState(m, word) == state' = [state EXCEPT ![m] = word]

frame == <<proto, mtx, ret, fail>>

-----------------------------------------------------------------------------
(* The default protocol.                                                   *)

trylock_load(t) ==
  /\ At(t, "trylock_load")
  /\ \/ MUTEX_LOCKED \in state[mtx[t]] /\ TryFailed(t)
     \/ /\ MUTEX_LOCKED \notin state[mtx[t]]
        /\ Goto(t, "trylock_or")
        /\ UNCHANGED spin
  /\ UNCHANGED <<waitq, state, holder, frame>>

(* Mutant: trylock exchanges MUTEX_LOCKED in, and loses MUTEX_SLEEPING.    *)
trylock_or_exchanges(t) ==
  /\ At(t, "trylock_or")
  /\ SetState(mtx[t], {MUTEX_LOCKED})
  /\ \/ MUTEX_LOCKED \in state[mtx[t]] /\ TryFailed(t) /\ UNCHANGED holder
     \/ /\ MUTEX_LOCKED \notin state[mtx[t]]
        /\ Acquired(t)
        /\ spin' = [spin EXCEPT ![t] = 0]
  /\ UNCHANGED <<waitq, frame>>

(* Mutant: trylock trusts the load and ignores what fetch_or returns.      *)
trylock_or_unchecked(t) ==
  /\ At(t, "trylock_or")
  /\ SetState(mtx[t], state[mtx[t]] \cup {MUTEX_LOCKED})
  /\ Acquired(t)
  /\ spin' = [spin EXCEPT ![t] = 0]
  /\ UNCHANGED <<waitq, frame>>

trylock_or(t) ==
  /\ At(t, "trylock_or")
  /\ SetState(mtx[t], state[mtx[t]] \cup {MUTEX_LOCKED})
  /\ \/ /\ MUTEX_LOCKED \in state[mtx[t]]
        /\ TryFailed(t)
        /\ UNCHANGED holder
     \/ /\ MUTEX_LOCKED \notin state[mtx[t]]
        /\ Acquired(t)
        /\ spin' = [spin EXCEPT ![t] = 0]
  /\ UNCHANGED <<waitq, frame>>

(* Mutant: a woken sleeper takes the word as if it had been the only one.  *)
lock_xchg_last_sleeper(t) ==
  /\ At(t, "lock_xchg")
  /\ \/ /\ MUTEX_LOCKED \in state[mtx[t]]
        /\ SetState(mtx[t], {MUTEX_LOCKED, MUTEX_SLEEPING})
        /\ Goto(t, "lock_wait")
        /\ UNCHANGED holder
     \/ /\ MUTEX_LOCKED \notin state[mtx[t]]
        /\ SetState(mtx[t], {MUTEX_LOCKED})
        /\ Acquired(t)
  /\ UNCHANGED <<waitq, spin, frame>>

lock_xchg(t) ==
  /\ At(t, "lock_xchg")
  /\ SetState(mtx[t], {MUTEX_LOCKED, MUTEX_SLEEPING})
  /\ \/ /\ MUTEX_LOCKED \in state[mtx[t]]
        /\ Goto(t, "lock_wait")
        /\ UNCHANGED holder
     \/ MUTEX_LOCKED \notin state[mtx[t]] /\ Acquired(t)
  /\ UNCHANGED <<waitq, spin, frame>>

(* Mutant: an `if' where the code has a `while': no second look on return. *)
lock_wait_once(t) ==
  /\ At(t, "lock_wait")
  /\ FutexWait(t, mtx[t], state[mtx[t]] = {MUTEX_LOCKED, MUTEX_SLEEPING})
  /\ Goto(t, ret[t])
  /\ UNCHANGED <<state, holder, spin, frame>>

lock_wait(t) ==
  /\ At(t, "lock_wait")
  /\ FutexWait(t, mtx[t], state[mtx[t]] = {MUTEX_LOCKED, MUTEX_SLEEPING})
  /\ Goto(t, "lock_xchg")
  /\ UNCHANGED <<state, holder, spin, frame>>

unlock_xchg(t) ==
  /\ At(t, "unlock_xchg")
  /\ SetState(mtx[t], {})
  /\ holder' = [holder EXCEPT ![mtx[t]] = @ \ {t}]
  /\ Goto(t, IF MUTEX_SLEEPING \in state[mtx[t]] THEN "unlock_wake" ELSE ret[t])
  /\ UNCHANGED <<waitq, spin, frame>>

unlock_wake(t) ==
  /\ At(t, "unlock_wake")
  /\ FutexWake(mtx[t])
  /\ Goto(t, ret[t])
  /\ UNCHANGED <<state, holder, spin, frame>>

-----------------------------------------------------------------------------
(* The priority-inheritance protocol.                                      *)

trylock_pi(t) ==
  /\ At(t, "trylock_pi")
  /\ \/ /\ state[mtx[t]] = {}
        /\ SetState(mtx[t], {t})
        /\ Acquired(t)
        /\ spin' = [spin EXCEPT ![t] = 0]
     \/ /\ state[mtx[t]] # {}
        /\ TryFailed(t)
        /\ UNCHANGED <<state, holder>>
  /\ UNCHANGED <<waitq, frame>>

(***************************************************************************)
(* FUTEX_LOCK_PI2: the kernel takes a free word for the caller; otherwise  *)
(* it sets FUTEX_WAITERS and puts the caller to sleep until an owner hands *)
(* the lock over.  It never returns without the lock.                      *)
(***************************************************************************)
lock_pi(t) ==
  /\ At(t, "lock_pi")
  /\ \/ /\ state[mtx[t]] = {}
        /\ SetState(mtx[t], {t})
        /\ Acquired(t)
        /\ UNCHANGED waitq
     \/ /\ state[mtx[t]] # {}
        /\ SetState(mtx[t], state[mtx[t]] \cup {FUTEX_WAITERS})
        /\ FutexWait(t, mtx[t], TRUE)
        /\ Goto(t, ret[t])
        /\ UNCHANGED holder
  /\ UNCHANGED <<spin, frame>>

(* Mutant: the user-space unlock does not look at FUTEX_WAITERS.           *)
unlock_pi_ignores_waiters(t) ==
  /\ At(t, "unlock_pi")
  /\ SetState(mtx[t], {})
  /\ holder' = [holder EXCEPT ![mtx[t]] = @ \ {t}]
  /\ Goto(t, ret[t])
  /\ UNCHANGED <<waitq, spin, frame>>

unlock_pi(t) ==
  /\ At(t, "unlock_pi")
  /\ \/ /\ state[mtx[t]] = {t}
        /\ SetState(mtx[t], {})
        /\ holder' = [holder EXCEPT ![mtx[t]] = @ \ {t}]
        /\ Goto(t, ret[t])
     \/ /\ state[mtx[t]] # {t}
        /\ Goto(t, "unlock_kernel")
        /\ UNCHANGED <<state, holder>>
  /\ UNCHANGED <<waitq, spin, frame>>

TopWaiter(m) == {w \in waitq[m] : \A v \in waitq[m] : Prio[v] <= Prio[w]}

(***************************************************************************)
(* FUTEX_UNLOCK_PI: the kernel makes a waiter of the highest priority the  *)
(* owner, with FUTEX_WAITERS left set, before that waiter runs again.  The *)
(* bit outlives the last waiter, so the queue may be empty: then the word  *)
(* becomes 0.  (A caller that does not own the word gets EPERM; no caller  *)
(* here is in that case.)                                                  *)
(***************************************************************************)
unlock_kernel(t) ==
  /\ At(t, "unlock_kernel")
  /\ \/ /\ waitq[mtx[t]] = {}
        /\ SetState(mtx[t], {})
        /\ holder' = [holder EXCEPT ![mtx[t]] = @ \ {t}]
        /\ UNCHANGED waitq
     \/ \E w \in TopWaiter(mtx[t]) :
          /\ SetState(mtx[t], {w, FUTEX_WAITERS})
          /\ holder' = [holder EXCEPT ![mtx[t]] = (@ \ {t}) \cup {w}]
          /\ waitq' = [waitq EXCEPT ![mtx[t]] = @ \ {w}]
  /\ Goto(t, ret[t])
  /\ UNCHANGED <<spin, frame>>

-----------------------------------------------------------------------------
MutexStep(t) ==
  \/ trylock_load(t) \/ trylock_or(t) \/ lock_xchg(t) \/ lock_wait(t)
  \/ unlock_xchg(t) \/ unlock_wake(t)
  \/ trylock_pi(t) \/ lock_pi(t) \/ unlock_pi(t) \/ unlock_kernel(t)

(***************************************************************************)
(* A spurious return from futex_wait.  A PI waiter has none: the kernel    *)
(* restarts FUTEX_LOCK_PI by itself.                                       *)
(***************************************************************************)
Spurious(t) ==
  /\ \E a \in Addr :
       /\ a \in Mutex => proto[a] = PRIO_NONE
       /\ FutexSpurious(t, a)
  /\ UNCHANGED <<state, holder, pc, spin, frame>>
=============================================================================
