----------------------------- MODULE MutexProofs -----------------------------
(***************************************************************************)
(* Proofs about MutexClient, for any number of threads, mutexes, rounds    *)
(* and spins, any mix of the two protocols and any priorities.             *)
(***************************************************************************)
EXTENDS MutexClient, TLAPS

(***************************************************************************)
(* The inductive invariant.  WordOK: what a word says of the owner of its  *)
(* mutex.  OwnersOK: owners are exactly the threads in the critical        *)
(* section.  SleepersOK: a thread sleeps on the mutex it called for, at    *)
(* the label where its protocol's call goes on.  ThreadsOK: a thread runs  *)
(* the code of its mutex's protocol and returns to where that call leads.  *)
(***************************************************************************)
WordOK(m) ==
  IF proto[m] = PRIO_NONE
    THEN /\ state[m] \subseteq {MUTEX_LOCKED, MUTEX_SLEEPING}
         /\ (MUTEX_LOCKED \in state[m]) <=> (holder[m] # {})
    ELSE /\ state[m] \subseteq Thread \cup {FUTEX_WAITERS}
         /\ holder[m] = state[m] \cap Thread
         /\ FUTEX_WAITERS \in state[m] => holder[m] # {}

OwnersOK(m) ==
  /\ \A s, t \in holder[m] : s = t
  /\ \A t \in holder[m] : InSection(t) /\ mtx[t] = m

SleepersOK ==
  \A t \in Thread, a \in Addr : t \in waitq[a] =>
    /\ a = mtx[t]
    /\ pc[t] = IF proto[a] = PRIO_NONE THEN "lock_xchg" ELSE "held"

ThreadOK(t) ==
  /\ InSection(t) => t \in holder[mtx[t]]
  /\ pc[t] \in DefaultPC => proto[mtx[t]] = PRIO_NONE
  /\ pc[t] \in PiPC => proto[mtx[t]] = PRIO_INHERIT
  /\ pc[t] \in LockPC => ret[t] = "held"
  /\ pc[t] \in MutexPC \ LockPC => ret[t] = "idle"

IInv ==
  /\ TypeOK
  /\ \A m \in Mutex : WordOK(m) /\ OwnersOK(m)
  /\ SleepersOK
  /\ \A t \in Thread : ThreadOK(t)
  /\ NoLostWakeup

-----------------------------------------------------------------------------
USE MutexAssumption, ClientAssumption

(* Where a failed trylock goes, and what its counter becomes.              *)
LEMMA TryFailedGoes ==
  ASSUME TypeOK, NEW t \in Thread, TryFailed(t)
  PROVE  /\ \E l \in {"idle", TryEntry(mtx[t]),
                     IF proto[mtx[t]] = PRIO_NONE THEN "lock_xchg" ELSE "lock_pi"} :
              /\ Goto(t, l)
              /\ l = "idle" => fail[t] = "idle"
         /\ spin' \in [Thread -> 0 .. MUTEX_SPINS - 1]
<1> USE DEF TypeOK, Goto
<1>1. CASE fail[t] # "spin"
  BY <1>1 DEF TryFailed
<1>2. CASE fail[t] = "spin" /\ spin[t] + 1 < MUTEX_SPINS
  <2>1. spin[t] \in Nat /\ spin[t] + 1 \in 0 .. MUTEX_SPINS - 1
    BY <1>2
  <2>2. Goto(t, TryEntry(mtx[t])) /\ spin' = [spin EXCEPT ![t] = spin[t] + 1]
    BY <1>2 DEF TryFailed
  <2>3. TryEntry(mtx[t]) # "idle"
    BY DEF TryEntry
  <2> QED
    BY <2>1, <2>2, <2>3
<1>3. CASE fail[t] = "spin" /\ spin[t] + 1 >= MUTEX_SPINS
  BY <1>3 DEF TryFailed
<1> QED
  BY <1>1, <1>2, <1>3

(* Every step keeps the types.                                             *)
LEMMA TypeStep == TypeOK /\ [Next]_vars => TypeOK'
<1> USE DEF TypeOK, MutexPC, DefaultPC, PiPC, ClientPC, Field
<1> SUFFICES ASSUME TypeOK, [Next]_vars PROVE TypeOK'
  OBVIOUS
<1>1. ASSUME NEW t \in Thread, Lock(t) PROVE TypeOK'
  BY <1>1 DEF Lock, mutex_lock, Call, TryEntry, clientFrame, Goto
<1>2. ASSUME NEW t \in Thread, TryLock(t) PROVE TypeOK'
  BY <1>2 DEF TryLock, mutex_trylock, Call, TryEntry, clientFrame, Goto
<1>3. ASSUME NEW t \in Thread, Unlock(t) PROVE TypeOK'
  BY <1>3 DEF Unlock, mutex_unlock, Call, clientFrame, Goto
<1>4. ASSUME NEW t \in Thread, MutexStep(t), UNCHANGED rounds PROVE TypeOK'
  <2> USE <1>4 DEF Goto, frame
  <2>1. CASE trylock_load(t)
    <3>1. CASE TryFailed(t)
      BY <2>1, <3>1, TryFailedGoes DEF trylock_load, TryEntry
    <3>2. CASE ~TryFailed(t)
      BY <2>1, <3>2 DEF trylock_load
    <3> QED
      BY <3>1, <3>2
  <2>2. CASE trylock_or(t)
    <3>1. CASE MUTEX_LOCKED \in state[mtx[t]]
      <4>1. /\ SetState(mtx[t], state[mtx[t]] \cup {MUTEX_LOCKED})
            /\ TryFailed(t) /\ UNCHANGED <<holder, waitq, frame>>
        BY <2>2, <3>1 DEF trylock_or
      <4>2. state' \in [Mutex -> SUBSET Field]
        BY <4>1 DEF SetState
      <4> QED
        BY <4>1, <4>2, TryFailedGoes DEF TryEntry
    <3>2. CASE MUTEX_LOCKED \notin state[mtx[t]]
      <4>1. /\ SetState(mtx[t], state[mtx[t]] \cup {MUTEX_LOCKED})
            /\ Acquired(t) /\ spin' = [spin EXCEPT ![t] = 0]
            /\ UNCHANGED <<waitq, frame>>
        BY <2>2, <3>2 DEF trylock_or
      <4>2. state' \in [Mutex -> SUBSET Field]
        BY <4>1 DEF SetState
      <4>3. /\ holder' \in [Mutex -> SUBSET Thread]
            /\ spin' \in [Thread -> 0 .. MUTEX_SPINS - 1]
        BY <4>1 DEF Acquired
      <4> QED
        BY <4>1, <4>2, <4>3 DEF Acquired
    <3> QED
      BY <3>1, <3>2
  <2>3. CASE lock_xchg(t)
    <3>1. state' \in [Mutex -> SUBSET Field]
      BY <2>3 DEF lock_xchg, SetState
    <3>2. /\ \/ Goto(t, "lock_wait") /\ UNCHANGED holder
             \/ Acquired(t)
          /\ UNCHANGED <<waitq, spin, frame>>
      BY <2>3 DEF lock_xchg
    <3> QED
      BY <3>1, <3>2 DEF Acquired
  <2>4. CASE lock_wait(t)
    BY <2>4 DEF lock_wait, FutexWait
  <2>5. CASE unlock_xchg(t)
    BY <2>5 DEF unlock_xchg, SetState
  <2>6. CASE unlock_wake(t)
    BY <2>6 DEF unlock_wake, FutexWake
  <2>7. CASE trylock_pi(t)
    <3>1. CASE state[mtx[t]] # {}
      <4>1. TryFailed(t) /\ UNCHANGED <<state, holder, waitq, frame>>
        BY <2>7, <3>1 DEF trylock_pi
      <4> QED
        BY <4>1, TryFailedGoes DEF TryEntry
    <3>2. CASE state[mtx[t]] = {}
      <4>1. /\ SetState(mtx[t], {t})
            /\ Acquired(t)
            /\ spin' = [spin EXCEPT ![t] = 0]
            /\ UNCHANGED <<waitq, frame>>
        BY <2>7, <3>2 DEF trylock_pi
      <4>2. {t} \subseteq Field /\ mtx[t] \in Mutex /\ 0 \in 0 .. MUTEX_SPINS - 1
        OBVIOUS
      <4> QED
        BY <4>1, <4>2 DEF SetState, Acquired
    <3> QED
      BY <3>1, <3>2
  <2>8. CASE lock_pi(t)
    <3>1. CASE state[mtx[t]] = {}
      BY <2>8, <3>1 DEF lock_pi, Acquired, SetState
    <3>2. CASE state[mtx[t]] # {}
      <4>1. /\ waitq' = [waitq EXCEPT ![mtx[t]] = @ \cup {t}]
            /\ state' = [state EXCEPT ![mtx[t]] = @ \cup {FUTEX_WAITERS}]
            /\ pc' = [pc EXCEPT ![t] = ret[t]]
            /\ UNCHANGED <<holder, spin, frame>>
        BY <2>8, <3>2 DEF lock_pi, SetState, FutexWait
      <4> QED
        BY <4>1
    <3> QED
      BY <3>1, <3>2
  <2>9. CASE unlock_pi(t)
    <3>1. CASE state[mtx[t]] = {t}
      <4>1. /\ SetState(mtx[t], {}) /\ Goto(t, ret[t])
            /\ holder' = [holder EXCEPT ![mtx[t]] = @ \ {t}]
            /\ UNCHANGED <<waitq, spin, frame>>
        BY <2>9, <3>1 DEF unlock_pi
      <4> QED
        BY <4>1 DEF SetState
    <3>2. CASE state[mtx[t]] # {t}
      <4>1. Goto(t, "unlock_kernel") /\ UNCHANGED <<state, holder, waitq, spin, frame>>
        BY <2>9, <3>2 DEF unlock_pi
      <4> QED
        BY <4>1
    <3> QED
      BY <3>1, <3>2
  <2>10. CASE unlock_kernel(t)
    <3>1. CASE waitq[mtx[t]] = {}
      BY <2>10, <3>1 DEF unlock_kernel, SetState, TopWaiter
    <3>2. CASE waitq[mtx[t]] # {}
      <4>1. PICK w \in TopWaiter(mtx[t]) :
              /\ SetState(mtx[t], {w, FUTEX_WAITERS})
              /\ holder' = [holder EXCEPT ![mtx[t]] = (@ \ {t}) \cup {w}]
              /\ waitq' = [waitq EXCEPT ![mtx[t]] = @ \ {w}]
        BY <2>10, <3>2 DEF unlock_kernel
      <4>2. w \in Thread
        BY MutexAssumption DEF TopWaiter
      <4> QED
        BY <2>10, <4>1, <4>2 DEF unlock_kernel, SetState
    <3> QED
      BY <3>1, <3>2
  <2> QED
    BY <2>1, <2>2, <2>3, <2>4, <2>5, <2>6, <2>7, <2>8, <2>9, <2>10 DEF MutexStep
<1>5. ASSUME NEW t \in Thread, Spurious(t), UNCHANGED rounds PROVE TypeOK'
  BY <1>5 DEF Spurious, FutexSpurious, frame
<1>6. CASE UNCHANGED vars
  BY <1>6 DEF vars, mutexVars
<1> QED
  BY <1>1, <1>2, <1>3, <1>4, <1>5, <1>6 DEF Next, ThreadStep, Terminating

(***************************************************************************)
(* A step that moves an awake thread outside the critical section to a     *)
(* label of its protocol's lock path, or back to idle, and changes nothing *)
(* that another thread sees.                                               *)
(***************************************************************************)
LockLabel(m) == IF proto[m] = PRIO_NONE
                  THEN {"trylock_load", "trylock_or", "lock_xchg", "lock_wait"}
                  ELSE {"trylock_pi", "lock_pi"}

LEMMA MoveStep ==
  ASSUME IInv, TypeOK', NEW t \in Thread, ~Asleep(t),
         pc[t] \in LockPC \ {"lock_xchg"},
         NEW l \in LockLabel(mtx[t]) \cup {"idle"}, Goto(t, l),
         UNCHANGED <<waitq, state, holder, frame>>
  PROVE  IInv'
<1> USE DEF IInv, TypeOK, At, Goto, frame, MutexPC, DefaultPC, PiPC, LockPC, OwnerPC,
            ThreadOK, InSection, Asleep
<1>1. \A m \in Mutex : WordOK(m)' /\ OwnersOK(m)'
  BY DEF WordOK, OwnersOK, LockLabel
<1>2. SleepersOK'
  BY DEF SleepersOK
<1>3. \A u \in Thread : ThreadOK(u)'
  BY DEF LockLabel
<1>4. NoLostWakeup'
  BY DEF NoLostWakeup, Awaited
<1> QED
  BY <1>1, <1>2, <1>3, <1>4

LEMMA FailedStep ==
  ASSUME IInv, TypeOK', NEW t \in Thread, TryFailed(t), ~Asleep(t),
         pc[t] \in {"trylock_load", "trylock_or", "trylock_pi"},
         UNCHANGED <<waitq, state, holder, frame>>
  PROVE  IInv'
<1>1. PICK l \in {"idle", TryEntry(mtx[t]),
                  IF proto[mtx[t]] = PRIO_NONE THEN "lock_xchg" ELSE "lock_pi"} :
        Goto(t, l)
  BY TryFailedGoes DEF IInv
<1>2. l \in LockLabel(mtx[t]) \cup {"idle"}
  BY DEF LockLabel, TryEntry
<1> QED
  BY <1>1, <1>2, MoveStep DEF LockPC

LEMMA Step_trylock_load ==
  ASSUME IInv, TypeOK', NEW t \in Thread, trylock_load(t) PROVE IInv'
<1> USE DEF trylock_load, At, LockPC
<1>1. CASE TryFailed(t)
  BY <1>1, FailedStep
<1>2. CASE ~TryFailed(t)
  <2>1. proto[mtx[t]] = PRIO_NONE
    BY DEF IInv, ThreadOK, DefaultPC
  <2> QED
    BY <1>2, <2>1, MoveStep DEF LockLabel
<1> QED
  BY <1>1, <1>2

(***************************************************************************)
(* A step by which an awake thread takes a mutex that nobody owns, writing *)
(* a word that keeps the waiters' bit where there was one.                 *)
(***************************************************************************)
LEMMA AcquireStep ==
  ASSUME IInv, TypeOK', NEW t \in Thread, ~Asleep(t), pc[t] \in LockPC, Acquired(t),
         UNCHANGED <<waitq, frame>>,
         NEW word, SetState(mtx[t], word),
         IF proto[mtx[t]] = PRIO_NONE
           THEN /\ MUTEX_LOCKED \notin state[mtx[t]]
                /\ MUTEX_LOCKED \in word
                /\ word \subseteq {MUTEX_LOCKED, MUTEX_SLEEPING}
                /\ \/ MUTEX_SLEEPING \in word
                   \/ MUTEX_SLEEPING \notin state[mtx[t]] /\ pc[t] # "lock_xchg"
           ELSE state[mtx[t]] = {} /\ word = {t}
  PROVE  IInv'
<1> USE DEF IInv, TypeOK, At, Goto, frame, MutexPC, DefaultPC, PiPC, LockPC, OwnerPC,
            ThreadOK, InSection, Asleep
<1> USE DEF Acquired, SetState
<1>0. mtx[t] \in Mutex /\ holder[mtx[t]] = {} /\ ret[t] = "held"
  BY DEF WordOK
<1>1. ASSUME NEW m \in Mutex PROVE WordOK(m)'
  <2>1. CASE m = mtx[t]
    BY <1>0, <2>1 DEF WordOK
  <2>2. CASE m # mtx[t]
    BY <1>0, <1>1, <2>2 DEF WordOK
  <2> QED
    BY <2>1, <2>2
<1>2. ASSUME NEW m \in Mutex PROVE OwnersOK(m)'
  <2>1. CASE m = mtx[t]
    BY <1>0, <2>1 DEF OwnersOK
  <2>2. CASE m # mtx[t]
    BY <1>0, <1>2, <2>2 DEF OwnersOK
  <2> QED
    BY <2>1, <2>2
<1>3. SleepersOK'
  BY <1>0 DEF SleepersOK
<1>4. ASSUME NEW u \in Thread PROVE ThreadOK(u)'
  BY <1>0, <1>4
<1>5. ASSUME NEW m \in Mutex, waitq'[m] # {} PROVE Awaited(m)'
  <2>0. Awaited(m)
    BY <1>5 DEF NoLostWakeup
  <2>1. CASE m = mtx[t] /\ proto[m] = PRIO_NONE
    <3>1. CASE MUTEX_SLEEPING \in word
      BY <1>0, <2>1, <3>1 DEF Awaited
    <3>2. CASE MUTEX_SLEEPING \notin state[mtx[t]] /\ pc[t] # "lock_xchg"
      BY <1>0, <2>0, <2>1, <3>2 DEF Awaited
    <3> QED
      BY <2>1, <3>1, <3>2
  <2>2. CASE m = mtx[t] /\ proto[m] # PRIO_NONE
    BY <2>0, <2>2 DEF Awaited
  <2>3. CASE m # mtx[t]
    BY <1>0, <1>5, <2>0, <2>3 DEF Awaited
  <2> QED
    BY <2>1, <2>2, <2>3
<1> QED
  BY <1>1, <1>2, <1>3, <1>4, <1>5 DEF NoLostWakeup

LEMMA Step_trylock_or ==
  ASSUME IInv, TypeOK', NEW t \in Thread, trylock_or(t) PROVE IInv'
<1> USE DEF trylock_or, At
<1>0. mtx[t] \in Mutex /\ proto[mtx[t]] = PRIO_NONE /\ WordOK(mtx[t])
  BY DEF IInv, TypeOK, ThreadOK, DefaultPC
<1>1. CASE MUTEX_LOCKED \in state[mtx[t]]
  <2>1. state' = state
    BY <1>0, <1>1 DEF SetState, IInv, TypeOK
  <2> QED
    BY <1>1, <2>1, FailedStep DEF Acquired
<1>2. CASE MUTEX_LOCKED \notin state[mtx[t]]
  <2> DEFINE word == state[mtx[t]] \cup {MUTEX_LOCKED}
  <2>1. MUTEX_LOCKED \in word /\ word \subseteq {MUTEX_LOCKED, MUTEX_SLEEPING}
    BY <1>0 DEF WordOK
  <2>2. MUTEX_SLEEPING \in word \/ MUTEX_SLEEPING \notin state[mtx[t]]
    OBVIOUS
  <2>3. Acquired(t) /\ SetState(mtx[t], word) /\ pc[t] \in LockPC /\ ~Asleep(t)
    BY <1>2 DEF LockPC
  <2> HIDE DEF word
  <2> QED
    BY <1>0, <1>2, <2>1, <2>2, <2>3, AcquireStep
<1> QED
  BY <1>1, <1>2

LEMMA Step_lock_xchg ==
  ASSUME IInv, TypeOK', NEW t \in Thread, lock_xchg(t) PROVE IInv'
<1> USE DEF lock_xchg, At, LockPC
<1>0. mtx[t] \in Mutex /\ proto[mtx[t]] = PRIO_NONE
  BY DEF IInv, TypeOK, ThreadOK, DefaultPC
<1>1. CASE MUTEX_LOCKED \notin state[mtx[t]]
  <2> DEFINE word == {MUTEX_LOCKED, MUTEX_SLEEPING}
  <2>1. /\ MUTEX_LOCKED \in word /\ MUTEX_SLEEPING \in word
        /\ word \subseteq {MUTEX_LOCKED, MUTEX_SLEEPING}
    OBVIOUS
  <2>2. Acquired(t) /\ SetState(mtx[t], word) /\ pc[t] \in LockPC /\ ~Asleep(t)
    BY <1>1
  <2> HIDE DEF word
  <2> QED
    BY <1>0, <1>1, <2>1, <2>2, AcquireStep
<1>2. CASE MUTEX_LOCKED \in state[mtx[t]]
  <2> USE DEF IInv, TypeOK, Goto, frame, MutexPC, DefaultPC, PiPC, OwnerPC, ThreadOK,
              InSection, Asleep, SetState
  <2>1. ASSUME NEW m \in Mutex PROVE WordOK(m)'
    <3>1. CASE m = mtx[t]
      BY <1>0, <1>2, <3>1 DEF WordOK
    <3>2. CASE m # mtx[t]
      BY <1>0, <1>2, <3>2 DEF WordOK
    <3> QED
      BY <3>1, <3>2
  <2>0. /\ UNCHANGED <<waitq, holder, frame>> /\ Goto(t, "lock_wait")
        /\ t \notin UNION {holder[m] : m \in Mutex}
    BY <1>2 DEF OwnersOK
  <2>2. \A m \in Mutex : OwnersOK(m)'
    BY <2>0 DEF OwnersOK
  <2>3. SleepersOK'
    BY <1>2 DEF SleepersOK
  <2>4. \A u \in Thread : ThreadOK(u)'
    BY <1>2
  <2>5. ASSUME NEW m \in Mutex, waitq'[m] # {} PROVE Awaited(m)'
    <3>1. CASE m = mtx[t]
      BY <1>0, <3>1 DEF Awaited
    <3>2. CASE m # mtx[t]
      <4>1. Awaited(m)
        BY <2>5 DEF NoLostWakeup
      <4> QED
        BY <1>2, <3>2, <4>1 DEF Awaited
    <3> QED
      BY <3>1, <3>2
  <2> QED
    BY <2>1, <2>2, <2>3, <2>4, <2>5 DEF NoLostWakeup
<1> QED
  BY <1>1, <1>2

LEMMA Step_lock_wait ==
  ASSUME IInv, TypeOK', NEW t \in Thread, lock_wait(t) PROVE IInv'
<1> USE DEF IInv, TypeOK, At, Goto, frame, MutexPC, DefaultPC, PiPC, LockPC, OwnerPC,
            ThreadOK, InSection, Asleep
<1>2. ASSUME NEW m \in Mutex PROVE WordOK(m)'
  BY <1>2 DEF WordOK, OwnersOK, lock_wait, FutexWait
<1>3. ASSUME NEW m \in Mutex PROVE OwnersOK(m)'
  BY <1>3 DEF WordOK, OwnersOK, SleepersOK, lock_wait, FutexWait
<1>4. SleepersOK'
  BY DEF SleepersOK, lock_wait, FutexWait
<1>5. ASSUME NEW u \in Thread PROVE ThreadOK(u)'
  BY <1>5 DEF OwnersOK, SleepersOK, lock_wait, FutexWait
<1>6. ASSUME NEW m \in Mutex, waitq'[m] # {} PROVE Awaited(m)'
  BY <1>6 DEF NoLostWakeup, Awaited, WordOK, SleepersOK, lock_wait, FutexWait
<1> QED
  BY <1>2, <1>3, <1>4, <1>5, <1>6 DEF NoLostWakeup

LEMMA Step_unlock_xchg ==
  ASSUME IInv, TypeOK', NEW t \in Thread, unlock_xchg(t) PROVE IInv'
<1> USE DEF IInv, TypeOK, At, Goto, frame, MutexPC, DefaultPC, PiPC, LockPC, OwnerPC,
            ThreadOK, InSection, Asleep
<1>2. ASSUME NEW m \in Mutex PROVE WordOK(m)'
  BY <1>2 DEF WordOK, OwnersOK, unlock_xchg, SetState
<1>3. ASSUME NEW m \in Mutex PROVE OwnersOK(m)'
  BY <1>3 DEF WordOK, OwnersOK, SleepersOK, unlock_xchg, SetState
<1>4. SleepersOK'
  BY DEF SleepersOK, unlock_xchg, SetState
<1>5. ASSUME NEW u \in Thread PROVE ThreadOK(u)'
  BY <1>5 DEF OwnersOK, SleepersOK, unlock_xchg, SetState
<1>6. ASSUME NEW m \in Mutex, waitq'[m] # {} PROVE Awaited(m)'
  <2>1. CASE m = mtx[t]
    <3>1. Awaited(m) /\ proto[m] = PRIO_NONE
      BY <1>6, <2>1 DEF NoLostWakeup, unlock_xchg
    <3>2. CASE MUTEX_SLEEPING \in state[m]
      BY <2>1, <3>1, <3>2 DEF Awaited, unlock_xchg
    <3>3. CASE MUTEX_SLEEPING \notin state[m]
      BY <2>1, <3>1, <3>3 DEF Awaited, unlock_xchg
    <3> QED
      BY <3>2, <3>3
  <2>2. CASE m # mtx[t]
    <3>1. Awaited(m)
      BY <1>6, <2>2 DEF NoLostWakeup, unlock_xchg, SetState
    <3> QED
      BY <1>6, <2>2, <3>1 DEF Awaited, unlock_xchg, SetState
  <2> QED
    BY <2>1, <2>2
<1> QED
  BY <1>2, <1>3, <1>4, <1>5, <1>6 DEF NoLostWakeup

LEMMA Step_unlock_wake ==
  ASSUME IInv, TypeOK', NEW t \in Thread, unlock_wake(t) PROVE IInv'
<1> USE DEF IInv, TypeOK, At, Goto, frame, MutexPC, DefaultPC, PiPC, LockPC, OwnerPC,
            ThreadOK, InSection, Asleep
<1>0. mtx[t] \in Mutex /\ mtx[t] \in Addr /\ proto[mtx[t]] = PRIO_NONE /\ ret[t] = "idle"
  BY DEF unlock_wake
<1>1. CASE waitq[mtx[t]] = {}
  <2>0. UNCHANGED <<waitq, state, holder, frame>> /\ Goto(t, "idle")
    BY <1>0, <1>1 DEF unlock_wake, FutexWake
  <2>1. \A m \in Mutex : WordOK(m)' /\ OwnersOK(m)'
    BY <2>0 DEF WordOK, OwnersOK, unlock_wake
  <2>2. SleepersOK'
    BY <2>0 DEF SleepersOK, unlock_wake
  <2>3. \A u \in Thread : ThreadOK(u)'
    BY <2>0 DEF unlock_wake
  <2>4. ASSUME NEW m \in Mutex, waitq'[m] # {} PROVE Awaited(m)'
    BY <1>1, <2>0, <2>4 DEF NoLostWakeup, Awaited
  <2> QED
    BY <2>1, <2>2, <2>3, <2>4 DEF NoLostWakeup
<1>2. ASSUME NEW w \in waitq[mtx[t]], waitq' = [waitq EXCEPT ![mtx[t]] = @ \ {w}]
      PROVE  IInv'
  <2>0. /\ UNCHANGED <<state, holder, frame>> /\ Goto(t, "idle")
        /\ w \in Thread /\ w # t /\ pc[w] = "lock_xchg" /\ mtx[w] = mtx[t]
        /\ ~Asleep(w)'
    BY <1>0, <1>2 DEF unlock_wake, SleepersOK
  <2>00. \A u \in Thread \ {w} : Asleep(u)' = Asleep(u)
    BY <1>0, <1>2
  <2>1. \A m \in Mutex : WordOK(m)'
    BY <2>0 DEF WordOK
  <2>2. \A m \in Mutex : OwnersOK(m)'
    BY <2>0, <2>00, SMTT(30) DEF OwnersOK, unlock_wake
  <2>3. SleepersOK'
    BY <1>0, <1>2, <2>0 DEF SleepersOK, unlock_wake
  <2>4. \A u \in Thread : ThreadOK(u)'
    BY <2>0, <2>00 DEF unlock_wake
  <2>5. ASSUME NEW m \in Mutex, waitq'[m] # {} PROVE Awaited(m)'
    <3>1. CASE m = mtx[t]
      BY <1>0, <2>0, <3>1 DEF Awaited
    <3>2. CASE m # mtx[t]
      <4>1. Awaited(m)
        BY <1>0, <1>2, <2>5, <3>2 DEF NoLostWakeup
      <4>2. state'[m] = state[m] /\ waitq'[m] = waitq[m]
        BY <1>2, <2>0, <3>2
      <4>3. ASSUME NEW u \in Thread, mtx[u] = m, ~Asleep(u), pc[u] \in {"unlock_wake", "lock_xchg"}
            PROVE  mtx'[u] = m /\ ~Asleep(u)' /\ pc'[u] \in {"unlock_wake", "lock_xchg"}
        <5>1. u # t /\ u # w
          BY <2>0, <3>2, <4>3
        <5> QED
          BY <2>0, <2>00, <4>3, <5>1
      <4>4. proto' = proto
        BY <2>0
      <4> HIDE DEF Asleep, IInv, TypeOK
      <4> QED
        BY <4>1, <4>2, <4>3, <4>4 DEF Awaited
    <3> QED
      BY <3>1, <3>2
  <2> QED
    BY <2>1, <2>2, <2>3, <2>4, <2>5 DEF NoLostWakeup
<1> QED
  BY <1>1, <1>2 DEF unlock_wake, FutexWake

LEMMA Step_trylock_pi ==
  ASSUME IInv, TypeOK', NEW t \in Thread, trylock_pi(t) PROVE IInv'
<1> USE DEF trylock_pi, At, LockPC
<1>1. CASE state[mtx[t]] # {}
  BY <1>1, FailedStep
<1>2. CASE state[mtx[t]] = {}
  <2>1. proto[mtx[t]] = PRIO_INHERIT
    BY DEF IInv, ThreadOK, PiPC
  <2> QED
    BY <1>2, <2>1, AcquireStep, MutexAssumption
<1> QED
  BY <1>1, <1>2

LEMMA Step_lock_pi ==
  ASSUME IInv, TypeOK', NEW t \in Thread, lock_pi(t) PROVE IInv'
<1> USE DEF lock_pi, At, LockPC
<1>0. /\ mtx[t] \in Mutex /\ mtx[t] \in Addr
      /\ proto[mtx[t]] = PRIO_INHERIT /\ PRIO_NONE # PRIO_INHERIT
  BY DEF IInv, TypeOK, ThreadOK, PiPC
<1>1. CASE state[mtx[t]] = {}
  BY <1>0, <1>1, AcquireStep
<1>2. CASE state[mtx[t]] # {}
  <2> USE DEF IInv, TypeOK, Goto, frame, MutexPC, DefaultPC, PiPC, OwnerPC, ThreadOK,
              InSection, Asleep, SetState, FutexWait
  <2>0. /\ state' = [state EXCEPT ![mtx[t]] = @ \cup {FUTEX_WAITERS}]
        /\ waitq' = [waitq EXCEPT ![mtx[t]] = @ \cup {t}]
        /\ pc' = [pc EXCEPT ![t] = "held"]
        /\ UNCHANGED <<holder, frame>>
    BY <1>2
  <2>00. Asleep(t)' /\ \A u \in Thread \ {t} : Asleep(u)' = Asleep(u)
    BY <1>0, <2>0
  <2>01. holder[mtx[t]] # {} /\ FUTEX_WAITERS \notin Thread
    BY <1>0, <1>2 DEF WordOK
  <2>1. ASSUME NEW m \in Mutex PROVE WordOK(m)'
    <3>1. CASE m = mtx[t]
      BY <1>0, <2>0, <2>01, <3>1 DEF WordOK
    <3>2. CASE m # mtx[t]
      BY <1>0, <2>0, <3>2 DEF WordOK
    <3> QED
      BY <3>1, <3>2
  <2>2. \A m \in Mutex : OwnersOK(m)'
    BY <2>0, <2>00 DEF OwnersOK
  <2>3. SleepersOK'
    BY <1>0, <2>0 DEF SleepersOK
  <2>4. \A u \in Thread : ThreadOK(u)'
    BY <2>0, <2>00
  <2>5. ASSUME NEW m \in Mutex, waitq'[m] # {} PROVE Awaited(m)'
    <3>1. CASE m = mtx[t]
      BY <1>0, <2>0, <2>01, <3>1 DEF Awaited, WordOK
    <3>2. CASE m # mtx[t]
      <4>1. Awaited(m)
        BY <1>0, <2>0, <2>5, <3>2 DEF NoLostWakeup
      <4> QED
        BY <1>0, <2>0, <2>00, <3>2, <4>1 DEF Awaited
    <3> QED
      BY <3>1, <3>2
  <2> QED
    BY <2>1, <2>2, <2>3, <2>4, <2>5 DEF NoLostWakeup
<1> QED
  BY <1>1, <1>2

LEMMA Step_unlock_pi ==
  ASSUME IInv, TypeOK', NEW t \in Thread, unlock_pi(t) PROVE IInv'
<1> USE DEF IInv, TypeOK, At, Goto, frame, MutexPC, DefaultPC, PiPC, LockPC, OwnerPC,
            ThreadOK, InSection, Asleep
<1>2. ASSUME NEW m \in Mutex PROVE WordOK(m)'
  BY <1>2 DEF WordOK, OwnersOK, unlock_pi, SetState
<1>3. ASSUME NEW m \in Mutex PROVE OwnersOK(m)'
  <2>1. CASE state[mtx[t]] = {t}
    BY <1>3, <2>1 DEF OwnersOK, unlock_pi
  <2>2. CASE state[mtx[t]] # {t}
    BY <1>3, <2>2, SMTT(30) DEF OwnersOK, unlock_pi
  <2> QED
    BY <2>1, <2>2
<1>4. SleepersOK'
  BY DEF SleepersOK, unlock_pi, SetState
<1>5. ASSUME NEW u \in Thread PROVE ThreadOK(u)'
  BY <1>5 DEF OwnersOK, SleepersOK, unlock_pi, SetState
<1>6. ASSUME NEW m \in Mutex, waitq'[m] # {} PROVE Awaited(m)'
  <2>1. CASE m = mtx[t]
    BY <1>6, <2>1 DEF NoLostWakeup, Awaited, WordOK, unlock_pi, SetState
  <2>2. CASE m # mtx[t]
    <3>1. Awaited(m)
      BY <1>6, <2>2 DEF NoLostWakeup, unlock_pi, SetState
    <3> QED
      BY <1>6, <2>2, <3>1 DEF Awaited, unlock_pi, SetState
  <2> QED
    BY <2>1, <2>2
<1> QED
  BY <1>2, <1>3, <1>4, <1>5, <1>6 DEF NoLostWakeup

LEMMA Step_unlock_kernel ==
  ASSUME IInv, TypeOK', NEW t \in Thread, unlock_kernel(t) PROVE IInv'
<1>0. /\ mtx[t] \in Mutex /\ mtx[t] \in Addr /\ proto[mtx[t]] = PRIO_INHERIT
      /\ PRIO_NONE # PRIO_INHERIT /\ ret[t] = "idle" /\ holder[mtx[t]] = {t}
      /\ FUTEX_WAITERS \notin Thread
  <2>1. pc[t] = "unlock_kernel" /\ ~Asleep(t) /\ mtx[t] \in Mutex /\ mtx[t] \in Addr
    BY MutexAssumption DEF unlock_kernel, At, IInv, TypeOK
  <2>2. ThreadOK(t) /\ OwnersOK(mtx[t])
    BY <2>1 DEF IInv
  <2>3. ret[t] = "idle" /\ proto[mtx[t]] = PRIO_INHERIT /\ InSection(t)
    BY <2>1, <2>2 DEF ThreadOK, InSection, OwnerPC, PiPC, MutexPC, DefaultPC, LockPC
  <2>4. holder[mtx[t]] = {t}
    BY <2>2, <2>3 DEF OwnersOK, ThreadOK
  <2>5. QED
    BY <2>1, <2>3, <2>4, MutexAssumption
<1> USE DEF IInv, TypeOK, At, Goto, frame, MutexPC, DefaultPC, PiPC, LockPC, OwnerPC,
            ThreadOK, InSection, Asleep
<1>1. CASE waitq[mtx[t]] = {}
  <2>0. /\ UNCHANGED <<waitq, frame>> /\ Goto(t, "idle")
        /\ state' = [state EXCEPT ![mtx[t]] = {}]
        /\ holder' = [holder EXCEPT ![mtx[t]] = {}]
    BY <1>0, <1>1 DEF unlock_kernel, SetState, TopWaiter
  <2> USE <1>0, <1>1, <2>0
  <2>1. ASSUME NEW m \in Mutex PROVE WordOK(m)'
    BY <2>1 DEF WordOK
  <2>2. ASSUME NEW m \in Mutex PROVE OwnersOK(m)'
    BY <2>2 DEF OwnersOK
  <2>3. SleepersOK'
    BY DEF SleepersOK, unlock_kernel
  <2>4. \A u \in Thread : ThreadOK(u)'
    OBVIOUS
  <2>5. ASSUME NEW m \in Mutex, waitq'[m] # {} PROVE Awaited(m)'
    BY <2>5 DEF NoLostWakeup, Awaited, unlock_kernel
  <2> QED
    BY <2>1, <2>2, <2>3, <2>4, <2>5 DEF NoLostWakeup
<1>2. CASE waitq[mtx[t]] # {}
  <2>0. PICK w \in TopWaiter(mtx[t]) :
          /\ state' = [state EXCEPT ![mtx[t]] = {w, FUTEX_WAITERS}]
          /\ holder' = [holder EXCEPT ![mtx[t]] = (@ \ {t}) \cup {w}]
          /\ waitq' = [waitq EXCEPT ![mtx[t]] = @ \ {w}]
    BY <1>2 DEF unlock_kernel, SetState
  <2>01. /\ w \in waitq[mtx[t]] /\ w \in Thread /\ w # t
         /\ pc[w] = "held" /\ mtx[w] = mtx[t]
    BY <1>0 DEF TopWaiter, SleepersOK, unlock_kernel
  <2>02. ~Asleep(w)'
    BY <1>0, <2>0, <2>01 DEF SleepersOK
  <2>03. \A u \in Thread \ {w} : Asleep(u)' = Asleep(u)
    BY <1>0, <2>0
  <2>04. UNCHANGED frame /\ pc' = [pc EXCEPT ![t] = "idle"] /\ ~Asleep(t)
    BY <1>0 DEF unlock_kernel
  <2>1. ASSUME NEW m \in Mutex PROVE WordOK(m)'
    <3>1. CASE m = mtx[t]
      BY <1>0, <2>0, <2>01, <2>04, <3>1 DEF WordOK
    <3>2. CASE m # mtx[t]
      BY <1>0, <2>0, <2>04, <3>2 DEF WordOK
    <3> QED
      BY <3>1, <3>2
  <2>2. ASSUME NEW m \in Mutex PROVE OwnersOK(m)'
    <3>1. CASE m = mtx[t]
      BY <1>0, <2>0, <2>01, <2>02, <2>04, <3>1 DEF OwnersOK
    <3>2. CASE m # mtx[t]
      BY <1>0, <2>0, <2>01, <2>03, <2>04, <2>2, <3>2 DEF OwnersOK
    <3> QED
      BY <3>1, <3>2
  <2>3. SleepersOK'
    BY <1>0, <2>0, <2>01, <2>04 DEF SleepersOK
  <2>4. ASSUME NEW u \in Thread PROVE ThreadOK(u)'
    BY <1>0, <2>0, <2>01, <2>02, <2>03, <2>04, <2>4
  <2>5. ASSUME NEW m \in Mutex, waitq'[m] # {} PROVE Awaited(m)'
    <3>1. CASE m = mtx[t]
      BY <1>0, <2>0, <2>01, <2>04, <3>1 DEF Awaited
    <3>2. CASE m # mtx[t]
      <4>1. Awaited(m)
        BY <1>0, <2>0, <2>5, <3>2 DEF NoLostWakeup
      <4> QED
        BY <1>0, <2>0, <2>01, <2>03, <2>04, <3>2, <4>1, SMTT(30) DEF Awaited, unlock_kernel
    <3> QED
      BY <3>1, <3>2
  <2> QED
    BY <2>1, <2>2, <2>3, <2>4, <2>5 DEF NoLostWakeup
<1> QED
  BY <1>1, <1>2


LEMMA Step_Spurious ==
  ASSUME IInv, TypeOK', NEW t \in Thread, Spurious(t) PROVE IInv'
<1> USE DEF IInv, TypeOK, At, Goto, frame, MutexPC, DefaultPC, PiPC, LockPC, OwnerPC,
            ThreadOK, InSection, Asleep
<1>0. PICK a \in Addr :
        /\ a \in Mutex => proto[a] = PRIO_NONE
        /\ t \in waitq[a]
        /\ waitq' = [waitq EXCEPT ![a] = @ \ {t}]
  BY DEF Spurious, FutexSpurious
<1>1. /\ a = mtx[t] /\ pc[t] = "lock_xchg" /\ proto[mtx[t]] = PRIO_NONE
      /\ UNCHANGED <<state, holder, pc, frame>>
  BY <1>0 DEF SleepersOK, Spurious
<1>2. ~Asleep(t)' /\ \A u \in Thread \ {t} : Asleep(u)' = Asleep(u)
  BY <1>0, <1>1 DEF SleepersOK
<1>3. \A m \in Mutex : WordOK(m)' /\ OwnersOK(m)'
  BY <1>1, <1>2, SMTT(30) DEF WordOK, OwnersOK
<1>4. SleepersOK'
  BY <1>0, <1>1 DEF SleepersOK
<1>5. \A u \in Thread : ThreadOK(u)'
  BY <1>1, <1>2
<1>6. ASSUME NEW m \in Mutex, waitq'[m] # {} PROVE Awaited(m)'
  <2>1. CASE m = mtx[t]
    BY <1>1, <1>2, <2>1 DEF Awaited
  <2>2. CASE m # mtx[t]
    <3>1. Awaited(m)
      BY <1>0, <1>1, <1>6, <2>2 DEF NoLostWakeup
    <3> QED
      BY <1>1, <1>2, <2>2, <3>1 DEF Awaited
  <2> QED
    BY <2>1, <2>2
<1> QED
  BY <1>3, <1>4, <1>5, <1>6 DEF NoLostWakeup

(* The calls of the client: nothing that another thread sees changes.      *)
LEMMA Step_client ==
  ASSUME IInv, TypeOK', NEW t \in Thread, Lock(t) \/ TryLock(t) \/ Unlock(t) PROVE IInv'
<1> USE DEF IInv, TypeOK, At, Goto, frame, MutexPC, DefaultPC, PiPC, LockPC, OwnerPC,
            ThreadOK, InSection, Asleep
<1> USE DEF Lock, TryLock, Unlock, mutex_lock, mutex_trylock, mutex_unlock, Call,
            TryEntry, clientFrame
<1>0. PICK m \in Mutex, l \in MutexPC, r \in {"idle", "held"} :
        /\ pc' = [pc EXCEPT ![t] = l]
        /\ mtx' = [mtx EXCEPT ![t] = m]
        /\ ret' = [ret EXCEPT ![t] = r]
        /\ UNCHANGED <<waitq, state, proto, holder>>
        /\ ~Asleep(t)
        /\ \/ /\ pc[t] = "idle" /\ r = "held"
              /\ l = IF proto[m] = PRIO_NONE THEN "trylock_load" ELSE "trylock_pi"
           \/ /\ pc[t] = "held" /\ m = mtx[t] /\ r = "idle"
              /\ l = IF proto[m] = PRIO_NONE THEN "unlock_xchg" ELSE "unlock_pi"
  <2>1. CASE Lock(t)
    <3>1. PICK m \in Mutex : mutex_lock(t, m, "held")
      BY <2>1
    <3>2. /\ pc' = [pc EXCEPT ![t] = TryEntry(m)] /\ mtx' = [mtx EXCEPT ![t] = m]
          /\ ret' = [ret EXCEPT ![t] = "held"]
      BY <3>1
    <3> QED
      BY <2>1, <3>2
  <2>2. CASE TryLock(t)
    <3>1. PICK m \in Mutex : mutex_trylock(t, m, "held", "idle")
      BY <2>2
    <3>2. /\ pc' = [pc EXCEPT ![t] = TryEntry(m)] /\ mtx' = [mtx EXCEPT ![t] = m]
          /\ ret' = [ret EXCEPT ![t] = "held"]
      BY <3>1
    <3> QED
      BY <2>2, <3>2
  <2>3. CASE Unlock(t)
    BY <2>3
  <2> QED
    BY <2>1, <2>2, <2>3
<1>1. \A k \in Mutex : WordOK(k)'
  BY <1>0 DEF WordOK
<1>2. \A k \in Mutex : OwnersOK(k)'
  BY <1>0 DEF OwnersOK
<1>3. SleepersOK'
  BY <1>0 DEF SleepersOK
<1>4. \A u \in Thread : ThreadOK(u)'
  BY <1>0
<1>5. ASSUME NEW k \in Mutex, waitq'[k] # {} PROVE Awaited(k)'
  BY <1>0, <1>5 DEF Awaited, NoLostWakeup
<1> QED
  BY <1>1, <1>2, <1>3, <1>4, <1>5 DEF NoLostWakeup

LEMMA InitIInv == Init => IInv
<1> SUFFICES ASSUME Init PROVE IInv
  OBVIOUS
<1> USE DEF Init, FutexInit, MutexInit
<1>1. TypeOK
  BY DEF TypeOK, MutexPC, DefaultPC, PiPC, ClientPC
<1>2. \A m \in Mutex : WordOK(m) /\ OwnersOK(m)
  BY DEF WordOK, OwnersOK
<1>3. SleepersOK /\ NoLostWakeup
  BY DEF SleepersOK, NoLostWakeup
<1>4. \A t \in Thread : ThreadOK(t)
  BY DEF ThreadOK, InSection, OwnerPC, MutexPC, DefaultPC, PiPC, LockPC
<1> QED
  BY <1>1, <1>2, <1>3, <1>4 DEF IInv

LEMMA NextIInv == IInv /\ [Next]_vars => IInv'
<1> SUFFICES ASSUME IInv, [Next]_vars PROVE IInv'
  OBVIOUS
<1>0. TypeOK'
  BY TypeStep DEF IInv
<1>1. ASSUME NEW t \in Thread, ThreadStep(t) PROVE IInv'
  BY <1>0, <1>1, Step_client, Step_trylock_load, Step_trylock_or, Step_lock_xchg,
     Step_lock_wait, Step_unlock_xchg, Step_unlock_wake, Step_trylock_pi, Step_lock_pi,
     Step_unlock_pi, Step_unlock_kernel DEF ThreadStep, MutexStep
<1>2. ASSUME NEW t \in Thread, Spurious(t) PROVE IInv'
  BY <1>0, <1>2, Step_Spurious
<1>3. CASE UNCHANGED vars
  BY <1>3 DEF vars, mutexVars, IInv, TypeOK, WordOK, OwnersOK, SleepersOK, ThreadOK,
              NoLostWakeup, Awaited, InSection, Asleep
<1> QED
  BY <1>1, <1>2, <1>3 DEF Next, Terminating

(* The invariant holds of every reachable state.                           *)
THEOREM Invariance == Spec => []IInv
BY InitIInv, NextIInv, PTL DEF Spec

(* Every variable keeps the type of its C counterpart.                     *)
THEOREM TypeCorrect == Spec => []TypeOK
BY Invariance, PTL DEF IInv

(* Two threads are never in the critical section of one mutex.             *)
THEOREM Exclusion == Spec => []MutualExclusion
<1>1. IInv => MutualExclusion
  BY DEF IInv, TypeOK, ThreadOK, OwnersOK, MutualExclusion
<1> QED
  BY Invariance, <1>1, PTL

(* A sleeper is always known to the word, or to a thread about to act.     *)
THEOREM WakeupsKept == Spec => []NoLostWakeup
BY Invariance, PTL DEF IInv

(***************************************************************************)
(* A PI mutex goes to a thread only when no thread of a higher priority    *)
(* sleeps on it: the user-space paths find the word 0 and so, by the       *)
(* invariant, the queue empty; the kernel chooses a top waiter.            *)
(***************************************************************************)
THEOREM PriorityOrder == Spec => NoPriorityBypass
<1>1. ASSUME IInv, Next, NEW m \in Mutex, proto[m] = PRIO_INHERIT,
             NEW t \in holder'[m] \ holder[m], NEW w \in waitq'[m]
      PROVE  Prio[w] <= Prio[t]
  <2> USE DEF IInv, TypeOK, frame
  <2>1. PICK u \in Thread : ThreadStep(u) \/ Spurious(u)
    BY <1>1 DEF Next, Terminating, vars, mutexVars
  <2>2. ~(Lock(u) \/ TryLock(u) \/ Unlock(u) \/ Spurious(u))
    BY <1>1 DEF Lock, TryLock, Unlock, clientFrame, Spurious
  <2>3. MutexStep(u)
    BY <2>1, <2>2 DEF ThreadStep
  <2>4. ~(trylock_load(u) \/ lock_wait(u) \/ unlock_wake(u))
    BY <1>1 DEF trylock_load, lock_wait, unlock_wake
  <2>5. ~(unlock_xchg(u) \/ unlock_pi(u))
    BY <1>1 DEF unlock_xchg, unlock_pi
  <2>6. ~(trylock_or(u) \/ lock_xchg(u))
    <3>1. (trylock_or(u) \/ lock_xchg(u)) => proto[mtx[u]] = PRIO_NONE
      BY <1>1 DEF ThreadOK, DefaultPC, trylock_or, lock_xchg, At
    <3>2. (trylock_or(u) \/ lock_xchg(u)) => holder'[m] = holder[m] \/ m = mtx[u]
      BY <1>1 DEF trylock_or, lock_xchg, Acquired
    <3> QED
      BY <1>1, <3>1, <3>2, MutexAssumption
  <2>7. CASE trylock_pi(u) \/ lock_pi(u)
    <3>1. state[m] = {} /\ waitq'[m] = waitq[m]
      BY <1>1, <2>7 DEF trylock_pi, lock_pi, Acquired
    <3>2. waitq[m] = {}
      BY <1>1, <3>1, MutexAssumption DEF NoLostWakeup, Awaited
    <3> QED
      BY <1>1, <3>1, <3>2
  <2>8. CASE unlock_kernel(u)
    <3>1. PICK v \in TopWaiter(mtx[u]) :
            /\ holder' = [holder EXCEPT ![mtx[u]] = (@ \ {u}) \cup {v}]
            /\ waitq' = [waitq EXCEPT ![mtx[u]] = @ \ {v}]
      BY <1>1, <2>8 DEF unlock_kernel
    <3>2. m = mtx[u] /\ t = v
      BY <1>1, <3>1
    <3>3. w \in waitq[m]
      BY <1>1, <3>1, <3>2, MutexAssumption
    <3> QED
      BY <3>2, <3>3 DEF TopWaiter
  <2> QED
    BY <2>3, <2>4, <2>5, <2>6, <2>7, <2>8 DEF MutexStep
<1>2. IInv /\ Next => \A m \in Mutex : InPriorityOrder(m)
  BY <1>1 DEF InPriorityOrder
<1>3. IInv /\ [Next]_vars => [\A m \in Mutex : InPriorityOrder(m)]_vars
  BY <1>2
<1> QED
  BY Invariance, <1>3, PTL DEF Spec, NoPriorityBypass

-----------------------------------------------------------------------------
(* The mutex implements the abstract Lock.                                 *)

wants == [t \in Thread |-> Wants(t)]

(* A step in which no thread but t changes what it asks for.               *)
LEMMA WantsOf ==
  ASSUME NEW t \in Thread, \A u \in Thread \ {t} : Wants(u)' = Wants(u)
  PROVE  wants' = [wants EXCEPT ![t] = Wants(t)']
BY DEF wants

(* The steps that leave every queue alone and move one thread only.        *)
LEMMA OthersWant ==
  ASSUME TypeOK, NEW t \in Thread, UNCHANGED waitq,
         \A u \in Thread \ {t} : pc'[u] = pc[u] /\ mtx'[u] = mtx[u]
  PROVE  wants' = [wants EXCEPT ![t] = Wants(t)']
<1>1. \A u \in Thread \ {t} : Wants(u)' = Wants(u)
  BY DEF Wants, Asleep
<1> QED
  BY <1>1, WantsOf

LEMMA LockNext ==
  ASSUME NEW t \in Thread, NEW m \in Mutex,
         \/ L!Request(t, m) \/ L!Refuse(t, m) \/ L!Acquire(t, m)
         \/ L!Release(t, m) \/ L!HandOver(t, m)
  PROVE  L!Next
BY DEF L!Next

(* The calls: a lock call asks, an unlock call does nothing yet.           *)
LEMMA ClientRefines ==
  ASSUME IInv, NEW t \in Thread, Lock(t) \/ TryLock(t) \/ Unlock(t)
  PROVE  L!Next \/ UNCHANGED <<holder, wants>>
<1> USE DEF IInv, TypeOK, At, Goto
<1>0. ~Asleep(t) /\ UNCHANGED <<waitq, holder>>
  BY DEF Lock, TryLock, Unlock, clientFrame
<1>1. ~Asleep(t)'
  BY <1>0 DEF Asleep
<1>2. CASE Lock(t) \/ TryLock(t)
  <2>1. PICK m \in Mutex :
          /\ pc' = [pc EXCEPT ![t] = TryEntry(m)]
          /\ mtx' = [mtx EXCEPT ![t] = m]
    BY <1>2 DEF Lock, TryLock, mutex_lock, mutex_trylock, Call
  <2>2. wants' = [wants EXCEPT ![t] = Wants(t)']
    BY <1>0, <2>1, OthersWant
  <2>3. wants[t] = {} /\ Wants(t)' = {m}
    BY <1>0, <1>2, <1>1, <2>1 DEF wants, Wants, LockPC, Lock, TryLock, TryEntry
  <2>4. t \notin holder[m]
    BY <1>2 DEF OwnersOK, InSection, OwnerPC, Lock, TryLock
  <2>5. L!Request(t, m)
    BY <1>0, <2>2, <2>3, <2>4 DEF L!Request, wants
  <2> QED
    BY <2>5, LockNext
<1>3. CASE Unlock(t)
  <2>1. UNCHANGED mtx /\ \E l \in {"unlock_xchg", "unlock_pi"} : pc' = [pc EXCEPT ![t] = l]
    BY <1>3 DEF Unlock, mutex_unlock, Call
  <2>2. wants' = [wants EXCEPT ![t] = Wants(t)']
    BY <1>0, <2>1, OthersWant
  <2>3. Wants(t)' = Wants(t)
    BY <1>0, <1>1, <1>3, <2>1 DEF Wants, LockPC, Unlock
  <2> QED
    BY <1>0, <2>2, <2>3 DEF wants
<1> QED
  BY <1>2, <1>3

(* A step on the lock path that takes nothing: it goes on, or is refused.  *)
LEMMA PathRefines ==
  ASSUME IInv, NEW t \in Thread, ~Asleep(t), pc[t] \in LockPC,
         NEW l \in LockPC \cup {"idle"}, Goto(t, l), UNCHANGED <<waitq, mtx, holder>>
  PROVE  L!Next \/ UNCHANGED <<holder, wants>>
<1> USE DEF IInv, TypeOK, Goto
<1>1. ~Asleep(t)' /\ mtx[t] \in Mutex
  BY DEF Asleep
<1>2. wants' = [wants EXCEPT ![t] = Wants(t)'] /\ wants[t] = {mtx[t]}
  BY OthersWant DEF wants, Wants
<1>3. CASE l \in LockPC
  BY <1>1, <1>2, <1>3 DEF wants, Wants
<1>4. CASE l = "idle"
  <2>1. t \notin holder[mtx[t]] /\ Wants(t)' = {}
    BY <1>1, <1>4 DEF OwnersOK, InSection, OwnerPC, LockPC, Wants
  <2>2. L!Refuse(t, mtx[t])
    BY <1>1, <1>2, <2>1 DEF L!Refuse, wants
  <2> QED
    BY <1>1, <2>2, LockNext
<1> QED
  BY <1>3, <1>4

LEMMA FailedRefines ==
  ASSUME IInv, NEW t \in Thread, ~Asleep(t), pc[t] \in LockPC, TryFailed(t),
         UNCHANGED <<waitq, mtx, holder>>
  PROVE  L!Next \/ UNCHANGED <<holder, wants>>
<1>1. PICK l \in {"idle", TryEntry(mtx[t]),
                  IF proto[mtx[t]] = PRIO_NONE THEN "lock_xchg" ELSE "lock_pi"} :
        Goto(t, l)
  BY TryFailedGoes DEF IInv
<1>2. l \in LockPC \cup {"idle"}
  BY DEF LockPC, TryEntry
<1> QED
  BY <1>1, <1>2, PathRefines

(* A step by which an awake thread becomes the owner.                      *)
LEMMA AcquireRefines ==
  ASSUME IInv, NEW t \in Thread, ~Asleep(t), pc[t] \in LockPC, Acquired(t),
         holder[mtx[t]] = {}, UNCHANGED <<waitq, mtx>>
  PROVE  L!Next
<1> USE DEF IInv, TypeOK, Goto, Acquired
<1>1. ~Asleep(t)' /\ mtx[t] \in Mutex /\ ret[t] = "held"
  BY DEF Asleep, ThreadOK
<1>2. wants' = [wants EXCEPT ![t] = Wants(t)'] /\ wants[t] = {mtx[t]}
  BY OthersWant DEF wants, Wants
<1>3. Wants(t)' = {}
  BY <1>1 DEF Wants, LockPC
<1>4. L!Acquire(t, mtx[t])
  BY <1>1, <1>2, <1>3 DEF L!Acquire, wants
<1> QED
  BY <1>1, <1>4, LockNext

(* A step by which the only owner gives its mutex up.                      *)
LEMMA ReleaseRefines ==
  ASSUME IInv, NEW t \in Thread, ~Asleep(t), pc[t] \in OwnerPC \ {"held"},
         NEW l \in {"unlock_wake", "unlock_kernel", ret[t]}, Goto(t, l),
         holder' = [holder EXCEPT ![mtx[t]] = @ \ {t}], UNCHANGED <<waitq, mtx>>
  PROVE  L!Next
<1> USE DEF IInv, TypeOK, Goto
<1>1. /\ ~Asleep(t)' /\ mtx[t] \in Mutex /\ ret[t] = "idle" /\ holder[mtx[t]] = {t}
  BY SMTT(30) DEF Asleep, ThreadOK, OwnersOK, InSection, OwnerPC, MutexPC, DefaultPC, PiPC, LockPC
<1>2. wants' = [wants EXCEPT ![t] = Wants(t)'] /\ wants[t] = {}
  BY OthersWant DEF wants, Wants, OwnerPC, LockPC
<1>3. Wants(t)' = {}
  BY <1>1 DEF Wants, LockPC
<1>4. wants' = wants /\ holder' = [holder EXCEPT ![mtx[t]] = {}]
  <2>1. holder[mtx[t]] \ {t} = {}
    BY <1>1
  <2>2. wants' = [wants EXCEPT ![t] = wants[t]]
    BY <1>2, <1>3
  <2>3. [wants EXCEPT ![t] = wants[t]] = wants
    BY DEF wants
  <2> QED
    BY <2>1, <2>2, <2>3
<1>5. L!Release(t, mtx[t])
  BY <1>1, <1>4 DEF L!Release, wants
<1> QED
  BY <1>1, <1>5, LockNext

LEMMA KernelRefines ==
  ASSUME IInv, NEW t \in Thread, unlock_kernel(t) PROVE L!Next
<1> USE DEF IInv, TypeOK, At, Goto, frame
<1>0. /\ mtx[t] \in Mutex /\ mtx[t] \in Addr /\ proto[mtx[t]] # PRIO_NONE
      /\ ret[t] = "idle" /\ holder[mtx[t]] = {t} /\ ~Asleep(t)
  BY MutexAssumption DEF unlock_kernel, OwnersOK, InSection, OwnerPC, ThreadOK, PiPC, MutexPC,
      DefaultPC, LockPC
<1>1. CASE waitq[mtx[t]] = {}
  BY <1>0, <1>1, ReleaseRefines DEF unlock_kernel, TopWaiter, OwnerPC
<1>2. CASE waitq[mtx[t]] # {}
  <2>0. PICK w \in TopWaiter(mtx[t]) :
          /\ holder' = [holder EXCEPT ![mtx[t]] = (@ \ {t}) \cup {w}]
          /\ waitq' = [waitq EXCEPT ![mtx[t]] = @ \ {w}]
    BY <1>2 DEF unlock_kernel
  <2>1. /\ w \in waitq[mtx[t]] /\ w \in Thread /\ w # t
        /\ pc[w] = "held" /\ mtx[w] = mtx[t]
    BY <1>0 DEF TopWaiter, SleepersOK, Asleep
  <2>2. ~Asleep(w)' /\ Asleep(w) /\ \A u \in Thread \ {w} : Asleep(u)' = Asleep(u)
    BY <1>0, <2>0, <2>1 DEF SleepersOK, Asleep
  <2>3. pc' = [pc EXCEPT ![t] = "idle"] /\ pc[t] = "unlock_kernel" /\ UNCHANGED mtx
    BY <1>0 DEF unlock_kernel
  <2>4. \A u \in Thread \ {w} : Wants(u)' = Wants(u)
    BY <1>0, <2>2, <2>3 DEF Wants, LockPC
  <2>5. Wants(w) = {mtx[t]} /\ Wants(w)' = {}
    BY <2>1, <2>2, <2>3 DEF Wants, LockPC
  <2>6. wants' = [wants EXCEPT ![w] = {}] /\ wants[w] = {mtx[t]}
    BY <2>1, <2>4, <2>5, WantsOf DEF wants
  <2>7. L!HandOver(w, mtx[t])
    <3>1. holder' = [holder EXCEPT ![mtx[t]] = {w}]
      <4>1. (holder[mtx[t]] \ {t}) \cup {w} = {w}
        BY <1>0
      <4>2. QED
        BY <2>0, <4>1
    <3>2. \E s \in Thread : s # w /\ holder[mtx[t]] = {s}
      BY <1>0, <2>1
    <3>3. QED
      BY <2>6, <3>1, <3>2 DEF L!HandOver, wants
  <2> QED
    BY <1>0, <2>1, <2>7, LockNext
<1> QED
  BY <1>1, <1>2

LEMMA StepRefines ==
  ASSUME IInv, NEW t \in Thread, MutexStep(t)
  PROVE  L!Next \/ UNCHANGED <<holder, wants>>
<1> USE DEF At, frame
<1>0. /\ mtx[t] \in Mutex /\ mtx[t] \in Addr /\ WordOK(mtx[t]) /\ ThreadOK(t)
      /\ PRIO_NONE # PRIO_INHERIT
  BY MutexAssumption DEF IInv, TypeOK
<1>1. CASE trylock_load(t)
  BY <1>1, FailedRefines, PathRefines DEF trylock_load, LockPC
<1>2. CASE trylock_or(t)
  <2>1. MUTEX_LOCKED \notin state[mtx[t]] => holder[mtx[t]] = {}
    BY <1>0, <1>2 DEF trylock_or, ThreadOK, DefaultPC, WordOK
  <2> QED
    BY <1>2, <2>1, FailedRefines, AcquireRefines DEF trylock_or, LockPC
<1>3. CASE lock_xchg(t)
  <2>1. MUTEX_LOCKED \notin state[mtx[t]] => holder[mtx[t]] = {}
    BY <1>0, <1>3 DEF lock_xchg, ThreadOK, DefaultPC, WordOK
  <2> QED
    BY <1>3, <2>1, PathRefines, AcquireRefines DEF lock_xchg, LockPC
<1>4. CASE lock_wait(t)
  <2>1. \A u \in Thread : Wants(u)' = Wants(u)
    BY <1>0, <1>4 DEF lock_wait, FutexWait, Wants, LockPC, Asleep, Goto, IInv, TypeOK
  <2> QED
    BY <1>4, <2>1 DEF wants, lock_wait
<1>5. CASE unlock_xchg(t)
  BY <1>5, ReleaseRefines DEF unlock_xchg, OwnerPC
<1>6. CASE unlock_wake(t)
  <2>1. \A u \in waitq[mtx[t]] : pc[u] = "lock_xchg"
    BY <1>0, <1>6 DEF unlock_wake, IInv, TypeOK, SleepersOK, ThreadOK, DefaultPC
  <2>2. ret[t] = "idle"
    BY <1>0, <1>6 DEF unlock_wake, ThreadOK, MutexPC, DefaultPC, LockPC
  <2>3. \A u \in Thread : pc'[u] \in LockPC \/ waitq' = waitq \/ Asleep(u)' = Asleep(u)
    BY <1>0, <1>6, <2>1 DEF unlock_wake, FutexWake, Asleep, Goto, IInv, TypeOK, LockPC
  <2>4. \A u \in Thread : Wants(u)' = Wants(u)
    BY <1>0, <1>6, <2>1, <2>2, <2>3
    DEF unlock_wake, Wants, LockPC, Asleep, Goto, IInv, TypeOK, SleepersOK
  <2> QED
    BY <1>6, <2>4 DEF wants, unlock_wake
<1>7. CASE trylock_pi(t)
  <2>1. state[mtx[t]] = {} => holder[mtx[t]] = {}
    BY <1>0, <1>7 DEF trylock_pi, ThreadOK, PiPC, WordOK
  <2> QED
    BY <1>7, <2>1, FailedRefines, AcquireRefines DEF trylock_pi, LockPC
<1>8. CASE lock_pi(t)
  <2>1. state[mtx[t]] = {} => holder[mtx[t]] = {}
    BY <1>0, <1>8 DEF lock_pi, ThreadOK, PiPC, WordOK
  <2>2. CASE state[mtx[t]] = {}
    BY <1>8, <2>1, <2>2, AcquireRefines DEF lock_pi, LockPC
  <2>3. CASE state[mtx[t]] # {}
    <3>1. \A u \in Thread : Wants(u)' = Wants(u)
      BY <1>0, <1>8, <2>3 DEF lock_pi, FutexWait, Wants, LockPC, Asleep, Goto, IInv, TypeOK
    <3> QED
      BY <1>8, <2>3, <3>1 DEF wants, lock_pi
  <2> QED
    BY <2>2, <2>3
<1>9. CASE unlock_pi(t)
  <2>1. CASE state[mtx[t]] = {t}
    BY <1>9, <2>1, ReleaseRefines DEF unlock_pi, OwnerPC
  <2>2. CASE state[mtx[t]] # {t}
    <3>1. \A u \in Thread : Wants(u)' = Wants(u)
      BY <1>0, <1>9, <2>2 DEF unlock_pi, Wants, LockPC, Asleep, Goto, IInv, TypeOK
    <3> QED
      BY <1>9, <2>2, <3>1 DEF wants, unlock_pi
  <2> QED
    BY <2>1, <2>2
<1>10. CASE unlock_kernel(t)
  BY <1>10, KernelRefines
<1> QED
  BY <1>1, <1>2, <1>3, <1>4, <1>5, <1>6, <1>7, <1>8, <1>9, <1>10 DEF MutexStep

(* The mutex of hw2/mutex.h, in both protocols, implements the lock.       *)
THEOREM LockRefinement == Spec => ImplementsLock
<1>1. Init => L!Init
  BY DEF Init, L!Init, MutexInit, FutexInit, Wants, Asleep, LockPC
<1>2. ASSUME IInv, [Next]_vars PROVE L!Next \/ UNCHANGED <<holder, wants>>
  <2>1. ASSUME NEW t \in Thread, Spurious(t) PROVE UNCHANGED <<holder, wants>>
    <3>1. \A u \in Thread : Wants(u)' = Wants(u)
      BY <1>2, <2>1 DEF Spurious, FutexSpurious, Wants, LockPC, Asleep, frame, IInv, TypeOK,
          SleepersOK
    <3> QED
      BY <2>1, <3>1 DEF wants, Spurious
  <2>2. CASE UNCHANGED vars
    BY <2>2 DEF vars, mutexVars, wants, Wants, Asleep
  <2> QED
    BY <1>2, <2>1, <2>2, ClientRefines, StepRefines DEF Next, ThreadStep, Terminating
<1>3. IInv /\ [Next]_vars => [L!Next]_(L!lockVars)
  BY <1>2 DEF L!lockVars, wants
<1> QED
  BY Invariance, <1>1, <1>3, PTL DEF Spec, ImplementsLock, L!Spec
=============================================================================
