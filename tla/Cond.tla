-------------------------------- MODULE Cond --------------------------------
(***************************************************************************)
(* The condition variable of hw2/cond.h: a sequence number that signal and *)
(* broadcast increment, and on which cond_wait sleeps.  cond_broadcast     *)
(* wakes one waiter and requeues the others on the mutex, whose word does  *)
(* not know of them; the wakee's fetch_or (AAAA) tells it.                 *)
(*                                                                         *)
(* An operator named after a function is the call, up to and with its      *)
(* first atomic access; the later accesses are actions.  The mutex is a    *)
(* default one: fetch_or would damage the owner's tid in a PI word, and no *)
(* program of the repository pairs the two.                                *)
(***************************************************************************)
EXTENDS Mutex

CONSTANTS Cond,        \* the condition variables: each is a futex word
          NoCond,
          COND_SPINS,  \* looks at seq before the system call
          SEQ_MOD      \* bound: seq is counted modulo this, 2^32 in the code

ASSUME CondAssumption ==
  /\ Cond \subseteq Addr \ Mutex /\ NoCond \notin Cond
  /\ COND_SPINS \in Nat \ {0}
  /\ SEQ_MOD \in Nat \ {0, 1}

VARIABLES
  cseq,   \* cseq[c]: cond->seq
  cnd,    \* cnd[t]: the condition variable of t's current call, or NoCond
  seq,    \* seq[t]: the local seq of cond_wait; 0 when it is dead
  cret    \* cret[t]: where that call returns to, or "none"

condVars == <<cseq, cnd, seq, cret>>

CondPC == {"cond_spin", "cond_sleep", "cond_or", "signal_wake", "bcast_requeue"}

CondInit == cseq = [c \in Cond |-> 0]

(* Mutant: the waiters are woken, but the number stays what it was.        *)
Bump_missing(c) == UNCHANGED cseq

Bump(c) == cseq' = [cseq EXCEPT ![c] = (@ + 1) % SEQ_MOD]

CondCall(t, c, r) ==
  /\ cnd' = [cnd EXCEPT ![t] = c]
  /\ cret' = [cret EXCEPT ![t] = r]

(* The call returns, or is left to a last mutex_lock.                      *)
CondDone(t) ==
  /\ cnd' = [cnd EXCEPT ![t] = NoCond]
  /\ cret' = [cret EXCEPT ![t] = "none"]

(* The caller holds m: loads seq, and calls mutex_unlock.                  *)
cond_wait(t, c, m, r) ==
  /\ CondCall(t, c, r)
  /\ seq' = [seq EXCEPT ![t] = cseq[c]]
  /\ mutex_unlock(t, m, "cond_spin")
  /\ UNCHANGED <<waitq, state, proto, holder, spin, cseq>>

(* One look at seq; when it moved, cond_wait locks the mutex and returns.  *)
cond_spin(t) ==
  /\ At(t, "cond_spin")
  /\ \/ /\ cseq[cnd[t]] # seq[t]
        /\ mutex_lock(t, mtx[t], cret[t])
        /\ CondDone(t)
        /\ seq' = [seq EXCEPT ![t] = 0]
        /\ spin' = [spin EXCEPT ![t] = 0]
     \/ /\ cseq[cnd[t]] = seq[t]
        /\ spin[t] + 1 < COND_SPINS
        /\ spin' = [spin EXCEPT ![t] = @ + 1]
        /\ UNCHANGED <<pc, mtx, ret, fail, seq, cnd, cret>>
     \/ /\ cseq[cnd[t]] = seq[t]
        /\ spin[t] + 1 >= COND_SPINS
        /\ spin' = [spin EXCEPT ![t] = 0]
        /\ Goto(t, "cond_sleep")
        /\ UNCHANGED <<mtx, ret, fail, seq, cnd, cret>>
  /\ UNCHANGED <<waitq, state, proto, holder, cseq>>

(* futex_wait(&cond->seq, seq), after which the mutex is locked.           *)
cond_sleep(t) ==
  /\ At(t, "cond_sleep")
  /\ FutexWait(t, cnd[t], cseq[cnd[t]] = seq[t])
  /\ mutex_lock(t, mtx[t], "cond_or")
  /\ seq' = [seq EXCEPT ![t] = 0]
  /\ UNCHANGED <<state, proto, holder, spin, cseq, cnd, cret>>

(* Mutant: without AAAA the requeued waiters are forgotten.                *)
cond_or_missing(t) ==
  /\ At(t, "cond_or")
  /\ Goto(t, cret[t])
  /\ CondDone(t)
  /\ UNCHANGED <<waitq, state, holder, spin, frame, cseq, seq>>

(* AAAA: the mutex word learns of the waiters that were requeued.          *)
cond_or(t) ==
  /\ At(t, "cond_or")
  /\ SetState(mtx[t], state[mtx[t]] \cup {MUTEX_SLEEPING})
  /\ Goto(t, cret[t])
  /\ CondDone(t)
  /\ UNCHANGED <<waitq, holder, spin, frame, cseq, seq>>

(* BBBB, then EEEE.                                                        *)
cond_signal(t, c, r) ==
  /\ CondCall(t, c, r)
  /\ Bump(c)
  /\ Goto(t, "signal_wake")
  /\ UNCHANGED <<waitq, state, holder, spin, seq, frame>>

signal_wake(t) ==
  /\ At(t, "signal_wake")
  /\ FutexWake(cnd[t])
  /\ Goto(t, cret[t])
  /\ CondDone(t)
  /\ UNCHANGED <<state, holder, spin, frame, cseq, seq>>

(* CCCC, then DDDD.                                                        *)
cond_broadcast(t, c, m, r) ==
  /\ CondCall(t, c, r)
  /\ Bump(c)
  /\ mtx' = [mtx EXCEPT ![t] = m]
  /\ Goto(t, "bcast_requeue")
  /\ UNCHANGED <<waitq, state, proto, holder, ret, fail, spin, seq>>

bcast_requeue(t) ==
  /\ At(t, "bcast_requeue")
  /\ FutexRequeue(cnd[t], mtx[t])
  /\ Goto(t, cret[t])
  /\ CondDone(t)
  /\ UNCHANGED <<state, holder, spin, frame, cseq, seq>>

CondStep(t) ==
  \/ cond_spin(t) \/ cond_sleep(t) \/ cond_or(t)
  \/ signal_wake(t) \/ bcast_requeue(t)
  \/ MutexStep(t) /\ UNCHANGED condVars
=============================================================================
