-------------------------- MODULE ClockGraphProofs --------------------------
(***************************************************************************)
(* Proofs about ClockGraph, for any number of nodes, any number of spins   *)
(* and of spurious returns: what is done under a mutex is done by one      *)
(* thread at a time, no requeued waiter is lost, no signal is missed       *)
(* unless seq wraps around, and the program implements Graph.              *)
(***************************************************************************)
EXTENDS ClockGraph, WellFoundedInduction, TLAPS

(* A number below the modulus is its own remainder.                        *)
LEMMA Remainder ==
  ASSUME NEW m \in Nat, NEW n \in Nat, n < m
  PROVE  n % m = n
OBVIOUS

PC == DefaultPC \cup CondPC \cup ProgramPC
LockPC == {"trylock_load", "trylock_or", "lock_xchg", "lock_wait"}
UnlockPC == {"unlock_xchg", "unlock_wake"}

WordTypes ==
  /\ waitq \in [Addr -> SUBSET Thread]
  /\ state \in [Mutex -> SUBSET {MUTEX_LOCKED, MUTEX_SLEEPING}]
  /\ proto \in [Mutex -> {PRIO_NONE}] /\ holder \in [Mutex -> SUBSET Thread]
  /\ spin \in [Thread -> Nat]

CallTypes ==
  /\ pc \in [Thread -> PC] /\ ret \in [Thread -> PC]
  /\ mtx \in [Thread -> Mutex] /\ fail \in [Thread -> {"spin"}]

CondTypes ==
  /\ cseq \in [Cond -> Nat] /\ seq \in [Thread -> Nat]
  /\ cnd \in [Thread -> Cond \cup {NoCond}] /\ cret \in [Thread -> PC \cup {"none"}]

GraphTypes ==
  /\ ticks \in Int /\ want \in [Thread -> Int] /\ go \in [Thread -> BOOLEAN]
  /\ ready \in [Node -> BOOLEAN] /\ bit \in [Node -> BOOLEAN]

(* Label l is a place of thread t under mutex m.                           *)
Guards(t, l, m) ==
  \/ l \in {"cw_check", "ct_tick"} /\ m = MutexOf[Clock]
  \/ l = "cs_stop" /\ t = Main /\ m = MutexOf[Clock]
  \/ l = "nw_check" /\ t \in Node \ {0} /\ m = MutexOf[t - 1]
  \/ l = "ns_set" /\ t \in Node /\ m = MutexOf[t]

(* t is in cond_wait: for a tick or for its parent.                        *)
Waits(t) ==
  \/ cret[t] = "cw_check" /\ cnd[t] = CondOf[Clock] /\ mtx[t] = MutexOf[Clock]
  \/ /\ cret[t] = "nw_check" /\ t \in Node \ {0}
     /\ cnd[t] = CondOf[t - 1] /\ mtx[t] = MutexOf[t - 1]

(* Calls are made by the thread, and with the arguments, that the program  *)
(* has there.                                                              *)
ThreadOK(t) ==
  /\ pc[t] \in LockPC => Guards(t, ret[t], mtx[t]) \/ (ret[t] = "cond_or" /\ Waits(t))
  /\ pc[t] \in {"cw_check", "ct_tick", "cs_stop", "nw_check", "ns_set"} => Guards(t, pc[t], mtx[t])
  /\ pc[t] \in {"cond_spin", "cond_sleep", "cond_or"} => Waits(t)
  /\ pc[t] \in UnlockPC => \/ ret[t] = "cond_spin" /\ Waits(t)
                           \/ ret[t] = "ct_bcast"
                           \/ ret[t] \in {"m_stop", "cs_bcast"} /\ t = Main
                           \/ ret[t] \in {"cw_ret", "act", "ns_signal"} /\ t \in Node
  /\ pc[t] = "signal_wake" => /\ t \in Node /\ cnd[t] = CondOf[t]
                              /\ cret[t] \in {"next", "done"}
  /\ pc[t] = "bcast_requeue" =>
       /\ cnd[t] = CondOf[Clock] /\ mtx[t] = MutexOf[Clock]
       /\ IF t = Main THEN cret[t] \in {"clock_wait", "m_join"} ELSE cret[t] = "next"
  /\ pc[t] \in {"cw_ret", "act", "ns_signal", "next"} => t \in Node
  /\ pc[t] \in {"m_tick", "m_stop", "cs_bcast", "m_join"} => t = Main

(* Who owns a mutex: the owners' word says so, and there is one.           *)
HoldPC == {"cw_check", "ct_tick", "cs_stop", "nw_check", "ns_set", "cond_or", "unlock_xchg"}
Holds(t, m) == mtx[t] = m /\ pc[t] \in HoldPC

Owners == \A m \in Mutex : \A t \in Thread : t \in holder[m] <=> Holds(t, m)

Words ==
  \A m \in Mutex : /\ MUTEX_LOCKED \in state[m] <=> holder[m] # {}
                   /\ \A s, t \in holder[m] : s = t

(* A thread sleeps on one queue: of the mutex it locks, or of the condition *)
(* variable it waits on.  A requeued one resumes where it locks the mutex. *)
Requeued(t) == pc[t] = "trylock_load" /\ ret[t] = "cond_or"

Sleepers ==
  \A t \in Thread : \A a \in Addr : t \in waitq[a] =>
    /\ \/ a = mtx[t] /\ (pc[t] = "lock_xchg" \/ Requeued(t))
       \/ a \in Cond /\ a = cnd[t] /\ Requeued(t)
    /\ \A b \in Addr : t \in waitq[b] => a = b

IInv == /\ WordTypes /\ CallTypes /\ CondTypes /\ GraphTypes
        /\ \A t \in Thread : ThreadOK(t)
        /\ Owners /\ Words /\ Sleepers /\ RequeuedNotLost

(***************************************************************************)
(* Nothing is missed: who has read seq and not slept yet waits for what is *)
(* not so, or will find seq changed, or somebody is about to change it; who*)
(* sleeps may also be about to be woken.                                   *)
(***************************************************************************)
Waiting(t) ==
  \/ pc[t] \in UnlockPC /\ ret[t] = "cond_spin"
  \/ pc[t] \in {"cond_spin", "cond_sleep"}

StillTrue(t) == \/ cret[t] = "cw_check" /\ 0 <= ticks /\ ticks < want[t]
                \/ cret[t] = "nw_check" /\ ~ready[t - 1]

WillBump(s, c) ==
  \/ /\ c = CondOf[Clock]
     /\ \/ pc[s] \in {"ct_bcast", "cs_bcast"}
        \/ pc[s] \in UnlockPC /\ ret[s] \in {"ct_bcast", "cs_bcast"}
  \/ /\ s \in Node /\ c = CondOf[s]
     /\ \/ pc[s] = "ns_signal"
        \/ pc[s] \in UnlockPC /\ ret[s] = "ns_signal"

WillWake(s, c) == pc[s] \in {"signal_wake", "bcast_requeue"} /\ cnd[s] = c

NoneMissed ==
  /\ \A t \in Thread : Waiting(t) =>
       /\ seq[t] <= cseq[cnd[t]]
       /\ \/ StillTrue(t) \/ seq[t] < cseq[cnd[t]]
          \/ \E s \in Thread : WillBump(s, cnd[t])
  /\ \A t \in Thread : \A c \in Cond : t \in waitq[c] =>
       StillTrue(t) \/ \E s \in Thread : WillBump(s, c) \/ WillWake(s, c)

-----------------------------------------------------------------------------
USE MutexAssumption, CondAssumption, GraphAssumption

-----------------------------------------------------------------------------
(* Only thread t moves.                                                    *)
OnlyMoves(t) ==
  \A s \in Thread \ {t} : /\ pc'[s] = pc[s] /\ mtx'[s] = mtx[s] /\ ret'[s] = ret[s]
                          /\ cnd'[s] = cnd[s] /\ cret'[s] = cret[s]

LEMMA OthersOK ==
  ASSUME NEW t \in Thread, OnlyMoves(t), \A s \in Thread : ThreadOK(s), ThreadOK(t)'
  PROVE  \A s \in Thread : ThreadOK(s)'
<1> SUFFICES ASSUME NEW s \in Thread, s # t PROVE ThreadOK(s)'
  OBVIOUS
<1>1. /\ pc'[s] = pc[s] /\ mtx'[s] = mtx[s] /\ ret'[s] = ret[s]
      /\ cnd'[s] = cnd[s] /\ cret'[s] = cret[s] /\ ThreadOK(s)
  BY DEF OnlyMoves
<1>2. QED
  BY <1>1 DEF ThreadOK, Guards, Waits

(* A step outside the mutex's own code: no word, owner or queue changes.   *)
LEMMA OwnStep ==
  ASSUME IInv, NEW t \in Thread, ~Asleep(t), OnlyMoves(t),
         UNCHANGED <<waitq, state, holder>>,
         WordTypes', CallTypes', CondTypes', GraphTypes', ThreadOK(t)',
         \A m \in Mutex : Holds(t, m)' <=> Holds(t, m),
         pc[t] \notin LockPC \cup {"unlock_wake", "cond_or"}
  PROVE  IInv'
<1> USE DEF IInv
<1>1. \A s \in Thread : ThreadOK(s)'
  BY OthersOK
<1>2. \A s \in Thread : \A m \in Mutex : Holds(s, m)' <=> Holds(s, m)
  BY DEF OnlyMoves, Holds
<1>3. Owners' /\ Words'
  BY <1>2 DEF Owners, Words
<1>4. Sleepers'
  <2> SUFFICES ASSUME NEW s \in Thread, NEW a \in Addr, s \in waitq[a]
               PROVE  /\ \/ a = mtx'[s] /\ (pc'[s] = "lock_xchg" \/ Requeued(s)')
                         \/ a \in Cond /\ a = cnd'[s] /\ Requeued(s)'
                      /\ \A b \in Addr : s \in waitq[b] => a = b
    BY DEF Sleepers
  <2>1. s # t
    BY DEF Asleep
  <2>2. QED
    BY <2>1 DEF Sleepers, OnlyMoves, Requeued
<1>5. RequeuedNotLost'
  <2> SUFFICES ASSUME NEW m \in Mutex, waitq[m] # {}, ~(MUTEX_SLEEPING \in state[m])
               PROVE  \E s \in Thread :
                        /\ mtx'[s] = m /\ ~Asleep(s)'
                        /\ \/ pc'[s] \in {"unlock_wake", "lock_xchg", "cond_or"}
                           \/ /\ pc'[s] \in {"trylock_load", "trylock_or", "lock_wait"}
                              /\ ret'[s] = "cond_or"
    BY DEF RequeuedNotLost
  <2>1. PICK s \in Thread :
          /\ mtx[s] = m /\ ~Asleep(s)
          /\ \/ pc[s] \in {"unlock_wake", "lock_xchg", "cond_or"}
             \/ pc[s] \in {"trylock_load", "trylock_or", "lock_wait"} /\ ret[s] = "cond_or"
    BY DEF RequeuedNotLost
  <2>2. s # t
    BY <2>1 DEF LockPC
  <2>3. ~Asleep(s)'
    BY <2>1 DEF Asleep
  <2>4. QED
    BY <2>1, <2>2, <2>3 DEF OnlyMoves
<1>6. QED
  BY <1>1, <1>3, <1>4, <1>5

-----------------------------------------------------------------------------
(* What calls do: every mutex is a default one.                            *)
LEMMA Called ==
  ASSUME WordTypes, CallTypes, NEW t \in Thread, NEW m \in Mutex, NEW r \in PC, NEW l \in PC,
         Call(t, m, l, r, "spin")
  PROVE  /\ CallTypes' /\ pc'[t] = l /\ mtx'[t] = m /\ ret'[t] = r
         /\ \A s \in Thread \ {t} : pc'[s] = pc[s] /\ mtx'[s] = mtx[s] /\ ret'[s] = ret[s]
<1>1. /\ pc' = [pc EXCEPT ![t] = l] /\ mtx' = [mtx EXCEPT ![t] = m]
      /\ ret' = [ret EXCEPT ![t] = r] /\ fail' = [fail EXCEPT ![t] = "spin"]
  BY DEF Call, Goto
<1>2. QED
  BY <1>1 DEF CallTypes

LEMMA Entries ==
  ASSUME WordTypes, NEW t \in Thread, NEW m \in Mutex, NEW r
  PROVE  /\ mutex_lock(t, m, r) => Call(t, m, "trylock_load", r, "spin")
         /\ mutex_unlock(t, m, r) => Call(t, m, "unlock_xchg", r, "spin")
<1>1. proto[m] = PRIO_NONE
  BY DEF WordTypes
<1>2. QED
  BY <1>1 DEF mutex_lock, mutex_unlock, TryEntry

LEMMA Labels ==
  PC = {"trylock_load", "trylock_or", "lock_xchg", "lock_wait", "unlock_xchg", "unlock_wake",
        "cond_spin", "cond_sleep", "cond_or", "signal_wake", "bcast_requeue",
        "clock_wait", "cw_check", "cw_ret", "nw_check", "act", "ns_set", "ns_signal",
        "ct_tick", "ct_bcast", "next", "m_tick", "m_stop", "cs_stop", "cs_bcast", "m_join",
        "done"}
BY DEF PC, DefaultPC, CondPC, ProgramPC

LEMMA Objects ==
  /\ Node \subseteq Object /\ Clock \in Object /\ Node \subseteq Thread /\ Main \in Thread
  /\ \A t \in Thread : t = Main \/ t \in Node
  /\ \A n \in Node \ {0} : n - 1 \in Node
  /\ \A x \in Object : MutexOf[x] \in Mutex /\ CondOf[x] \in Cond
  /\ \A x, y \in Object : MutexOf[x] = MutexOf[y] \/ CondOf[x] = CondOf[y] => x = y
  /\ Clock \notin Node /\ Main \notin Node /\ NoCond \notin Cond
  /\ Cond \subseteq Addr /\ Mutex \subseteq Addr /\ \A a \in Cond : a \notin Mutex
BY DEF Object, Node

(* A call of mutex_lock, from outside.                                     *)
LEMMA LockStep ==
  ASSUME IInv, NEW t \in Thread, ~Asleep(t), NEW x \in Object, NEW r \in PC,
         LockOf(t, x, r), UNCHANGED condVars, GraphTypes', Guards(t, r, MutexOf[x]),
         pc[t] \in {"clock_wait", "cw_ret", "act", "next", "m_tick", "m_stop"}
  PROVE  IInv'
<1> USE DEF IInv
<1>1. /\ Call(t, MutexOf[x], "trylock_load", r, "spin") /\ MutexOf[x] \in Mutex
      /\ UNCHANGED <<waitq, state, proto, holder, spin>>
  BY Entries, Objects DEF LockOf, lockFrame
<1>2. /\ CallTypes' /\ pc'[t] = "trylock_load" /\ mtx'[t] = MutexOf[x] /\ ret'[t] = r
      /\ \A s \in Thread \ {t} : pc'[s] = pc[s] /\ mtx'[s] = mtx[s] /\ ret'[s] = ret[s]
  <2>1. "trylock_load" \in PC
    BY Labels
  <2>2. QED
    BY <1>1, <2>1, Called
<1>3. WordTypes' /\ CondTypes' /\ OnlyMoves(t)
  BY <1>1, <1>2 DEF WordTypes, CondTypes, condVars, OnlyMoves
<1>4. ThreadOK(t)'
  BY <1>2 DEF ThreadOK, Guards, LockPC, UnlockPC
<1>5. \A m \in Mutex : Holds(t, m)' <=> Holds(t, m)
  BY <1>2 DEF Holds, HoldPC
<1>6. QED
  BY <1>1, <1>2, <1>3, <1>4, <1>5, OwnStep DEF LockPC

(* A call of mutex_unlock, by the owner.                                   *)
LEMMA UnlockStep ==
  ASSUME IInv, NEW t \in Thread, ~Asleep(t), NEW x \in Object, NEW r \in PC,
         UnlockOf(t, x, r), UNCHANGED condVars, GraphTypes', Guards(t, pc[t], MutexOf[x]),
         \/ r = "ct_bcast"
         \/ r \in {"m_stop", "cs_bcast"} /\ t = Main
         \/ r \in {"cw_ret", "act", "ns_signal"} /\ t \in Node,
         pc[t] \in {"cw_check", "ct_tick", "cs_stop", "nw_check", "ns_set"}
  PROVE  IInv'
<1> USE DEF IInv
<1>1. /\ Call(t, MutexOf[x], "unlock_xchg", r, "spin") /\ MutexOf[x] \in Mutex
      /\ UNCHANGED <<waitq, state, proto, holder, spin>>
  BY Entries, Objects DEF UnlockOf, lockFrame
<1>2. /\ CallTypes' /\ pc'[t] = "unlock_xchg" /\ mtx'[t] = MutexOf[x] /\ ret'[t] = r
      /\ \A s \in Thread \ {t} : pc'[s] = pc[s] /\ mtx'[s] = mtx[s] /\ ret'[s] = ret[s]
  <2>1. "unlock_xchg" \in PC
    BY Labels
  <2>2. QED
    BY <1>1, <2>1, Called
<1>3. WordTypes' /\ CondTypes' /\ OnlyMoves(t)
  BY <1>1, <1>2 DEF WordTypes, CondTypes, condVars, OnlyMoves
<1>4. ThreadOK(t)'
  BY <1>2 DEF ThreadOK, Guards, LockPC, UnlockPC
<1>5. mtx[t] = MutexOf[x]
  BY DEF ThreadOK, Guards
<1>6. \A m \in Mutex : Holds(t, m)' <=> Holds(t, m)
  BY <1>2, <1>5 DEF Holds, HoldPC
<1>7. QED
  BY <1>1, <1>2, <1>3, <1>4, <1>6, OwnStep DEF LockPC

(* A call of cond_wait, by the owner.                                      *)
LEMMA WaitStep ==
  ASSUME IInv, NEW t \in Thread, ~Asleep(t), NEW x \in Object, NEW r \in {"cw_check", "nw_check"},
         WaitOn(t, x, r), GraphTypes', pc[t] = r,
         \/ r = "cw_check" /\ x = Clock
         \/ r = "nw_check" /\ t \in Node \ {0} /\ x = t - 1
  PROVE  IInv'
<1> USE DEF IInv
<1>1. /\ Call(t, MutexOf[x], "unlock_xchg", "cond_spin", "spin")
      /\ MutexOf[x] \in Mutex /\ CondOf[x] \in Cond
      /\ cnd' = [cnd EXCEPT ![t] = CondOf[x]] /\ cret' = [cret EXCEPT ![t] = r]
      /\ seq' = [seq EXCEPT ![t] = cseq[CondOf[x]]]
      /\ UNCHANGED <<waitq, state, proto, holder, spin, cseq>>
  BY Entries, Objects DEF WaitOn, cond_wait, CondCall
<1>2. /\ CallTypes' /\ pc'[t] = "unlock_xchg" /\ mtx'[t] = MutexOf[x] /\ ret'[t] = "cond_spin"
      /\ \A s \in Thread \ {t} : pc'[s] = pc[s] /\ mtx'[s] = mtx[s] /\ ret'[s] = ret[s]
  <2>1. "unlock_xchg" \in PC /\ "cond_spin" \in PC
    BY Labels
  <2>2. QED
    BY <1>1, <2>1, Called
<1>3. /\ CondTypes' /\ cnd'[t] = CondOf[x] /\ cret'[t] = r
      /\ \A s \in Thread \ {t} : cnd'[s] = cnd[s] /\ cret'[s] = cret[s]
  BY <1>1, Labels DEF CondTypes
<1>4. WordTypes' /\ OnlyMoves(t)
  BY <1>1, <1>2, <1>3 DEF WordTypes, OnlyMoves
<1>5. ThreadOK(t)'
  BY <1>2, <1>3 DEF ThreadOK, Waits, LockPC, UnlockPC
<1>6. mtx[t] = MutexOf[x]
  BY DEF ThreadOK, Guards
<1>7. \A m \in Mutex : Holds(t, m)' <=> Holds(t, m)
  BY <1>2, <1>6 DEF Holds, HoldPC
<1>8. QED
  BY <1>1, <1>2, <1>3, <1>4, <1>5, <1>7, OwnStep DEF LockPC

(* A call of cond_signal or cond_broadcast, after the unlock.              *)
LEMMA BumpTypes ==
  ASSUME CondTypes, NEW t \in Thread, NEW c \in Cond, NEW r \in PC,
         CondCall(t, c, r), Bump(c), seq' = seq
  PROVE  /\ CondTypes' /\ cnd'[t] = c /\ cret'[t] = r
         /\ \A s \in Thread \ {t} : cnd'[s] = cnd[s] /\ cret'[s] = cret[s]
<1>1. (cseq[c] + 1) % SEQ_MOD \in Nat
  BY DEF CondTypes
<1>2. cseq' \in [Cond -> Nat]
  BY <1>1 DEF CondTypes, Bump
<1>3. QED
  BY <1>2 DEF CondTypes, CondCall

LEMMA SignalStep ==
  ASSUME IInv, NEW n \in Node, ~Asleep(n), pc[n] = "ns_signal", NEW r \in {"next", "done"},
         cond_signal(n, CondOf[n], r), UNCHANGED graphVars
  PROVE  IInv'
<1> USE DEF IInv
<1>1. /\ CondCall(n, CondOf[n], r) /\ Bump(CondOf[n]) /\ pc' = [pc EXCEPT ![n] = "signal_wake"]
      /\ UNCHANGED <<waitq, state, holder, proto, spin, seq, mtx, ret, fail>>
      /\ CondOf[n] \in Cond /\ n \in Thread
  BY Objects DEF cond_signal, Goto, frame
<1>2. /\ CondTypes' /\ cnd'[n] = CondOf[n] /\ cret'[n] = r
      /\ \A s \in Thread \ {n} : cnd'[s] = cnd[s] /\ cret'[s] = cret[s]
  <2>1. r \in PC
    BY Labels
  <2>2. QED
    BY <1>1, <2>1, BumpTypes
<1>3. /\ CallTypes' /\ pc'[n] = "signal_wake"
      /\ \A s \in Thread \ {n} : pc'[s] = pc[s] /\ mtx'[s] = mtx[s] /\ ret'[s] = ret[s]
  <2>1. "signal_wake" \in PC
    BY Labels
  <2>2. QED
    BY <1>1, <2>1 DEF CallTypes
<1>4. WordTypes' /\ GraphTypes' /\ OnlyMoves(n)
  BY <1>1, <1>2, <1>3 DEF WordTypes, GraphTypes, graphVars, OnlyMoves
<1>5. ThreadOK(n)'
  BY <1>2, <1>3 DEF ThreadOK, LockPC, UnlockPC
<1>6. \A m \in Mutex : Holds(n, m)' <=> Holds(n, m)
  BY <1>3 DEF Holds, HoldPC
<1>7. QED
  BY <1>1, <1>2, <1>3, <1>4, <1>5, <1>6, OwnStep DEF LockPC

LEMMA BroadcastStep ==
  ASSUME IInv, NEW t \in Thread, ~Asleep(t), pc[t] \in {"ct_bcast", "cs_bcast"},
         NEW r, IF t = Main THEN r \in {"clock_wait", "m_join"} ELSE r = "next",
         cond_broadcast(t, CondOf[Clock], MutexOf[Clock], r), UNCHANGED graphVars
  PROVE  IInv'
<1> USE DEF IInv
<1>1. /\ CondCall(t, CondOf[Clock], r) /\ Bump(CondOf[Clock])
      /\ pc' = [pc EXCEPT ![t] = "bcast_requeue"] /\ mtx' = [mtx EXCEPT ![t] = MutexOf[Clock]]
      /\ UNCHANGED <<waitq, state, proto, holder, ret, fail, spin, seq>>
      /\ CondOf[Clock] \in Cond /\ MutexOf[Clock] \in Mutex
  BY Objects DEF cond_broadcast, Goto
<1>2. /\ CondTypes' /\ cnd'[t] = CondOf[Clock] /\ cret'[t] = r
      /\ \A s \in Thread \ {t} : cnd'[s] = cnd[s] /\ cret'[s] = cret[s]
  <2>1. r \in PC
    BY Labels
  <2>2. QED
    BY <1>1, <2>1, BumpTypes
<1>3. /\ CallTypes' /\ pc'[t] = "bcast_requeue" /\ mtx'[t] = MutexOf[Clock]
      /\ \A s \in Thread \ {t} : pc'[s] = pc[s] /\ mtx'[s] = mtx[s] /\ ret'[s] = ret[s]
  <2>1. "bcast_requeue" \in PC
    BY Labels
  <2>2. QED
    BY <1>1, <2>1 DEF CallTypes
<1>4. WordTypes' /\ GraphTypes' /\ OnlyMoves(t)
  BY <1>1, <1>2, <1>3 DEF WordTypes, GraphTypes, graphVars, OnlyMoves
<1>5. ThreadOK(t)'
  BY <1>2, <1>3 DEF ThreadOK, LockPC, UnlockPC
<1>6. \A m \in Mutex : Holds(t, m)' <=> Holds(t, m)
  BY <1>3 DEF Holds, HoldPC
<1>7. QED
  BY <1>1, <1>2, <1>3, <1>4, <1>5, <1>6, OwnStep DEF LockPC

(* One look at seq.                                                        *)
LEMMA SpinStep ==
  ASSUME IInv, NEW t \in Thread, cond_spin(t), UNCHANGED graphVars
  PROVE  IInv'
<1> USE DEF IInv
<1>1. /\ pc[t] = "cond_spin" /\ ~Asleep(t) /\ Waits(t) /\ GraphTypes'
      /\ UNCHANGED <<waitq, state, proto, holder, cseq>>
  BY DEF cond_spin, At, ThreadOK, graphVars, GraphTypes
<1>2. CASE /\ mutex_lock(t, mtx[t], cret[t]) /\ CondDone(t)
           /\ seq' = [seq EXCEPT ![t] = 0] /\ spin' = [spin EXCEPT ![t] = 0]
  <2>1. /\ mtx[t] \in Mutex /\ cret[t] \in {"cw_check", "nw_check"}
        /\ Call(t, mtx[t], "trylock_load", cret[t], "spin")
    BY <1>1, <1>2, Entries DEF CallTypes, Waits
  <2>2. /\ CallTypes' /\ pc'[t] = "trylock_load" /\ mtx'[t] = mtx[t] /\ ret'[t] = cret[t]
        /\ \A s \in Thread \ {t} : pc'[s] = pc[s] /\ mtx'[s] = mtx[s] /\ ret'[s] = ret[s]
    <3>1. "trylock_load" \in PC /\ cret[t] \in PC
      BY <2>1, Labels
    <3>2. QED
      BY <2>1, <3>1, Called
  <2>3. CondTypes' /\ \A s \in Thread \ {t} : cnd'[s] = cnd[s] /\ cret'[s] = cret[s]
    BY <1>1, <1>2 DEF CondTypes, CondDone
  <2>4. WordTypes' /\ OnlyMoves(t)
    BY <1>1, <1>2, <2>2, <2>3 DEF WordTypes, OnlyMoves
  <2>5. ThreadOK(t)'
    BY <1>1, <2>1, <2>2 DEF ThreadOK, Waits, Guards, LockPC, UnlockPC
  <2>6. \A m \in Mutex : Holds(t, m)' <=> Holds(t, m)
    BY <1>1, <2>2 DEF Holds, HoldPC
  <2>7. QED
    BY <1>1, <2>2, <2>3, <2>4, <2>5, <2>6, OwnStep DEF LockPC
<1>3. CASE /\ spin' \in [Thread -> Nat] /\ UNCHANGED <<mtx, ret, fail, seq, cnd, cret>>
           /\ pc' = pc \/ pc' = [pc EXCEPT ![t] = "cond_sleep"]
  <2>1. /\ CallTypes' /\ pc'[t] \in {"cond_spin", "cond_sleep"}
        /\ \A s \in Thread \ {t} : pc'[s] = pc[s]
    <3>1. "cond_sleep" \in PC
      BY Labels
    <3>2. QED
      BY <1>1, <1>3, <3>1 DEF CallTypes
  <2>2. WordTypes' /\ CondTypes' /\ OnlyMoves(t)
    BY <1>1, <1>3, <2>1 DEF WordTypes, CondTypes, OnlyMoves
  <2>3. ThreadOK(t)'
    BY <1>1, <1>3, <2>1 DEF ThreadOK, Waits, LockPC, UnlockPC
  <2>4. \A m \in Mutex : Holds(t, m)' <=> Holds(t, m)
    BY <1>1, <2>1 DEF Holds, HoldPC
  <2>5. QED
    BY <1>1, <2>1, <2>2, <2>3, <2>4, OwnStep DEF LockPC
<1>4. QED
  <2>1. spin \in [Thread -> Nat] /\ spin[t] + 1 \in Nat
    BY DEF WordTypes
  <2>2. QED
    BY <2>1, <1>2, <1>3 DEF cond_spin, Goto

(* A step of the program that calls nothing.                               *)
LEMMA PlainStep ==
  ASSUME IInv, NEW t \in Thread, ~Asleep(t), NEW l \in {"act", "done"},
         l = "act" => t \in Node, Goto(t, l),
         UNCHANGED <<lockFrame, mtx, ret, fail, condVars, graphVars>>,
         pc[t] \in {"cw_ret", "m_join"}
  PROVE  IInv'
<1> USE DEF IInv
<1>1. /\ CallTypes' /\ pc'[t] = l /\ \A s \in Thread \ {t} : pc'[s] = pc[s]
  <2>1. l \in PC
    BY Labels
  <2>2. QED
    BY <2>1 DEF CallTypes, Goto
<1>2. WordTypes' /\ CondTypes' /\ GraphTypes' /\ OnlyMoves(t)
  BY <1>1 DEF WordTypes, CondTypes, GraphTypes, OnlyMoves, lockFrame, condVars, graphVars
<1>3. ThreadOK(t)'
  BY <1>1 DEF ThreadOK, LockPC, UnlockPC
<1>4. \A m \in Mutex : Holds(t, m)' <=> Holds(t, m)
  BY <1>1 DEF Holds, HoldPC
<1>5. QED
  BY <1>1, <1>2, <1>3, <1>4, OwnStep DEF LockPC, lockFrame

-----------------------------------------------------------------------------
(* The program, apart from the calls it is in.                             *)
LEMMA ClockSteps ==
  ASSUME IInv, NEW t \in Thread, clock_wait(t) \/ cw_check(t) \/ ct_tick(t) \/ ct_bcast(t)
  PROVE  IInv'
<1> USE DEF IInv
<1>1. CASE clock_wait(t)
  <2>1. /\ ~Asleep(t) /\ pc[t] = "clock_wait" /\ LockOf(t, Clock, "cw_check")
        /\ UNCHANGED condVars /\ GraphTypes' /\ Guards(t, "cw_check", MutexOf[Clock])
    BY <1>1 DEF clock_wait, At, graphVars, GraphTypes, Guards
  <2>2. "cw_check" \in PC
    BY Labels
  <2>3. QED
    BY <2>1, <2>2, Objects, LockStep
<1>2. CASE cw_check(t)
  <2>1. /\ ~Asleep(t) /\ pc[t] = "cw_check" /\ UNCHANGED <<ticks, ready, want, bit>>
        /\ Guards(t, pc[t], MutexOf[Clock])
    BY <1>2 DEF cw_check, At, Guards
  <2>2. CASE WaitOn(t, Clock, "cw_check") /\ UNCHANGED go
    <3>1. GraphTypes'
      BY <2>1, <2>2 DEF GraphTypes
    <3>2. QED
      BY <2>1, <2>2, <3>1, Objects, WaitStep
  <2>3. CASE /\ go' = [go EXCEPT ![t] = ticks >= want[t]] /\ UNCHANGED condVars
             /\ UnlockOf(t, Clock, IF t = Main THEN "m_stop" ELSE "cw_ret")
    <3>1. GraphTypes'
      BY <2>1, <2>3 DEF GraphTypes
    <3>2. PICK r \in PC : r = IF t = Main THEN "m_stop" ELSE "cw_ret"
      BY Labels
    <3>3. \/ r = "m_stop" /\ t = Main
          \/ r = "cw_ret" /\ t \in Node
      BY <3>2, Objects
    <3>4. QED
      BY <2>1, <2>3, <3>1, <3>2, <3>3, Objects, UnlockStep
  <2>4. QED
    BY <1>2, <2>2, <2>3 DEF cw_check
<1>3. CASE ct_tick(t)
  <2>1. /\ ~Asleep(t) /\ pc[t] = "ct_tick" /\ UnlockOf(t, Clock, "ct_bcast")
        /\ UNCHANGED condVars /\ Guards(t, pc[t], MutexOf[Clock])
    BY <1>3 DEF ct_tick, At, Guards
  <2>2. GraphTypes'
    BY <1>3 DEF ct_tick, GraphTypes
  <2>3. "ct_bcast" \in PC
    BY Labels
  <2>4. QED
    BY <2>1, <2>2, <2>3, Objects, UnlockStep
<1>4. CASE ct_bcast(t)
  BY <1>4, BroadcastStep DEF ct_bcast, At
<1>5. QED
  BY <1>1, <1>2, <1>3, <1>4

LEMMA MainSteps ==
  ASSUME IInv, NEW t \in Thread, MainThread(t)
  PROVE  IInv'
<1> USE DEF IInv
<1>1. ASSUME m_tick(t) \/ m_stop(t)
      PROVE  IInv'
  <2>1. PICK r \in {"ct_tick", "cs_stop"} :
          /\ ~Asleep(t) /\ pc[t] \in {"m_tick", "m_stop"} /\ LockOf(t, Clock, r)
          /\ UNCHANGED condVars /\ UNCHANGED graphVars
    BY <1>1 DEF m_tick, m_stop, At
  <2>2. GraphTypes' /\ r \in PC
    BY <2>1, Labels DEF graphVars, GraphTypes
  <2>3. Guards(t, r, MutexOf[Clock])
    BY <2>1 DEF Guards, ThreadOK
  <2>4. QED
    BY <2>1, <2>2, <2>3, Objects, LockStep
<1>2. CASE cs_stop(t)
  <2>1. /\ ~Asleep(t) /\ pc[t] = "cs_stop" /\ UnlockOf(t, Clock, "cs_bcast")
        /\ UNCHANGED condVars /\ Guards(t, pc[t], MutexOf[Clock]) /\ t = Main
    BY <1>2 DEF cs_stop, At, Guards, ThreadOK
  <2>2. GraphTypes'
    BY <1>2 DEF cs_stop, GraphTypes
  <2>3. "cs_bcast" \in PC
    BY Labels
  <2>4. QED
    BY <2>1, <2>2, <2>3, Objects, UnlockStep
<1>3. CASE cs_bcast(t)
  <2>1. pc[t] = "cs_bcast" /\ ~Asleep(t) /\ t = Main
    BY <1>3 DEF cs_bcast, At, ThreadOK
  <2>2. QED
    BY <1>3, <2>1, BroadcastStep DEF cs_bcast
<1>4. CASE m_join(t)
  BY <1>4, PlainStep DEF m_join, At
<1>5. QED
  BY <1>1, <1>2, <1>3, <1>4 DEF MainThread

LEMMA NodeSteps ==
  ASSUME IInv, NEW n \in Node, NodeThread(n)
  PROVE  IInv'
<1> USE DEF IInv
<1>0. n \in Thread /\ n \in Object
  BY Objects
<1>1. ASSUME NEW x \in Object, NEW r \in PC, LockOf(n, x, r), UNCHANGED condVars,
             GraphTypes', Guards(n, r, MutexOf[x]), ~Asleep(n), pc[n] \in {"cw_ret", "act", "next"}
      PROVE  IInv'
  BY <1>0, <1>1, LockStep
<1>2. CASE cw_ret(n)
  <2>1. /\ ~Asleep(n) /\ pc[n] = "cw_ret" /\ UNCHANGED condVars /\ UNCHANGED graphVars
        /\ GraphTypes'
    BY <1>2 DEF cw_ret, At, graphVars, GraphTypes
  <2>2. CASE n # 0 /\ LockOf(n, Parent(n), "nw_check")
    <3>1. /\ Parent(n) \in Object /\ "nw_check" \in PC
          /\ Guards(n, "nw_check", MutexOf[Parent(n)])
      BY <2>2, Objects, Labels DEF Parent, Guards
    <3>2. QED
      BY <1>1, <2>1, <2>2, <3>1
  <2>3. CASE LockOf(n, n, "ns_set")
    <3>1. "ns_set" \in PC /\ Guards(n, "ns_set", MutexOf[n])
      BY Labels DEF Guards
    <3>2. QED
      BY <1>0, <1>1, <2>1, <2>3, <3>1
  <2>4. CASE Goto(n, "act") /\ UNCHANGED <<lockFrame, mtx, ret, fail>>
    BY <1>0, <2>1, <2>4, PlainStep
  <2>5. QED
    BY <1>2, <2>2, <2>3, <2>4 DEF cw_ret
<1>3. CASE nw_check(n)
  <2>1. ~Asleep(n) /\ pc[n] = "nw_check" /\ UNCHANGED <<ticks, want, bit, go>>
    BY <1>3 DEF nw_check, At
  <2>2. /\ n \in Node \ {0} /\ Parent(n) = n - 1 /\ n - 1 \in Node /\ Parent(n) \in Object
        /\ Guards(n, pc[n], MutexOf[Parent(n)])
    BY <1>0, <2>1, Objects DEF ThreadOK, Guards, Parent
  <2>3. CASE WaitOn(n, Parent(n), "nw_check") /\ UNCHANGED ready
    <3>1. GraphTypes'
      BY <2>1, <2>3 DEF GraphTypes
    <3>2. QED
      BY <1>0, <2>1, <2>2, <2>3, <3>1, WaitStep
  <2>4. CASE /\ ready' = [ready EXCEPT ![Parent(n)] = FALSE]
             /\ UnlockOf(n, Parent(n), "act") /\ UNCHANGED condVars
    <3>1. GraphTypes' /\ "act" \in PC
      BY <2>1, <2>4, Labels DEF GraphTypes
    <3>2. QED
      BY <1>0, <2>1, <2>2, <2>4, <3>1, UnlockStep
  <2>5. QED
    BY <1>3, <2>3, <2>4 DEF nw_check
<1>4. CASE act(n)
  <2>1. /\ ~Asleep(n) /\ pc[n] = "act" /\ UNCHANGED condVars /\ GraphTypes'
        /\ LockOf(n, n, "ns_set") \/ LockOf(n, Clock, "ct_tick")
    BY <1>4 DEF act, At, graphVars, GraphTypes
  <2>2. /\ "ns_set" \in PC /\ "ct_tick" \in PC
        /\ Guards(n, "ns_set", MutexOf[n]) /\ Guards(n, "ct_tick", MutexOf[Clock])
    BY Labels DEF Guards
  <2>3. QED
    BY <1>0, <1>1, <2>1, <2>2, Objects
<1>5. CASE ns_set(n)
  <2>1. /\ ~Asleep(n) /\ pc[n] = "ns_set" /\ UnlockOf(n, n, "ns_signal")
        /\ UNCHANGED condVars /\ Guards(n, pc[n], MutexOf[n])
    BY <1>5 DEF ns_set, At, Guards
  <2>2. GraphTypes' /\ "ns_signal" \in PC
    BY <1>5, Labels DEF ns_set, GraphTypes
  <2>3. QED
    BY <1>0, <2>1, <2>2, UnlockStep
<1>6. CASE ns_signal(n)
  BY <1>6, SignalStep DEF ns_signal, At
<1>7. CASE next(n)
  <2>1. /\ ~Asleep(n) /\ pc[n] = "next" /\ UNCHANGED condVars /\ LockOf(n, Clock, "cw_check")
        /\ "cw_check" \in PC /\ Guards(n, "cw_check", MutexOf[Clock])
    BY <1>7, Labels DEF next, At, Guards
  <2>2. GraphTypes'
    <3>1. want[n] + 1 \in Int
      BY <1>0 DEF GraphTypes
    <3>2. QED
      BY <1>7, <3>1 DEF next, GraphTypes
  <2>3. QED
    BY <1>1, <2>1, <2>2, Objects
<1>8. QED
  BY <1>2, <1>3, <1>4, <1>5, <1>6, <1>7 DEF NodeThread

-----------------------------------------------------------------------------
(* Who will see to the sleepers of mutex m.                                *)
Announcer(s, m) ==
  /\ mtx[s] = m /\ ~Asleep(s)
  /\ \/ pc[s] \in {"unlock_wake", "lock_xchg", "cond_or"}
     \/ pc[s] \in {"trylock_load", "trylock_or", "lock_wait"} /\ ret[s] = "cond_or"

LEMMA Announcing ==
  RequeuedNotLost <=>
    \A m \in Mutex : waitq[m] # {} =>
      MUTEX_SLEEPING \in state[m] \/ \E s \in Thread : Announcer(s, m)
BY DEF RequeuedNotLost, Announcer

LEMMA AnnouncingNext ==
  RequeuedNotLost' <=>
    \A m \in Mutex : waitq'[m] # {} =>
      MUTEX_SLEEPING \in state'[m] \/ \E s \in Thread : Announcer(s, m)'
BY DEF RequeuedNotLost, Announcer

(* Who sleeps no longer, or never did, and does not move.                  *)
LEMMA OthersAnnounce ==
  ASSUME NEW t \in Thread, OnlyMoves(t), \A a \in Addr : waitq'[a] \subseteq waitq[a],
         NEW s \in Thread \ {t}, NEW m \in Mutex, Announcer(s, m)
  PROVE  Announcer(s, m)'
<1>1. ~Asleep(s)'
  BY DEF Announcer, Asleep
<1>2. QED
  BY <1>1 DEF Announcer, OnlyMoves

LEMMA OthersSleep ==
  ASSUME Sleepers, NEW t \in Thread, OnlyMoves(t), \A a \in Addr : waitq'[a] \subseteq waitq[a],
         ~Asleep(t)
  PROVE  Sleepers' /\ ~Asleep(t)'
<1>1. ~Asleep(t)'
  BY DEF Asleep
<1>2. Sleepers'
  <2> SUFFICES ASSUME NEW s \in Thread, NEW a \in Addr, s \in waitq'[a]
               PROVE  /\ \/ a = mtx'[s] /\ (pc'[s] = "lock_xchg" \/ Requeued(s)')
                         \/ a \in Cond /\ a = cnd'[s] /\ Requeued(s)'
                      /\ \A b \in Addr : s \in waitq'[b] => a = b
    BY DEF Sleepers
  <2>1. s # t /\ s \in waitq[a]
    BY DEF Asleep
  <2>2. QED
    BY <2>1 DEF Sleepers, OnlyMoves, Requeued
<1>3. QED
  BY <1>1, <1>2

(***************************************************************************)
(* A step of an awake thread on the word of its mutex: it leaves the owner *)
(* as it is, takes the mutex or gives it up, and it does not forget that   *)
(* somebody sleeps.                                                        *)
(***************************************************************************)
LEMMA WordStep ==
  ASSUME IInv, NEW t \in Thread, ~Asleep(t), OnlyMoves(t), UNCHANGED <<waitq, mtx, ret, graphVars>>,
         WordTypes', CallTypes', CondTypes', ThreadOK(t)',
         NEW m \in Mutex, m = mtx[t],
         \A k \in Mutex \ {m} : state'[k] = state[k] /\ holder'[k] = holder[k],
         \/ /\ holder'[m] = holder[m] /\ (pc'[t] \in HoldPC <=> pc[t] \in HoldPC)
            /\ MUTEX_LOCKED \in state'[m] <=> MUTEX_LOCKED \in state[m]
         \/ /\ MUTEX_LOCKED \notin state[m] /\ MUTEX_LOCKED \in state'[m]
            /\ holder'[m] = holder[m] \cup {t} /\ pc'[t] \in HoldPC
         \/ /\ pc[t] \in HoldPC /\ pc'[t] \notin HoldPC
            /\ MUTEX_LOCKED \notin state'[m] /\ holder'[m] = holder[m] \ {t},
         MUTEX_SLEEPING \in state[m] \/ Announcer(t, m) =>
           MUTEX_SLEEPING \in state'[m] \/ Announcer(t, m)'
  PROVE  IInv'
<1> USE DEF IInv
<1>1. (\A s \in Thread : ThreadOK(s)') /\ GraphTypes'
  BY OthersOK DEF graphVars, GraphTypes
<1>2. Sleepers'
  BY OthersSleep
<1>3. \A s \in Thread \ {t} : \A k \in Mutex : Holds(s, k)' <=> Holds(s, k)
  BY DEF OnlyMoves, Holds
<1>4. \A k \in Mutex \ {m} : ~Holds(t, k) /\ ~Holds(t, k)'
  BY DEF Holds
<1>5. (Holds(t, m) <=> pc[t] \in HoldPC) /\ (Holds(t, m)' <=> pc'[t] \in HoldPC)
  BY DEF Holds
<1>6. Owners'
  <2> SUFFICES ASSUME NEW k \in Mutex, NEW s \in Thread PROVE s \in holder'[k] <=> Holds(s, k)'
    BY DEF Owners
  <2>1. CASE k # m
    BY <1>3, <1>4, <2>1 DEF Owners
  <2>2. CASE k = m /\ s # t
    BY <1>3, <2>2 DEF Owners
  <2>3. CASE k = m /\ s = t
    BY <1>5, <2>3 DEF Owners
  <2>4. QED
    BY <2>1, <2>2, <2>3
<1>7. Words'
  <2> SUFFICES ASSUME NEW k \in Mutex
               PROVE  /\ MUTEX_LOCKED \in state'[k] <=> holder'[k] # {}
                      /\ \A r, s \in holder'[k] : r = s
    BY DEF Words
  <2>1. CASE k # m
    BY <2>1 DEF Words
  <2>2. CASE k = m /\ holder'[m] = holder[m] /\ (MUTEX_LOCKED \in state'[m] <=> MUTEX_LOCKED \in state[m])
    BY <2>2 DEF Words
  <2>3. CASE /\ k = m /\ MUTEX_LOCKED \notin state[m] /\ MUTEX_LOCKED \in state'[m]
             /\ holder'[m] = holder[m] \cup {t}
    BY <2>3 DEF Words
  <2>4. CASE /\ k = m /\ pc[t] \in HoldPC
             /\ MUTEX_LOCKED \notin state'[m] /\ holder'[m] = holder[m] \ {t}
    <3>1. t \in holder[m]
      BY <1>5, <2>4 DEF Owners
    <3>2. QED
      BY <2>4, <3>1 DEF Words
  <2>5. QED
    BY <2>1, <2>2, <2>3, <2>4
<1>8. RequeuedNotLost'
  <2> SUFFICES ASSUME NEW k \in Mutex, waitq[k] # {}, ~(MUTEX_SLEEPING \in state'[k])
               PROVE  \E s \in Thread : Announcer(s, k)'
    BY AnnouncingNext
  <2>1. MUTEX_SLEEPING \in state[k] \/ \E s \in Thread : Announcer(s, k)
    BY Announcing
  <2>2. CASE k = m /\ (MUTEX_SLEEPING \in state[k] \/ Announcer(t, k))
    BY <2>2
  <2>3. CASE \E s \in Thread \ {t} : Announcer(s, k)
    BY <2>3, OthersAnnounce
  <2>4. CASE k # m
    <3>1. ~Announcer(t, k) /\ MUTEX_SLEEPING \notin state[k]
      BY <2>4 DEF Announcer
    <3>2. QED
      BY <2>1, <2>3, <3>1
  <2>5. QED
    BY <2>1, <2>2, <2>3, <2>4
<1>9. QED
  BY <1>1, <1>2, <1>6, <1>7, <1>8

-----------------------------------------------------------------------------
(* The mutex's own code.                                                   *)
LEMMA WentTo ==
  ASSUME CallTypes, CondTypes, NEW t \in Thread, NEW l \in PC, Goto(t, l),
         UNCHANGED <<mtx, ret, fail, condVars>>
  PROVE  /\ CallTypes' /\ CondTypes' /\ OnlyMoves(t) /\ pc'[t] = l
         /\ ThreadOK(t)' <=>
              /\ l \in LockPC => Guards(t, ret[t], mtx[t]) \/ (ret[t] = "cond_or" /\ Waits(t))
              /\ l \in {"cw_check", "ct_tick", "cs_stop", "nw_check", "ns_set"} => Guards(t, l, mtx[t])
              /\ l \in {"cond_spin", "cond_sleep", "cond_or"} => Waits(t)
              /\ l \in UnlockPC => \/ ret[t] = "cond_spin" /\ Waits(t)
                                   \/ ret[t] = "ct_bcast"
                                   \/ ret[t] \in {"m_stop", "cs_bcast"} /\ t = Main
                                   \/ ret[t] \in {"cw_ret", "act", "ns_signal"} /\ t \in Node
              /\ l = "signal_wake" => /\ t \in Node /\ cnd[t] = CondOf[t]
                                      /\ cret[t] \in {"next", "done"}
              /\ l = "bcast_requeue" =>
                   /\ cnd[t] = CondOf[Clock] /\ mtx[t] = MutexOf[Clock]
                   /\ IF t = Main THEN cret[t] \in {"clock_wait", "m_join"} ELSE cret[t] = "next"
              /\ l \in {"cw_ret", "act", "ns_signal", "next"} => t \in Node
              /\ l \in {"m_tick", "m_stop", "cs_bcast", "m_join"} => t = Main
<1>1. CallTypes' /\ pc'[t] = l /\ \A s \in Thread \ {t} : pc'[s] = pc[s]
  BY DEF CallTypes, Goto
<1>2. CondTypes' /\ OnlyMoves(t)
  BY <1>1 DEF CondTypes, condVars, OnlyMoves
<1>3. Waits(t)' <=> Waits(t)
  BY DEF Waits, condVars
<1>4. cnd' = cnd /\ cret' = cret
  BY DEF condVars
<1>5. QED
  BY <1>1, <1>2, <1>3, <1>4 DEF ThreadOK, Guards

(* trylock failed: once more, or the slow path.                            *)
LEMMA FailedTry ==
  ASSUME IInv, NEW t \in Thread, TryFailed(t)
  PROVE  /\ Goto(t, "trylock_load") \/ Goto(t, "lock_xchg")
         /\ spin' \in [Thread -> Nat]
<1> USE DEF IInv
<1>1. /\ fail[t] = "spin" /\ proto[mtx[t]] = PRIO_NONE
      /\ spin \in [Thread -> Nat] /\ spin[t] + 1 \in Nat
  BY DEF CallTypes, WordTypes
<1>2. QED
  BY <1>1 DEF TryFailed, TryEntry

LEMMA TrySteps ==
  ASSUME IInv, NEW t \in Thread, trylock_load(t) \/ trylock_or(t), UNCHANGED <<condVars, graphVars>>
  PROVE  IInv'
<1> USE DEF IInv
<1>1. PICK m \in Mutex : m = mtx[t]
  BY DEF CallTypes
<1>2. /\ ~Asleep(t) /\ pc[t] \in {"trylock_load", "trylock_or"} /\ UNCHANGED <<waitq, proto, mtx, ret, fail>>
      /\ Guards(t, ret[t], mtx[t]) \/ (ret[t] = "cond_or" /\ Waits(t))
  BY DEF trylock_load, trylock_or, At, frame, ThreadOK, LockPC
<1>3. ASSUME NEW l \in {"trylock_load", "trylock_or", "lock_xchg"}, Goto(t, l),
             spin' \in [Thread -> Nat], holder' = holder,
             state' = state \/ /\ state' = [state EXCEPT ![m] = state[m] \cup {MUTEX_LOCKED}]
                               /\ MUTEX_LOCKED \in state[m]
      PROVE  IInv'
  <2>1. l \in PC
    BY Labels
  <2>2. CallTypes' /\ CondTypes' /\ OnlyMoves(t) /\ pc'[t] = l /\ ThreadOK(t)'
    BY <1>2, <1>3, <2>1, WentTo DEF LockPC, UnlockPC
  <2>3. state' = state
    <3>1. CASE /\ state' = [state EXCEPT ![m] = state[m] \cup {MUTEX_LOCKED}]
               /\ MUTEX_LOCKED \in state[m]
      <4>1. state[m] \cup {MUTEX_LOCKED} = state[m]
        BY <3>1
      <4>2. [state EXCEPT ![m] = state[m]] = state
        BY DEF WordTypes
      <4>3. QED
        BY <3>1, <4>1, <4>2
    <3>2. QED
      BY <1>3, <3>1
  <2>4. WordTypes'
    BY <1>2, <1>3, <2>3 DEF WordTypes
  <2>5. ~Asleep(t)'
    BY <1>2 DEF Asleep
  <2>6. Announcer(t, m) => Announcer(t, m)'
    BY <1>2, <1>3, <2>2, <2>5 DEF Announcer
  <2>7. QED
    BY <1>1, <1>2, <1>3, <2>2, <2>3, <2>4, <2>6, WordStep DEF HoldPC
<1>4. CASE trylock_load(t)
  <2>1. state' = state /\ holder' = holder
    BY <1>4 DEF trylock_load
  <2>2. CASE TryFailed(t)
    BY <1>3, <2>1, <2>2, FailedTry
  <2>3. CASE Goto(t, "trylock_or") /\ UNCHANGED spin
    BY <1>3, <2>1, <2>3 DEF WordTypes
  <2>4. QED
    BY <1>4, <2>2, <2>3 DEF trylock_load
<1>5. CASE trylock_or(t) /\ MUTEX_LOCKED \in state[m]
  <2>1. /\ TryFailed(t) /\ holder' = holder
        /\ state' = [state EXCEPT ![m] = state[m] \cup {MUTEX_LOCKED}]
    BY <1>1, <1>5 DEF trylock_or, SetState
  <2>2. QED
    BY <1>3, <1>5, <2>1, FailedTry
<1>6. CASE trylock_or(t) /\ MUTEX_LOCKED \notin state[m]
  <2>1. /\ state' = [state EXCEPT ![m] = state[m] \cup {MUTEX_LOCKED}]
        /\ holder' = [holder EXCEPT ![m] = holder[m] \cup {t}]
        /\ Goto(t, ret[t]) /\ spin' = [spin EXCEPT ![t] = 0]
    BY <1>1, <1>6 DEF trylock_or, SetState, Acquired
  <2>2. ret[t] \in PC
    BY DEF CallTypes
  <2>3. CallTypes' /\ CondTypes' /\ OnlyMoves(t) /\ pc'[t] = ret[t] /\ ThreadOK(t)'
    BY <1>2, <2>1, <2>2, WentTo DEF LockPC, UnlockPC, Guards
  <2>4. ret[t] \in HoldPC
    BY <1>2 DEF HoldPC, Guards
  <2>5. WordTypes'
    BY <1>2, <2>1 DEF WordTypes
  <2>6. /\ state'[m] = state[m] \cup {MUTEX_LOCKED} /\ holder'[m] = holder[m] \cup {t}
        /\ \A k \in Mutex \ {m} : state'[k] = state[k] /\ holder'[k] = holder[k]
    BY <2>1 DEF WordTypes
  <2>7. ~Asleep(t)'
    BY <1>2 DEF Asleep
  <2>8. Announcer(t, m) => Announcer(t, m)'
    BY <1>1, <1>2, <2>3, <2>7 DEF Announcer
  <2>9. QED
    BY <1>1, <1>2, <1>6, <2>3, <2>4, <2>5, <2>6, <2>8, WordStep
<1>7. QED
  BY <1>4, <1>5, <1>6

LEMMA ExchangeSteps ==
  ASSUME IInv, NEW t \in Thread, lock_xchg(t) \/ unlock_xchg(t), UNCHANGED <<condVars, graphVars>>
  PROVE  IInv'
<1> USE DEF IInv
<1>1. PICK m \in Mutex : m = mtx[t]
  BY DEF CallTypes
<1>2. ret[t] \in PC /\ UNCHANGED <<waitq, proto, mtx, ret, fail, spin>> /\ ~Asleep(t) /\ ~Asleep(t)'
  BY DEF CallTypes, lock_xchg, unlock_xchg, At, frame, Asleep
<1>3. CASE lock_xchg(t)
  <2>1. /\ pc[t] = "lock_xchg" /\ state' = [state EXCEPT ![m] = {MUTEX_LOCKED, MUTEX_SLEEPING}]
        /\ Guards(t, ret[t], mtx[t]) \/ (ret[t] = "cond_or" /\ Waits(t))
    BY <1>1, <1>3 DEF lock_xchg, SetState, At, ThreadOK, LockPC
  <2>2. /\ state'[m] = {MUTEX_LOCKED, MUTEX_SLEEPING}
        /\ \A k \in Mutex \ {m} : state'[k] = state[k]
    BY <2>1 DEF WordTypes
  <2>3. CASE MUTEX_LOCKED \in state[m] /\ Goto(t, "lock_wait") /\ UNCHANGED holder
    <3>1. "lock_wait" \in PC
      BY Labels
    <3>2. CallTypes' /\ CondTypes' /\ OnlyMoves(t) /\ pc'[t] = "lock_wait" /\ ThreadOK(t)'
      BY <1>2, <2>1, <2>3, <3>1, WentTo DEF LockPC, UnlockPC
    <3>3. WordTypes'
      BY <1>2, <2>1, <2>3 DEF WordTypes
    <3>4. QED
      BY <1>1, <1>2, <2>1, <2>2, <2>3, <3>2, <3>3, WordStep DEF HoldPC
  <2>4. CASE MUTEX_LOCKED \notin state[m] /\ Acquired(t)
    <3>1. holder' = [holder EXCEPT ![m] = holder[m] \cup {t}] /\ Goto(t, ret[t])
      BY <1>1, <2>4 DEF Acquired
    <3>2. CallTypes' /\ CondTypes' /\ OnlyMoves(t) /\ pc'[t] = ret[t] /\ ThreadOK(t)'
      BY <1>2, <2>1, <3>1, WentTo DEF LockPC, UnlockPC, Guards
    <3>3. ret[t] \in HoldPC
      BY <2>1 DEF HoldPC, Guards
    <3>4. WordTypes'
      BY <1>2, <2>1, <3>1 DEF WordTypes
    <3>5. /\ holder'[m] = holder[m] \cup {t}
          /\ \A k \in Mutex \ {m} : holder'[k] = holder[k]
      BY <3>1 DEF WordTypes
    <3>6. QED
      BY <1>1, <1>2, <2>2, <2>4, <3>2, <3>3, <3>4, <3>5, WordStep
  <2>5. QED
    BY <1>1, <1>3, <2>3, <2>4 DEF lock_xchg
<1>4. CASE unlock_xchg(t)
  <2>1. /\ pc[t] = "unlock_xchg" /\ state' = [state EXCEPT ![m] = {}]
        /\ holder' = [holder EXCEPT ![m] = holder[m] \ {t}]
        /\ Goto(t, IF MUTEX_SLEEPING \in state[m] THEN "unlock_wake" ELSE ret[t])
    BY <1>1, <1>4 DEF unlock_xchg, SetState, At
  <2>2. PICK l \in PC : l = IF MUTEX_SLEEPING \in state[m] THEN "unlock_wake" ELSE ret[t]
    BY <1>2, Labels
  <2>3. \/ ret[t] = "cond_spin" /\ Waits(t)
        \/ ret[t] = "ct_bcast"
        \/ ret[t] \in {"m_stop", "cs_bcast"} /\ t = Main
        \/ ret[t] \in {"cw_ret", "act", "ns_signal"} /\ t \in Node
    BY <2>1 DEF ThreadOK, UnlockPC
  <2>4. CallTypes' /\ CondTypes' /\ OnlyMoves(t) /\ pc'[t] = l /\ ThreadOK(t)'
    BY <1>2, <2>1, <2>2, <2>3, WentTo DEF LockPC, UnlockPC
  <2>5. l \notin HoldPC
    BY <2>2, <2>3 DEF HoldPC
  <2>6. WordTypes'
    BY <1>2, <2>1 DEF WordTypes
  <2>7. /\ state'[m] = {} /\ holder'[m] = holder[m] \ {t}
        /\ \A k \in Mutex \ {m} : state'[k] = state[k] /\ holder'[k] = holder[k]
    BY <2>1 DEF WordTypes
  <2>8. MUTEX_SLEEPING \in state[m] => Announcer(t, m)'
    BY <1>1, <1>2, <2>2, <2>4 DEF Announcer
  <2>9. ~Announcer(t, m)
    BY <2>1 DEF Announcer
  <2>10. QED
    BY <1>1, <1>2, <2>1, <2>4, <2>5, <2>6, <2>7, <2>8, <2>9, WordStep DEF HoldPC
<1>5. QED
  BY <1>3, <1>4

-----------------------------------------------------------------------------
(* Sleeping: only a thread that the word, or nobody's word, has to know of.*)
LEMMA SleepStep ==
  ASSUME IInv, NEW t \in Thread, ~Asleep(t), OnlyMoves(t), NEW a \in Addr,
         waitq' = [waitq EXCEPT ![a] = waitq[a] \cup {t}],
         UNCHANGED <<state, proto, holder, spin, graphVars>>,
         CallTypes', CondTypes', ThreadOK(t)',
         pc[t] \notin HoldPC, pc'[t] \notin HoldPC,
         \/ a = mtx'[t] /\ pc'[t] = "lock_xchg"
         \/ a \in Cond /\ a = cnd'[t] /\ Requeued(t)',
         \A m \in Mutex : Announcer(t, m) \/ a = m => MUTEX_SLEEPING \in state[m]
  PROVE  IInv'
<1> USE DEF IInv
<1>1. (\A s \in Thread : ThreadOK(s)') /\ GraphTypes'
  BY OthersOK DEF graphVars, GraphTypes
<1>2. /\ waitq \in [Addr -> SUBSET Thread] /\ waitq'[a] = waitq[a] \cup {t}
      /\ \A b \in Addr \ {a} : waitq'[b] = waitq[b]
  BY DEF WordTypes
<1>3. WordTypes'
  BY <1>2 DEF WordTypes
<1>4. Owners' /\ Words'
  <2>1. \A s \in Thread : \A m \in Mutex : Holds(s, m)' <=> Holds(s, m)
    BY DEF OnlyMoves, Holds
  <2>2. QED
    BY <2>1 DEF Owners, Words
<1>5. Sleepers'
  <2> SUFFICES ASSUME NEW s \in Thread, NEW b \in Addr, s \in waitq'[b]
               PROVE  /\ \/ b = mtx'[s] /\ (pc'[s] = "lock_xchg" \/ Requeued(s)')
                         \/ b \in Cond /\ b = cnd'[s] /\ Requeued(s)'
                      /\ \A d \in Addr : s \in waitq'[d] => b = d
    BY DEF Sleepers
  <2>1. CASE s = t
    <3>1. \A d \in Addr : t \in waitq'[d] => d = a
      BY <1>2 DEF Asleep
    <3>2. QED
      BY <2>1, <3>1
  <2>2. CASE s # t
    <3>1. \A d \in Addr : s \in waitq'[d] => s \in waitq[d]
      BY <1>2, <2>2
    <3>2. QED
      BY <2>2, <3>1 DEF Sleepers, OnlyMoves, Requeued
  <2>3. QED
    BY <2>1, <2>2
<1>6. RequeuedNotLost'
  <2> SUFFICES ASSUME NEW m \in Mutex, waitq'[m] # {}, ~(MUTEX_SLEEPING \in state[m])
               PROVE  \E s \in Thread : Announcer(s, m)'
    BY AnnouncingNext
  <2>1. m # a /\ waitq[m] # {} /\ ~Announcer(t, m)
    BY <1>2, MutexAssumption
  <2>2. PICK s \in Thread : Announcer(s, m)
    BY <2>1, Announcing
  <2>3. s # t
    BY <2>1, <2>2
  <2>4. ~Asleep(s)'
    BY <1>2, <2>2, <2>3 DEF Asleep, Announcer
  <2>5. QED
    BY <2>2, <2>3, <2>4 DEF Announcer, OnlyMoves
<1>7. QED
  BY <1>1, <1>3, <1>4, <1>5, <1>6

LEMMA LockWaits ==
  ASSUME IInv, NEW t \in Thread, lock_wait(t), UNCHANGED <<condVars, graphVars>>
  PROVE  IInv'
<1> USE DEF IInv
<1>1. PICK m \in Mutex : m = mtx[t]
  BY DEF CallTypes
<1>2. /\ pc[t] = "lock_wait" /\ ~Asleep(t) /\ Goto(t, "lock_xchg") /\ m \in Addr
      /\ UNCHANGED <<state, proto, holder, spin, mtx, ret, fail>>
      /\ Guards(t, ret[t], mtx[t]) \/ (ret[t] = "cond_or" /\ Waits(t))
  BY MutexAssumption DEF lock_wait, At, frame, ThreadOK, LockPC
<1>3. CallTypes' /\ CondTypes' /\ OnlyMoves(t) /\ pc'[t] = "lock_xchg" /\ ThreadOK(t)'
  <2>1. "lock_xchg" \in PC
    BY Labels
  <2>2. QED
    BY <1>2, <2>1, WentTo DEF LockPC, UnlockPC
<1>4. CASE state[m] = {MUTEX_LOCKED, MUTEX_SLEEPING}
  <2>1. waitq' = [waitq EXCEPT ![m] = waitq[m] \cup {t}]
    BY <1>1, <1>4 DEF lock_wait, FutexWait
  <2>2. \A k \in Mutex : Announcer(t, k) \/ m = k => MUTEX_SLEEPING \in state[k]
    BY <1>1, <1>4 DEF Announcer
  <2>3. QED
    BY <1>1, <1>2, <1>3, <2>1, <2>2, SleepStep DEF HoldPC
<1>5. CASE state[m] # {MUTEX_LOCKED, MUTEX_SLEEPING}
  <2>1. waitq' = waitq
    <3>1. waitq' = [waitq EXCEPT ![m] = waitq[m]]
      BY <1>1, <1>5 DEF lock_wait, FutexWait
    <3>2. [waitq EXCEPT ![m] = waitq[m]] = waitq
      BY <1>2 DEF WordTypes
    <3>3. QED
      BY <3>1, <3>2
  <2>2. WordTypes' /\ ~Asleep(t)'
    BY <1>2, <2>1 DEF WordTypes, Asleep
  <2>3. Announcer(t, m)'
    BY <1>1, <1>2, <1>3, <2>2 DEF Announcer
  <2>4. QED
    BY <1>1, <1>2, <1>3, <2>1, <2>2, <2>3, WordStep DEF HoldPC
<1>6. QED
  BY <1>4, <1>5

LEMMA CondSleeps ==
  ASSUME IInv, NEW t \in Thread, cond_sleep(t), UNCHANGED graphVars
  PROVE  IInv'
<1> USE DEF IInv
<1>1. PICK c \in Cond : c = cnd[t]
  BY Objects DEF cond_sleep, At, ThreadOK, Waits
<1>2. /\ pc[t] = "cond_sleep" /\ ~Asleep(t) /\ Waits(t) /\ c \in Addr
      /\ mtx[t] \in Mutex /\ Call(t, mtx[t], "trylock_load", "cond_or", "spin")
      /\ seq' = [seq EXCEPT ![t] = 0]
      /\ UNCHANGED <<state, proto, holder, spin, cseq, cnd, cret>>
  BY CondAssumption, Entries DEF cond_sleep, At, ThreadOK, CallTypes
<1>3. /\ CallTypes' /\ pc'[t] = "trylock_load" /\ mtx'[t] = mtx[t] /\ ret'[t] = "cond_or"
      /\ \A s \in Thread \ {t} : pc'[s] = pc[s] /\ mtx'[s] = mtx[s] /\ ret'[s] = ret[s]
  <2>1. "trylock_load" \in PC /\ "cond_or" \in PC
    BY Labels
  <2>2. QED
    BY <1>2, <2>1, Called
<1>4. CondTypes' /\ GraphTypes' /\ OnlyMoves(t)
  BY <1>2, <1>3 DEF CondTypes, GraphTypes, graphVars, OnlyMoves
<1>5. ThreadOK(t)'
  BY <1>2, <1>3 DEF ThreadOK, Waits, LockPC, UnlockPC
<1>6. \A m \in Mutex : ~Announcer(t, m)
  BY <1>2 DEF Announcer
<1>7. CASE cseq[c] = seq[t]
  <2>1. waitq' = [waitq EXCEPT ![c] = waitq[c] \cup {t}]
    BY <1>1, <1>7 DEF cond_sleep, FutexWait
  <2>2. c = cnd'[t] /\ Requeued(t)'
    BY <1>1, <1>2, <1>3 DEF Requeued
  <2>3. \A m \in Mutex : Announcer(t, m) \/ c = m => MUTEX_SLEEPING \in state[m]
    BY <1>6, Objects
  <2>4. pc[t] \notin HoldPC /\ pc'[t] \notin HoldPC /\ UNCHANGED <<state, proto, holder, spin, graphVars>>
    BY <1>2, <1>3 DEF HoldPC
  <2>5. QED
    BY <1>2, <1>3, <1>4, <1>5, <2>1, <2>2, <2>3, <2>4, SleepStep
<1>8. CASE cseq[c] # seq[t]
  <2>1. waitq' = waitq
    <3>1. waitq' = [waitq EXCEPT ![c] = waitq[c]]
      BY <1>1, <1>8 DEF cond_sleep, FutexWait
    <3>2. [waitq EXCEPT ![c] = waitq[c]] = waitq
      BY <1>2 DEF WordTypes
    <3>3. QED
      BY <3>1, <3>2
  <2>2. WordTypes'
    BY <1>2, <2>1 DEF WordTypes
  <2>3. \A m \in Mutex : Holds(t, m)' <=> Holds(t, m)
    BY <1>2, <1>3 DEF Holds, HoldPC
  <2>4. QED
    BY <1>2, <1>3, <1>4, <1>5, <2>1, <2>2, <2>3, OwnStep DEF LockPC
<1>9. QED
  BY <1>7, <1>8

-----------------------------------------------------------------------------
(* Waking: who is woken sees to the sleepers that are left.                *)
LEMMA WakeStep ==
  ASSUME IInv, NEW t \in Thread, ~Asleep(t), OnlyMoves(t), WordTypes', CallTypes', CondTypes',
         ThreadOK(t)', UNCHANGED <<state, holder, mtx, ret, graphVars>>,
         pc[t] \notin HoldPC, pc'[t] \notin HoldPC,
         NEW m \in Mutex, \A k \in Mutex \ {m} : ~Announcer(t, k) /\ waitq'[k] = waitq[k],
         \A a \in Addr : waitq'[a] \subseteq waitq[a],
         Announcer(t, m) /\ waitq[m] # {} => waitq'[m] # waitq[m]
  PROVE  IInv'
<1> USE DEF IInv
<1>1. (\A s \in Thread : ThreadOK(s)') /\ GraphTypes'
  BY OthersOK DEF graphVars, GraphTypes
<1>2. Owners' /\ Words'
  <2>1. \A s \in Thread : \A k \in Mutex : Holds(s, k)' <=> Holds(s, k)
    BY DEF OnlyMoves, Holds
  <2>2. QED
    BY <2>1 DEF Owners, Words
<1>3. Sleepers' /\ ~Asleep(t)'
  BY OthersSleep
<1>4. RequeuedNotLost'
  <2> SUFFICES ASSUME NEW k \in Mutex, waitq'[k] # {}, ~(MUTEX_SLEEPING \in state[k])
               PROVE  \E s \in Thread : Announcer(s, k)'
    BY AnnouncingNext
  <2>1. k \in Addr /\ waitq[k] # {}
    BY Objects
  <2>2. PICK s \in Thread : Announcer(s, k)
    BY <2>1, Announcing
  <2>3. CASE s # t
    BY <2>2, <2>3, OthersAnnounce
  <2>4. CASE s = t
    <3>1. k = m /\ m \in Addr /\ waitq'[m] # waitq[m]
      BY <2>1, <2>2, <2>4
    <3>2. PICK w \in waitq[m] : w \notin waitq'[m]
      BY <3>1
    <3>3. w \in Thread /\ w # t
      BY <3>1, <3>2 DEF WordTypes, Asleep
    <3>4. m = mtx[w] /\ (pc[w] = "lock_xchg" \/ Requeued(w)) /\ \A b \in Addr : w \in waitq[b] => b = m
      BY <3>1, <3>2, <3>3, Objects DEF Sleepers
    <3>5. ~Asleep(w)'
      BY <3>2, <3>4 DEF Asleep
    <3>6. Announcer(w, m)'
      BY <3>3, <3>4, <3>5 DEF Announcer, OnlyMoves, Requeued
    <3>7. QED
      BY <3>1, <3>3, <3>6
  <2>5. QED
    BY <2>3, <2>4
<1>5. QED
  BY <1>1, <1>2, <1>3, <1>4

(* FUTEX_WAKE takes one thread from the queue, if there is one.            *)
LEMMA WakeTakes ==
  ASSUME WordTypes, NEW a \in Addr, FutexWake(a)
  PROVE  /\ waitq' \in [Addr -> SUBSET Thread] /\ \A b \in Addr : waitq'[b] \subseteq waitq[b]
         /\ \A b \in Addr \ {a} : waitq'[b] = waitq[b]
         /\ waitq[a] # {} => \E w \in waitq[a] : waitq'[a] = waitq[a] \ {w}
<1>1. CASE waitq' = waitq /\ waitq[a] = {}
  BY <1>1 DEF WordTypes
<1>2. ASSUME NEW w \in waitq[a], waitq' = [waitq EXCEPT ![a] = waitq[a] \ {w}]
      PROVE  /\ waitq' \in [Addr -> SUBSET Thread] /\ waitq'[a] = waitq[a] \ {w}
             /\ \A b \in Addr \ {a} : waitq'[b] = waitq[b]
  BY <1>2 DEF WordTypes
<1>3. QED
  BY <1>1, <1>2 DEF FutexWake

LEMMA UnlockWakes ==
  ASSUME IInv, NEW t \in Thread, unlock_wake(t), UNCHANGED <<condVars, graphVars>>
  PROVE  IInv'
<1> USE DEF IInv
<1>1. PICK m \in Mutex : m = mtx[t]
  BY DEF CallTypes
<1>2. /\ pc[t] = "unlock_wake" /\ ~Asleep(t) /\ Goto(t, ret[t]) /\ FutexWake(m) /\ m \in Addr
      /\ UNCHANGED <<state, proto, holder, spin, mtx, ret, fail>> /\ ret[t] \in PC
      /\ \/ ret[t] = "cond_spin" /\ Waits(t)
         \/ ret[t] = "ct_bcast"
         \/ ret[t] \in {"m_stop", "cs_bcast"} /\ t = Main
         \/ ret[t] \in {"cw_ret", "act", "ns_signal"} /\ t \in Node
  BY <1>1, Objects DEF unlock_wake, At, frame, CallTypes, ThreadOK, UnlockPC
<1>3. CallTypes' /\ CondTypes' /\ OnlyMoves(t) /\ pc'[t] = ret[t] /\ ThreadOK(t)'
  BY <1>2, WentTo DEF LockPC, UnlockPC
<1>4. /\ waitq' \in [Addr -> SUBSET Thread] /\ \A b \in Addr : waitq'[b] \subseteq waitq[b]
      /\ \A b \in Addr \ {m} : waitq'[b] = waitq[b]
      /\ waitq[m] # {} => \E w \in waitq[m] : waitq'[m] = waitq[m] \ {w}
  BY <1>2, WakeTakes
<1>5. WordTypes'
  BY <1>2, <1>4 DEF WordTypes
<1>6. \A k \in Mutex \ {m} : ~Announcer(t, k) /\ waitq'[k] = waitq[k]
  BY <1>1, <1>4, Objects DEF Announcer
<1>7. waitq[m] # {} => waitq'[m] # waitq[m]
  BY <1>4
<1>8. pc[t] \notin HoldPC /\ pc'[t] \notin HoldPC
  BY <1>2, <1>3 DEF HoldPC
<1>9. QED
  BY <1>2, <1>3, <1>4, <1>5, <1>6, <1>7, <1>8, WakeStep

-----------------------------------------------------------------------------
(* The condition variable's last steps, and spurious returns.              *)
LEMMA WentBack ==
  ASSUME CallTypes, CondTypes, NEW t \in Thread, cret[t] \in PC, Goto(t, cret[t]), CondDone(t),
         UNCHANGED <<mtx, ret, fail, cseq, seq>>
  PROVE  /\ CallTypes' /\ CondTypes' /\ OnlyMoves(t) /\ pc'[t] = cret[t]
         /\ \A s \in Thread \ {t} : pc'[s] = pc[s]
<1>1. CallTypes' /\ pc'[t] = cret[t] /\ \A s \in Thread \ {t} : pc'[s] = pc[s]
  BY DEF CallTypes, Goto
<1>2. CondTypes' /\ \A s \in Thread \ {t} : cnd'[s] = cnd[s] /\ cret'[s] = cret[s]
  <2>1. "none" \in PC \cup {"none"} /\ NoCond \in Cond \cup {NoCond}
    OBVIOUS
  <2>2. QED
    BY <2>1 DEF CondTypes, CondDone
<1>3. QED
  BY <1>1, <1>2 DEF OnlyMoves

LEMMA CondOrs ==
  ASSUME IInv, NEW t \in Thread, cond_or(t), UNCHANGED graphVars
  PROVE  IInv'
<1> USE DEF IInv
<1>1. PICK m \in Mutex : m = mtx[t]
  BY DEF CallTypes
<1>2. /\ pc[t] = "cond_or" /\ ~Asleep(t) /\ Waits(t) /\ cret[t] \in {"cw_check", "nw_check"}
      /\ UNCHANGED <<waitq, proto, holder, spin, mtx, ret, fail, cseq, seq>>
      /\ state' = [state EXCEPT ![m] = state[m] \cup {MUTEX_SLEEPING}]
  BY <1>1 DEF cond_or, At, frame, SetState, ThreadOK, Waits
<1>3. /\ CallTypes' /\ CondTypes' /\ OnlyMoves(t) /\ pc'[t] = cret[t]
  <2>1. cret[t] \in PC
    BY <1>2, Labels
  <2>2. QED
    BY <1>2, <2>1, WentBack DEF cond_or
<1>4. ThreadOK(t)'
  BY <1>2, <1>3 DEF ThreadOK, Waits, Guards, LockPC, UnlockPC
<1>5. /\ WordTypes' /\ state'[m] = state[m] \cup {MUTEX_SLEEPING}
      /\ \A k \in Mutex \ {m} : state'[k] = state[k]
  BY <1>2 DEF WordTypes
<1>6. /\ MUTEX_LOCKED \in state'[m] <=> MUTEX_LOCKED \in state[m]
      /\ pc[t] \in HoldPC /\ pc'[t] \in HoldPC
  BY <1>2, <1>3, <1>5, MutexAssumption DEF HoldPC
<1>7. QED
  BY <1>1, <1>2, <1>3, <1>4, <1>5, <1>6, WordStep

LEMMA SignalWakes ==
  ASSUME IInv, NEW t \in Thread, signal_wake(t), UNCHANGED graphVars
  PROVE  IInv'
<1> USE DEF IInv
<1>1. /\ pc[t] = "signal_wake" /\ ~Asleep(t) /\ t \in Node /\ cnd[t] = CondOf[t]
      /\ cnd[t] \in Cond /\ cnd[t] \in Addr /\ FutexWake(cnd[t]) /\ cret[t] \in {"next", "done"}
      /\ UNCHANGED <<state, proto, holder, spin, mtx, ret, fail, cseq, seq>>
  BY Objects DEF signal_wake, At, frame, ThreadOK
<1>2. /\ CallTypes' /\ CondTypes' /\ OnlyMoves(t) /\ pc'[t] = cret[t]
  <2>1. cret[t] \in PC
    BY <1>1, Labels
  <2>2. QED
    BY <1>1, <2>1, WentBack DEF signal_wake
<1>3. ThreadOK(t)'
  BY <1>1, <1>2 DEF ThreadOK, LockPC, UnlockPC
<1>4. /\ waitq' \in [Addr -> SUBSET Thread] /\ \A b \in Addr : waitq'[b] \subseteq waitq[b]
      /\ \A b \in Addr \ {cnd[t]} : waitq'[b] = waitq[b]
  BY <1>1, WakeTakes
<1>5. WordTypes'
  BY <1>1, <1>4 DEF WordTypes
<1>6. \A k \in Mutex : ~Announcer(t, k) /\ waitq'[k] = waitq[k]
  BY <1>1, <1>4, Objects DEF Announcer
<1>7. pc[t] \notin HoldPC /\ pc'[t] \notin HoldPC
  BY <1>1, <1>2 DEF HoldPC
<1>8. PICK m \in Mutex : m = mtx[t]
  BY DEF CallTypes
<1>9. QED
  BY <1>1, <1>2, <1>3, <1>4, <1>5, <1>6, <1>7, <1>8, WakeStep

(* The waiter that a broadcast wakes announces those that it requeues.     *)
LEMMA Requeues ==
  ASSUME IInv, NEW t \in Thread, bcast_requeue(t), UNCHANGED graphVars
  PROVE  IInv'
<1> USE DEF IInv
<1>0. PICK m \in Mutex, c \in Cond : m = MutexOf[Clock] /\ c = CondOf[Clock]
  BY Objects
<1>1. /\ pc[t] = "bcast_requeue" /\ ~Asleep(t) /\ cnd[t] = c /\ mtx[t] = m
      /\ FutexRequeue(c, m) /\ m \in Addr /\ c \in Addr /\ c # m /\ c \notin Mutex
      /\ IF t = Main THEN cret[t] \in {"clock_wait", "m_join"} ELSE cret[t] = "next"
      /\ UNCHANGED <<state, proto, holder, spin, mtx, ret, fail, cseq, seq>>
  BY <1>0, Objects DEF bcast_requeue, At, frame, ThreadOK
<1>2. /\ CallTypes' /\ CondTypes' /\ OnlyMoves(t) /\ pc'[t] = cret[t]
  <2>1. cret[t] \in PC
    BY <1>1, Labels
  <2>2. QED
    BY <1>1, <2>1, WentBack DEF bcast_requeue
<1>3. ThreadOK(t)'
  BY <1>1, <1>2, Objects DEF ThreadOK, LockPC, UnlockPC
<1>4. pc[t] \notin HoldPC /\ pc'[t] \notin HoldPC
  BY <1>1, <1>2 DEF HoldPC
<1>5. \A k \in Mutex : ~Announcer(t, k)
  BY <1>1 DEF Announcer
<1>6. CASE waitq' = waitq
  <2>1. WordTypes'
    BY <1>1, <1>6 DEF WordTypes
  <2>2. QED
    BY <1>1, <1>2, <1>3, <1>4, <1>5, <1>6, <2>1, WakeStep
<1>7. ASSUME NEW w \in waitq[c],
             waitq' = [waitq EXCEPT ![c] = {}, ![m] = waitq[m] \cup (waitq[c] \ {w})]
      PROVE  IInv'
  <2>1. /\ waitq'[c] = {} /\ waitq'[m] = waitq[m] \cup (waitq[c] \ {w})
        /\ \A b \in Addr \ {c, m} : waitq'[b] = waitq[b]
    BY <1>1, <1>7 DEF WordTypes
  <2>2. WordTypes'
    BY <1>1, <1>7 DEF WordTypes
  <2>3. (\A s \in Thread : ThreadOK(s)') /\ GraphTypes'
    BY <1>2, <1>3, OthersOK DEF graphVars, GraphTypes
  <2>4. Owners' /\ Words'
    <3>1. \A s \in Thread : \A k \in Mutex : Holds(s, k)' <=> Holds(s, k)
      BY <1>1, <1>2, <1>4 DEF OnlyMoves, Holds
    <3>2. QED
      BY <1>1, <3>1 DEF Owners, Words
  <2>5. \A s \in waitq[c] : s \in Thread /\ s # t /\ Requeued(s) /\ mtx[s] = m
                            /\ \A b \in Addr : s \in waitq[b] => b = c
    <3> SUFFICES ASSUME NEW s \in waitq[c]
                 PROVE  /\ s \in Thread /\ s # t /\ Requeued(s) /\ mtx[s] = m
                        /\ \A b \in Addr : s \in waitq[b] => b = c
      OBVIOUS
    <3>1. s \in Thread /\ s # t
      BY <1>1 DEF WordTypes, Asleep
    <3>2. Requeued(s) /\ cnd[s] = c /\ \A b \in Addr : s \in waitq[b] => b = c
      <4>1. c # mtx[s]
        BY <1>1, <3>1 DEF CallTypes
      <4>2. QED
        BY <1>1, <3>1, <4>1 DEF Sleepers
    <3>3. Waits(s)
      BY <3>1, <3>2 DEF ThreadOK, Requeued, LockPC, Guards
    <3>4. mtx[s] = m
      BY <1>0, <3>2, <3>3, Objects DEF Waits
    <3>5. QED
      BY <3>1, <3>2, <3>4
  <2>6. \A s \in Thread : Asleep(s)' => Asleep(s) /\ s # w
    <3> SUFFICES ASSUME NEW s \in Thread, NEW b \in Addr, s \in waitq'[b]
                 PROVE  Asleep(s) /\ s # w
      BY DEF Asleep
    <3>1. CASE b = m
      BY <1>1, <2>1, <2>5, <3>1 DEF Asleep
    <3>2. CASE b # m
      BY <1>1, <2>1, <2>5, <3>2 DEF Asleep
    <3>3. QED
      BY <3>1, <3>2
  <2>7. Sleepers'
    <3> SUFFICES ASSUME NEW s \in Thread, NEW b \in Addr, s \in waitq'[b]
                 PROVE  /\ \/ b = mtx'[s] /\ (pc'[s] = "lock_xchg" \/ Requeued(s)')
                           \/ b \in Cond /\ b = cnd'[s] /\ Requeued(s)'
                        /\ \A d \in Addr : s \in waitq'[d] => b = d
      BY DEF Sleepers
    <3>1. s # t
      BY <1>1, <2>6 DEF Asleep
    <3>2. CASE s \in waitq[c]
      <4>1. b = m /\ \A d \in Addr : s \in waitq'[d] => d = m
        BY <1>1, <2>1, <2>5, <3>2
      <4>2. QED
        BY <1>2, <2>5, <3>1, <3>2, <4>1 DEF OnlyMoves, Requeued
    <3>3. CASE s \notin waitq[c]
      <4>1. \A d \in Addr : s \in waitq'[d] => s \in waitq[d]
        BY <2>1, <3>3
      <4>2. QED
        BY <1>2, <3>1, <4>1 DEF Sleepers, OnlyMoves, Requeued
    <3>4. QED
      BY <3>2, <3>3
  <2>8. RequeuedNotLost'
    <3> SUFFICES ASSUME NEW k \in Mutex, waitq'[k] # {}, ~(MUTEX_SLEEPING \in state'[k])
                 PROVE  \E s \in Thread : Announcer(s, k)'
      BY AnnouncingNext
    <3>1. CASE k = m
      <4>1. w \in Thread /\ w # t /\ ~Asleep(w)' /\ mtx[w] = m /\ Requeued(w)
        BY <2>5, <2>6
      <4>2. Announcer(w, m)'
        BY <1>2, <4>1 DEF OnlyMoves, Announcer, Requeued
      <4>3. QED
        BY <3>1, <4>1, <4>2
    <3>2. CASE k # m
      <4>1. waitq[k] # {} /\ state'[k] = state[k]
        BY <1>1, <2>1, <3>2, Objects
      <4>2. PICK s \in Thread : Announcer(s, k)
        BY <4>1, Announcing
      <4>3. Announcer(s, k)'
        BY <1>2, <1>5, <2>6, <4>2 DEF Announcer, OnlyMoves
      <4>4. QED
        BY <4>3
    <3>3. QED
      BY <3>1, <3>2
  <2>9. QED
    BY <1>2, <2>2, <2>3, <2>4, <2>7, <2>8
<1>8. QED
  BY <1>1, <1>6, <1>7 DEF FutexRequeue

LEMMA Surprises ==
  ASSUME IInv, NEW t \in Thread, Spurious(t), UNCHANGED <<condVars, graphVars>>
  PROVE  IInv'
<1> USE DEF IInv
<1>1. PICK a \in Addr : waitq' = [waitq EXCEPT ![a] = waitq[a] \ {t}]
  BY DEF Spurious, FutexSpurious
<1>2. UNCHANGED <<state, holder, pc, spin, proto, mtx, ret, fail, cseq, cnd, seq, cret>>
  BY DEF Spurious, frame, condVars
<1>3. (\A b \in Addr : waitq'[b] \subseteq waitq[b]) /\ WordTypes'
  BY <1>1, <1>2 DEF WordTypes
<1>4. /\ CallTypes' /\ CondTypes' /\ GraphTypes' /\ Owners' /\ Words'
      /\ \A s \in Thread : ThreadOK(s)'
  BY <1>2 DEF CallTypes, CondTypes, GraphTypes, graphVars, Owners, Holds, Words, ThreadOK, Guards, Waits
<1>5. Sleepers'
  BY <1>2, <1>3 DEF Sleepers, Requeued
<1>6. RequeuedNotLost'
  <2> SUFFICES ASSUME NEW k \in Mutex, waitq'[k] # {}, ~(MUTEX_SLEEPING \in state'[k])
               PROVE  \E s \in Thread : Announcer(s, k)'
    BY AnnouncingNext
  <2>1. waitq[k] # {}
    BY <1>3, Objects
  <2>2. PICK s \in Thread : Announcer(s, k)
    BY <1>2, <2>1, Announcing
  <2>3. ~Asleep(s)'
    BY <1>3, <2>2 DEF Announcer, Asleep
  <2>4. QED
    BY <1>2, <2>2, <2>3 DEF Announcer
<1>7. QED
  BY <1>3, <1>4, <1>5, <1>6

-----------------------------------------------------------------------------
LEMMA Initial == Init => IInv
<1> SUFFICES ASSUME Init PROVE IInv
  OBVIOUS
<1>1. /\ WordTypes /\ \A a \in Addr : waitq[a] = {}
      /\ \A m \in Mutex : state[m] = {} /\ holder[m] = {}
  BY DEF Init, FutexInit, MutexInit, WordTypes
<1>2. CallTypes
  <2>1. {"m_tick", "clock_wait", "cw_check"} \subseteq PC
    BY Labels
  <2>2. MutexOf[Clock] \in Mutex
    BY Objects
  <2>3. QED
    BY <2>1, <2>2 DEF Init, CallTypes
<1>3. CondTypes
  BY DEF Init, CondInit, CondTypes
<1>4. GraphTypes
  BY DEF Init, GraphTypes
<1>5. \A t \in Thread : pc[t] = IF t = Main THEN "m_tick" ELSE "clock_wait"
  BY DEF Init
<1>6. \A t \in Thread : ThreadOK(t)
  BY <1>5 DEF ThreadOK, LockPC, UnlockPC
<1>7. Owners /\ Words
  BY <1>1, <1>5 DEF Owners, Words, Holds, HoldPC
<1>8. Sleepers /\ RequeuedNotLost
  BY <1>1, Objects DEF Sleepers, RequeuedNotLost
<1>9. QED
  BY <1>1, <1>2, <1>3, <1>4, <1>6, <1>7, <1>8 DEF IInv

LEMMA Stutter == IInv /\ UNCHANGED vars => IInv'
<1> SUFFICES ASSUME IInv, UNCHANGED vars PROVE IInv'
  OBVIOUS
<1>1. UNCHANGED <<waitq, state, holder, pc, spin, proto, mtx, ret, fail, cseq, cnd, seq, cret,
                  ticks, ready, want, bit, go>>
  BY DEF vars, mutexVars, condVars, graphVars
<1>2. (\A t \in Thread : ThreadOK(t)') /\ Owners' /\ Words' /\ Sleepers'
  BY <1>1 DEF IInv, ThreadOK, Guards, Waits, Owners, Words, Holds, Sleepers, Requeued
<1>3. WordTypes' /\ CallTypes' /\ CondTypes' /\ GraphTypes'
  BY <1>1 DEF IInv, WordTypes, CallTypes, CondTypes, GraphTypes
<1>4. RequeuedNotLost'
  BY <1>1 DEF IInv, RequeuedNotLost, Asleep
<1>5. QED
  BY <1>2, <1>3, <1>4 DEF IInv

LEMMA NoPi ==
  ASSUME IInv, NEW t \in Thread
  PROVE  ~(trylock_pi(t) \/ lock_pi(t) \/ unlock_pi(t) \/ unlock_kernel(t))
<1>1. pc[t] \in PC
  BY DEF IInv, CallTypes
<1>2. pc[t] \notin {"trylock_pi", "lock_pi", "unlock_pi", "unlock_kernel"}
  BY <1>1, Labels
<1>3. QED
  BY <1>2 DEF trylock_pi, lock_pi, unlock_pi, unlock_kernel, At

LEMMA Inductive == IInv /\ [Next]_vars => IInv'
<1> SUFFICES ASSUME IInv, [Next]_vars PROVE IInv'
  OBVIOUS
<1>1. ASSUME NEW t \in Thread, ThreadStep(t)
      PROVE  IInv'
  <2>1. CASE clock_wait(t) \/ cw_check(t) \/ ct_tick(t) \/ ct_bcast(t)
    BY <2>1, ClockSteps
  <2>2. CASE t \in Node /\ NodeThread(t)
    BY <2>2, NodeSteps
  <2>3. CASE MainThread(t)
    BY <2>3, MainSteps
  <2>4. CASE MutexStep(t) /\ UNCHANGED <<condVars, graphVars>>
    BY <2>4, NoPi, TrySteps, ExchangeSteps, LockWaits, UnlockWakes DEF MutexStep
  <2>5. CASE /\ cond_spin(t) \/ cond_sleep(t) \/ cond_or(t) \/ signal_wake(t) \/ bcast_requeue(t)
             /\ UNCHANGED graphVars
    BY <2>5, SpinStep, CondSleeps, CondOrs, SignalWakes, Requeues
  <2>6. QED
    BY <1>1, <2>1, <2>2, <2>3, <2>4, <2>5 DEF ThreadStep, CondStep
<1>2. ASSUME NEW t \in Thread, Surprise(t)
      PROVE  IInv'
  BY <1>2, Surprises DEF Surprise
<1>3. CASE UNCHANGED vars
  BY <1>3, Stutter
<1>4. QED
  BY <1>1, <1>2, <1>3 DEF Next, Terminating

(* The inductive invariant holds of the program of hw2/example/main.c.     *)
THEOREM Invariance == Spec => []IInv
<1>1. QED
  BY Initial, Inductive, PTL DEF Spec

(***************************************************************************)
(* No requeued waiter is lost: the fetch_or at the end of cond_wait        *)
(* (hw2/cond.h) makes up for the mutex word that the broadcast did not     *)
(* write.                                                                  *)
(***************************************************************************)
THEOREM RequeuedKept == Spec => []RequeuedNotLost
<1>1. IInv => RequeuedNotLost
  BY DEF IInv
<1>2. QED
  BY <1>1, Invariance, PTL

(***************************************************************************)
(* One thread at a time is where the clock, or a node, may be read and     *)
(* written: what hw2/example/main.c does under a mutex is done as if in    *)
(* one step, as ClockGraph takes it.                                       *)
(***************************************************************************)
OneInside ==
  \A x \in Object : \A s, t \in Thread :
    Guards(s, pc[s], MutexOf[x]) /\ Guards(t, pc[t], MutexOf[x]) => s = t

THEOREM Exclusion == Spec => []OneInside
<1>1. ASSUME IInv, NEW x \in Object, NEW s \in Thread, NEW t \in Thread,
             Guards(s, pc[s], MutexOf[x]), Guards(t, pc[t], MutexOf[x])
      PROVE  s = t
  <2>1. \A r \in {s, t} : Holds(r, MutexOf[x])
    <3>1. \A r \in Thread : Guards(r, pc[r], MutexOf[x]) => Holds(r, MutexOf[x])
      BY <1>1, Objects DEF IInv, ThreadOK, Guards, Holds, HoldPC
    <3>2. QED
      BY <1>1, <3>1
  <2>2. s \in holder[MutexOf[x]] /\ t \in holder[MutexOf[x]] /\ MutexOf[x] \in Mutex
    BY <1>1, <2>1, Objects DEF IInv, Owners
  <2>3. QED
    BY <1>1, <2>2 DEF IInv, Words
<1>2. IInv => OneInside
  BY <1>1 DEF OneInside
<1>3. QED
  BY <1>2, Invariance, PTL

-----------------------------------------------------------------------------
(* No signal is missed.  Waiters know what they wait for.                  *)
LEMMA Waiters ==
  ASSUME IInv, NEW t \in Thread
  PROVE  /\ Waiting(t) => Waits(t)
         /\ \A c \in Cond : t \in waitq[c] => c = cnd[t] /\ Requeued(t) /\ Waits(t)
         /\ Waits(t) => cnd[t] \in Cond
<1> USE DEF IInv
<1>1. Waiting(t) => Waits(t)
  BY DEF Waiting, ThreadOK
<1>2. ASSUME NEW c \in Cond, t \in waitq[c]
      PROVE  c = cnd[t] /\ Requeued(t) /\ Waits(t)
  <2>1. c \in Addr /\ c # mtx[t]
    BY Objects DEF CallTypes
  <2>2. c = cnd[t] /\ Requeued(t)
    BY <1>2, <2>1 DEF Sleepers
  <2>3. Waits(t)
    BY <2>2 DEF ThreadOK, Requeued, LockPC, Guards
  <2>4. QED
    BY <2>2, <2>3
<1>3. Waits(t) => cnd[t] \in Cond
  BY Objects DEF Waits
<1>4. QED
  BY <1>1, <1>2, <1>3

LEMMA NoneMissedNext ==
  ASSUME cseq' = cseq,
         \A s \in Thread : Waiting(s)' => \E c \in Cond :
           /\ c = cnd'[s] /\ seq'[s] <= cseq[c]
           /\ StillTrue(s)' \/ seq'[s] < cseq[c] \/ \E r \in Thread : WillBump(r, c)',
         \A s \in Thread : \A c \in Cond : s \in waitq'[c] =>
           StillTrue(s)' \/ \E r \in Thread : WillBump(r, c)' \/ WillWake(r, c)'
  PROVE  NoneMissed'
BY DEF NoneMissed

(* Threads that do not move go on with what they are about to do.          *)
LEMMA OthersSignal ==
  ASSUME NEW t \in Thread, OnlyMoves(t), NEW s \in Thread \ {t}, NEW c \in Cond
  PROVE  /\ WillBump(s, c)' <=> WillBump(s, c)
         /\ WillWake(s, c)' <=> WillWake(s, c)
         /\ Waiting(s)' <=> Waiting(s)
         /\ Waits(s)' <=> Waits(s)
BY DEF OnlyMoves, WillBump, WillWake, Waiting, Waits

(***************************************************************************)
(* A step that neither writes seq nor finishes a signal: what another      *)
(* waits for stays so, or the thread that changed it will signal.          *)
(***************************************************************************)
LEMMA QuietStep ==
  ASSUME IInv, NoneMissed, NEW t \in Thread, OnlyMoves(t), cseq' = cseq,
         \A s \in Thread \ {t} : seq'[s] = seq[s],
         \A c \in Cond : waitq'[c] \subseteq waitq[c] \cup {t},
         \A c \in Cond : (WillBump(t, c) => WillBump(t, c)') /\ (WillWake(t, c) => WillWake(t, c)'),
         \A s \in Thread \ {t} : \A c \in Cond :
           Waits(s) /\ c = cnd[s] /\ StillTrue(s) => StillTrue(s)' \/ WillBump(t, c)',
         Waiting(t)' => \E c \in Cond :
           /\ c = cnd'[t] /\ seq'[t] <= cseq[c]
           /\ StillTrue(t)' \/ seq'[t] < cseq[c] \/ \E s \in Thread : WillBump(s, c),
         \A c \in Cond : t \in waitq'[c] =>
           StillTrue(t)' \/ \E s \in Thread : WillBump(s, c) \/ WillWake(s, c)
  PROVE  NoneMissed'
<1>1. \A s \in Thread : \A c \in Cond : /\ WillBump(s, c) => WillBump(s, c)'
                                        /\ WillWake(s, c) => WillWake(s, c)'
  BY OthersSignal
<1>2. ASSUME NEW s \in Thread, Waiting(s)'
      PROVE  \E c \in Cond :
               /\ c = cnd'[s] /\ seq'[s] <= cseq[c]
               /\ StillTrue(s)' \/ seq'[s] < cseq[c] \/ \E r \in Thread : WillBump(r, c)'
  <2>1. CASE s = t
    <3>1. PICK c \in Cond :
            /\ c = cnd'[t] /\ seq'[t] <= cseq[c]
            /\ StillTrue(t)' \/ seq'[t] < cseq[c] \/ \E r \in Thread : WillBump(r, c)
      BY <1>2, <2>1
    <3>2. StillTrue(t)' \/ seq'[t] < cseq[c] \/ \E r \in Thread : WillBump(r, c)'
      BY <1>1, <3>1
    <3>3. QED
      BY <2>1, <3>1, <3>2
  <2>2. CASE s # t
    <3>1. Waiting(s) /\ cnd'[s] = cnd[s] /\ seq'[s] = seq[s]
      BY <1>2, <2>2 DEF OnlyMoves, Waiting
    <3>2. PICK c \in Cond : c = cnd[s] /\ Waits(s)
      BY <3>1, Waiters
    <3>3. /\ seq[s] <= cseq[c]
          /\ StillTrue(s) \/ seq[s] < cseq[c] \/ \E r \in Thread : WillBump(r, c)
      BY <3>1, <3>2 DEF NoneMissed
    <3>4. StillTrue(s)' \/ seq[s] < cseq[c] \/ \E r \in Thread : WillBump(r, c)'
      BY <1>1, <2>2, <3>2, <3>3
    <3>5. QED
      BY <3>1, <3>2, <3>3, <3>4
  <2>3. QED
    BY <2>1, <2>2
<1>3. ASSUME NEW s \in Thread, NEW c \in Cond, s \in waitq'[c]
      PROVE  StillTrue(s)' \/ \E r \in Thread : WillBump(r, c)' \/ WillWake(r, c)'
  <2>1. CASE s = t
    BY <1>1, <1>3, <2>1
  <2>2. CASE s # t
    <3>1. s \in waitq[c]
      BY <1>3, <2>2
    <3>2. c = cnd[s] /\ Waits(s)
      BY <3>1, Waiters
    <3>3. StillTrue(s) \/ \E r \in Thread : WillBump(r, c) \/ WillWake(r, c)
      BY <3>1 DEF NoneMissed
    <3>4. QED
      BY <1>1, <2>2, <3>2, <3>3
  <2>3. QED
    BY <2>1, <2>2
<1>4. QED
  BY <1>2, <1>3, NoneMissedNext

(* A thread that has no part in this, before or after.                     *)
LEMMA PlainQuiet ==
  ASSUME IInv, NoneMissed, NEW t \in Thread, ~Asleep(t), OnlyMoves(t), cseq' = cseq,
         \A s \in Thread \ {t} : seq'[s] = seq[s] /\ want'[s] = want[s],
         ticks' = ticks, \A n \in Node : ready'[n] => ready[n],
         \A c \in Cond : waitq'[c] \subseteq waitq[c],
         pc[t] \notin UnlockPC \cup {"ns_signal", "ct_bcast", "cs_bcast",
                                     "signal_wake", "bcast_requeue"},
         ~Waiting(t)'
  PROVE  NoneMissed'
<1>1. \A c \in Cond : ~WillBump(t, c) /\ ~WillWake(t, c)
  BY DEF WillBump, WillWake
<1>2. ASSUME NEW s \in Thread \ {t}, Waits(s), StillTrue(s)
      PROVE  StillTrue(s)'
  <2>1. cret'[s] = cret[s] /\ want'[s] = want[s] /\ (cret[s] = "nw_check" => s - 1 \in Node)
    BY <1>2, Objects DEF OnlyMoves, Waits
  <2>2. QED
    BY <1>2, <2>1 DEF StillTrue
<1>3. \A c \in Cond : t \notin waitq'[c]
  BY Objects DEF Asleep
<1>4. \A c \in Cond : waitq'[c] \subseteq waitq[c] \cup {t}
  OBVIOUS
<1>5. QED
  BY <1>1, <1>2, <1>3, <1>4, QuietStep

-----------------------------------------------------------------------------
LEMMA QuietLock ==
  ASSUME IInv, NoneMissed, NEW t \in Thread, ~Asleep(t), NEW x \in Object, NEW r \in PC,
         LockOf(t, x, r), UNCHANGED <<condVars, ticks, ready>>,
         \A s \in Thread \ {t} : want'[s] = want[s],
         pc[t] \in {"clock_wait", "cw_ret", "act", "next", "m_tick", "m_stop"}
  PROVE  NoneMissed'
<1>1. /\ Call(t, MutexOf[x], "trylock_load", r, "spin") /\ MutexOf[x] \in Mutex
      /\ waitq' = waitq /\ UNCHANGED <<cseq, cnd, seq, cret>>
  BY Entries, Objects DEF LockOf, lockFrame, IInv, condVars
<1>2. /\ pc'[t] = "trylock_load"
      /\ \A s \in Thread \ {t} : pc'[s] = pc[s] /\ mtx'[s] = mtx[s] /\ ret'[s] = ret[s]
  <2>1. "trylock_load" \in PC
    BY Labels
  <2>2. QED
    BY <1>1, <2>1, Called DEF IInv
<1>3. OnlyMoves(t) /\ ~Waiting(t)'
  BY <1>1, <1>2 DEF OnlyMoves, Waiting, UnlockPC
<1>4. pc[t] \notin UnlockPC \cup {"ns_signal", "ct_bcast", "cs_bcast", "signal_wake", "bcast_requeue"}
  BY DEF UnlockPC
<1>5. QED
  BY <1>1, <1>3, <1>4, PlainQuiet

(* What is changed under the mutex will be signalled after the unlock.     *)
LEMMA QuietUnlock ==
  ASSUME IInv, NoneMissed, NEW t \in Thread, ~Asleep(t), NEW x \in Object, NEW r \in PC,
         UnlockOf(t, x, r), UNCHANGED <<condVars, want>>, r # "cond_spin",
         pc[t] \in {"cw_check", "ct_tick", "cs_stop", "nw_check", "ns_set"},
         ticks' = ticks \/ r \in {"ct_bcast", "cs_bcast"},
         \A n \in Node : ready'[n] => ready[n] \/ (n = t /\ r = "ns_signal")
  PROVE  NoneMissed'
<1>1. /\ Call(t, MutexOf[x], "unlock_xchg", r, "spin") /\ MutexOf[x] \in Mutex
      /\ waitq' = waitq /\ UNCHANGED <<cseq, cnd, seq, cret>>
  BY Entries, Objects DEF UnlockOf, lockFrame, IInv, condVars
<1>2. /\ pc'[t] = "unlock_xchg" /\ ret'[t] = r
      /\ \A s \in Thread \ {t} : pc'[s] = pc[s] /\ mtx'[s] = mtx[s] /\ ret'[s] = ret[s]
  <2>1. "unlock_xchg" \in PC
    BY Labels
  <2>2. QED
    BY <1>1, <2>1, Called DEF IInv
<1>3. OnlyMoves(t) /\ ~Waiting(t)'
  BY <1>1, <1>2 DEF OnlyMoves, Waiting, UnlockPC
<1>4. \A c \in Cond : ~WillBump(t, c) /\ ~WillWake(t, c) /\ t \notin waitq'[c]
  BY <1>1, Objects DEF WillBump, WillWake, UnlockPC, Asleep
<1>5. ASSUME NEW s \in Thread \ {t}, NEW c \in Cond, Waits(s), c = cnd[s], StillTrue(s)
      PROVE  StillTrue(s)' \/ WillBump(t, c)'
  <2>1. CASE cret[s] = "cw_check" /\ c = CondOf[Clock]
    <3>1. CASE ticks' = ticks
      BY <1>1, <1>5, <2>1, <3>1 DEF StillTrue
    <3>2. CASE r \in {"ct_bcast", "cs_bcast"}
      BY <1>2, <2>1, <3>2 DEF WillBump, UnlockPC
    <3>3. QED
      BY <3>1, <3>2
  <2>2. CASE cret[s] = "nw_check" /\ s - 1 \in Node /\ c = CondOf[s - 1]
    <3>1. CASE ready'[s - 1] => ready[s - 1]
      BY <1>1, <1>5, <2>2, <3>1 DEF StillTrue
    <3>2. CASE s - 1 = t /\ r = "ns_signal"
      BY <1>2, <2>2, <3>2 DEF WillBump, UnlockPC
    <3>3. QED
      BY <2>2, <3>1, <3>2
  <2>3. QED
    BY <1>5, <2>1, <2>2, Objects DEF Waits
<1>6. QED
  BY <1>1, <1>3, <1>4, <1>5, QuietStep

(* cond_wait reads seq while what it waits for is still so.                *)
LEMMA QuietWait ==
  ASSUME IInv, NoneMissed, NEW t \in Thread, ~Asleep(t), NEW x \in Object, NEW r \in {"cw_check", "nw_check"},
         WaitOn(t, x, r), pc[t] = r, UNCHANGED <<ticks, ready, want>>,
         r = "cw_check" => 0 <= ticks /\ ticks < want[t],
         r = "nw_check" => ~ready[t - 1]
  PROVE  NoneMissed'
<1>1. /\ Call(t, MutexOf[x], "unlock_xchg", "cond_spin", "spin")
      /\ MutexOf[x] \in Mutex /\ CondOf[x] \in Cond
      /\ cnd' = [cnd EXCEPT ![t] = CondOf[x]] /\ cret' = [cret EXCEPT ![t] = r]
      /\ seq' = [seq EXCEPT ![t] = cseq[CondOf[x]]]
      /\ cseq' = cseq /\ waitq' = waitq
  BY Entries, Objects DEF WaitOn, cond_wait, CondCall, IInv
<1>2. /\ pc'[t] = "unlock_xchg" /\ ret'[t] = "cond_spin"
      /\ \A s \in Thread \ {t} : pc'[s] = pc[s] /\ mtx'[s] = mtx[s] /\ ret'[s] = ret[s]
  <2>1. "unlock_xchg" \in PC /\ "cond_spin" \in PC
    BY Labels
  <2>2. QED
    BY <1>1, <2>1, Called DEF IInv
<1>3. PICK c \in Cond : c = CondOf[x]
  BY <1>1
<1>4. /\ cnd'[t] = c /\ cret'[t] = r /\ seq'[t] = cseq[c] /\ cseq[c] \in Nat
      /\ \A s \in Thread \ {t} : cnd'[s] = cnd[s] /\ cret'[s] = cret[s] /\ seq'[s] = seq[s]
  BY <1>1, <1>3 DEF IInv, CondTypes
<1>5. OnlyMoves(t) /\ StillTrue(t)'
  BY <1>2, <1>4 DEF OnlyMoves, StillTrue
<1>6. \A d \in Cond : ~WillBump(t, d) /\ ~WillWake(t, d) /\ t \notin waitq'[d]
  BY <1>1, Objects DEF WillBump, WillWake, UnlockPC, Asleep
<1>7. \A s \in Thread \ {t} : StillTrue(s) => StillTrue(s)'
  BY <1>4 DEF StillTrue
<1>8. QED
  BY <1>1, <1>4, <1>5, <1>6, <1>7, QuietStep

(***************************************************************************)
(* A signal: seq changes, unless it wraps around, for all that have read   *)
(* it; those asleep will be woken.                                         *)
(***************************************************************************)
NoWrap == \A c \in Cond : cseq[c] <= cseq'[c]

LEMMA Bumps ==
  ASSUME CondTypes, NEW c \in Cond, Bump(c), NoWrap
  PROVE  /\ cseq[c] < cseq'[c] /\ cseq'[c] \in Nat
         /\ \A d \in Cond \ {c} : cseq'[d] = cseq[d]
<1>1. /\ cseq[c] \in Nat /\ SEQ_MOD \in Nat /\ SEQ_MOD > 1
      /\ cseq'[c] = (cseq[c] + 1) % SEQ_MOD /\ cseq[c] <= cseq'[c]
      /\ \A d \in Cond \ {c} : cseq'[d] = cseq[d]
  BY CondAssumption DEF CondTypes, Bump, NoWrap
<1>2. cseq'[c] \in 0 .. SEQ_MOD - 1
  BY <1>1
<1>3. CASE cseq[c] + 1 < SEQ_MOD
  <2>1. cseq'[c] = cseq[c] + 1
    BY <1>1, <1>3, Remainder
  <2>2. QED
    BY <1>1, <2>1
<1>4. CASE cseq[c] + 1 = SEQ_MOD
  <2>1. cseq'[c] = 0
    BY <1>1, <1>4
  <2>2. QED
    BY <1>1, <1>4, <2>1
<1>5. QED
  BY <1>1, <1>2, <1>3, <1>4

LEMMA BumpQuiet ==
  ASSUME IInv, NoneMissed, NEW t \in Thread, ~Asleep(t), OnlyMoves(t), NEW c \in Cond, Bump(c), NoWrap,
         UNCHANGED <<waitq, seq, graphVars>>, WillBump(t, c),
         pc[t] \in {"ns_signal", "ct_bcast", "cs_bcast"},
         pc'[t] \in {"signal_wake", "bcast_requeue"}, cnd'[t] = c
  PROVE  NoneMissed'
<1>1. /\ cseq[c] < cseq'[c] /\ cseq[c] \in Int /\ cseq'[c] \in Int
      /\ \A d \in Cond \ {c} : cseq'[d] = cseq[d]
  BY Bumps DEF IInv, CondTypes
<1>2. UNCHANGED <<ticks, ready, want>>
  BY DEF graphVars
<1>3. \A d \in Cond : ~WillWake(t, d) /\ (d # c => ~WillBump(t, d)) /\ t \notin waitq'[d]
  <2>1. \A d \in Cond : WillBump(t, d) => d = c
    BY DEF WillBump, UnlockPC
  <2>2. QED
    BY <2>1, Objects DEF WillWake, Asleep
<1>4. WillWake(t, c)' /\ ~Waiting(t)'
  BY DEF WillWake, Waiting, UnlockPC
<1>5. \A s \in Thread \ {t} : StillTrue(s)' <=> StillTrue(s)
  BY <1>2 DEF StillTrue, OnlyMoves
<1>6. \A d \in Cond \ {c} : /\ (\E s \in Thread : WillBump(s, d)) => \E s \in Thread : WillBump(s, d)'
                            /\ (\E s \in Thread : WillWake(s, d)) => \E s \in Thread : WillWake(s, d)'
  BY <1>3, OthersSignal
<1>7. ASSUME NEW s \in Thread, Waiting(s)'
      PROVE  \E d \in Cond :
               /\ d = cnd'[s] /\ seq'[s] <= cseq'[d]
               /\ StillTrue(s)' \/ seq'[s] < cseq'[d] \/ \E r \in Thread : WillBump(r, d)'
  <2>1. s # t
    BY <1>4, <1>7
  <2>2. Waiting(s) /\ cnd'[s] = cnd[s] /\ seq'[s] = seq[s] /\ seq[s] \in Int
    BY <1>7, <2>1 DEF OnlyMoves, Waiting, IInv, CondTypes
  <2>3. PICK d \in Cond : d = cnd[s]
    BY <2>2, Waiters
  <2>4. /\ seq[s] <= cseq[d]
        /\ StillTrue(s) \/ seq[s] < cseq[d] \/ \E r \in Thread : WillBump(r, d)
    BY <2>2, <2>3 DEF NoneMissed
  <2>5. CASE d = c
    BY <1>1, <2>2, <2>3, <2>4, <2>5
  <2>6. CASE d # c
    BY <1>1, <1>5, <1>6, <2>1, <2>2, <2>3, <2>4, <2>6
  <2>7. QED
    BY <2>5, <2>6
<1>8. ASSUME NEW s \in Thread, NEW d \in Cond, s \in waitq'[d]
      PROVE  StillTrue(s)' \/ \E r \in Thread : WillBump(r, d)' \/ WillWake(r, d)'
  <2>1. s # t /\ s \in waitq[d]
    BY <1>3, <1>8
  <2>2. StillTrue(s) \/ \E r \in Thread : WillBump(r, d) \/ WillWake(r, d)
    BY <2>1 DEF NoneMissed
  <2>3. CASE d = c
    BY <1>4, <2>3
  <2>4. CASE d # c
    BY <1>5, <1>6, <2>1, <2>2, <2>4
  <2>5. QED
    BY <2>3, <2>4
<1>9. QED
  BY <1>7, <1>8 DEF NoneMissed

(* The one thread, or all, that slept on c are woken.                      *)
LEMMA WakeQuiet ==
  ASSUME IInv, NoneMissed, NEW t \in Thread, ~Asleep(t), OnlyMoves(t), NEW c \in Cond,
         cseq' = cseq, UNCHANGED <<seq, graphVars>>, cnd[t] = c,
         waitq'[c] = {}, \A d \in Cond \ {c} : waitq'[d] = waitq[d],
         pc[t] \in {"signal_wake", "bcast_requeue"}, ~Waiting(t)'
  PROVE  NoneMissed'
<1>1. UNCHANGED <<ticks, ready, want>>
  BY DEF graphVars
<1>2. \A d \in Cond : ~WillBump(t, d) /\ (d # c => ~WillWake(t, d)) /\ t \notin waitq[d]
  BY Objects DEF WillBump, WillWake, UnlockPC, Asleep
<1>3. \A s \in Thread \ {t} : StillTrue(s)' <=> StillTrue(s)
  BY <1>1 DEF StillTrue, OnlyMoves
<1>4. \A d \in Cond : /\ (\E s \in Thread : WillBump(s, d)) => \E s \in Thread : WillBump(s, d)'
                      /\ d # c /\ (\E s \in Thread : WillWake(s, d)) => \E s \in Thread : WillWake(s, d)'
  BY <1>2, OthersSignal
<1>5. ASSUME NEW s \in Thread, Waiting(s)'
      PROVE  \E d \in Cond :
               /\ d = cnd'[s] /\ seq'[s] <= cseq[d]
               /\ StillTrue(s)' \/ seq'[s] < cseq[d] \/ \E r \in Thread : WillBump(r, d)'
  <2>1. s # t
    BY <1>5
  <2>2. Waiting(s) /\ cnd'[s] = cnd[s] /\ seq'[s] = seq[s]
    BY <1>5, <2>1 DEF OnlyMoves, Waiting
  <2>3. PICK d \in Cond : d = cnd[s]
    BY <2>2, Waiters
  <2>4. /\ seq[s] <= cseq[d]
        /\ StillTrue(s) \/ seq[s] < cseq[d] \/ \E r \in Thread : WillBump(r, d)
    BY <2>2, <2>3 DEF NoneMissed
  <2>5. QED
    BY <1>3, <1>4, <2>1, <2>2, <2>3, <2>4
<1>6. ASSUME NEW s \in Thread, NEW d \in Cond, s \in waitq'[d]
      PROVE  StillTrue(s)' \/ \E r \in Thread : WillBump(r, d)' \/ WillWake(r, d)'
  <2>1. d # c /\ s \in waitq[d] /\ s # t
    BY <1>2, <1>6
  <2>2. StillTrue(s) \/ \E r \in Thread : WillBump(r, d) \/ WillWake(r, d)
    BY <2>1 DEF NoneMissed
  <2>3. QED
    BY <1>3, <1>4, <2>1, <2>2
<1>7. QED
  BY <1>5, <1>6, NoneMissedNext

-----------------------------------------------------------------------------
LEMMA ProgramQuiet ==
  ASSUME IInv, NoneMissed, NoWrap, NEW t \in Thread,
         \/ clock_wait(t) \/ cw_check(t) \/ ct_tick(t) \/ ct_bcast(t)
         \/ MainThread(t)
         \/ t \in Node /\ NodeThread(t)
  PROVE  NoneMissed'
<1>1. ASSUME NEW x \in Object, NEW r \in PC, LockOf(t, x, r), ~Asleep(t),
             UNCHANGED <<condVars, ticks, ready>>, \A s \in Thread \ {t} : want'[s] = want[s],
             pc[t] \in {"clock_wait", "cw_ret", "act", "next", "m_tick", "m_stop"}
      PROVE  NoneMissed'
  BY <1>1, QuietLock
<1>2. ASSUME clock_wait(t) \/ m_tick(t) \/ m_stop(t)
      PROVE  NoneMissed'
  <2>1. PICK r \in {"cw_check", "ct_tick", "cs_stop"} :
          /\ LockOf(t, Clock, r) /\ ~Asleep(t) /\ UNCHANGED condVars /\ UNCHANGED graphVars
          /\ pc[t] \in {"clock_wait", "m_tick", "m_stop"}
    BY <1>2 DEF clock_wait, m_tick, m_stop, At
  <2>2. r \in PC
    BY Labels
  <2>3. UNCHANGED <<ticks, ready, want>>
    BY <2>1 DEF graphVars
  <2>4. QED
    BY <1>1, <2>1, <2>2, <2>3, Objects
<1>3. CASE cw_check(t)
  <2>1. ~Asleep(t) /\ pc[t] = "cw_check" /\ UNCHANGED <<ticks, ready, want>>
    BY <1>3 DEF cw_check, At
  <2>2. CASE WaitOn(t, Clock, "cw_check") /\ 0 <= ticks /\ ticks < want[t]
    BY <2>1, <2>2, QuietWait, Objects
  <2>3. CASE UnlockOf(t, Clock, IF t = Main THEN "m_stop" ELSE "cw_ret") /\ UNCHANGED condVars
    <3>1. PICK r \in {"m_stop", "cw_ret"} : r = IF t = Main THEN "m_stop" ELSE "cw_ret"
      OBVIOUS
    <3>2. r \in PC
      BY Labels
    <3>3. QED
      BY <2>1, <2>3, <3>1, <3>2, QuietUnlock, Objects
  <2>4. QED
    BY <1>3, <2>2, <2>3 DEF cw_check
<1>4. ASSUME ct_tick(t) \/ cs_stop(t)
      PROVE  NoneMissed'
  <2>1. PICK r \in {"ct_bcast", "cs_bcast"} :
          /\ UnlockOf(t, Clock, r) /\ ~Asleep(t) /\ UNCHANGED <<condVars, want, ready>>
          /\ pc[t] \in {"ct_tick", "cs_stop"}
    BY <1>4 DEF ct_tick, cs_stop, At
  <2>2. r \in PC
    BY Labels
  <2>3. QED
    BY <2>1, <2>2, QuietUnlock, Objects
<1>5. ASSUME ct_bcast(t) \/ cs_bcast(t)
      PROVE  NoneMissed'
  <2>1. PICK c \in Cond : c = CondOf[Clock]
    BY Objects
  <2>2. PICK r \in {"clock_wait", "next", "m_join"} :
          /\ cond_broadcast(t, c, MutexOf[Clock], r) /\ ~Asleep(t) /\ UNCHANGED graphVars
          /\ pc[t] \in {"ct_bcast", "cs_bcast"}
    BY <1>5, <2>1 DEF ct_bcast, cs_bcast, At
  <2>3. /\ CondCall(t, c, r) /\ Bump(c) /\ pc' = [pc EXCEPT ![t] = "bcast_requeue"]
        /\ mtx' = [mtx EXCEPT ![t] = MutexOf[Clock]] /\ UNCHANGED <<waitq, ret, seq>>
    BY <2>2 DEF cond_broadcast, Goto
  <2>4. /\ pc'[t] = "bcast_requeue" /\ cnd'[t] = c /\ OnlyMoves(t)
    BY <2>3 DEF IInv, CallTypes, CondTypes, CondCall, OnlyMoves
  <2>5. WillBump(t, c)
    BY <2>1, <2>2 DEF WillBump
  <2>6. QED
    BY <2>2, <2>3, <2>4, <2>5, BumpQuiet
<1>6. CASE m_join(t)
  <2>1. /\ pc[t] = "m_join" /\ ~Asleep(t) /\ pc' = [pc EXCEPT ![t] = "done"]
        /\ UNCHANGED <<waitq, mtx, ret, cseq, cnd, seq, cret, ticks, ready, want>>
    BY <1>6 DEF m_join, At, Goto, lockFrame, condVars, graphVars
  <2>2. OnlyMoves(t) /\ ~Waiting(t)'
    BY <2>1 DEF IInv, CallTypes, OnlyMoves, Waiting, UnlockPC
  <2>3. QED
    BY <2>1, <2>2, PlainQuiet DEF UnlockPC
<1>7. CASE t \in Node /\ cw_ret(t)
  <2>1. /\ ~Asleep(t) /\ pc[t] = "cw_ret" /\ UNCHANGED condVars /\ UNCHANGED <<ticks, ready, want>>
        /\ ThreadOK(t) /\ t \in Object
    BY <1>7, Objects DEF cw_ret, At, graphVars, IInv
  <2>2. CASE t # 0 /\ LockOf(t, Parent(t), "nw_check")
    <3>1. Parent(t) \in Object /\ "nw_check" \in PC
      BY <1>7, <2>2, Objects, Labels DEF Parent
    <3>2. QED
      BY <1>1, <2>1, <2>2, <3>1
  <2>3. CASE LockOf(t, t, "ns_set")
    <3>1. "ns_set" \in PC
      BY Labels
    <3>2. QED
      BY <1>1, <2>1, <2>3, <3>1
  <2>4. CASE Goto(t, "act") /\ UNCHANGED <<lockFrame, mtx, ret, fail>>
    <3>1. pc' = [pc EXCEPT ![t] = "act"] /\ UNCHANGED <<waitq, mtx, ret, cseq, cnd, seq, cret>>
      BY <2>1, <2>4 DEF Goto, lockFrame, condVars
    <3>2. OnlyMoves(t) /\ ~Waiting(t)'
      BY <3>1 DEF IInv, CallTypes, OnlyMoves, Waiting, UnlockPC
    <3>3. QED
      BY <2>1, <3>1, <3>2, PlainQuiet DEF UnlockPC
  <2>5. QED
    BY <1>7, <2>2, <2>3, <2>4 DEF cw_ret
<1>8. CASE t \in Node /\ nw_check(t)
  <2>1. ~Asleep(t) /\ pc[t] = "nw_check" /\ UNCHANGED <<ticks, want>>
    BY <1>8 DEF nw_check, At
  <2>2. t \in Node \ {0} /\ Parent(t) = t - 1 /\ Parent(t) \in Node /\ Parent(t) \in Object
    BY <2>1, Objects DEF IInv, ThreadOK, Guards, Parent
  <2>3. CASE ~ready[Parent(t)] /\ WaitOn(t, Parent(t), "nw_check") /\ UNCHANGED ready
    BY <2>1, <2>2, <2>3, QuietWait
  <2>4. CASE /\ ready' = [ready EXCEPT ![Parent(t)] = FALSE]
             /\ UnlockOf(t, Parent(t), "act") /\ UNCHANGED condVars
    <3>1. \A n \in Node : ready'[n] => ready[n]
      BY <2>4 DEF IInv, GraphTypes
    <3>2. "act" \in PC
      BY Labels
    <3>3. QED
      BY <2>1, <2>2, <2>4, <3>1, <3>2, QuietUnlock
  <2>5. QED
    BY <1>8, <2>3, <2>4 DEF nw_check
<1>9. CASE t \in Node /\ act(t)
  <2>1. PICK x \in Object, r \in {"ns_set", "ct_tick"} :
          /\ LockOf(t, x, r) /\ ~Asleep(t) /\ pc[t] = "act" /\ UNCHANGED condVars
          /\ UNCHANGED graphVars
    BY <1>9, Objects DEF act, At
  <2>2. r \in PC
    BY Labels
  <2>3. UNCHANGED <<ticks, ready, want>>
    BY <2>1 DEF graphVars
  <2>4. QED
    BY <1>1, <2>1, <2>2, <2>3
<1>10. CASE t \in Node /\ ns_set(t)
  <2>1. /\ ~Asleep(t) /\ pc[t] = "ns_set" /\ UnlockOf(t, t, "ns_signal")
        /\ UNCHANGED <<condVars, want, ticks>> /\ ready' = [ready EXCEPT ![t] = TRUE]
    BY <1>10 DEF ns_set, At
  <2>2. "ns_signal" \in PC /\ t \in Object
    BY <1>10, Labels, Objects
  <2>3. \A n \in Node : ready'[n] => ready[n] \/ n = t
    BY <2>1 DEF IInv, GraphTypes
  <2>4. QED
    BY <2>1, <2>2, <2>3, QuietUnlock
<1>11. CASE t \in Node /\ ns_signal(t)
  <2>1. PICK c \in Cond : c = CondOf[t]
    BY <1>11, Objects
  <2>2. PICK r \in {"next", "done"} :
          cond_signal(t, c, r) /\ ~Asleep(t) /\ UNCHANGED graphVars /\ pc[t] = "ns_signal"
    BY <1>11, <2>1 DEF ns_signal, At
  <2>3. /\ CondCall(t, c, r) /\ Bump(c) /\ pc' = [pc EXCEPT ![t] = "signal_wake"]
        /\ UNCHANGED <<waitq, mtx, ret, seq>>
    BY <2>2 DEF cond_signal, Goto, frame
  <2>4. /\ pc'[t] = "signal_wake" /\ cnd'[t] = c /\ OnlyMoves(t)
    BY <2>3 DEF IInv, CallTypes, CondTypes, CondCall, OnlyMoves
  <2>5. WillBump(t, c)
    BY <1>11, <2>1, <2>2 DEF WillBump
  <2>6. QED
    BY <2>2, <2>3, <2>4, <2>5, BumpQuiet
<1>12. CASE t \in Node /\ next(t)
  <2>1. /\ ~Asleep(t) /\ pc[t] = "next" /\ LockOf(t, Clock, "cw_check")
        /\ UNCHANGED <<condVars, ticks, ready>>
    BY <1>12 DEF next, At
  <2>2. \A s \in Thread \ {t} : want'[s] = want[s]
    BY <1>12 DEF next, IInv, GraphTypes
  <2>3. "cw_check" \in PC
    BY Labels
  <2>4. QED
    BY <1>1, <2>1, <2>2, <2>3, Objects
<1>13. QED
  BY <1>2, <1>3, <1>4, <1>5, <1>6, <1>7, <1>8, <1>9, <1>10, <1>11, <1>12 DEF MainThread, NodeThread

-----------------------------------------------------------------------------
(* The mutex's and the condition variable's own steps.                     *)
LEMMA TryQuiet ==
  ASSUME IInv, NoneMissed, NEW t \in Thread,
         trylock_load(t) \/ trylock_or(t) \/ lock_xchg(t) \/ lock_wait(t),
         UNCHANGED <<condVars, graphVars>>
  PROVE  NoneMissed'
<1>1. /\ pc[t] \in LockPC /\ ~Asleep(t) /\ UNCHANGED <<mtx, ret, cseq, cnd, seq, cret, ticks, ready, want>>
      /\ ret[t] \in {"cw_check", "ct_tick", "cs_stop", "nw_check", "ns_set", "cond_or"}
  <2>1. /\ pc[t] \in LockPC /\ ~Asleep(t) /\ UNCHANGED <<mtx, ret, cseq, cnd, seq, cret, ticks, ready, want>>
    BY DEF trylock_load, trylock_or, lock_xchg, lock_wait, At, frame, condVars, graphVars, LockPC
  <2>2. QED
    BY <2>1 DEF IInv, ThreadOK, Guards
<1>2. PICK l \in LockPC \cup {ret[t]} : pc' = [pc EXCEPT ![t] = l]
  <2>1. TryFailed(t) => Goto(t, "trylock_load") \/ Goto(t, "lock_xchg")
    BY FailedTry
  <2>2. \E l \in LockPC \cup {ret[t]} : Goto(t, l)
    BY <2>1 DEF trylock_load, trylock_or, lock_xchg, lock_wait, Acquired, LockPC
  <2>3. QED
    BY <2>2 DEF Goto
<1>3. OnlyMoves(t) /\ pc'[t] = l
  BY <1>1, <1>2 DEF IInv, CallTypes, OnlyMoves
<1>4. ~Waiting(t)'
  BY <1>1, <1>3 DEF Waiting, UnlockPC, LockPC
<1>5. \A c \in Cond : waitq'[c] \subseteq waitq[c]
  <2>1. CASE waitq' = waitq
    BY <2>1
  <2>2. CASE lock_wait(t)
    <3>1. PICK m \in Mutex : m = mtx[t]
      BY DEF IInv, CallTypes
    <3>2. \A c \in Cond : c # m
      BY <3>1, Objects
    <3>3. QED
      BY <2>2, <3>1, <3>2, Objects DEF lock_wait, FutexWait, IInv, WordTypes
  <2>3. QED
    BY <2>1, <2>2 DEF trylock_load, trylock_or, lock_xchg
<1>6. pc[t] \notin UnlockPC \cup {"ns_signal", "ct_bcast", "cs_bcast", "signal_wake", "bcast_requeue"}
  BY <1>1 DEF LockPC, UnlockPC
<1>7. QED
  BY <1>1, <1>3, <1>4, <1>5, <1>6, PlainQuiet

LEMMA UnlockQuiet ==
  ASSUME IInv, NoneMissed, NEW t \in Thread, unlock_xchg(t) \/ unlock_wake(t),
         UNCHANGED <<condVars, graphVars>>
  PROVE  NoneMissed'
<1>1. /\ pc[t] \in UnlockPC /\ ~Asleep(t) /\ UNCHANGED <<mtx, ret, cseq, cnd, seq, cret, ticks, ready, want>>
      /\ ret[t] \in {"cond_spin", "ct_bcast", "m_stop", "cs_bcast", "cw_ret", "act", "ns_signal"}
  <2>1. pc[t] \in UnlockPC /\ ~Asleep(t) /\ UNCHANGED <<mtx, ret, cseq, cnd, seq, cret, ticks, ready, want>>
    BY DEF unlock_xchg, unlock_wake, At, frame, condVars, graphVars, UnlockPC
  <2>2. QED
    BY <2>1 DEF IInv, ThreadOK
<1>2. PICK l \in {"unlock_wake", ret[t]} : pc' = [pc EXCEPT ![t] = l]
  BY DEF unlock_xchg, unlock_wake, Goto
<1>3. OnlyMoves(t) /\ pc'[t] = l
  BY <1>1, <1>2 DEF IInv, CallTypes, OnlyMoves
<1>4. \A c \in Cond : waitq'[c] \subseteq waitq[c]
  <2>1. PICK m \in Mutex : m = mtx[t]
    BY DEF IInv, CallTypes
  <2>2. CASE unlock_wake(t)
    <3>1. m \in Addr /\ FutexWake(m)
      BY <2>1, <2>2, Objects DEF unlock_wake
    <3>2. QED
      BY <3>1, WakeTakes, Objects DEF IInv
  <2>3. QED
    BY <2>2 DEF unlock_xchg
<1>5. \A c \in Cond : (WillBump(t, c) => WillBump(t, c)') /\ (WillWake(t, c) => WillWake(t, c)')
  BY <1>1, <1>2, <1>3 DEF WillBump, WillWake, UnlockPC
<1>6. \A s \in Thread \ {t} : StillTrue(s) => StillTrue(s)'
  BY <1>1 DEF StillTrue
<1>7. ASSUME Waiting(t)'
      PROVE  \E c \in Cond :
               /\ c = cnd'[t] /\ seq'[t] <= cseq[c]
               /\ StillTrue(t)' \/ seq'[t] < cseq[c] \/ \E s \in Thread : WillBump(s, c)
  <2>1. Waiting(t)
    BY <1>1, <1>2, <1>3, <1>7 DEF Waiting, UnlockPC
  <2>2. PICK c \in Cond : c = cnd[t]
    BY <2>1, Waiters
  <2>3. seq[t] <= cseq[c] /\ (StillTrue(t) \/ seq[t] < cseq[c] \/ \E s \in Thread : WillBump(s, c))
    BY <2>1, <2>2 DEF NoneMissed
  <2>4. StillTrue(t) => StillTrue(t)'
    BY <1>1 DEF StillTrue
  <2>5. QED
    BY <1>1, <2>2, <2>3, <2>4
<1>8. \A c \in Cond : t \notin waitq'[c] /\ waitq'[c] \subseteq waitq[c] \cup {t}
  BY <1>1, <1>4, Objects DEF Asleep
<1>9. QED
  BY <1>1, <1>3, <1>5, <1>6, <1>7, <1>8, QuietStep

LEMMA SpinQuiet ==
  ASSUME IInv, NoneMissed, NEW t \in Thread, cond_spin(t), UNCHANGED graphVars
  PROVE  NoneMissed'
<1>1. /\ pc[t] = "cond_spin" /\ ~Asleep(t) /\ waitq' = waitq /\ cseq' = cseq
      /\ UNCHANGED <<ticks, ready, want>> /\ Waiting(t)
  BY DEF cond_spin, At, graphVars, Waiting
<1>2. PICK m \in Mutex : m = mtx[t]
  BY DEF IInv, CallTypes
<1>3. CASE mutex_lock(t, mtx[t], cret[t]) /\ CondDone(t) /\ seq' = [seq EXCEPT ![t] = 0]
  <2>1. PICK r \in PC : r = cret[t]
    BY <1>1, Labels DEF IInv, ThreadOK, Waits
  <2>2. Call(t, m, "trylock_load", r, "spin") /\ "trylock_load" \in PC
    BY <1>2, <1>3, <2>1, Entries, Labels DEF IInv
  <2>3. /\ pc'[t] = "trylock_load"
        /\ \A s \in Thread \ {t} : pc'[s] = pc[s] /\ mtx'[s] = mtx[s] /\ ret'[s] = ret[s]
    BY <2>2, Called DEF IInv
  <2>4. \A s \in Thread \ {t} : cnd'[s] = cnd[s] /\ cret'[s] = cret[s] /\ seq'[s] = seq[s]
    BY <1>3 DEF CondDone, IInv, CondTypes
  <2>5. OnlyMoves(t) /\ ~Waiting(t)'
    BY <2>3, <2>4 DEF OnlyMoves, Waiting, UnlockPC
  <2>6. pc[t] \notin UnlockPC \cup {"ns_signal", "ct_bcast", "cs_bcast", "signal_wake", "bcast_requeue"}
    BY <1>1 DEF UnlockPC
  <2>7. QED
    BY <1>1, <2>4, <2>5, <2>6, PlainQuiet
<1>4. CASE pc' \in {pc, [pc EXCEPT ![t] = "cond_sleep"]} /\ UNCHANGED <<mtx, ret, seq, cnd, cret>>
  <2>1. OnlyMoves(t) /\ pc'[t] \in {"cond_spin", "cond_sleep"}
    BY <1>1, <1>4 DEF OnlyMoves, IInv, CallTypes
  <2>2. \A c \in Cond : ~WillBump(t, c) /\ ~WillWake(t, c) /\ t \notin waitq'[c]
    BY <1>1, Objects DEF WillBump, WillWake, UnlockPC, Asleep
  <2>3. PICK c \in Cond : c = cnd[t]
    BY <1>1, Waiters
  <2>4. seq[t] <= cseq[c] /\ (StillTrue(t) \/ seq[t] < cseq[c] \/ \E s \in Thread : WillBump(s, c))
    BY <1>1, <2>3 DEF NoneMissed
  <2>5. \A s \in Thread : StillTrue(s) => StillTrue(s)'
    BY <1>1, <1>4 DEF StillTrue
  <2>6. \E d \in Cond :
          /\ d = cnd'[t] /\ seq'[t] <= cseq[d]
          /\ StillTrue(t)' \/ seq'[t] < cseq[d] \/ \E s \in Thread : WillBump(s, d)
    BY <1>4, <2>3, <2>4, <2>5
  <2>7. \A d \in Cond : waitq'[d] \subseteq waitq[d] \cup {t}
    BY <1>1
  <2>8. \A s \in Thread \ {t} : seq'[s] = seq[s]
    BY <1>4
  <2>9. QED
    BY <1>1, <2>1, <2>2, <2>5, <2>6, <2>7, <2>8, QuietStep
<1>5. QED
  BY <1>3, <1>4 DEF cond_spin, Goto

LEMMA SleepQuiet ==
  ASSUME IInv, NoneMissed, NEW t \in Thread, cond_sleep(t), UNCHANGED graphVars
  PROVE  NoneMissed'
<1>1. /\ pc[t] = "cond_sleep" /\ ~Asleep(t) /\ cseq' = cseq /\ Waiting(t)
      /\ UNCHANGED <<ticks, ready, want, cnd, cret>>
  BY DEF cond_sleep, At, graphVars, Waiting
<1>2. PICK m \in Mutex : m = mtx[t]
  BY DEF IInv, CallTypes
<1>3. PICK c \in Cond : c = cnd[t]
  BY <1>1, Waiters
<1>4. Call(t, m, "trylock_load", "cond_or", "spin") /\ "trylock_load" \in PC /\ "cond_or" \in PC
  BY <1>2, Entries, Labels DEF cond_sleep, IInv
<1>5. /\ pc'[t] = "trylock_load"
      /\ \A s \in Thread \ {t} : pc'[s] = pc[s] /\ mtx'[s] = mtx[s] /\ ret'[s] = ret[s]
  BY <1>2, <1>4, Called DEF IInv
<1>6. \A s \in Thread \ {t} : seq'[s] = seq[s]
  BY DEF cond_sleep, IInv, CondTypes
<1>7. OnlyMoves(t) /\ ~Waiting(t)'
  BY <1>1, <1>5 DEF OnlyMoves, Waiting, UnlockPC
<1>8. seq[t] <= cseq[c] /\ (StillTrue(t) \/ seq[t] < cseq[c] \/ \E s \in Thread : WillBump(s, c))
  BY <1>1, <1>3 DEF NoneMissed
<1>9. waitq' = [waitq EXCEPT ![c] = IF cseq[c] = seq[t] THEN waitq[c] \cup {t} ELSE waitq[c]]
  BY <1>3 DEF cond_sleep, FutexWait
<1>10. /\ \A d \in Cond : waitq'[d] \subseteq waitq[d] \cup {t}
       /\ \A d \in Cond : t \in waitq'[d] => d = c /\ cseq[c] = seq[t]
  BY <1>1, <1>9, Objects DEF IInv, WordTypes, Asleep
<1>11. \A s \in Thread : StillTrue(s) => StillTrue(s)'
  BY <1>1 DEF StillTrue
<1>12. ASSUME NEW d \in Cond, t \in waitq'[d]
       PROVE  StillTrue(t)' \/ \E s \in Thread : WillBump(s, d) \/ WillWake(s, d)
  <2>1. d = c /\ ~(seq[t] < cseq[c])
    BY <1>10, <1>12 DEF IInv, CondTypes
  <2>2. QED
    BY <1>8, <1>11, <2>1
<1>13. \A d \in Cond : ~WillBump(t, d) /\ ~WillWake(t, d)
  BY <1>1 DEF WillBump, WillWake, UnlockPC
<1>14. QED
  BY <1>1, <1>6, <1>7, <1>10, <1>11, <1>12, <1>13, QuietStep

LEMMA OrQuiet ==
  ASSUME IInv, NoneMissed, NEW t \in Thread, cond_or(t), UNCHANGED graphVars
  PROVE  NoneMissed'
<1>1. /\ pc[t] = "cond_or" /\ ~Asleep(t) /\ waitq' = waitq /\ cseq' = cseq /\ seq' = seq
      /\ UNCHANGED <<ticks, ready, want, mtx, ret, fail>> /\ cret[t] \in {"cw_check", "nw_check"}
  BY DEF cond_or, At, graphVars, frame, IInv, ThreadOK, Waits
<1>2. cret[t] \in PC
  BY <1>1, Labels
<1>3. OnlyMoves(t) /\ pc'[t] = cret[t]
  BY <1>1, <1>2, WentBack DEF cond_or, IInv
<1>4. ~Waiting(t)'
  BY <1>1, <1>3 DEF Waiting, UnlockPC
<1>5. pc[t] \notin UnlockPC \cup {"ns_signal", "ct_bcast", "cs_bcast", "signal_wake", "bcast_requeue"}
  BY <1>1 DEF UnlockPC
<1>6. QED
  BY <1>1, <1>3, <1>4, <1>5, PlainQuiet

(* On a node's condition variable one thread sleeps at most: its child's.  *)
LEMMA WakesQuiet ==
  ASSUME IInv, NoneMissed, NEW t \in Thread, signal_wake(t) \/ bcast_requeue(t), UNCHANGED graphVars
  PROVE  NoneMissed'
<1>1. PICK c \in Cond : c = cnd[t]
  BY Objects DEF signal_wake, bcast_requeue, At, IInv, ThreadOK
<1>2. /\ pc[t] \in {"signal_wake", "bcast_requeue"} /\ ~Asleep(t) /\ cseq' = cseq /\ seq' = seq
      /\ UNCHANGED <<mtx, ret, fail>> /\ cret[t] \in {"next", "done", "clock_wait", "m_join"}
  BY DEF signal_wake, bcast_requeue, At, frame, IInv, ThreadOK
<1>3. cret[t] \in PC
  BY <1>2, Labels
<1>4. OnlyMoves(t) /\ pc'[t] = cret[t]
  BY <1>2, <1>3, WentBack DEF signal_wake, bcast_requeue, IInv
<1>5. ~Waiting(t)'
  BY <1>2, <1>4 DEF Waiting, UnlockPC
<1>6. waitq'[c] = {} /\ \A d \in Cond \ {c} : waitq'[d] = waitq[d]
  <2>1. CASE signal_wake(t)
    <3>1. t \in Node /\ c = CondOf[t] /\ FutexWake(c) /\ c \in Addr
      BY <1>1, <2>1, Objects DEF signal_wake, At, IInv, ThreadOK
    <3>2. \A s \in waitq[c] : s - 1 = t /\ s \in Node
      <4> SUFFICES ASSUME NEW s \in waitq[c] PROVE s - 1 = t /\ s \in Node
        OBVIOUS
      <4>1. s \in Thread
        BY <3>1 DEF IInv, WordTypes
      <4>2. Waits(s) /\ cnd[s] = CondOf[t]
        BY <3>1, <4>1, Waiters
      <4>3. QED
        BY <3>1, <4>2, Objects DEF Waits
    <3>3. t \in Int /\ Node \subseteq Int
      BY <3>1 DEF Node
    <3>4. \A r, s \in waitq[c] : r = s
      <4> SUFFICES ASSUME NEW r \in waitq[c], NEW s \in waitq[c] PROVE r = s
        OBVIOUS
      <4>1. r \in Int /\ s \in Int /\ r - 1 = t /\ s - 1 = t
        BY <3>2, <3>3
      <4>2. QED
        BY <3>3, <4>1
    <3>5. /\ waitq[c] # {} => \E w \in waitq[c] : waitq'[c] = waitq[c] \ {w}
          /\ \A d \in Cond \ {c} : waitq'[d] = waitq[d]
          /\ waitq'[c] \subseteq waitq[c]
      BY <3>1, WakeTakes, Objects DEF IInv
    <3>6. QED
      BY <3>4, <3>5
  <2>2. CASE bcast_requeue(t)
    <3>1. PICK m \in Mutex : m = mtx[t]
      BY DEF IInv, CallTypes
    <3>2. FutexRequeue(c, m) /\ c \in Addr /\ \A d \in Cond : d \in Addr /\ d # m
      BY <1>1, <2>2, <3>1, Objects DEF bcast_requeue
    <3>3. CASE waitq' = waitq /\ waitq[c] = {}
      BY <3>3
    <3>4. ASSUME NEW w \in waitq[c],
                 waitq' = [waitq EXCEPT ![c] = {}, ![m] = waitq[m] \cup (waitq[c] \ {w})]
          PROVE  waitq'[c] = {} /\ \A d \in Cond \ {c} : waitq'[d] = waitq[d]
      BY <3>2, <3>4 DEF IInv, WordTypes
    <3>5. FutexRequeue(c, m) =>
            \/ waitq[c] = {} /\ waitq' = waitq
            \/ \E w \in waitq[c] :
                 waitq' = [waitq EXCEPT ![c] = {}, ![m] = waitq[m] \cup (waitq[c] \ {w})]
      BY <3>2 DEF FutexRequeue
    <3>6. QED
      BY <3>2, <3>3, <3>4, <3>5
  <2>3. QED
    BY <2>1, <2>2
<1>7. QED
  BY <1>1, <1>2, <1>4, <1>5, <1>6, WakeQuiet

(* Sleepers wake, or nothing happens at all.                               *)
LEMMA StillQuiet ==
  ASSUME IInv, NoneMissed, \A c \in Cond : waitq'[c] \subseteq waitq[c],
         UNCHANGED <<pc, mtx, ret, cseq, cnd, seq, cret, ticks, ready, want>>
  PROVE  NoneMissed'
<1>1. \A s \in Thread : /\ Waiting(s)' <=> Waiting(s)
                        /\ StillTrue(s)' <=> StillTrue(s)
                        /\ \A c \in Cond : WillBump(s, c)' <=> WillBump(s, c)
                        /\ \A c \in Cond : WillWake(s, c)' <=> WillWake(s, c)
  BY DEF Waiting, StillTrue, WillBump, WillWake
<1>2. ASSUME NEW s \in Thread, Waiting(s)'
      PROVE  \E c \in Cond :
               /\ c = cnd'[s] /\ seq'[s] <= cseq[c]
               /\ StillTrue(s)' \/ seq'[s] < cseq[c] \/ \E r \in Thread : WillBump(r, c)'
  <2>1. PICK c \in Cond : c = cnd[s]
    BY <1>1, <1>2, Waiters
  <2>2. seq[s] <= cseq[c] /\ (StillTrue(s) \/ seq[s] < cseq[c] \/ \E r \in Thread : WillBump(r, c))
    BY <1>1, <1>2, <2>1 DEF NoneMissed
  <2>3. QED
    BY <1>1, <2>1, <2>2
<1>3. ASSUME NEW s \in Thread, NEW c \in Cond, s \in waitq'[c]
      PROVE  StillTrue(s)' \/ \E r \in Thread : WillBump(r, c)' \/ WillWake(r, c)'
  <2>1. s \in waitq[c]
    BY <1>3
  <2>2. StillTrue(s) \/ \E r \in Thread : WillBump(r, c) \/ WillWake(r, c)
    BY <2>1 DEF NoneMissed
  <2>3. QED
    BY <1>1, <2>2
<1>4. QED
  BY <1>2, <1>3, NoneMissedNext

LEMMA NoneMissedKept == IInv /\ NoneMissed /\ [Next]_vars /\ NoWrap => NoneMissed'
<1> SUFFICES ASSUME IInv, NoneMissed, [Next]_vars, NoWrap PROVE NoneMissed'
  OBVIOUS
<1>1. ASSUME NEW t \in Thread, ThreadStep(t)
      PROVE  NoneMissed'
  <2>1. CASE \/ clock_wait(t) \/ cw_check(t) \/ ct_tick(t) \/ ct_bcast(t)
             \/ MainThread(t)
             \/ t \in Node /\ NodeThread(t)
    BY <2>1, ProgramQuiet
  <2>2. CASE MutexStep(t) /\ UNCHANGED <<condVars, graphVars>>
    BY <2>2, NoPi, TryQuiet, UnlockQuiet DEF MutexStep
  <2>3. CASE /\ cond_spin(t) \/ cond_sleep(t) \/ cond_or(t) \/ signal_wake(t) \/ bcast_requeue(t)
             /\ UNCHANGED graphVars
    BY <2>3, SpinQuiet, SleepQuiet, OrQuiet, WakesQuiet
  <2>4. QED
    BY <1>1, <2>1, <2>2, <2>3 DEF ThreadStep, CondStep
<1>2. ASSUME NEW t \in Thread, Surprise(t)
      PROVE  NoneMissed'
  <2>1. PICK a \in Addr : waitq' = [waitq EXCEPT ![a] = waitq[a] \ {t}]
    BY <1>2 DEF Surprise, Spurious, FutexSpurious
  <2>2. \A c \in Cond : waitq'[c] \subseteq waitq[c]
    BY <2>1, Objects DEF IInv, WordTypes
  <2>3. UNCHANGED <<pc, mtx, ret, cseq, cnd, seq, cret, ticks, ready, want>>
    BY <1>2 DEF Surprise, Spurious, frame, condVars, graphVars
  <2>4. QED
    BY <2>2, <2>3, StillQuiet
<1>3. CASE UNCHANGED vars
  BY <1>3, StillQuiet DEF vars, mutexVars, condVars, graphVars
<1>4. QED
  BY <1>1, <1>2, <1>3 DEF Next, Terminating

LEMMA NoneMissedAtFirst == Init => NoneMissed
<1> SUFFICES ASSUME Init PROVE NoneMissed
  OBVIOUS
<1>1. \A t \in Thread : ~Waiting(t)
  BY DEF Init, Waiting, UnlockPC
<1>2. \A c \in Cond : waitq[c] = {}
  BY Objects DEF Init, FutexInit
<1>3. QED
  BY <1>1, <1>2 DEF NoneMissed

LEMMA NoneMissedSuffices == IInv /\ NoneMissed => NoMissedSignal
<1> SUFFICES ASSUME IInv, NoneMissed PROVE NoMissedSignal
  OBVIOUS
<1>1. ASSUME NEW s \in Thread, NEW x \in Object,
             WillBump(s, CondOf[x]) \/ WillWake(s, CondOf[x])
      PROVE  Signalling(s, x)
  <2>1. ~Asleep(s)
    BY <1>1 DEF WillBump, WillWake, UnlockPC, Asleep, IInv, Sleepers, Requeued
  <2>2. CASE WillWake(s, CondOf[x])
    BY <2>1, <2>2 DEF WillWake, Signalling
  <2>3. CASE WillBump(s, CondOf[x])
    <3>1. CASE x = Clock
      BY <2>1, <2>3, <3>1, Objects DEF WillBump, Signalling, SignalPC, UnlockPC
    <3>2. CASE x # Clock
      <4>1. s \in Node /\ x = s
        BY <2>3, <3>2, Objects DEF WillBump
      <4>2. QED
        BY <2>1, <2>3, <3>2, <4>1, Objects DEF WillBump, Signalling, SignalPC, UnlockPC
    <3>3. QED
      BY <3>1, <3>2
  <2>4. QED
    BY <1>1, <2>2, <2>3
<1>2. ASSUME NEW x \in Object, NEW t \in waitq[CondOf[x]]
      PROVE  /\ t \in Thread /\ Waits(t) /\ cnd[t] = CondOf[x]
             /\ StillTrue(t) \/ \E s \in Thread : Signalling(s, x)
  <2>1. CondOf[x] \in Cond
    BY Objects
  <2>2. t \in Thread
    BY <2>1, Objects DEF IInv, WordTypes
  <2>3. Waits(t) /\ cnd[t] = CondOf[x]
    BY <1>2, <2>1, <2>2, Waiters
  <2>4. StillTrue(t) \/ \E s \in Thread : WillBump(s, CondOf[x]) \/ WillWake(s, CondOf[x])
    BY <2>1, <2>2 DEF NoneMissed
  <2>5. QED
    BY <1>1, <2>2, <2>3, <2>4
<1>3. ASSUME NEW t \in waitq[CondOf[Clock]]
      PROVE  (0 <= ticks /\ ticks < want[t]) \/ \E s \in Thread : Signalling(s, Clock)
  <2>1. Waits(t) /\ cnd[t] = CondOf[Clock] /\ (StillTrue(t) \/ \E s \in Thread : Signalling(s, Clock))
    BY <1>2, Objects
  <2>2. cret[t] = "cw_check"
    BY <2>1, Objects DEF Waits
  <2>3. QED
    BY <2>1, <2>2 DEF StillTrue
<1>4. ASSUME NEW n \in Node, NEW t \in waitq[CondOf[n]]
      PROVE  ~ready[n] \/ \E s \in Thread : Signalling(s, n)
  <2>1. Waits(t) /\ cnd[t] = CondOf[n] /\ (StillTrue(t) \/ \E s \in Thread : Signalling(s, n))
    BY <1>2, Objects
  <2>2. cret[t] = "nw_check" /\ t - 1 = n
    BY <2>1, Objects DEF Waits
  <2>3. QED
    BY <2>1, <2>2 DEF StillTrue
<1>5. QED
  BY <1>3, <1>4 DEF NoMissedSignal

(***************************************************************************)
(* No signal is missed (hw2/cond.h with the program hw2/example/main.c),   *)
(* however many threads wait, spin or wake for nothing, as long as no seq  *)
(* wraps around: cond_wait compares numbers, not times.                    *)
(***************************************************************************)
THEOREM SignalsKept == Spec /\ [][NoWrap]_vars => []NoMissedSignal
<1>1. IInv /\ NoneMissed /\ [Next]_vars /\ [NoWrap]_vars => NoneMissed'
  <2> SUFFICES ASSUME IInv, NoneMissed, [Next]_vars, [NoWrap]_vars PROVE NoneMissed'
    OBVIOUS
  <2>1. CASE UNCHANGED vars
    BY <2>1, StillQuiet DEF vars, mutexVars, condVars, graphVars
  <2>2. QED
    BY <2>1, NoneMissedKept
<1>2. QED
  BY <1>1, NoneMissedAtFirst, NoneMissedSuffices, Invariance, PTL DEF Spec

-----------------------------------------------------------------------------
(***************************************************************************)
(* The program implements Graph.  First, a step of the program is a step   *)
(* of Graph, or none that Graph sees; only that a signal finds the last    *)
(* one waited for is left for later.                                       *)
(***************************************************************************)
loc == [t \in Thread |-> IF t = Main THEN MainLoc(Place(t)) ELSE NodeLoc(t, Place(t))]
round == [n \in Node |-> want[n]]

MainPlace == {"m_tick", "ct_tick", "ct_bcast", "clock_wait", "cw_check", "m_stop", "cs_stop",
              "cs_bcast", "m_join", "done"}
NodePlace == {"clock_wait", "cw_check", "cw_ret", "nw_check", "act", "ns_set", "ns_signal",
              "ct_tick", "ct_bcast", "next", "done"}

(* Each thread is in its own part of the program, a node in the part that  *)
(* its turn and the answer of clock_wait sent it to.                       *)
Sent(n, place) ==
  /\ place \in NodePlace
  /\ place \in {"nw_check", "act", "ct_tick", "ct_bcast", "next"} => go[n]
  /\ place = "nw_check" => n # 0
  /\ place = "ct_tick" => ~bit[n]
  /\ place = "ns_set" /\ go[n] => bit[n]

Placed == /\ Place(Main) \in MainPlace
          /\ \A n \in Node : Sent(n, Place(n))
          /\ want[Main] = 2^N

Stopped == ticks < 0 => loc[Main] \in {"join", "done"}

(* A step that Graph does not see, and one of Graph's but for Signal's     *)
(* guard.                                                                  *)
Unseen == loc' = loc /\ UNCHANGED <<ticks, ready, want, bit>>

Signals(n) ==
  /\ G!Move(n, "act", "next") /\ bit[n]
  /\ G!SetReady(n)
  /\ round' = round /\ UNCHANGED <<ticks, bit>>

Seen(n) == \/ G!ClockWait(n) \/ G!NodeWait(n) \/ Signals(n) \/ G!Tick(n)
           \/ G!NextRound(n) \/ G!Exit(n)

LEMMA Moved ==
  ASSUME NEW t \in Thread, NEW a, NEW b
  PROVE  G!Move(t, a, b) <=> loc[t] = a /\ loc' = [loc EXCEPT ![t] = b]
BY DEF G!Move, loc

LEMMA PlaceIs ==
  ASSUME NEW t \in Thread
  PROVE  /\ pc[t] \in CondPC => Place(t) = cret[t]
         /\ pc[t] \in ProgramPC => Place(t) = pc[t]
         /\ pc[t] \in DefaultPC /\ ret[t] \in CondPC => Place(t) = cret[t]
         /\ pc[t] \in DefaultPC /\ ret[t] \notin CondPC => Place(t) = ret[t]
         /\ pc'[t] \in CondPC => Place(t)' = cret'[t]
         /\ pc'[t] \in ProgramPC => Place(t)' = pc'[t]
         /\ pc'[t] \in DefaultPC /\ ret'[t] \in CondPC => Place(t)' = cret'[t]
         /\ pc'[t] \in DefaultPC /\ ret'[t] \notin CondPC => Place(t)' = ret'[t]
BY DEF Place, CondPC, ProgramPC, DefaultPC

(* What NodeLoc says, place by place.                                      *)
NodeLocs(n) ==
  /\ Place(n) \in {"clock_wait", "cw_check"} => NodeLoc(n, Place(n)) = "clock_wait"
  /\ Place(n) \in {"cw_ret", "ns_set"} /\ ~go[n] => NodeLoc(n, Place(n)) = "exit"
  /\ Place(n) = "cw_ret" /\ go[n] /\ n # 0 => NodeLoc(n, Place(n)) = "node_wait"
  /\ Place(n) = "cw_ret" /\ go[n] /\ n = 0 => NodeLoc(n, Place(n)) = "act"
  /\ Place(n) = "nw_check" => NodeLoc(n, Place(n)) = "node_wait"
  /\ Place(n) \in {"act", "ct_tick"} => NodeLoc(n, Place(n)) = "act"
  /\ Place(n) = "ns_set" /\ go[n] => NodeLoc(n, Place(n)) = "act"
  /\ Place(n) = "ns_signal" /\ go[n] => NodeLoc(n, Place(n)) = "next"
  /\ Place(n) = "ns_signal" /\ ~go[n] => NodeLoc(n, Place(n)) = "done"
  /\ Place(n) \in {"ct_bcast", "next"} => NodeLoc(n, Place(n)) = "next"
  /\ Place(n) = "done" => NodeLoc(n, Place(n)) = "done"

LEMMA NodeLocsHold == ASSUME NEW n PROVE NodeLocs(n) /\ NodeLocs(n)'
BY DEF NodeLocs, NodeLoc

(* Where a node, and the main thread, is for Graph.                        *)
LEMMA LocIs ==
  ASSUME Placed
  PROVE  /\ loc[Main] = MainLoc(Place(Main))
         /\ \A n \in Node : loc[n] = NodeLoc(n, Place(n))
BY Objects DEF loc

LEMMA LocNext ==
  ASSUME NEW t \in Thread,
         \A s \in Thread \ {t} : Place(s)' = Place(s) /\ go'[s] = go[s]
  PROVE  /\ loc' = [loc EXCEPT ![t] = loc'[t]]
         /\ t = Main => loc'[t] = MainLoc(Place(t))'
         /\ t # Main => loc'[t] = NodeLoc(t, Place(t))'
<1>1. /\ DOMAIN loc = Thread /\ DOMAIN loc' = Thread
      /\ loc = [s \in Thread |-> loc[s]] /\ loc' = [s \in Thread |-> loc'[s]]
  BY DEF loc
<1>2. \A s \in Thread \ {t} : loc'[s] = loc[s]
  BY DEF loc, MainLoc, NodeLoc
<1>3. QED
  <2>1. loc' = [loc EXCEPT ![t] = loc'[t]]
    BY <1>1, <1>2
  <2>2. QED
    BY <2>1 DEF loc

LEMMA SamePlace ==
  ASSUME NEW s \in Thread, pc'[s] = pc[s], ret'[s] = ret[s], cret'[s] = cret[s]
  PROVE  Place(s)' = Place(s)
BY DEF Place

-----------------------------------------------------------------------------
(* Where a call of the program puts the thread: at its return.             *)
Puts(t, r) == /\ Place(t)' = r
              /\ \A s \in Thread \ {t} : Place(s)' = Place(s)

LEMMA LockPuts ==
  ASSUME IInv, NEW t \in Thread, NEW x \in Object, NEW r \in ProgramPC,
         LockOf(t, x, r) \/ UnlockOf(t, x, r), UNCHANGED condVars
  PROVE  Puts(t, r)
<1>1. MutexOf[x] \in Mutex /\ r \in PC /\ "trylock_load" \in PC /\ "unlock_xchg" \in PC
  BY Objects, Labels DEF PC
<1>2. PICK l \in {"trylock_load", "unlock_xchg"} : Call(t, MutexOf[x], l, r, "spin")
  BY <1>1, Entries DEF LockOf, UnlockOf, IInv
<1>3. /\ pc'[t] = l /\ ret'[t] = r /\ cret' = cret
      /\ \A s \in Thread \ {t} : pc'[s] = pc[s] /\ ret'[s] = ret[s]
  BY <1>1, <1>2, Called DEF IInv, condVars
<1>4. l \in DefaultPC /\ r \notin CondPC
  BY DEF DefaultPC, CondPC, ProgramPC
<1>5. QED
  BY <1>3, <1>4, PlaceIs, SamePlace DEF Puts

LEMMA WaitPuts ==
  ASSUME IInv, NEW t \in Thread, NEW x \in Object, NEW r \in ProgramPC, WaitOn(t, x, r)
  PROVE  Puts(t, r)
<1>1. /\ MutexOf[x] \in Mutex /\ "cond_spin" \in PC /\ "unlock_xchg" \in PC
      /\ cret' = [cret EXCEPT ![t] = r]
  BY Objects, Labels DEF WaitOn, cond_wait, CondCall
<1>2. Call(t, MutexOf[x], "unlock_xchg", "cond_spin", "spin")
  BY <1>1, Entries DEF WaitOn, cond_wait, IInv
<1>3. /\ pc'[t] = "unlock_xchg" /\ ret'[t] = "cond_spin"
      /\ \A s \in Thread \ {t} : pc'[s] = pc[s] /\ ret'[s] = ret[s]
  BY <1>1, <1>2, Called DEF IInv
<1>4. cret'[t] = r /\ \A s \in Thread \ {t} : cret'[s] = cret[s]
  BY <1>1 DEF IInv, CondTypes
<1>5. "unlock_xchg" \in DefaultPC /\ "cond_spin" \in CondPC
  BY DEF DefaultPC, CondPC
<1>6. QED
  BY <1>3, <1>4, <1>5, PlaceIs, SamePlace DEF Puts

LEMMA GotoPuts ==
  ASSUME IInv, NEW t \in Thread, NEW l \in ProgramPC, Goto(t, l), UNCHANGED <<ret, cret>>
  PROVE  Puts(t, l)
<1>1. pc'[t] = l /\ \A s \in Thread \ {t} : pc'[s] = pc[s]
  BY DEF Goto, IInv, CallTypes
<1>2. QED
  BY <1>1, PlaceIs, SamePlace DEF Puts

LEMMA SignalPuts ==
  ASSUME IInv, NEW t \in Thread, NEW r \in ProgramPC, NEW c,
         \/ cond_signal(t, c, r)
         \/ cond_broadcast(t, c, MutexOf[Clock], r)
  PROVE  Puts(t, r)
<1>1. PICK l \in {"signal_wake", "bcast_requeue"} :
        Goto(t, l) /\ CondCall(t, c, r) /\ UNCHANGED ret
  BY DEF cond_signal, cond_broadcast, frame
<1>2. /\ pc'[t] = l /\ cret'[t] = r
      /\ \A s \in Thread \ {t} : pc'[s] = pc[s] /\ cret'[s] = cret[s] /\ ret'[s] = ret[s]
  BY <1>1 DEF Goto, CondCall, IInv, CallTypes, CondTypes
<1>3. l \in CondPC
  BY DEF CondPC
<1>4. QED
  BY <1>2, <1>3, PlaceIs, SamePlace DEF Puts

(* The code of the mutex and of the condition variable moves no thread to  *)
(* another place.                                                          *)
LEMMA Returns ==
  ASSUME IInv, NEW t \in Thread, pc[t] \in LockPC \cup UnlockPC
  PROVE  ret[t] \in CondPC \cup ProgramPC
BY DEF IInv, ThreadOK, Guards, LockPC, UnlockPC, CondPC, ProgramPC

LEMMA MutexStays ==
  ASSUME IInv, NEW t \in Thread, MutexStep(t), UNCHANGED condVars
  PROVE  \A s \in Thread : Place(s)' = Place(s)
<1>1. /\ pc[t] \in LockPC \cup UnlockPC /\ UNCHANGED <<ret, cret>>
      /\ \E l \in LockPC \cup UnlockPC \cup {ret[t]} : Goto(t, l)
  <2>1. CASE trylock_load(t) \/ trylock_or(t)
    <3>1. pc[t] \in LockPC /\ UNCHANGED <<ret, cret>>
      BY <2>1 DEF trylock_load, trylock_or, At, frame, LockPC, condVars
    <3>2. TryFailed(t) \/ Goto(t, "trylock_or") \/ Goto(t, ret[t])
      BY <2>1 DEF trylock_load, trylock_or, Acquired
    <3>3. QED
      BY <3>1, <3>2, FailedTry DEF LockPC
  <2>2. CASE lock_xchg(t) \/ lock_wait(t) \/ unlock_xchg(t) \/ unlock_wake(t)
    BY <2>2 DEF lock_xchg, lock_wait, unlock_xchg, unlock_wake, At, frame, Acquired,
                LockPC, UnlockPC, condVars
  <2>3. QED
    BY <2>1, <2>2, NoPi DEF MutexStep
<1>2. PICK l \in LockPC \cup UnlockPC \cup {ret[t]} : Goto(t, l)
  BY <1>1
<1>3. pc'[t] = l /\ \A s \in Thread \ {t} : pc'[s] = pc[s]
  BY <1>2 DEF Goto, IInv, CallTypes
<1>4. LockPC \cup UnlockPC = DefaultPC /\ ret[t] \in CondPC \cup ProgramPC
  BY <1>1, Returns DEF LockPC, UnlockPC, DefaultPC
<1>5. Place(t)' = Place(t)
  <2>1. Place(t) = IF ret[t] \in CondPC THEN cret[t] ELSE ret[t]
    BY <1>1, <1>4, PlaceIs
  <2>2. ret'[t] = ret[t] /\ cret'[t] = cret[t]
    BY <1>1
  <2>3. QED
    BY <1>3, <1>4, <2>1, <2>2, PlaceIs
<1>6. QED
  BY <1>1, <1>3, <1>5, SamePlace

LEMMA CondStays ==
  ASSUME IInv, NEW t \in Thread, CondStep(t)
  PROVE  \A s \in Thread : Place(s)' = Place(s)
<1>1. CASE MutexStep(t) /\ UNCHANGED condVars
  BY <1>1, MutexStays
<1>2. ASSUME cond_spin(t) \/ cond_sleep(t) \/ cond_or(t) \/ signal_wake(t) \/ bcast_requeue(t)
      PROVE  \A s \in Thread : Place(s)' = Place(s)
  <2>1. /\ pc[t] \in CondPC /\ Place(t) = cret[t] /\ cret[t] \in ProgramPC
        /\ pc[t] \in {"cond_spin", "cond_sleep", "cond_or"} => Waits(t)
    <3>1. pc[t] \in {"cond_spin", "cond_sleep", "cond_or", "signal_wake", "bcast_requeue"}
      BY <1>2 DEF cond_spin, cond_sleep, cond_or, signal_wake, bcast_requeue, At
    <3>2. cret[t] \in {"cw_check", "nw_check", "next", "done", "clock_wait", "m_join"}
      BY <3>1 DEF IInv, ThreadOK, Waits
    <3>3. pc[t] \in {"cond_spin", "cond_sleep", "cond_or"} => Waits(t)
      BY DEF IInv, ThreadOK
    <3>4. pc[t] \in CondPC /\ cret[t] \in ProgramPC
      BY <3>1, <3>2 DEF CondPC, ProgramPC
    <3>5. QED
      BY <3>3, <3>4, PlaceIs
  <2>2. ASSUME NEW r \in PC, mutex_lock(t, mtx[t], r), pc[t] \in {"cond_spin", "cond_sleep"}
        PROVE  /\ pc'[t] \in DefaultPC /\ ret'[t] = r
               /\ \A s \in Thread \ {t} : pc'[s] = pc[s] /\ ret'[s] = ret[s]
    <3>1. mtx[t] \in Mutex /\ "trylock_load" \in PC /\ "trylock_load" \in DefaultPC
      BY Labels DEF IInv, CallTypes, DefaultPC
    <3>2. Call(t, mtx[t], "trylock_load", r, "spin")
      BY <2>2, <3>1, Entries DEF IInv
    <3>3. QED
      BY <3>1, <3>2, Called DEF IInv
  <2>3. CASE /\ pc[t] = "cond_spin" /\ mutex_lock(t, mtx[t], cret[t]) /\ CondDone(t)
    <3>1. cret[t] \in PC /\ cret[t] \notin CondPC
      BY <2>1, <2>3 DEF Waits, PC, ProgramPC, CondPC
    <3>2. /\ pc'[t] \in DefaultPC /\ ret'[t] = cret[t]
          /\ \A s \in Thread \ {t} : pc'[s] = pc[s] /\ ret'[s] = ret[s] /\ cret'[s] = cret[s]
      BY <2>2, <2>3, <3>1 DEF CondDone, IInv, CondTypes
    <3>3. QED
      BY <2>1, <3>1, <3>2, PlaceIs, SamePlace
  <2>4. CASE cond_sleep(t)
    <3>1. "cond_or" \in PC /\ "cond_or" \in CondPC
      BY DEF PC, CondPC
    <3>2. /\ pc'[t] \in DefaultPC /\ ret'[t] = "cond_or" /\ cret' = cret
          /\ \A s \in Thread \ {t} : pc'[s] = pc[s] /\ ret'[s] = ret[s]
      BY <2>2, <2>4, <3>1 DEF cond_sleep, At
    <3>3. QED
      BY <2>1, <3>1, <3>2, PlaceIs, SamePlace
  <2>5. CASE Goto(t, cret[t]) /\ CondDone(t) /\ UNCHANGED ret
    <3>1. /\ pc'[t] = cret[t]
          /\ \A s \in Thread \ {t} : pc'[s] = pc[s] /\ ret'[s] = ret[s] /\ cret'[s] = cret[s]
      BY <2>5 DEF Goto, CondDone, IInv, CallTypes, CondTypes
    <3>2. QED
      BY <2>1, <3>1, PlaceIs, SamePlace
  <2>6. CASE UNCHANGED <<ret, cret>> /\ (pc' = pc \/ Goto(t, "cond_sleep"))
    <3>1. /\ pc'[t] \in CondPC /\ \A s \in Thread \ {t} : pc'[s] = pc[s]
      BY <2>1, <2>6 DEF Goto, CondPC, IInv, CallTypes
    <3>2. QED
      BY <2>1, <2>6, <3>1, PlaceIs, SamePlace
  <2>7. QED
    BY <1>2, <2>3, <2>4, <2>5, <2>6
       DEF cond_spin, cond_or, signal_wake, bcast_requeue, At, frame
<1>3. QED
  BY <1>1, <1>2 DEF CondStep

-----------------------------------------------------------------------------
(* The steps of the program, one by one.                                   *)
LEMMA OthersPlaced ==
  ASSUME Placed, NEW t \in Thread,
         \A s \in Thread \ {t} : Place(s)' = Place(s) /\ go'[s] = go[s],
         \A n \in Node \ {t} : bit'[n] = bit[n],
         want'[Main] = want[Main],
         t = Main => Place(Main)' \in MainPlace,
         t # Main => Sent(t, Place(t))'
  PROVE  Placed'
<1>1. Place(Main)' \in MainPlace
  BY Objects DEF Placed
<1>2. \A n \in Node : Sent(n, Place(n))'
  BY Objects DEF Placed, Sent
<1>3. QED
  BY <1>1, <1>2 DEF Placed

(* One that Graph does not see.                                            *)
LEMMA UnseenStep ==
  ASSUME Placed, NEW t \in Thread, Placed',
         \A s \in Thread \ {t} : Place(s)' = Place(s) /\ go'[s] = go[s],
         t = Main => MainLoc(Place(Main))' = MainLoc(Place(Main)),
         t # Main => NodeLoc(t, Place(t))' = NodeLoc(t, Place(t)),
         UNCHANGED <<ticks, ready, want, bit>>
  PROVE  Unseen
<1>1. loc' = [loc EXCEPT ![t] = loc'[t]] /\ loc'[t] = loc[t]
  BY LocNext, LocIs, Objects
<1>2. [loc EXCEPT ![t] = loc[t]] = loc
  BY DEF loc
<1>3. QED
  BY <1>1, <1>2 DEF Unseen

LEMMA Quietly ==
  ASSUME Placed, NEW t \in Thread, NEW r, Puts(t, r), UNCHANGED graphVars,
         t = Main => r \in MainPlace /\ MainLoc(r) = MainLoc(Place(Main)),
         t # Main => Sent(t, r) /\ NodeLoc(t, r) = NodeLoc(t, Place(t))
  PROVE  Placed' /\ Unseen
<1>1. /\ Place(t)' = r /\ UNCHANGED <<ticks, ready, want, bit, go>>
      /\ \A s \in Thread \ {t} : Place(s)' = Place(s) /\ go'[s] = go[s]
  BY DEF Puts, graphVars
<1>2. /\ t = Main => Place(Main)' \in MainPlace
      /\ t # Main => Sent(t, Place(t))'
  BY <1>1 DEF Sent
<1>3. Placed'
  BY <1>1, <1>2, OthersPlaced
<1>4. /\ t = Main => MainLoc(Place(Main))' = MainLoc(Place(Main))
      /\ t # Main => NodeLoc(t, Place(t))' = NodeLoc(t, Place(t))
  BY <1>1 DEF MainLoc, NodeLoc
<1>5. QED
  BY <1>1, <1>3, <1>4, UnseenStep

(* One that Graph sees.                                                    *)
LEMMA Goes ==
  ASSUME Placed, NEW t \in Thread, NEW a, NEW b,
         \A s \in Thread \ {t} : Place(s)' = Place(s) /\ go'[s] = go[s],
         t = Main => a = MainLoc(Place(Main)) /\ b = MainLoc(Place(Main))',
         t # Main => a = NodeLoc(t, Place(t)) /\ b = NodeLoc(t, Place(t))'
  PROVE  G!Move(t, a, b)
<1>1. loc[t] = a /\ loc'[t] = b /\ loc' = [loc EXCEPT ![t] = loc'[t]]
  BY LocIs, LocNext, Objects
<1>2. QED
  BY <1>1, Moved

Seeing == Unseen \/ G!MainStep \/ \E n \in Node : Seen(n)

LEMMA ClockCalls ==
  ASSUME IInv, Placed, NEW t \in Thread, clock_wait(t) \/ ct_bcast(t)
  PROVE  Placed' /\ Seeing
<1>1. CASE clock_wait(t)
  <2>1. /\ pc[t] = "clock_wait" /\ LockOf(t, Clock, "cw_check") /\ UNCHANGED condVars
        /\ UNCHANGED graphVars
    BY <1>1 DEF clock_wait, At
  <2>2. Place(t) = "clock_wait" /\ Puts(t, "cw_check")
    BY <2>1, PlaceIs, LockPuts, Objects DEF ProgramPC
  <2>3. /\ t = Main => "cw_check" \in MainPlace /\ MainLoc("cw_check") = MainLoc(Place(Main))
        /\ t # Main => Sent(t, "cw_check") /\ NodeLoc(t, "cw_check") = NodeLoc(t, Place(t))
    BY <2>2 DEF MainPlace, MainLoc, Sent, NodePlace, NodeLoc
  <2>4. QED
    BY <2>1, <2>2, <2>3, Quietly DEF Seeing
<1>2. CASE ct_bcast(t)
  <2>1. PICK r \in {"clock_wait", "next"} :
          /\ r = IF t = Main THEN "clock_wait" ELSE "next"
          /\ pc[t] = "ct_bcast" /\ UNCHANGED graphVars
          /\ cond_broadcast(t, CondOf[Clock], MutexOf[Clock], r)
    BY <1>2 DEF ct_bcast, At
  <2>2. Place(t) = "ct_bcast" /\ Puts(t, r)
    BY <2>1, PlaceIs, SignalPuts DEF ProgramPC
  <2>3. /\ t = Main => r \in MainPlace /\ MainLoc(r) = MainLoc(Place(Main))
        /\ t # Main => go[t] /\ Sent(t, r) /\ NodeLoc(t, r) = NodeLoc(t, Place(t))
    BY <2>1, <2>2, Objects DEF Placed, MainPlace, MainLoc, Sent, NodePlace, NodeLoc
  <2>4. QED
    BY <2>1, <2>2, <2>3, Quietly DEF Seeing
<1>3. QED
  BY <1>1, <1>2

LEMMA ClockChecks ==
  ASSUME IInv, Placed, Stopped, NEW t \in Thread, cw_check(t)
  PROVE  Placed' /\ Seeing
<1>1. Place(t) = "cw_check" /\ UNCHANGED <<ticks, ready, want, bit>>
  BY PlaceIs DEF cw_check, At, ProgramPC
<1>2. CASE WaitOn(t, Clock, "cw_check") /\ UNCHANGED go
  <2>1. Puts(t, "cw_check") /\ UNCHANGED graphVars
    BY <1>1, <1>2, WaitPuts, Objects DEF graphVars, ProgramPC
  <2>2. /\ t = Main => "cw_check" \in MainPlace
        /\ t # Main => Sent(t, "cw_check")
    BY DEF MainPlace, Sent, NodePlace
  <2>3. QED
    BY <1>1, <2>1, <2>2, Quietly DEF Seeing
<1>3. CASE /\ ticks < 0 \/ ticks >= want[t]
           /\ go' = [go EXCEPT ![t] = ticks >= want[t]]
           /\ UnlockOf(t, Clock, IF t = Main THEN "m_stop" ELSE "cw_ret")
           /\ UNCHANGED condVars
  <2>1. PICK r \in {"m_stop", "cw_ret"} :
          r = (IF t = Main THEN "m_stop" ELSE "cw_ret") /\ UnlockOf(t, Clock, r)
    BY <1>3
  <2>2. Puts(t, r)
    BY <1>3, <2>1, LockPuts, Objects DEF ProgramPC
  <2>3. /\ Place(t)' = r /\ go'[t] = (ticks >= want[t])
        /\ \A s \in Thread \ {t} : Place(s)' = Place(s) /\ go'[s] = go[s]
    BY <1>3, <2>2 DEF Puts, IInv, GraphTypes
  <2>4. Placed'
    <3>1. /\ t = Main => Place(Main)' \in MainPlace
          /\ t # Main => Sent(t, Place(t))'
      BY <2>1, <2>3 DEF MainPlace, Sent, NodePlace
    <3>2. QED
      BY <1>1, <2>3, <3>1, OthersPlaced
  <2>5. round' = round
    BY <1>1 DEF round
  <2>6. CASE t = Main
    <3>1. G!Move(Main, "wait", "stop")
      <4>1. MainLoc(Place(Main)) = "wait" /\ MainLoc(Place(Main))' = "stop"
        BY <1>1, <2>1, <2>3, <2>6 DEF MainLoc
      <4>2. QED
        BY <2>3, <2>6, <4>1, Goes
    <3>2. ticks >= 2^N
      <4>1. loc[Main] = "wait"
        BY <1>1, <2>6, LocIs DEF MainLoc
      <4>2. ~(ticks < 0)
        BY <4>1 DEF Stopped
      <4>3. QED
        BY <1>3, <2>6, <4>2 DEF Placed
    <3>3. G!MainStep
      BY <1>1, <2>5, <3>1, <3>2 DEF G!MainStep, round
    <3>4. QED
      BY <2>4, <3>3 DEF Seeing
  <2>7. CASE t # Main
    <3>1. t \in Node /\ NodeLoc(t, Place(t)) = "clock_wait" /\ want[t] = round[t]
      BY <1>1, <2>7, Objects DEF NodeLoc, round
    <3>2. CASE ticks >= want[t]
      <4>0. go'[t] /\ Place(t)' = "cw_ret"
        BY <2>1, <2>3, <2>7, <3>2
      <4>1. NodeLoc(t, Place(t))' = IF t = 0 THEN "act" ELSE "node_wait"
        BY <4>0, NodeLocsHold DEF NodeLocs
      <4>2. G!Move(t, "clock_wait", IF t = 0 THEN "act" ELSE "node_wait")
        BY <2>3, <2>7, <3>1, <4>1, Goes
      <4>3. G!ClockWait(t)
        BY <1>1, <2>5, <3>1, <3>2, <4>2 DEF G!ClockWait, round
      <4>4. QED
        BY <2>4, <3>1, <4>3 DEF Seeing, Seen
    <3>3. CASE ~(ticks >= want[t])
      <4>0. ~go'[t] /\ Place(t)' = "cw_ret"
        BY <2>1, <2>3, <2>7, <3>3
      <4>1. NodeLoc(t, Place(t))' = "exit"
        BY <4>0, NodeLocsHold DEF NodeLocs
      <4>2. G!Move(t, "clock_wait", "exit")
        BY <2>3, <2>7, <3>1, <4>1, Goes
      <4>3. G!ClockWait(t)
        BY <1>1, <1>3, <2>5, <3>1, <3>3, <4>2 DEF G!ClockWait, round
      <4>4. QED
        BY <2>4, <3>1, <4>3 DEF Seeing, Seen
    <3>4. QED
      BY <3>2, <3>3
  <2>8. QED
    BY <2>6, <2>7
<1>4. QED
  BY <1>2, <1>3 DEF cw_check

LEMMA Ticks ==
  ASSUME IInv, Placed, NEW t \in Thread, ct_tick(t)
  PROVE  Placed' /\ Seeing
<1>1. /\ pc[t] = "ct_tick" /\ UNCHANGED <<ready, want, bit, go>> /\ G!AdvanceClock
      /\ UnlockOf(t, Clock, "ct_bcast") /\ UNCHANGED condVars
  BY DEF ct_tick, At, G!AdvanceClock
<1>2. /\ Place(t) = "ct_tick" /\ Place(t)' = "ct_bcast" /\ round' = round
      /\ \A s \in Thread \ {t} : Place(s)' = Place(s) /\ go'[s] = go[s]
  BY <1>1, PlaceIs, LockPuts, Objects DEF ProgramPC, Puts, round
<1>3. CASE t = Main
  <2>1. Placed'
    BY <1>1, <1>2, <1>3, OthersPlaced DEF MainPlace
  <2>2. MainLoc(Place(Main)) = "tick" /\ MainLoc(Place(Main))' = "wait"
    BY <1>2, <1>3 DEF MainLoc
  <2>3. G!Move(Main, "tick", "wait")
    BY <1>2, <1>3, <2>2, Goes
  <2>4. G!MainStep
    BY <1>1, <1>2, <2>3 DEF G!MainStep, round
  <2>5. QED
    BY <2>1, <2>4 DEF Seeing
<1>4. CASE t # Main
  <2>1. t \in Node /\ go[t] /\ ~bit[t]
    BY <1>2, <1>4, Objects DEF Placed, Sent
  <2>2. Placed'
    <3>1. Sent(t, Place(t))'
      BY <1>1, <1>2, <2>1 DEF Sent, NodePlace
    <3>2. QED
      BY <1>1, <1>2, <1>4, <3>1, OthersPlaced
  <2>3. NodeLoc(t, Place(t)) = "act" /\ NodeLoc(t, Place(t))' = "next"
    BY <1>1, <1>2, <2>1, NodeLocsHold DEF NodeLocs
  <2>4. G!Move(t, "act", "next")
    BY <1>2, <1>4, <2>3, Goes
  <2>5. G!Tick(t)
    BY <1>1, <1>2, <2>1, <2>4 DEF G!Tick, round
  <2>6. QED
    BY <2>1, <2>2, <2>5 DEF Seeing, Seen
<1>5. QED
  BY <1>3, <1>4

LEMMA MainCalls ==
  ASSUME IInv, Placed, NEW t \in Thread, MainThread(t)
  PROVE  Placed' /\ Seeing
<1>1. t = Main
  BY Objects DEF IInv, ThreadOK, Guards, MainThread, m_tick, m_stop, cs_stop, cs_bcast, m_join, At
<1>2. ASSUME NEW r \in {"ct_tick", "cs_stop"}, LockOf(t, Clock, r), UNCHANGED <<condVars, graphVars>>,
             pc[t] = IF r = "ct_tick" THEN "m_tick" ELSE "m_stop"
      PROVE  Placed' /\ Seeing
  <2>1. Place(t) = pc[t] /\ Puts(t, r)
    BY <1>2, PlaceIs, LockPuts, Objects DEF ProgramPC
  <2>2. r \in MainPlace /\ MainLoc(r) = MainLoc(Place(Main))
    BY <1>1, <1>2, <2>1 DEF MainPlace, MainLoc
  <2>3. QED
    BY <1>1, <1>2, <2>1, <2>2, Quietly DEF Seeing
<1>3. CASE m_tick(t) \/ m_stop(t)
  BY <1>2, <1>3 DEF m_tick, m_stop, At
<1>4. CASE cs_stop(t)
  <2>1. /\ pc[t] = "cs_stop" /\ UNCHANGED <<ready, want, bit, go>> /\ ticks' = -1
        /\ UnlockOf(t, Clock, "cs_bcast") /\ UNCHANGED condVars
    BY <1>4 DEF cs_stop, At
  <2>2. /\ Place(t) = "cs_stop" /\ Place(t)' = "cs_bcast" /\ round' = round
        /\ \A s \in Thread \ {t} : Place(s)' = Place(s) /\ go'[s] = go[s]
    BY <2>1, PlaceIs, LockPuts, Objects DEF ProgramPC, Puts, round
  <2>3. Placed'
    BY <1>1, <2>1, <2>2, OthersPlaced DEF MainPlace
  <2>4. MainLoc(Place(Main)) = "stop" /\ MainLoc(Place(Main))' = "join"
    BY <1>1, <2>2 DEF MainLoc
  <2>5. G!Move(Main, "stop", "join")
    BY <1>1, <2>2, <2>4, Goes
  <2>6. G!MainStep
    BY <2>1, <2>2, <2>5 DEF G!MainStep, round
  <2>7. QED
    BY <2>3, <2>6 DEF Seeing
<1>5. CASE cs_bcast(t)
  <2>1. Place(t) = "cs_bcast" /\ Puts(t, "m_join") /\ UNCHANGED graphVars
    BY <1>5, PlaceIs, SignalPuts DEF cs_bcast, At, ProgramPC
  <2>2. "m_join" \in MainPlace /\ MainLoc("m_join") = MainLoc(Place(Main))
    BY <1>1, <2>1 DEF MainPlace, MainLoc
  <2>3. QED
    BY <1>1, <2>1, <2>2, Quietly DEF Seeing
<1>6. CASE m_join(t)
  <2>1. /\ pc[t] = "m_join" /\ UNCHANGED <<ret, cret>> /\ Goto(t, "done")
        /\ UNCHANGED graphVars /\ \A n \in Node : pc[n] = "done"
    BY <1>6 DEF m_join, At, condVars
  <2>2. /\ Place(t) = "m_join" /\ Puts(t, "done") /\ UNCHANGED <<ticks, ready, want, bit, go>>
        /\ \A n \in Node : Place(n) = "done"
    BY <2>1, PlaceIs, GotoPuts, Objects DEF ProgramPC, graphVars
  <2>3. /\ Place(t)' = "done" /\ round' = round
        /\ \A s \in Thread \ {t} : Place(s)' = Place(s) /\ go'[s] = go[s]
    BY <2>2 DEF Puts, round
  <2>4. Placed'
    BY <1>1, <2>2, <2>3, OthersPlaced DEF MainPlace
  <2>5. MainLoc(Place(Main)) = "join" /\ MainLoc(Place(Main))' = "done"
    BY <1>1, <2>2, <2>3 DEF MainLoc
  <2>6. G!Move(Main, "join", "done")
    BY <1>1, <2>3, <2>5, Goes
  <2>7. \A n \in Node : loc[n] = "done"
    BY <2>2, LocIs, NodeLocsHold DEF NodeLocs
  <2>8. G!MainStep
    BY <2>2, <2>3, <2>6, <2>7 DEF G!MainStep, G!Node, Node, round, loc
  <2>9. QED
    BY <2>4, <2>8 DEF Seeing
<1>7. QED
  BY <1>3, <1>4, <1>5, <1>6 DEF MainThread

LEMMA NodeCalls ==
  ASSUME IInv, Placed, NEW n \in Node, NodeThread(n)
  PROVE  Placed' /\ Seeing
<1>0. n \in Thread /\ n # Main /\ n \in Object
  BY Objects
<1>1. ASSUME NEW r \in ProgramPC, Puts(n, r), UNCHANGED graphVars,
             Sent(n, r), NodeLoc(n, r) = NodeLoc(n, Place(n))
      PROVE  Placed' /\ Seeing
  BY <1>0, <1>1, Quietly DEF Seeing
<1>2. CASE cw_ret(n)
  <2>1. /\ pc[n] = "cw_ret" /\ UNCHANGED <<condVars, graphVars>> /\ Place(n) = "cw_ret"
    BY <1>0, <1>2, PlaceIs DEF cw_ret, At, ProgramPC
  <2>2. CASE go[n] /\ n # 0 /\ LockOf(n, Parent(n), "nw_check")
    <3>1. Puts(n, "nw_check") /\ "nw_check" \in ProgramPC
      BY <1>0, <2>1, <2>2, Objects, LockPuts DEF ProgramPC, Parent
    <3>2. Sent(n, "nw_check") /\ NodeLoc(n, "nw_check") = NodeLoc(n, Place(n))
      BY <2>1, <2>2 DEF Sent, NodePlace, NodeLoc
    <3>3. QED
      BY <1>1, <2>1, <3>1, <3>2
  <2>3. CASE go[n] /\ n = 0 /\ Goto(n, "act") /\ UNCHANGED ret
    <3>1. Puts(n, "act") /\ "act" \in ProgramPC
      BY <1>0, <2>1, <2>3, GotoPuts DEF ProgramPC, condVars
    <3>2. Sent(n, "act") /\ NodeLoc(n, "act") = NodeLoc(n, Place(n))
      BY <2>1, <2>3 DEF Sent, NodePlace, NodeLoc
    <3>3. QED
      BY <1>1, <2>1, <3>1, <3>2
  <2>4. CASE ~go[n] /\ LockOf(n, n, "ns_set")
    <3>1. Puts(n, "ns_set") /\ "ns_set" \in ProgramPC
      BY <1>0, <2>1, <2>4, LockPuts DEF ProgramPC
    <3>2. Sent(n, "ns_set") /\ NodeLoc(n, "ns_set") = NodeLoc(n, Place(n))
      BY <2>1, <2>4 DEF Sent, NodePlace, NodeLoc
    <3>3. QED
      BY <1>1, <2>1, <3>1, <3>2
  <2>5. QED
    BY <1>2, <2>2, <2>3, <2>4 DEF cw_ret
<1>3. CASE nw_check(n)
  <2>1. /\ pc[n] = "nw_check" /\ UNCHANGED <<ticks, want, bit, go>> /\ Place(n) = "nw_check"
        /\ go[n] /\ n # 0 /\ Parent(n) = n - 1 /\ Parent(n) \in Object
    BY <1>0, <1>3, PlaceIs, Objects DEF nw_check, At, ProgramPC, Placed, Sent, Parent
  <2>2. CASE WaitOn(n, Parent(n), "nw_check") /\ UNCHANGED ready
    <3>1. Puts(n, "nw_check") /\ "nw_check" \in ProgramPC /\ UNCHANGED graphVars
      BY <1>0, <2>1, <2>2, WaitPuts DEF ProgramPC, graphVars
    <3>2. Sent(n, "nw_check") /\ NodeLoc(n, "nw_check") = NodeLoc(n, Place(n))
      BY <2>1 DEF Placed
    <3>3. QED
      BY <1>1, <3>1, <3>2
  <2>3. CASE /\ ready[Parent(n)] /\ ready' = [ready EXCEPT ![Parent(n)] = FALSE]
             /\ UnlockOf(n, Parent(n), "act") /\ UNCHANGED condVars
    <3>1. /\ Place(n)' = "act" /\ round' = round
          /\ \A s \in Thread \ {n} : Place(s)' = Place(s) /\ go'[s] = go[s]
      BY <1>0, <2>1, <2>3, LockPuts DEF ProgramPC, Puts, round
    <3>2. Placed'
      <4>1. Sent(n, Place(n))'
        BY <2>1, <3>1 DEF Sent, NodePlace
      <4>2. QED
        BY <1>0, <2>1, <3>1, <4>1, OthersPlaced
    <3>3. NodeLoc(n, Place(n)) = "node_wait" /\ NodeLoc(n, Place(n))' = "act"
      BY <2>1, <3>1, NodeLocsHold DEF NodeLocs
    <3>4. G!Move(n, "node_wait", "act")
      BY <1>0, <3>1, <3>3, Goes
    <3>5. G!NodeWait(n)
      BY <2>1, <2>3, <3>1, <3>4 DEF G!NodeWait, round
    <3>6. QED
      BY <3>2, <3>5 DEF Seeing, Seen
  <2>4. QED
    BY <1>3, <2>2, <2>3 DEF nw_check
<1>4. CASE act(n)
  <2>1. /\ pc[n] = "act" /\ UNCHANGED <<condVars, graphVars>> /\ Place(n) = "act" /\ go[n]
    BY <1>0, <1>4, PlaceIs DEF act, At, ProgramPC, Placed, Sent
  <2>2. CASE bit[n] /\ LockOf(n, n, "ns_set")
    <3>1. Puts(n, "ns_set") /\ "ns_set" \in ProgramPC
      BY <1>0, <2>1, <2>2, LockPuts DEF ProgramPC
    <3>2. Sent(n, "ns_set") /\ NodeLoc(n, "ns_set") = NodeLoc(n, Place(n))
      BY <2>1, <2>2 DEF Sent, NodePlace, NodeLoc
    <3>3. QED
      BY <1>1, <2>1, <3>1, <3>2
  <2>3. CASE ~bit[n] /\ LockOf(n, Clock, "ct_tick")
    <3>1. Puts(n, "ct_tick") /\ "ct_tick" \in ProgramPC
      BY <1>0, <2>1, <2>3, Objects, LockPuts DEF ProgramPC
    <3>2. Sent(n, "ct_tick") /\ NodeLoc(n, "ct_tick") = NodeLoc(n, Place(n))
      BY <2>1, <2>3 DEF Sent, NodePlace, NodeLoc
    <3>3. QED
      BY <1>1, <2>1, <3>1, <3>2
  <2>4. QED
    BY <1>4, <2>2, <2>3 DEF act
<1>5. CASE ns_set(n)
  <2>1. /\ pc[n] = "ns_set" /\ UNCHANGED <<ticks, want, bit, go>> /\ Place(n) = "ns_set"
        /\ ready' = [ready EXCEPT ![n] = TRUE] /\ UnlockOf(n, n, "ns_signal")
        /\ UNCHANGED condVars /\ (go[n] => bit[n])
    BY <1>0, <1>5, PlaceIs DEF ns_set, At, ProgramPC, Placed, Sent
  <2>2. /\ Place(n)' = "ns_signal" /\ round' = round
        /\ \A s \in Thread \ {n} : Place(s)' = Place(s) /\ go'[s] = go[s]
    BY <1>0, <2>1, LockPuts DEF ProgramPC, Puts, round
  <2>3. Placed'
    <3>1. Sent(n, Place(n))'
      BY <2>2 DEF Sent, NodePlace
    <3>2. QED
      BY <1>0, <2>1, <2>2, <3>1, OthersPlaced
  <2>4. CASE go[n]
    <3>1. NodeLoc(n, Place(n)) = "act" /\ NodeLoc(n, Place(n))' = "next"
      BY <2>1, <2>2, <2>4, NodeLocsHold DEF NodeLocs
    <3>2. G!Move(n, "act", "next")
      BY <1>0, <2>2, <3>1, Goes
    <3>3. Signals(n)
      BY <2>1, <2>2, <2>4, <3>2 DEF Signals, G!SetReady
    <3>4. QED
      BY <2>3, <3>3 DEF Seeing, Seen
  <2>5. CASE ~go[n]
    <3>1. NodeLoc(n, Place(n)) = "exit" /\ NodeLoc(n, Place(n))' = "done"
      BY <2>1, <2>2, <2>5, NodeLocsHold DEF NodeLocs
    <3>2. G!Move(n, "exit", "done")
      BY <1>0, <2>2, <3>1, Goes
    <3>3. G!Exit(n)
      BY <2>1, <2>2, <3>2 DEF G!Exit, G!SetReady, round
    <3>4. QED
      BY <2>3, <3>3 DEF Seeing, Seen
  <2>6. QED
    BY <2>4, <2>5
<1>6. CASE ns_signal(n)
  <2>1. PICK r \in {"next", "done"} :
          /\ r = IF go[n] THEN "next" ELSE "done"
          /\ cond_signal(n, CondOf[n], r) /\ UNCHANGED graphVars /\ pc[n] = "ns_signal"
    BY <1>6 DEF ns_signal, At
  <2>2. Place(n) = "ns_signal" /\ Puts(n, r) /\ r \in ProgramPC
    BY <1>0, <2>1, PlaceIs, SignalPuts DEF ProgramPC
  <2>3. Sent(n, r) /\ NodeLoc(n, r) = NodeLoc(n, Place(n))
    BY <2>1, <2>2 DEF Sent, NodePlace, NodeLoc
  <2>4. QED
    BY <1>1, <2>1, <2>2, <2>3
<1>7. CASE next(n)
  <2>1. /\ pc[n] = "next" /\ UNCHANGED <<ticks, ready, go>> /\ Place(n) = "next"
        /\ want' = [want EXCEPT ![n] = @ + 1] /\ bit' = [bit EXCEPT ![n] = ~@]
        /\ LockOf(n, Clock, "cw_check") /\ UNCHANGED condVars /\ go[n]
    BY <1>0, <1>7, PlaceIs DEF next, At, ProgramPC, Placed, Sent
  <2>2. /\ Place(n)' = "cw_check"
        /\ \A s \in Thread \ {n} : Place(s)' = Place(s) /\ go'[s] = go[s]
    BY <1>0, <2>1, Objects, LockPuts DEF ProgramPC, Puts
  <2>3. /\ want'[Main] = want[Main] /\ \A k \in Node \ {n} : bit'[k] = bit[k]
        /\ round' = [round EXCEPT ![n] = @ + 1]
    BY <1>0, <2>1, Objects DEF IInv, GraphTypes, round
  <2>4. Placed'
    <3>1. Sent(n, Place(n))'
      BY <2>2 DEF Sent, NodePlace
    <3>2. QED
      BY <1>0, <2>2, <2>3, <3>1, OthersPlaced
  <2>5. NodeLoc(n, Place(n)) = "next" /\ NodeLoc(n, Place(n))' = "clock_wait"
    BY <2>1, <2>2, NodeLocsHold DEF NodeLocs
  <2>6. G!Move(n, "next", "clock_wait")
    BY <1>0, <2>2, <2>5, Goes
  <2>7. G!NextRound(n)
    BY <2>1, <2>3, <2>6 DEF G!NextRound, round
  <2>8. QED
    BY <2>4, <2>7 DEF Seeing, Seen
<1>8. QED
  BY <1>2, <1>3, <1>4, <1>5, <1>6, <1>7 DEF NodeThread

LEMMA SeenOrNot ==
  ASSUME IInv, Placed, Stopped, [Next]_vars
  PROVE  Placed' /\ Seeing
<1>1. ASSUME \A s \in Thread : Place(s)' = Place(s), UNCHANGED graphVars
      PROVE  Placed' /\ Seeing
  <2>1. UNCHANGED <<ticks, ready, want, bit, go>>
    BY <1>1 DEF graphVars
  <2>2. Placed'
    BY <1>1, <2>1, Objects DEF Placed, Sent
  <2>3. loc' = loc
    BY <1>1, <2>1 DEF loc, MainLoc, NodeLoc
  <2>4. QED
    BY <2>1, <2>2, <2>3 DEF Seeing, Unseen
<1>2. ASSUME NEW t \in Thread, ThreadStep(t)
      PROVE  Placed' /\ Seeing
  <2>1. CASE CondStep(t) /\ UNCHANGED graphVars
    BY <1>1, <2>1, CondStays
  <2>2. QED
    BY <1>2, <2>1, ClockCalls, ClockChecks, Ticks, MainCalls, NodeCalls DEF ThreadStep
<1>3. ASSUME NEW t \in Thread, Surprise(t)
      PROVE  Placed' /\ Seeing
  <2>1. UNCHANGED <<pc, ret, cret, graphVars>>
    BY <1>3 DEF Surprise, Spurious, frame, condVars
  <2>2. \A s \in Thread : Place(s)' = Place(s)
    BY <2>1, SamePlace
  <2>3. QED
    BY <1>1, <2>1, <2>2
<1>4. CASE UNCHANGED vars
  <2>1. UNCHANGED <<pc, ret, cret, graphVars>>
    BY <1>4 DEF vars, mutexVars, condVars
  <2>2. \A s \in Thread : Place(s)' = Place(s)
    BY <2>1, SamePlace
  <2>3. QED
    BY <1>1, <2>1, <2>2
<1>5. QED
  BY <1>2, <1>3, <1>4 DEF Next, Terminating

LEMMA PlacedAtFirst ==
  ASSUME Init
  PROVE  Placed /\ G!Init
<1>1. /\ Place(Main) = "m_tick" /\ \A n \in Node : Place(n) = "clock_wait"
      /\ want[Main] = 2^N /\ \A n \in Node : want[n] = 1
  <2>1. /\ pc[Main] = "m_tick" /\ \A n \in Node : pc[n] = "clock_wait"
        /\ want[Main] = 2^N /\ \A n \in Node : want[n] = 1
    BY Objects DEF Init
  <2>2. QED
    BY <2>1, PlaceIs, Objects DEF ProgramPC
<1>2. Placed
  BY <1>1 DEF Placed, MainPlace, Sent, NodePlace
<1>3. loc = [t \in Thread |-> IF t = Main THEN "tick" ELSE "clock_wait"]
  <2>1. \A t \in Thread : loc[t] = IF t = Main THEN "tick" ELSE "clock_wait"
    <3>1. loc[Main] = "tick"
      BY <1>1, <1>2, LocIs DEF MainLoc
    <3>2. \A n \in Node : loc[n] = "clock_wait"
      BY <1>1, <1>2, LocIs, NodeLocsHold DEF NodeLocs
    <3>3. QED
      BY <3>1, <3>2, Objects
  <2>2. loc = [t \in Thread |-> loc[t]]
    BY DEF loc
  <2>3. QED
    BY <2>1, <2>2
<1>4. G!Init
  <2>1. /\ ticks = 0 /\ ready = [n \in Node |-> FALSE] /\ bit = [n \in Node |-> FALSE]
        /\ round = [n \in Node |-> 1]
    BY <1>1 DEF Init, round
  <2>2. G!Worker = Thread /\ G!Node = Node
    BY DEF G!Worker, G!Node, Node
  <2>3. QED
    BY <1>3, <2>1, <2>2 DEF G!Init, loc, round
<1>5. QED
  BY <1>2, <1>4

-----------------------------------------------------------------------------
(***************************************************************************)
(* Graph itself: its books.  Node n has acted Acts(n) times, T[n] times on *)
(* the clock and S[n] times on its own node, in turns; sum[n] is what the  *)
(* nodes from n on have added to the clock.  A signal that node n + 1 has  *)
(* not taken for an act of its own is ready.                               *)
(***************************************************************************)
Acts(n) == IF n \in Node THEN round[n] - 1 + (IF loc[n] = "next" THEN 1 ELSE 0) ELSE 0
Taken(n) == Acts(n) + (IF n \in Node /\ loc[n] = "act" THEN 1 ELSE 0)

Books(T, S, sum) ==
  /\ sum[N] = 0
  /\ \A n \in Node :
       /\ sum[n] = T[n] + sum[n + 1]
       /\ T[n] + S[n] = Acts(n)
       /\ T[n] = S[n] + (IF bit[n] <=> loc[n] # "next" THEN 1 ELSE 0)
       /\ S[n] = Taken(n + 1) + (IF ready[n] THEN 1 ELSE 0)
  /\ ticks = sum[0] + (IF loc[Main] = "tick" THEN 0 ELSE 1)
  /\ Taken(0) <= ticks

Booked == \E T \in [Node -> Nat] : \E S \in [Node -> Nat] : \E sum \in [0 .. N -> Nat] :
            Books(T, S, sum)

(* A node that has its turn to signal, or has just ticked, is not signalled*)
(* for; once the clock has stopped, the nodes that wait for a tick exit.   *)
Unread ==
  \A n \in Node :
    /\ bit[n] /\ loc[n] \in {"node_wait", "act"} => ~ready[n]
    /\ ticks >= 0 => /\ bit[n] /\ loc[n] = "clock_wait" => ~ready[n]
                     /\ ~bit[n] /\ loc[n] = "next" => ~ready[n]

Counted ==
  /\ ticks >= 0 => /\ Booked
                   /\ \A n \in Node : loc[n] \in {"clock_wait", "node_wait", "act", "next"}
  /\ loc[0] # "node_wait" /\ \A n \in Node : round[n] >= 1
  /\ Unread /\ Stopped

(* The types of what Graph sees.                                           *)
GraphTyped == /\ ticks \in Int /\ ready \in [Node -> BOOLEAN] /\ bit \in [Node -> BOOLEAN]
              /\ round \in [Node -> Int] /\ loc = [t \in Thread |-> loc[t]]

LEMMA Typed == IInv => GraphTyped
<1>1. loc = [t \in Thread |-> loc[t]]
  BY DEF loc
<1>2. QED
  BY <1>1, Objects DEF IInv, GraphTypes, GraphTyped, round

(* The least of a set of numbers.                                          *)
LEMMA Least ==
  ASSUME NEW T \in SUBSET Nat, T # {}
  PROVE  \E k \in T : \A j \in T : k <= j
<1> DEFINE R == {ss \in Nat \X Nat : ss[1] < ss[2]}
<1>1. IsWellFoundedOn(R, Nat)
  BY NatLessThanWellFounded, Zenon DEF OpToRel
<1> HIDE DEF R
<1>2. PICK k \in T : \A j \in T : ~ (<<j, k>> \in R)
  BY <1>1, WFMin, Zenon
<1>3. ASSUME NEW j \in T
      PROVE  k <= j
  <2>1. k \in Nat /\ j \in Nat /\ ~ (<<j, k>> \in R)
    BY <1>2
  <2>2. ~ (j < k)
    BY <2>1 DEF R
  <2>3. QED
    BY <2>1, <2>2
<1>4. QED
  BY <1>3

LEMMA Counts ==
  ASSUME GraphTyped, NEW n \in Int
  PROVE  /\ Acts(n) \in Int /\ Taken(n) \in Int /\ Acts(n) <= Taken(n)
         /\ n \notin Node => Acts(n) = 0 /\ Taken(n) = 0
         /\ n \in Node /\ loc[n] = "act" => Taken(n) = Acts(n) + 1
BY DEF GraphTyped, Acts, Taken

(* The nodes from n on have not added more to the clock than n has acted.  *)
LEMMA Below ==
  ASSUME GraphTyped, NEW T \in [Node -> Nat], NEW S \in [Node -> Nat],
         NEW sum \in [0 .. N -> Nat], Books(T, S, sum)
  PROVE  \A n \in 0 .. N : sum[n] <= Acts(n)
<1> DEFINE Bad == {k \in 0 .. N : ~(sum[N - k] <= Acts(N - k))}
<1>1. SUFFICES ASSUME NEW n \in 0 .. N, ~(sum[n] <= Acts(n)) PROVE FALSE
  OBVIOUS
<1>2. N - n \in Bad /\ Bad \in SUBSET Nat
  <2>1. N - n \in 0 .. N /\ N - (N - n) = n
    OBVIOUS
  <2>2. QED
    BY <1>1, <2>1
<1> HIDE DEF Bad
<1>3. PICK k \in Bad : \A j \in Bad : k <= j
  BY <1>2, Least
<1>4. k \in 0 .. N /\ ~(sum[N - k] <= Acts(N - k))
  BY <1>3 DEF Bad
<1>5. k # 0
  <2>1. sum[N] = 0 /\ Acts(N) = 0
    BY Counts DEF Books, Node
  <2>2. QED
    BY <1>4, <2>1
<1>6. k - 1 \notin Bad /\ k - 1 \in 0 .. N
  BY <1>3, <1>4, <1>5
<1>7. PICK m \in Node : m = N - k /\ m + 1 = N - (k - 1)
  BY <1>4, <1>5 DEF Node
<1>8. sum[m + 1] <= Acts(m + 1)
  BY <1>6, <1>7 DEF Bad
<1>9. sum[m] = T[m] + sum[m + 1] /\ T[m] + S[m] = Acts(m) /\ S[m] >= Taken(m + 1)
  <2>1. /\ sum[m] = T[m] + sum[m + 1] /\ T[m] + S[m] = Acts(m)
        /\ S[m] = Taken(m + 1) + (IF ready[m] THEN 1 ELSE 0)
    BY DEF Books
  <2>2. m \in Int /\ m + 1 \in Int
    BY DEF Node
  <2>3. Taken(m + 1) \in Int
    BY <2>2, Counts
  <2>4. QED
    BY <2>1, <2>3
<1>10. /\ Acts(m) \in Int /\ Acts(m + 1) \in Int /\ Taken(m + 1) \in Int
       /\ Acts(m + 1) <= Taken(m + 1)
  <2>1. m \in Int /\ m + 1 \in Int
    BY DEF Node
  <2>2. QED
    BY <2>1, Counts
<1>11. T[m] \in Nat /\ S[m] \in Nat /\ sum[m] \in Nat /\ sum[m + 1] \in Nat
  BY DEF Node
<1>12. QED
  BY <1>4, <1>7, <1>8, <1>9, <1>10, <1>11

(* The nodes before n have not added more than n is behind node 0.         *)
LEMMA Above ==
  ASSUME GraphTyped, NEW T \in [Node -> Nat], NEW S \in [Node -> Nat],
         NEW sum \in [0 .. N -> Nat], Books(T, S, sum)
  PROVE  \A n \in Node : sum[0] - sum[n] + Taken(n) <= Taken(0)
<1> DEFINE Bad == {n \in Node : ~(sum[0] - sum[n] + Taken(n) <= Taken(0))}
<1>1. SUFFICES ASSUME Bad # {} PROVE FALSE
  OBVIOUS
<1>2. PICK k \in Bad : \A j \in Bad : k <= j
  <2>1. Bad \in SUBSET Nat
    BY DEF Node
  <2>2. QED
    BY <1>1, <2>1, Least
<1>3. k \in Node /\ ~(sum[0] - sum[k] + Taken(k) <= Taken(0))
  BY <1>2
<1>4. k # 0
  <2>1. sum[0] \in Nat /\ Taken(0) \in Int
    BY Counts
  <2>2. QED
    BY <1>3, <2>1
<1>5. PICK m \in Node : m + 1 = k /\ m \notin Bad
  <2>1. k - 1 \in Node /\ (k - 1) + 1 = k /\ ~(k <= k - 1)
    BY <1>3, <1>4 DEF Node
  <2>2. k - 1 \notin Bad
    BY <1>2, <2>1
  <2>3. QED
    BY <2>1, <2>2
<1>6. sum[0] - sum[m] + Taken(m) <= Taken(0)
  BY <1>5
<1> HIDE DEF Bad
<1>7. sum[m] = T[m] + sum[m + 1] /\ T[m] + S[m] = Acts(m) /\ S[m] >= Taken(m + 1)
  <2>1. /\ sum[m] = T[m] + sum[m + 1] /\ T[m] + S[m] = Acts(m)
        /\ S[m] = Taken(m + 1) + (IF ready[m] THEN 1 ELSE 0)
    BY DEF Books
  <2>2. m \in Int /\ m + 1 \in Int
    BY DEF Node
  <2>3. Taken(m + 1) \in Int
    BY <2>2, Counts
  <2>4. QED
    BY <2>1, <2>3
<1>8. /\ Acts(m) \in Int /\ Taken(m) \in Int /\ Taken(m + 1) \in Int /\ Taken(0) \in Int
      /\ Acts(m) <= Taken(m)
  <2>1. m \in Int /\ m + 1 \in Int
    BY DEF Node
  <2>2. QED
    BY <2>1, Counts
<1>9. T[m] \in Nat /\ S[m] \in Nat /\ sum[m] \in Nat /\ sum[m + 1] \in Nat /\ sum[0] \in Nat
  BY DEF Node
<1>10. ~(sum[0] - sum[m + 1] + Taken(m + 1) <= Taken(0))
  BY <1>3, <1>5
<1>11. PICK a \in Nat, b \in Nat, c \in Nat, p \in Nat, q \in Nat :
         a = sum[0] /\ b = sum[m] /\ c = sum[m + 1] /\ p = T[m] /\ q = S[m]
  BY <1>9
<1>12. PICK u \in Int, v \in Int, w \in Int, z \in Int :
         u = Acts(m) /\ v = Taken(m + 1) /\ w = Taken(m) /\ z = Taken(0)
  BY <1>8
<1>13. b = p + c /\ p + q = u /\ q >= v /\ u <= w
  BY ONLY <1>7, <1>8, <1>11, <1>12, Zenon
<1>14. a - b + w <= z /\ ~(a - c + v <= z)
  BY ONLY <1>6, <1>10, <1>11, <1>12, Zenon
<1>15. QED
  BY <1>13, <1>14

(* Who acts finds the last signal of its node waited for.                  *)
LEMMA Ahead ==
  ASSUME GraphTyped, Booked, NEW n \in Node, loc[n] = "act"
  PROVE  ~ready[n]
<1> SUFFICES ASSUME ready[n] PROVE FALSE
  OBVIOUS
<1>1. PICK T \in [Node -> Nat], S \in [Node -> Nat], sum \in [0 .. N -> Nat] : Books(T, S, sum)
  BY DEF Booked
<1>2. /\ sum[n] = T[n] + sum[n + 1] /\ T[n] + S[n] = Acts(n) /\ S[n] = Taken(n + 1) + 1
      /\ ticks = sum[0] + (IF loc[Main] = "tick" THEN 0 ELSE 1) /\ Taken(0) <= ticks
  BY <1>1 DEF Books
<1>3. sum[n + 1] <= Acts(n + 1) /\ sum[0] - sum[n] + Taken(n) <= Taken(0)
  <2>1. n + 1 \in 0 .. N
    BY DEF Node
  <2>2. QED
    BY <1>1, <2>1, Below, Above
<1>4. /\ Acts(n) \in Int /\ Taken(n) = Acts(n) + 1 /\ Acts(n + 1) \in Int
      /\ Taken(n + 1) \in Int /\ Acts(n + 1) <= Taken(n + 1) /\ Taken(0) \in Int
  <2>1. n \in Int /\ n + 1 \in Int /\ 0 \in Int
    BY DEF Node
  <2>2. QED
    BY <2>1, Counts
<1>5. T[n] \in Nat /\ S[n] \in Nat /\ sum[n] \in Nat /\ sum[n + 1] \in Nat /\ sum[0] \in Nat
  BY DEF Node
<1>6. ticks <= sum[0] + 1
  BY <1>2, <1>5
<1>7. PICK a \in Nat, b \in Nat, c \in Nat, p \in Nat, q \in Nat :
        a = sum[0] /\ b = sum[n] /\ c = sum[n + 1] /\ p = T[n] /\ q = S[n]
  BY <1>5
<1>8. PICK u \in Int, v \in Int, w \in Int, z \in Int, y \in Int, d \in Int :
        /\ u = Acts(n) /\ v = Taken(n + 1) /\ w = Taken(n) /\ z = Taken(0)
        /\ y = Acts(n + 1) /\ d = ticks
  <2>1. ticks \in Int /\ Taken(n) \in Int
    BY <1>4 DEF GraphTyped
  <2>2. QED
    BY <1>4, <2>1
<1>9. /\ b = p + c /\ p + q = u /\ q = v + 1 /\ z <= d
      /\ c <= y /\ y <= v /\ w = u + 1 /\ d <= a + 1
  BY ONLY <1>2, <1>3, <1>4, <1>6, <1>7, <1>8, Zenon
<1>10. a - b + w <= z
  BY ONLY <1>3, <1>7, <1>8, Zenon
<1>11. QED
  BY <1>9, <1>10

-----------------------------------------------------------------------------
(* Every step of Graph keeps the books.                                    *)
LEMMA MoveIs ==
  ASSUME GraphTyped, GraphTyped', NEW t \in Thread, NEW a, NEW b, G!Move(t, a, b)
  PROVE  /\ loc[t] = a /\ loc'[t] = b
         /\ \A s \in Thread \ {t} : loc'[s] = loc[s]
<1>1. loc[t] = a /\ loc' = [loc EXCEPT ![t] = b]
  BY Moved
<1>2. loc = [s \in Thread |-> loc[s]]
  BY DEF GraphTyped
<1>3. DOMAIN loc = Thread
  BY <1>2
<1>4. QED
  BY <1>1, <1>3

LEMMA OthersCount ==
  ASSUME NEW t \in Thread, \A s \in Thread \ {t} : loc'[s] = loc[s],
         \A m \in Node \ {t} : round'[m] = round[m], NEW m \in Int, m # t
  PROVE  Acts(m)' = Acts(m) /\ Taken(m)' = Taken(m)
<1>1. CASE m \in Node
  BY <1>1, Objects DEF Acts, Taken
<1>2. CASE m \notin Node
  BY <1>2 DEF Acts, Taken
<1>3. QED
  BY <1>1, <1>2

(* Whether node n has ticked once more than it has signalled.              *)
Ticked(n) == bit[n] <=> loc[n] # "next"

LEMMA SameBooks ==
  ASSUME Booked,
         \A n \in Node : /\ Acts(n)' = Acts(n) /\ Taken(n + 1)' = Taken(n + 1)
                         /\ ready'[n] = ready[n] /\ (Ticked(n)' <=> Ticked(n)),
         ticks' = ticks, loc'[Main] = "tick" <=> loc[Main] = "tick", Taken(0)' <= ticks'
  PROVE  Booked'
<1>1. PICK T \in [Node -> Nat], S \in [Node -> Nat], sum \in [0 .. N -> Nat] : Books(T, S, sum)
  BY DEF Booked
<1>2. ASSUME NEW n \in Node
      PROVE  /\ sum[n] = T[n] + sum[n + 1]
             /\ T[n] + S[n] = Acts(n)'
             /\ T[n] = S[n] + (IF bit'[n] <=> loc'[n] # "next" THEN 1 ELSE 0)
             /\ S[n] = Taken(n + 1)' + (IF ready'[n] THEN 1 ELSE 0)
  <2>1. /\ sum[n] = T[n] + sum[n + 1]
        /\ T[n] + S[n] = Acts(n)
        /\ T[n] = S[n] + (IF Ticked(n) THEN 1 ELSE 0)
        /\ S[n] = Taken(n + 1) + (IF ready[n] THEN 1 ELSE 0)
    BY <1>1 DEF Books, Ticked
  <2>2. /\ Acts(n)' = Acts(n) /\ Taken(n + 1)' = Taken(n + 1) /\ ready'[n] = ready[n]
        /\ (bit'[n] <=> loc'[n] # "next") <=> Ticked(n)
    BY DEF Ticked
  <2>3. QED
    BY ONLY <2>1, <2>2
<1>3. /\ sum[N] = 0 /\ ticks' = sum[0] + (IF loc'[Main] = "tick" THEN 0 ELSE 1)
      /\ Taken(0)' <= ticks'
  BY <1>1 DEF Books
<1>4. Books(T, S, sum)'
  BY <1>2, <1>3 DEF Books
<1>5. QED
  BY <1>4 DEF Booked

LEMMA NodeNumbers ==
  /\ 0 \in Node /\ 0 \in Int /\ \A n \in Node : n \in Int /\ n + 1 \in Int /\ n + 1 # n /\ n + 1 # 0
  /\ \A n \in Node : n - 1 \in Int /\ (n - 1) + 1 = n
  /\ \A m, n \in Node : m + 1 = n <=> m = n - 1
BY DEF Node

LEMMA MainCounts ==
  ASSUME GraphTyped, GraphTyped', Counted, G!MainStep
  PROVE  Counted'
<1>1. UNCHANGED <<ready, round, bit>>
  BY DEF G!MainStep, round
<1>2. /\ \A n \in Node : loc'[n] = loc[n]
      /\ \/ loc[Main] = "tick" /\ loc'[Main] = "wait" /\ ticks' = IF ticks >= 0 THEN ticks + 1 ELSE ticks
         \/ loc[Main] = "wait" /\ loc'[Main] = "stop" /\ ticks' = ticks
         \/ loc[Main] = "stop" /\ loc'[Main] = "join" /\ ticks' = -1
         \/ loc[Main] = "join" /\ loc'[Main] = "done" /\ ticks' = ticks
  BY MoveIs, Objects DEF G!MainStep, G!AdvanceClock
<1>3. \A n \in Int : Acts(n)' = Acts(n) /\ Taken(n)' = Taken(n)
  BY <1>1, <1>2 DEF Acts, Taken
<1>4. \A n \in Node : Ticked(n)' <=> Ticked(n)
  BY <1>1, <1>2 DEF Ticked
<1>5. ticks \in Int /\ ticks' \in Int /\ (ticks' >= 0 => ticks >= 0)
  BY <1>2 DEF GraphTyped, Counted, Stopped
<1>6. ticks' >= 0 => Booked'
  <2> SUFFICES ASSUME ticks' >= 0 PROVE Booked'
    OBVIOUS
  <2>1. PICK T \in [Node -> Nat], S \in [Node -> Nat], sum \in [0 .. N -> Nat] : Books(T, S, sum)
    BY <1>5 DEF Counted, Booked
  <2>2. /\ ticks = sum[0] + (IF loc[Main] = "tick" THEN 0 ELSE 1)
        /\ Taken(0) <= ticks /\ Taken(0) \in Int /\ sum[0] \in Nat
    BY <2>1, Counts DEF Books
  <2>3. /\ ticks' = sum[0] + (IF loc'[Main] = "tick" THEN 0 ELSE 1)
        /\ ticks' >= ticks
    BY <1>2, <1>5, <2>2
  <2>4. Taken(0)' <= ticks'
    <3>1. Taken(0)' = Taken(0)
      BY <1>3, NodeNumbers
    <3>2. QED
      BY <1>5, <2>2, <2>3, <3>1
  <2>5. Books(T, S, sum)'
    <3>1. ASSUME NEW n \in Node
          PROVE  /\ sum[n] = T[n] + sum[n + 1]
                 /\ T[n] + S[n] = Acts(n)'
                 /\ T[n] = S[n] + (IF bit'[n] <=> loc'[n] # "next" THEN 1 ELSE 0)
                 /\ S[n] = Taken(n + 1)' + (IF ready'[n] THEN 1 ELSE 0)
      <4>1. /\ sum[n] = T[n] + sum[n + 1]
            /\ T[n] + S[n] = Acts(n)
            /\ T[n] = S[n] + (IF bit[n] <=> loc[n] # "next" THEN 1 ELSE 0)
            /\ S[n] = Taken(n + 1) + (IF ready[n] THEN 1 ELSE 0)
        BY <2>1 DEF Books
      <4>2. /\ Acts(n)' = Acts(n) /\ Taken(n + 1)' = Taken(n + 1) /\ ready'[n] = ready[n]
            /\ bit'[n] = bit[n] /\ loc'[n] = loc[n]
        BY <1>1, <1>2, <1>3, NodeNumbers
      <4>3. QED
        BY ONLY <4>1, <4>2
    <3>2. sum[N] = 0
      BY <2>1 DEF Books
    <3>3. QED
      BY <2>3, <2>4, <3>1, <3>2 DEF Books
  <2>6. QED
    BY <2>5 DEF Booked
<1>7. /\ ticks' >= 0 => \A n \in Node : loc'[n] \in {"clock_wait", "node_wait", "act", "next"}
      /\ loc'[0] # "node_wait" /\ \A n \in Node : round'[n] >= 1
  BY <1>1, <1>2, <1>5, NodeNumbers DEF Counted
<1>8. Unread'
  BY <1>1, <1>2, <1>5 DEF Counted, Unread
<1>9. Stopped'
  BY <1>2, <1>5 DEF Counted, Stopped
<1>10. QED
  BY <1>6, <1>7, <1>8, <1>9 DEF Counted

(* A node moves: what is to be shown of it alone.                          *)
LEMMA NodeCounts ==
  ASSUME GraphTyped, GraphTyped', Counted, NEW n \in Node,
         \A s \in Thread \ {n} : loc'[s] = loc[s],
         \A m \in Node \ {n} : round'[m] = round[m] /\ bit'[m] = bit[m] /\ (ready'[m] => ready[m]),
         ticks >= 0 => ticks' >= 0, ticks < 0 => ticks' < 0,
         ticks >= 0 => Booked' /\ loc'[n] \in {"clock_wait", "node_wait", "act", "next"},
         n = 0 => loc'[n] # "node_wait", round'[n] >= 1,
         bit'[n] /\ loc'[n] \in {"node_wait", "act"} => ~ready'[n],
         ticks >= 0 => /\ bit'[n] /\ loc'[n] = "clock_wait" => ~ready'[n]
                       /\ ~bit'[n] /\ loc'[n] = "next" => ~ready'[n]
  PROVE  Counted'
<1>1. /\ loc'[Main] = loc[Main] /\ \A m \in Node \ {n} : loc'[m] = loc[m]
      /\ ticks \in Int /\ ticks' \in Int
  BY Objects DEF GraphTyped
<1>2. ticks' >= 0 <=> ticks >= 0
  BY <1>1
<1>3. /\ ticks' >= 0 => /\ Booked'
                        /\ \A m \in Node : loc'[m] \in {"clock_wait", "node_wait", "act", "next"}
      /\ loc'[0] # "node_wait" /\ \A m \in Node : round'[m] >= 1
  <2>1. \A m \in Node : /\ ticks >= 0 => loc'[m] \in {"clock_wait", "node_wait", "act", "next"}
                        /\ round'[m] >= 1
    BY <1>1 DEF Counted
  <2>2. loc'[0] # "node_wait"
    <3>1. CASE n = 0
      BY <3>1
    <3>2. CASE n # 0
      BY <1>1, <3>2, NodeNumbers DEF Counted
    <3>3. QED
      BY <3>1, <3>2
  <2>3. ticks >= 0 => Booked'
    OBVIOUS
  <2>4. QED
    BY <1>2, <2>1, <2>2, <2>3
<1>4. Unread'
  <2> SUFFICES ASSUME NEW m \in Node
               PROVE  /\ bit'[m] /\ loc'[m] \in {"node_wait", "act"} => ~ready'[m]
                      /\ ticks' >= 0 => /\ bit'[m] /\ loc'[m] = "clock_wait" => ~ready'[m]
                                        /\ ~bit'[m] /\ loc'[m] = "next" => ~ready'[m]
    BY DEF Unread
  <2>1. CASE m = n
    <3>1. /\ bit'[n] /\ loc'[n] \in {"node_wait", "act"} => ~ready'[n]
          /\ ticks' >= 0 => /\ bit'[n] /\ loc'[n] = "clock_wait" => ~ready'[n]
                            /\ ~bit'[n] /\ loc'[n] = "next" => ~ready'[n]
      <4>1. bit'[n] /\ loc'[n] \in {"node_wait", "act"} => ~ready'[n]
        OBVIOUS
      <4>2. ASSUME ticks' >= 0
            PROVE  /\ bit'[n] /\ loc'[n] = "clock_wait" => ~ready'[n]
                   /\ ~bit'[n] /\ loc'[n] = "next" => ~ready'[n]
        <5>1. ticks >= 0
          BY <1>2, <4>2
        <5>2. QED
          BY <5>1
      <4>3. QED
        BY ONLY <4>1, <4>2
    <3>2. QED
      BY ONLY <2>1, <3>1
  <2>2. CASE m # n
    BY <1>1, <1>2, <2>2 DEF Counted, Unread
  <2>3. QED
    BY <2>1, <2>2
<1>5. Stopped'
  BY <1>1, <1>2 DEF Counted, Stopped
<1>6. QED
  BY <1>3, <1>4, <1>5 DEF Counted

LEMMA ClockWaitCounts ==
  ASSUME GraphTyped, GraphTyped', Counted, NEW n \in Node, G!ClockWait(n)
  PROVE  Counted'
<1>1. UNCHANGED <<ticks, ready, round, bit>>
  BY DEF G!ClockWait, round
<1>2. /\ loc[n] = "clock_wait" /\ \A s \in Thread \ {n} : loc'[s] = loc[s]
      /\ \/ ticks >= round[n] /\ loc'[n] = IF n = 0 THEN "act" ELSE "node_wait"
         \/ ticks < 0 /\ loc'[n] = "exit"
  <2>1. \/ ticks >= round[n] /\ G!Move(n, "clock_wait", IF n = 0 THEN "act" ELSE "node_wait")
        \/ ticks < 0 /\ G!Move(n, "clock_wait", "exit")
    BY DEF G!ClockWait, round
  <2>2. QED
    BY <2>1, MoveIs, Objects
<1>3. /\ n \in Thread /\ n # Main /\ ticks \in Int /\ ticks' \in Int /\ round[n] \in Int /\ round[n] >= 1
      /\ loc'[Main] = loc[Main]
  BY <1>2, Objects DEF GraphTyped, Counted
<1>4. ASSUME ticks >= 0
      PROVE  Booked' /\ loc'[n] \in {"clock_wait", "node_wait", "act", "next"}
  <2>1. ticks >= round[n] /\ loc'[n] = IF n = 0 THEN "act" ELSE "node_wait"
    BY <1>2, <1>3, <1>4
  <2>2. \A m \in Int \ {n} : Acts(m)' = Acts(m) /\ Taken(m)' = Taken(m)
    BY <1>1, <1>2, <1>3, OthersCount
  <2>3. /\ Acts(n)' = Acts(n)
        /\ n # 0 => Taken(n)' = Taken(n)
        /\ n = 0 => Taken(n)' = round[n]
    BY <1>1, <1>2, <1>3, <2>1 DEF Acts, Taken
  <2>4. \A m \in Node : /\ Acts(m)' = Acts(m) /\ Taken(m + 1)' = Taken(m + 1)
                        /\ ready'[m] = ready[m] /\ (Ticked(m)' <=> Ticked(m))
    <3> SUFFICES ASSUME NEW m \in Node
                 PROVE  /\ Acts(m)' = Acts(m) /\ Taken(m + 1)' = Taken(m + 1)
                        /\ ready'[m] = ready[m] /\ (Ticked(m)' <=> Ticked(m))
      OBVIOUS
    <3>0. m \in Int /\ m + 1 \in Int /\ m + 1 # 0
      BY NodeNumbers
    <3>1. Acts(m)' = Acts(m)
      <4>1. CASE m = n
        BY <2>3, <4>1
      <4>2. CASE m # n
        BY <2>2, <3>0, <4>2
      <4>3. QED
        BY <4>1, <4>2
    <3>2. Taken(m + 1)' = Taken(m + 1)
      <4>1. CASE m + 1 = n
        <5>1. n # 0
          BY <3>0, <4>1
        <5>2. Taken(n)' = Taken(n)
          BY <2>3, <5>1
        <5>3. QED
          BY ONLY <4>1, <5>2
      <4>2. CASE m + 1 # n
        BY <2>2, <3>0, <4>2
      <4>3. QED
        BY <4>1, <4>2
    <3>3. Ticked(m)' <=> Ticked(m)
      BY <1>1, <1>2, <2>1, Objects DEF Ticked
    <3>4. QED
      BY <1>1, <3>1, <3>2, <3>3
  <2>5. Taken(0)' <= ticks'
    <3>1. CASE n = 0
      BY <1>1, <2>1, <2>3, <3>1
    <3>2. CASE n # 0
      BY <1>1, <1>4, <2>2, <3>2 DEF Counted, Booked, Books
    <3>3. QED
      BY <3>1, <3>2
  <2>6. Booked
    BY <1>4 DEF Counted
  <2>7. Booked'
    BY <1>1, <1>3, <2>4, <2>5, <2>6, SameBooks
  <2>8. QED
    BY <2>1, <2>7
<1>5. /\ n = 0 => loc'[n] # "node_wait"
      /\ round'[n] >= 1 /\ \A m \in Node \ {n} : round'[m] = round[m] /\ bit'[m] = bit[m] /\ (ready'[m] => ready[m])
  BY <1>1, <1>2, <1>3
<1>6. /\ bit'[n] /\ loc'[n] \in {"node_wait", "act"} => ~ready'[n]
      /\ ticks >= 0 => /\ bit'[n] /\ loc'[n] = "clock_wait" => ~ready'[n]
                       /\ ~bit'[n] /\ loc'[n] = "next" => ~ready'[n]
  BY <1>1, <1>2, <1>3 DEF Counted, Unread
<1>7. QED
  BY <1>1, <1>2, <1>3, <1>4, <1>5, <1>6, NodeCounts

LEMMA NextRoundCounts ==
  ASSUME GraphTyped, GraphTyped', Counted, NEW n \in Node, G!NextRound(n)
  PROVE  Counted'
<1>1. /\ UNCHANGED <<ticks, ready>> /\ n \in Thread /\ n # Main
      /\ round'[n] = round[n] + 1 /\ bit'[n] = ~bit[n] /\ round[n] \in Int /\ round[n] >= 1
      /\ \A m \in Node \ {n} : round'[m] = round[m] /\ bit'[m] = bit[m]
  <2>1. /\ round' = [round EXCEPT ![n] = @ + 1] /\ bit' = [bit EXCEPT ![n] = ~@]
        /\ UNCHANGED <<ticks, ready>>
    BY DEF G!NextRound, round
  <2>2. QED
    BY <2>1, Objects DEF GraphTyped, Counted
<1>2. /\ loc[n] = "next" /\ loc'[n] = "clock_wait" /\ \A s \in Thread \ {n} : loc'[s] = loc[s]
      /\ loc'[Main] = loc[Main]
  BY <1>1, MoveIs, Objects DEF G!NextRound
<1>3. ASSUME ticks >= 0
      PROVE  Booked'
  <2>1. \A m \in Int \ {n} : Acts(m)' = Acts(m) /\ Taken(m)' = Taken(m)
    BY <1>1, <1>2, OthersCount
  <2>2. Acts(n)' = Acts(n) /\ Taken(n)' = Taken(n)
    BY <1>1, <1>2 DEF Acts, Taken
  <2>3. \A m \in Int : Acts(m)' = Acts(m) /\ Taken(m)' = Taken(m)
    BY <2>1, <2>2
  <2>4. \A m \in Node : /\ Acts(m)' = Acts(m) /\ Taken(m + 1)' = Taken(m + 1)
                        /\ ready'[m] = ready[m] /\ (Ticked(m)' <=> Ticked(m))
    <3> SUFFICES ASSUME NEW m \in Node
                 PROVE  /\ Acts(m)' = Acts(m) /\ Taken(m + 1)' = Taken(m + 1)
                        /\ ready'[m] = ready[m] /\ (Ticked(m)' <=> Ticked(m))
      OBVIOUS
    <3>1. Ticked(m)' <=> Ticked(m)
      <4>1. CASE m = n
        BY <1>1, <1>2, <4>1 DEF Ticked
      <4>2. CASE m # n
        BY <1>1, <1>2, <4>2, Objects DEF Ticked
      <4>3. QED
        BY <4>1, <4>2
    <3>2. QED
      BY <1>1, <2>3, <3>1, NodeNumbers
  <2>5. Taken(0)' <= ticks'
    BY <1>1, <1>3, <2>3, NodeNumbers DEF Counted, Booked, Books
  <2>6. Booked
    BY <1>3 DEF Counted
  <2>7. QED
    BY <1>1, <1>2, <2>4, <2>5, <2>6, SameBooks
<1>4. bit'[n] /\ loc'[n] \in {"node_wait", "act"} => ~ready'[n]
  BY <1>2
<1>5. ASSUME ticks >= 0
      PROVE  /\ bit'[n] /\ loc'[n] = "clock_wait" => ~ready'[n]
             /\ ~bit'[n] /\ loc'[n] = "next" => ~ready'[n]
  BY <1>1, <1>2, <1>5 DEF Counted, Unread
<1>6. /\ n = 0 => loc'[n] # "node_wait"
      /\ round'[n] >= 1 /\ loc'[n] \in {"clock_wait", "node_wait", "act", "next"}
      /\ ticks >= 0 => ticks' >= 0
      /\ ticks < 0 => ticks' < 0
      /\ \A m \in Node \ {n} : round'[m] = round[m] /\ bit'[m] = bit[m] /\ (ready'[m] => ready[m])
  BY <1>1, <1>2
<1>7. QED
  BY <1>2, <1>3, <1>4, <1>5, <1>6, NodeCounts

LEMMA ExitCounts ==
  ASSUME GraphTyped, GraphTyped', Counted, NEW n \in Node, G!Exit(n)
  PROVE  Counted'
<1>1. /\ UNCHANGED <<ticks, round, bit>> /\ n \in Thread /\ n # Main
      /\ \A m \in Node \ {n} : ready'[m] = ready[m]
  <2>1. /\ UNCHANGED <<ticks, round, bit>> /\ ready' = [ready EXCEPT ![n] = TRUE]
    BY DEF G!Exit, G!SetReady, round
  <2>2. QED
    BY <2>1, Objects DEF GraphTyped
<1>2. loc[n] = "exit" /\ loc'[n] = "done" /\ \A s \in Thread \ {n} : loc'[s] = loc[s]
  BY <1>1, MoveIs DEF G!Exit
<1>3. ~(ticks >= 0)
  BY <1>2 DEF Counted
<1>4. /\ n = 0 => loc'[n] # "node_wait"
      /\ round'[n] >= 1
      /\ ticks < 0 => ticks' < 0
      /\ bit'[n] /\ loc'[n] \in {"node_wait", "act"} => ~ready'[n]
      /\ \A m \in Node \ {n} : round'[m] = round[m] /\ bit'[m] = bit[m] /\ (ready'[m] => ready[m])
  BY <1>1, <1>2 DEF Counted
<1>5. QED
  BY <1>2, <1>3, <1>4, NodeCounts

LEMMA NodeWaitCounts ==
  ASSUME GraphTyped, GraphTyped', Counted, NEW n \in Node, G!NodeWait(n)
  PROVE  Counted'
<1>1. /\ UNCHANGED <<ticks, round, bit>> /\ ready[n - 1]
      /\ ready' = [ready EXCEPT ![n - 1] = FALSE] /\ n \in Thread /\ n # Main
  BY Objects DEF G!NodeWait, round
<1>2. /\ loc[n] = "node_wait" /\ loc'[n] = "act" /\ \A s \in Thread \ {n} : loc'[s] = loc[s]
      /\ loc'[Main] = loc[Main]
  BY <1>1, MoveIs, Objects DEF G!NodeWait
<1>3. n # 0 /\ n - 1 \in Node /\ (n - 1) + 1 = n /\ n - 1 # n
  BY <1>2, Objects, NodeNumbers DEF Counted
<1>4. ~ready'[n - 1] /\ \A m \in Node : m # n - 1 => ready'[m] = ready[m]
  BY <1>1, <1>3 DEF GraphTyped
<1>5. ASSUME ticks >= 0
      PROVE  Booked'
  <2>1. PICK T \in [Node -> Nat], S \in [Node -> Nat], sum \in [0 .. N -> Nat] : Books(T, S, sum)
    BY <1>5 DEF Counted, Booked
  <2>2. \A m \in Int \ {n} : Acts(m)' = Acts(m) /\ Taken(m)' = Taken(m)
    BY <1>1, <1>2, OthersCount
  <2>3. Acts(n)' = Acts(n) /\ Taken(n)' = Taken(n) + 1
    <3>1. round[n] \in Int /\ round'[n] = round[n]
      BY <1>1 DEF GraphTyped
    <3>2. QED
      BY <1>2, <3>1 DEF Acts, Taken
  <2>4. ASSUME NEW m \in Node
        PROVE  /\ sum[m] = T[m] + sum[m + 1]
               /\ T[m] + S[m] = Acts(m)'
               /\ T[m] = S[m] + (IF bit'[m] <=> loc'[m] # "next" THEN 1 ELSE 0)
               /\ S[m] = Taken(m + 1)' + (IF ready'[m] THEN 1 ELSE 0)
    <3>1. /\ sum[m] = T[m] + sum[m + 1]
          /\ T[m] + S[m] = Acts(m)
          /\ T[m] = S[m] + (IF bit[m] <=> loc[m] # "next" THEN 1 ELSE 0)
          /\ S[m] = Taken(m + 1) + (IF ready[m] THEN 1 ELSE 0)
      BY <2>1 DEF Books
    <3>2. m \in Int /\ m + 1 \in Int
      BY NodeNumbers
    <3>3. Acts(m)' = Acts(m)
      BY <2>2, <2>3, <3>2
    <3>4. (bit'[m] <=> loc'[m] # "next") <=> (bit[m] <=> loc[m] # "next")
      <4>1. bit'[m] = bit[m]
        BY <1>1
      <4>2. loc'[m] # "next" <=> loc[m] # "next"
        BY <1>2, Objects
      <4>3. QED
        BY <4>1, <4>2
    <3>5. S[m] = Taken(m + 1)' + (IF ready'[m] THEN 1 ELSE 0)
      <4>1. CASE m = n - 1
        <5>1. /\ S[m] = Taken(n) + (IF ready[n - 1] THEN 1 ELSE 0)
              /\ m + 1 = n
          BY ONLY <1>3, <3>1, <4>1
        <5>2. Taken(n) \in Int
          BY Counts, NodeNumbers
        <5>3. S[m] = Taken(n)' + (IF ready'[n - 1] THEN 1 ELSE 0)
          BY ONLY <1>1, <1>4, <2>3, <5>1, <5>2
        <5>4. QED
          BY ONLY <4>1, <5>1, <5>3
      <4>2. CASE m # n - 1
        <5>1. m + 1 # n
          BY <4>2, NodeNumbers
        <5>2. Taken(m + 1)' = Taken(m + 1) /\ ready'[m] = ready[m]
          BY <1>4, <2>2, <3>2, <4>2, <5>1
        <5>3. QED
          BY ONLY <3>1, <5>2
      <4>3. QED
        BY <4>1, <4>2
    <3>6. QED
      BY ONLY <3>1, <3>3, <3>4, <3>5
  <2>5. /\ sum[N] = 0 /\ ticks' = sum[0] + (IF loc'[Main] = "tick" THEN 0 ELSE 1)
        /\ Taken(0)' <= ticks'
    <3>1. Taken(0)' = Taken(0)
      BY <1>3, <2>2
    <3>2. QED
      BY <1>1, <1>2, <2>1, <3>1 DEF Books
  <2>6. Books(T, S, sum)'
    BY <2>4, <2>5 DEF Books
  <2>7. QED
    BY <2>6 DEF Booked
<1>6. /\ bit'[n] /\ loc'[n] \in {"node_wait", "act"} => ~ready'[n]
      /\ round'[n] >= 1
      /\ \A m \in Node \ {n} : round'[m] = round[m] /\ bit'[m] = bit[m] /\ (ready'[m] => ready[m])
  BY <1>1, <1>2, <1>3, <1>4 DEF Counted, Unread
<1>7. /\ loc'[n] # "node_wait" /\ loc'[n] # "clock_wait" /\ loc'[n] # "next"
      /\ loc'[n] \in {"clock_wait", "node_wait", "act", "next"}
      /\ ticks >= 0 => ticks' >= 0
      /\ ticks < 0 => ticks' < 0
  BY <1>1, <1>2
<1>8. QED
  BY <1>2, <1>5, <1>6, <1>7, NodeCounts

LEMMA SignalCounts ==
  ASSUME GraphTyped, GraphTyped', Counted, NEW n \in Node, Signals(n)
  PROVE  ~ready[n] /\ Counted'
<1>1. /\ UNCHANGED <<ticks, round, bit>> /\ bit[n] /\ n \in Thread /\ n # Main
      /\ ready'[n] /\ \A m \in Node \ {n} : ready'[m] = ready[m]
  <2>1. /\ UNCHANGED <<ticks, round, bit>> /\ ready' = [ready EXCEPT ![n] = TRUE] /\ bit[n]
    BY DEF Signals, G!SetReady
  <2>2. QED
    BY <2>1, Objects DEF GraphTyped
<1>2. /\ loc[n] = "act" /\ loc'[n] = "next" /\ \A s \in Thread \ {n} : loc'[s] = loc[s]
      /\ loc'[Main] = loc[Main]
  BY <1>1, MoveIs, Objects DEF Signals
<1>3. ~ready[n]
  BY <1>1, <1>2 DEF Counted, Unread
<1>4. ASSUME ticks >= 0
      PROVE  Booked'
  <2>1. PICK T \in [Node -> Nat], S \in [Node -> Nat], sum \in [0 .. N -> Nat] : Books(T, S, sum)
    BY <1>4 DEF Counted, Booked
  <2>2. \A m \in Int \ {n} : Acts(m)' = Acts(m) /\ Taken(m)' = Taken(m)
    BY <1>1, <1>2, OthersCount
  <2>3. Acts(n)' = Acts(n) + 1 /\ Taken(n)' = Taken(n)
    <3>1. round[n] \in Int /\ round'[n] = round[n]
      BY <1>1 DEF GraphTyped
    <3>2. QED
      BY <1>2, <3>1 DEF Acts, Taken
  <2>4. PICK S2 \in [Node -> Nat] : S2[n] = S[n] + 1 /\ \A m \in Node \ {n} : S2[m] = S[m]
    <3>1. [S EXCEPT ![n] = S[n] + 1] \in [Node -> Nat]
      OBVIOUS
    <3>2. QED
      BY <3>1
  <2>5. ASSUME NEW m \in Node
        PROVE  /\ sum[m] = T[m] + sum[m + 1]
               /\ T[m] + S2[m] = Acts(m)'
               /\ T[m] = S2[m] + (IF bit'[m] <=> loc'[m] # "next" THEN 1 ELSE 0)
               /\ S2[m] = Taken(m + 1)' + (IF ready'[m] THEN 1 ELSE 0)
    <3>1. /\ sum[m] = T[m] + sum[m + 1]
          /\ T[m] + S[m] = Acts(m)
          /\ T[m] = S[m] + (IF bit[m] <=> loc[m] # "next" THEN 1 ELSE 0)
          /\ S[m] = Taken(m + 1) + (IF ready[m] THEN 1 ELSE 0)
      BY <2>1 DEF Books
    <3>2. m \in Int /\ m + 1 \in Int /\ T[m] \in Nat /\ S[m] \in Nat
      BY NodeNumbers
    <3>3. Taken(m + 1)' = Taken(m + 1) /\ Taken(m + 1) \in Int
      BY <2>2, <2>3, <3>2, Counts
    <3>4. CASE m = n
      <4>1. T[n] + S2[n] = Acts(n)'
        BY <2>3, <2>4, <3>1, <3>2, <3>4
      <4>2. T[n] = S[n] + 1
        BY ONLY <1>1, <1>2, <3>1, <3>4
      <4>3. T[n] = S2[n] + (IF bit'[n] <=> loc'[n] # "next" THEN 1 ELSE 0)
        <5>1. ~(bit'[n] <=> loc'[n] # "next")
          BY <1>1, <1>2
        <5>2. S2[n] = S[n] + 1 /\ S2[n] \in Nat
          BY <2>4
        <5>3. QED
          BY ONLY <4>2, <5>1, <5>2
      <4>4. S[m] = Taken(m + 1) + 0
        BY ONLY <1>3, <3>1, <3>4
      <4>5. S2[m] = Taken(m + 1)' + (IF ready'[m] THEN 1 ELSE 0)
        <5>1. S2[m] = S[m] + 1 /\ ready'[m]
          BY <1>1, <2>4, <3>4
        <5>2. QED
          BY ONLY <3>3, <4>4, <5>1
      <4>6. QED
        BY ONLY <3>1, <3>4, <4>1, <4>3, <4>5
    <3>5. CASE m # n
      <4>1. S2[m] = S[m] /\ Acts(m)' = Acts(m) /\ bit'[m] = bit[m] /\ ready'[m] = ready[m]
        BY <1>1, <2>2, <2>4, <3>2, <3>5
      <4>2. loc'[m] = loc[m]
        BY <1>2, <3>5, Objects
      <4>3. QED
        BY ONLY <3>1, <3>3, <4>1, <4>2
    <3>6. QED
      BY <3>4, <3>5
  <2>6. /\ sum[N] = 0 /\ ticks' = sum[0] + (IF loc'[Main] = "tick" THEN 0 ELSE 1)
        /\ Taken(0)' <= ticks'
    <3>1. Taken(0)' = Taken(0)
      BY <2>2, <2>3, NodeNumbers
    <3>2. QED
      BY <1>1, <1>2, <2>1, <3>1 DEF Books
  <2>7. Books(T, S2, sum)'
    BY <2>5, <2>6 DEF Books
  <2>8. QED
    BY <2>7 DEF Booked
<1>5. /\ bit'[n] /\ loc'[n] = "next"
      /\ loc'[n] \in {"clock_wait", "node_wait", "act", "next"}
      /\ loc'[n] # "node_wait" /\ round'[n] >= 1
      /\ \A m \in Node \ {n} : round'[m] = round[m] /\ bit'[m] = bit[m] /\ (ready'[m] => ready[m])
  BY <1>1, <1>2 DEF Counted
<1>6. Counted'
  <2>1. /\ ticks >= 0 => ticks' >= 0
        /\ ticks < 0 => ticks' < 0
    BY <1>1
  <2>2. ~(loc'[n] \in {"node_wait", "act"}) /\ loc'[n] # "clock_wait"
    BY <1>5
  <2>3. QED
    BY <1>2, <1>4, <1>5, <2>1, <2>2, NodeCounts
<1>7. QED
  BY <1>3, <1>6

LEMMA TickCounts ==
  ASSUME GraphTyped, GraphTyped', Counted, NEW n \in Node, G!Tick(n)
  PROVE  Counted'
<1>1. /\ UNCHANGED <<ready, round, bit>> /\ ~bit[n] /\ n \in Thread /\ n # Main
      /\ ticks' = IF ticks >= 0 THEN ticks + 1 ELSE ticks
  BY Objects DEF G!Tick, G!AdvanceClock, round
<1>2. /\ loc[n] = "act" /\ loc'[n] = "next" /\ \A s \in Thread \ {n} : loc'[s] = loc[s]
      /\ loc'[Main] = loc[Main]
  BY <1>1, MoveIs, Objects DEF G!Tick
<1>3. ASSUME ticks >= 0
      PROVE  Booked' /\ ~ready'[n]
  <2>1. PICK T \in [Node -> Nat], S \in [Node -> Nat], sum \in [0 .. N -> Nat] : Books(T, S, sum)
    BY <1>3 DEF Counted, Booked
  <2>2. \A m \in Int \ {n} : Acts(m)' = Acts(m) /\ Taken(m)' = Taken(m)
    BY <1>1, <1>2, OthersCount
  <2>3. Acts(n)' = Acts(n) + 1 /\ Taken(n)' = Taken(n)
    <3>1. round[n] \in Int /\ round'[n] = round[n]
      BY <1>1 DEF GraphTyped
    <3>2. QED
      BY <1>2, <3>1 DEF Acts, Taken
  <2>4. PICK T2 \in [Node -> Nat] : T2[n] = T[n] + 1 /\ \A m \in Node \ {n} : T2[m] = T[m]
    <3>1. [T EXCEPT ![n] = T[n] + 1] \in [Node -> Nat]
      OBVIOUS
    <3>2. QED
      BY <3>1
  <2>5. PICK sum2 \in [0 .. N -> Nat] :
          \A m \in 0 .. N : sum2[m] = IF m <= n THEN sum[m] + 1 ELSE sum[m]
    <3>1. [m \in 0 .. N |-> IF m <= n THEN sum[m] + 1 ELSE sum[m]] \in [0 .. N -> Nat]
      OBVIOUS
    <3>2. QED
      BY <3>1
  <2>6. ASSUME NEW m \in Node
        PROVE  /\ sum2[m] = T2[m] + sum2[m + 1]
               /\ T2[m] + S[m] = Acts(m)'
               /\ T2[m] = S[m] + (IF bit'[m] <=> loc'[m] # "next" THEN 1 ELSE 0)
               /\ S[m] = Taken(m + 1)' + (IF ready'[m] THEN 1 ELSE 0)
    <3>1. /\ sum[m] = T[m] + sum[m + 1]
          /\ T[m] + S[m] = Acts(m)
          /\ T[m] = S[m] + (IF bit[m] <=> loc[m] # "next" THEN 1 ELSE 0)
          /\ S[m] = Taken(m + 1) + (IF ready[m] THEN 1 ELSE 0)
      BY <2>1 DEF Books
    <3>2. m \in Int /\ m + 1 \in Int /\ m \in 0 .. N /\ m + 1 \in 0 .. N /\ n \in Int
      BY DEF Node
    <3>3. T[m] \in Nat /\ S[m] \in Nat /\ sum[m] \in Nat /\ sum[m + 1] \in Nat
      BY <3>2
    <3>4. Taken(m + 1)' = Taken(m + 1) /\ ready'[m] = ready[m]
      BY <1>1, <2>2, <2>3, <3>2
    <3>5. CASE m = n
      <4>1. sum2[m] = sum[m] + 1 /\ sum2[m + 1] = sum[m + 1] /\ T2[m] = T[m] + 1
        <5>1. m <= n /\ ~(m + 1 <= n)
          BY <3>2, <3>5
        <5>2. QED
          BY <2>4, <2>5, <3>2, <3>5, <5>1
      <4>2. T[m] = S[m]
        BY ONLY <1>1, <1>2, <3>1, <3>3, <3>5
      <4>3. ~bit'[m] /\ loc'[m] = "next" /\ Acts(m)' = Acts(m) + 1
        BY <1>1, <1>2, <2>3, <3>5
      <4>0. PICK a \in Nat, b \in Nat, p \in Nat, q \in Nat :
              a = sum[m] /\ b = sum[m + 1] /\ p = T[m] /\ q = S[m]
        BY <3>3
      <4>4. T2[m] + S[m] = Acts(m)'
        <5>1. p + q = Acts(m) /\ T2[m] = p + 1 /\ S[m] = q /\ Acts(m)' = Acts(m) + 1
          BY ONLY <3>1, <4>0, <4>1, <4>3, Zenon
        <5>2. (p + 1) + q = (p + q) + 1
          OBVIOUS
        <5>3. QED
          BY ONLY <5>1, <5>2, Zenon
      <4>5. T2[m] = S[m] + (IF bit'[m] <=> loc'[m] # "next" THEN 1 ELSE 0)
        BY ONLY <4>1, <4>2, <4>3
      <4>6. sum2[m] = T2[m] + sum2[m + 1]
        <5>1. a = p + b /\ sum2[m] = a + 1 /\ T2[m] = p + 1 /\ sum2[m + 1] = b
          BY ONLY <3>1, <4>0, <4>1, Zenon
        <5>2. (p + b) + 1 = (p + 1) + b
          OBVIOUS
        <5>3. QED
          BY ONLY <5>1, <5>2, Zenon
      <4>7. QED
        BY ONLY <3>1, <3>4, <4>4, <4>5, <4>6
    <3>6. CASE m # n
      <4>1. T2[m] = T[m] /\ Acts(m)' = Acts(m) /\ bit'[m] = bit[m]
        BY <1>1, <2>2, <2>4, <3>2, <3>6
      <4>2. loc'[m] = loc[m]
        BY <1>2, <3>6, Objects
      <4>3. sum2[m] = T[m] + sum2[m + 1]
        <5>1. m <= n <=> m + 1 <= n
          BY <3>2, <3>6
        <5>2. /\ sum2[m] = IF m <= n THEN sum[m] + 1 ELSE sum[m]
              /\ sum2[m + 1] = IF m + 1 <= n THEN sum[m + 1] + 1 ELSE sum[m + 1]
          BY <2>5, <3>2
        <5>3. QED
          BY ONLY <3>1, <3>3, <5>1, <5>2
      <4>4. QED
        BY ONLY <3>1, <3>4, <4>1, <4>2, <4>3
    <3>7. QED
      BY <3>5, <3>6
  <2>7. /\ sum2[N] = 0 /\ ticks' = sum2[0] + (IF loc'[Main] = "tick" THEN 0 ELSE 1)
        /\ Taken(0)' <= ticks'
    <3>1. Taken(0)' = Taken(0) /\ Taken(0) \in Int /\ sum[0] \in Nat
      BY <2>2, <2>3, Counts, NodeNumbers
    <3>2. sum2[0] = sum[0] + 1 /\ sum2[N] = sum[N]
      BY <2>5 DEF Node
    <3>3. /\ sum[N] = 0 /\ ticks = sum[0] + (IF loc[Main] = "tick" THEN 0 ELSE 1)
          /\ Taken(0) <= ticks
      BY <2>1 DEF Books
    <3>4. ticks' = ticks + 1 /\ ticks \in Int
      BY <1>1, <1>3 DEF GraphTyped
    <3>5. QED
      BY ONLY <1>2, <3>1, <3>2, <3>3, <3>4
  <2>8. Books(T2, S, sum2)'
    BY <2>6, <2>7 DEF Books
  <2>9. Booked /\ ready' = ready
    BY <1>1, <1>3 DEF Counted
  <2>10. QED
    BY <1>2, <2>8, <2>9, Ahead DEF Booked
<1>4. /\ ~bit'[n] /\ loc'[n] = "next"
      /\ loc'[n] \in {"clock_wait", "node_wait", "act", "next"}
      /\ loc'[n] # "node_wait" /\ round'[n] >= 1
      /\ \A m \in Node \ {n} : round'[m] = round[m] /\ bit'[m] = bit[m] /\ (ready'[m] => ready[m])
  BY <1>1, <1>2 DEF Counted
<1>5. /\ ticks >= 0 => ticks' >= 0
      /\ ticks < 0 => ticks' < 0
  BY <1>1 DEF GraphTyped
<1>6. QED
  BY <1>2, <1>3, <1>4, <1>5, NodeCounts

LEMMA CountedAtFirst == GraphTyped /\ G!Init => Counted
<1> SUFFICES ASSUME GraphTyped, G!Init PROVE Counted
  OBVIOUS
<1>1. /\ ticks = 0 /\ loc[Main] = "tick"
      /\ \A n \in Node : ~ready[n] /\ loc[n] = "clock_wait" /\ round[n] = 1 /\ ~bit[n]
  <2>1. /\ ticks = 0 /\ ready = [n \in Node |-> FALSE] /\ bit = [n \in Node |-> FALSE]
        /\ loc = [t \in G!Worker |-> IF t = Main THEN "tick" ELSE "clock_wait"]
        /\ round = [n \in Node |-> 1] /\ G!Worker = Node \cup {Main}
    BY DEF G!Init, G!Node, Node, loc, round, G!Worker
  <2>2. QED
    BY ONLY <2>1, Objects
<1>2. \A n \in Int : Acts(n) = 0 /\ Taken(n) = 0
  BY <1>1 DEF Acts, Taken
<1>3. Booked
  <2>1. PICK T \in [Node -> Nat], sum \in [0 .. N -> Nat] :
          (\A n \in Node : T[n] = 0) /\ (\A n \in 0 .. N : sum[n] = 0)
    <3>1. [n \in Node |-> 0] \in [Node -> Nat] /\ [n \in 0 .. N |-> 0] \in [0 .. N -> Nat]
      OBVIOUS
    <3>2. QED
      BY <3>1
  <2>2. ASSUME NEW n \in Node
        PROVE  /\ sum[n] = T[n] + sum[n + 1]
               /\ T[n] + T[n] = Acts(n)
               /\ T[n] = T[n] + (IF bit[n] <=> loc[n] # "next" THEN 1 ELSE 0)
               /\ T[n] = Taken(n + 1) + (IF ready[n] THEN 1 ELSE 0)
    <3>1. /\ T[n] = 0 /\ sum[n] = 0 /\ sum[n + 1] = 0 /\ Acts(n) = 0 /\ Taken(n + 1) = 0
          /\ ~bit[n] /\ loc[n] # "next" /\ ~ready[n]
      BY <1>1, <1>2, <2>1, NodeNumbers DEF Node
    <3>2. QED
      BY ONLY <3>1
  <2>3. sum[N] = 0 /\ ticks = sum[0] + (IF loc[Main] = "tick" THEN 0 ELSE 1) /\ Taken(0) <= ticks
    <3>1. sum[N] = 0 /\ sum[0] = 0 /\ Taken(0) = 0
      BY <1>2, <2>1
    <3>2. QED
      BY ONLY <1>1, <3>1
  <2>4. Books(T, T, sum)
    BY <2>2, <2>3 DEF Books
  <2>5. QED
    BY <2>4 DEF Booked
<1>4. Unread
  BY <1>1 DEF Unread
<1>5. Stopped
  BY <1>1 DEF Stopped
<1>6. loc[0] # "node_wait" /\ \A n \in Node : round[n] >= 1
  <2>1. loc[0] = "clock_wait"
    BY <1>1, NodeNumbers
  <2>2. \A n \in Node : round[n] >= 1
    BY <1>1
  <2>3. QED
    BY <2>1, <2>2
<1>7. \A n \in Node : loc[n] \in {"clock_wait", "node_wait", "act", "next"}
  BY <1>1
<1>8. QED
  BY <1>3, <1>4, <1>5, <1>6, <1>7 DEF Counted

(* So the steps that Graph sees are all its own.                           *)
LEMMA CountedKept ==
  ASSUME GraphTyped, GraphTyped', Counted, Seeing
  PROVE  Counted' /\ (UNCHANGED G!graphVars \/ G!Next)
<1>1. CASE Unseen
  <2>1. loc' = loc /\ round' = round /\ UNCHANGED <<ticks, ready, bit>>
    BY <1>1 DEF Unseen, round
  <2>2. UNCHANGED G!graphVars
    BY <2>1 DEF G!graphVars, loc, round
  <2>3. \A n \in Int : Acts(n)' = Acts(n) /\ Taken(n)' = Taken(n)
    BY <2>1 DEF Acts, Taken
  <2>4. Booked => Booked'
    <3>1. SUFFICES ASSUME Booked PROVE Booked'
      OBVIOUS
    <3>2. \A n \in Node : /\ Acts(n)' = Acts(n) /\ Taken(n + 1)' = Taken(n + 1)
                          /\ ready'[n] = ready[n] /\ (Ticked(n)' <=> Ticked(n))
      BY <2>1, <2>3, NodeNumbers DEF Ticked
    <3>3. Taken(0)' <= ticks'
      <4>1. Taken(0) <= ticks
        BY <3>1 DEF Booked, Books
      <4>2. Taken(0)' = Taken(0) /\ ticks' = ticks
        BY <2>1, <2>3
      <4>3. QED
        BY ONLY <4>1, <4>2
    <3>4. QED
      BY <2>1, <3>1, <3>2, <3>3, SameBooks
  <2>5. Counted'
    BY <2>1, <2>4 DEF Counted, Unread, Stopped
  <2>6. QED
    BY <2>2, <2>5
<1>2. CASE G!MainStep
  BY <1>2, MainCounts DEF G!Next
<1>3. ASSUME NEW n \in Node, Seen(n)
      PROVE  Counted' /\ G!Next
  <2>1. CASE Signals(n)
    <3>1. ~ready[n] /\ Counted'
      BY <2>1, SignalCounts
    <3>2. G!Signal(n)
      BY <2>1, <3>1 DEF Signals, G!Signal, round
    <3>3. QED
      BY <3>1, <3>2 DEF G!Next, G!NodeStep, G!Node, Node
  <2>2. CASE G!ClockWait(n)
    BY <2>2, ClockWaitCounts DEF G!Next, G!NodeStep, G!Node, Node
  <2>3. CASE G!NodeWait(n)
    BY <2>3, NodeWaitCounts DEF G!Next, G!NodeStep, G!Node, Node
  <2>4. CASE G!Tick(n)
    BY <2>4, TickCounts DEF G!Next, G!NodeStep, G!Node, Node
  <2>5. CASE G!NextRound(n)
    BY <2>5, NextRoundCounts DEF G!Next, G!NodeStep, G!Node, Node
  <2>6. CASE G!Exit(n)
    BY <2>6, ExitCounts DEF G!Next, G!NodeStep, G!Node, Node
  <2>7. QED
    BY <1>3, <2>1, <2>2, <2>3, <2>4, <2>5, <2>6 DEF Seen
<1>4. QED
  BY <1>1, <1>2, <1>3 DEF Seeing

(***************************************************************************)
(* The clock and the nodes work as if each operation on them were one step *)
(* that waits until it can be done: hw2/example/main.c, with its mutexes   *)
(* and condition variables, implements Graph.  No wake-up, spurious or     *)
(* not, makes a wait return early, no broadcast or requeue does a step of  *)
(* a node twice, and no node ever signals one that has not yet taken the   *)
(* last signal: node_signal may keep a Boolean where it would else need a  *)
(* count.                                                                  *)
(***************************************************************************)
THEOREM Refinement == Spec => ImplementsGraph
<1>1. Init => Placed /\ Counted /\ G!Init
  <2>1. Init => IInv
    BY Initial
  <2>2. QED
    BY <2>1, PlacedAtFirst, CountedAtFirst, Typed
<1>2. IInv /\ IInv' /\ Placed /\ Counted /\ [Next]_vars =>
        Placed' /\ Counted' /\ (UNCHANGED G!graphVars \/ G!Next)
  <2> SUFFICES ASSUME IInv, IInv', Placed, Counted, [Next]_vars
               PROVE  Placed' /\ Counted' /\ (UNCHANGED G!graphVars \/ G!Next)
    OBVIOUS
  <2>1. GraphTyped /\ GraphTyped'
    <3>1. GraphTyped
      BY Typed
    <3>2. IInv' => GraphTyped'
      BY Typed, PTL
    <3>3. QED
      BY <3>1, <3>2
  <2>2. Placed' /\ Seeing
    BY SeenOrNot DEF Counted
  <2>3. QED
    BY <2>1, <2>2, CountedKept
<1>3. QED
  BY <1>1, <1>2, Invariance, PTL DEF Spec, ImplementsGraph, G!Safety

=============================================================================
