-------------------------------- MODULE Lock --------------------------------
(***************************************************************************)
(* What a mutex promises, whatever its protocol: a call that asks for a    *)
(* mutex is either refused or makes its caller the only owner, and nobody  *)
(* but the owner gives the mutex up.  An owner may hand it over to a       *)
(* waiting caller directly, as FUTEX_UNLOCK_PI does.                       *)
(***************************************************************************)
EXTENDS Naturals

CONSTANTS Thread, Mutex

VARIABLES owner,   \* owner[m]: the set of the threads that own m
          wants    \* wants[t]: the set of the mutexes t is asking for

lockVars == <<owner, wants>>

Init ==
  /\ owner = [m \in Mutex |-> {}]
  /\ wants = [t \in Thread |-> {}]

Request(t, m) ==
  /\ wants[t] = {} /\ t \notin owner[m]
  /\ wants' = [wants EXCEPT ![t] = {m}]
  /\ UNCHANGED owner

Refuse(t, m) ==
  /\ wants[t] = {m} /\ t \notin owner[m]
  /\ wants' = [wants EXCEPT ![t] = {}]
  /\ UNCHANGED owner

Acquire(t, m) ==
  /\ wants[t] = {m} /\ owner[m] = {}
  /\ owner' = [owner EXCEPT ![m] = {t}]
  /\ wants' = [wants EXCEPT ![t] = {}]

Release(t, m) ==
  /\ owner[m] = {t}
  /\ owner' = [owner EXCEPT ![m] = {}]
  /\ UNCHANGED wants

HandOver(t, m) ==
  /\ \E s \in Thread : s # t /\ owner[m] = {s}
  /\ wants[t] = {m}
  /\ owner' = [owner EXCEPT ![m] = {t}]
  /\ wants' = [wants EXCEPT ![t] = {}]

Next == \E t \in Thread, m \in Mutex :
  Request(t, m) \/ Refuse(t, m) \/ Acquire(t, m) \/ Release(t, m) \/ HandOver(t, m)

Spec == Init /\ [][Next]_lockVars
=============================================================================
