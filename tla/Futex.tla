-------------------------------- MODULE Futex --------------------------------
(***************************************************************************)
(* The kernel's side of hw2/futex.h: one set of sleeping threads per futex *)
(* word.  A word lives in the module of the object that owns it (a mutex,  *)
(* a condition variable); this module only knows its address.              *)
(*                                                                         *)
(* A thread that sleeps keeps the program counter it resumes at, and takes *)
(* no step while it is in a wait queue.  Which sleeper a wake chooses is   *)
(* left open: the kernel promises no order to threads of one priority.     *)
(***************************************************************************)
EXTENDS Naturals, FiniteSets

CONSTANTS Thread, \* the threads of the process
          Addr    \* the addresses of the futex words

VARIABLE waitq    \* waitq[a]: the threads asleep on the word at address a

Asleep(t) == \E a \in Addr : t \in waitq[a]

FutexInit == waitq = [a \in Addr |-> {}]

(***************************************************************************)
(* FUTEX_WAIT compares the word and goes to sleep in one atomic step; when *)
(* the comparison fails (EAGAIN) the call returns at once.                 *)
(***************************************************************************)
FutexWait(t, a, equal) ==
  waitq' = [waitq EXCEPT ![a] = IF equal THEN @ \cup {t} ELSE @]

(* FUTEX_WAKE with limit 1: wakes one sleeper, if there is one.            *)
FutexWake(a) ==
  \/ waitq[a] = {} /\ UNCHANGED waitq
  \/ \E w \in waitq[a] : waitq' = [waitq EXCEPT ![a] = @ \ {w}]

(***************************************************************************)
(* FUTEX_REQUEUE with limit 1: wakes one sleeper of a, and moves all the   *)
(* others to the queue of b without looking at either word.                *)
(***************************************************************************)
FutexRequeue(a, b) ==
  \/ waitq[a] = {} /\ UNCHANGED waitq
  \/ \E w \in waitq[a] :
       waitq' = [waitq EXCEPT ![a] = {}, ![b] = @ \cup (waitq[a] \ {w})]

(* A spurious return of FUTEX_WAIT: futex(2) lets any sleeper wake.        *)
FutexSpurious(t, a) ==
  /\ t \in waitq[a]
  /\ waitq' = [waitq EXCEPT ![a] = @ \ {t}]
=============================================================================
