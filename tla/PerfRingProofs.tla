--------------------------- MODULE PerfRingProofs ----------------------------
(***************************************************************************)
(* Proofs about the ring of PerfRing, for any number of threads and of     *)
(* rounds: nobody overtakes, only one thread holds two mutexes, and        *)
(* somebody can always go on.                                              *)
(***************************************************************************)
EXTENDS PerfRing, WellFoundedInduction, FiniteSetTheorems, TLAPS

(* The least of a set of numbers.                                          *)
LEMMA Least ==
  ASSUME NEW T \in SUBSET Nat, T # {}
  PROVE  \E x \in T : \A y \in T : x <= y
<1> DEFINE R == {ss \in Nat \X Nat : ss[1] < ss[2]}
<1>1. IsWellFoundedOn(R, Nat)
  BY NatLessThanWellFounded, Zenon DEF OpToRel
<1> HIDE DEF R
<1>2. PICK x \in T : \A y \in T : ~ (<<y, x>> \in R)
  BY <1>1, WFMin, Zenon
<1>3. ASSUME NEW y \in T
      PROVE  x <= y
  <2>1. x \in Nat /\ y \in Nat /\ ~ (<<y, x>> \in R)
    BY <1>2
  <2>2. ~ (y < x)
    BY <2>1 DEF R
  <2>3. QED
    BY <2>1, <2>2
<1>4. QED
  BY <1>3

Early == {"none", "first", "get_first", "ready"}
BeforeStart == {"none", "first", "get_first", "ready", "line"}
Holding == {"ready", "line", "loop", "get_next", "unlock"}
Opened == {"start", "join", "done"}

(* The threads ahead are in the same round or in the next.                 *)
Rounds ==
  \A s, t \in Thread : s < t => loop[s] <= loop[t] /\ loop[t] <= loop[s] + 1

(* How far a thread is ahead shows in the ring.                            *)
Places ==
  \A s, t \in Thread : s < t => i[t] - i[s] \in {At(t) - At(s), At(t) - At(s) - LOCK_MAX}

(* Who holds what, and that nobody else does.                              *)
Holds ==
  \A t \in Thread, m \in Mutex :
    t \in owner[m] <=> \/ m = i[t] /\ pc[t] \in Holding
                       \/ m = next(i[t]) /\ pc[t] = "unlock"

Single == \A m \in Mutex : \A s, t \in owner[m] : s = t

LastRound ==
  \A t \in Thread :
    /\ pc[t] \in {"get_next", "unlock"} => loop[t] < THREAD_ITERS
    /\ pc[t] = "ended" => loop[t] = THREAD_ITERS
    /\ pc[t] \in BeforeStart => loop[t] = 1 /\ i[t] = t

(* The start: who was created, who was counted, whom main holds back.      *)
Line ==
  /\ \A t \in Thread : pc[t] = "none" <=> main = "create" /\ t >= k
  /\ main \in {"ready", "asleep"} => k = 0
  /\ main = "asleep" => ready_count < THREAD_MAX
  /\ main \in Opened => \A t \in Thread : pc[t] \notin Early
  /\ \A t \in Thread : main \notin Opened /\ pc[t] # "none" =>
       t \in line /\ pc[t] \in BeforeStart
  /\ main = "start" => \A t \in line : t >= k
  /\ main \in {"join", "done"} => line = {}

Ready == {t \in Thread : pc[t] \notin Early}
Count == ready_count = Cardinality(Ready)

IInv == TypeOK /\ Rounds /\ Places /\ Holds /\ Single /\ LastRound /\ Line /\ Count

-----------------------------------------------------------------------------
USE PerfRingAssumption DEF Early, BeforeStart, Holding, Opened

LEMMA NextMutex ==
  ASSUME NEW m \in Mutex
  PROVE  /\ next(m) \in Mutex
         /\ next(m) = IF m + 1 = LOCK_MAX THEN 0 ELSE m + 1
<1>1. CASE m + 1 = LOCK_MAX
  BY <1>1 DEF next, Mutex, LOCK_MAX
<1>2. CASE m + 1 # LOCK_MAX
  BY <1>2 DEF next, Mutex, LOCK_MAX
<1>3. QED
  BY <1>1, <1>2

(* All the threads have been counted when the count says so.               *)
LEMMA ThreadsCount ==
  /\ IsFiniteSet(Thread) /\ Cardinality(Thread) = THREAD_MAX
  /\ \A S \in SUBSET Thread :
       /\ IsFiniteSet(S) /\ Cardinality(S) \in 0 .. THREAD_MAX
       /\ Cardinality(S) = THREAD_MAX => S = Thread
<1>1. IsFiniteSet(Thread) /\ Cardinality(Thread) = THREAD_MAX
  BY FS_Interval DEF Thread
<1>2. ASSUME NEW S \in SUBSET Thread
      PROVE  /\ IsFiniteSet(S) /\ Cardinality(S) \in 0 .. THREAD_MAX
             /\ Cardinality(S) = THREAD_MAX => S = Thread
  <2>1. IsFiniteSet(S) /\ Cardinality(S) \in Nat /\ Cardinality(S) <= THREAD_MAX
    BY <1>1, FS_Subset, FS_CardinalityType
  <2>2. Cardinality(S) = THREAD_MAX => S = Thread
    BY <1>1, FS_Subset
  <2>3. QED
    BY <2>1, <2>2
<1>3. QED
  BY <1>1, <1>2

(* A thread that holds two mutexes has gone ahead of the one before it,    *)
(* as that one would hold the second of them.                              *)
LEMMA Ahead ==
  ASSUME IInv, NEW t \in Thread, pc[t] = "unlock"
  PROVE  /\ t + 1 \in Thread => loop[t + 1] = loop[t] + 1
         /\ t = THREAD_MAX - 1 => loop[t] = loop[0]
<1> USE DEF IInv
<1>1. /\ i[t] \in Mutex /\ loop[t] \in Nat /\ loop[t] < THREAD_ITERS
      /\ t \in owner[next(i[t])] /\ next(i[t]) \in Mutex
  BY NextMutex DEF TypeOK, Holds, LastRound
<1>2. \A s \in Thread : pc[s] \in Holding \cup {"ended"}
  BY DEF Line, TypeOK, ThreadPC
<1>3. ASSUME NEW s \in Thread, s # t, i[s] = next(i[t]), loop[s] < THREAD_ITERS
      PROVE  FALSE
  <2>1. pc[s] # "ended"
    BY <1>3 DEF LastRound
  <2>2. s \in owner[next(i[t])]
    BY <2>1, <1>1, <1>2, <1>3 DEF Holds
  <2>3. QED
    BY <2>2, <1>1, <1>3 DEF Single
<1>4. ASSUME t + 1 \in Thread, loop[t + 1] # loop[t] + 1
      PROVE  FALSE
  <2> DEFINE s == t + 1
  <2>1. t \in Int /\ t < s /\ loop[s] \in Nat /\ i[s] \in Mutex
    BY <1>4 DEF TypeOK, Thread
  <2>2. loop[s] = loop[t]
    BY <2>1, <1>1, <1>4 DEF Rounds
  <2>3. i[s] - i[t] \in {At(s) - At(t), At(s) - At(t) - LOCK_MAX}
    BY <2>1, <1>4 DEF Places
  <2>4. At(s) - At(t) = 1
    BY <2>1, <2>2, <1>1 DEF At
  <2>5. i[s] = next(i[t])
    BY <2>1, <2>3, <2>4, <1>1, NextMutex DEF Mutex, LOCK_MAX
  <2>6. QED
    BY <2>1, <2>2, <2>5, <1>4, <1>1, <1>3
<1>5. ASSUME t = THREAD_MAX - 1, loop[t] # loop[0]
      PROVE  FALSE
  <2>1. 0 \in Thread /\ t \in Int /\ 0 < t /\ loop[0] \in Nat /\ i[0] \in Mutex
    BY <1>5 DEF TypeOK, Thread
  <2>2. loop[t] = loop[0] + 1
    BY <2>1, <1>1, <1>5 DEF Rounds
  <2>3. i[t] - i[0] \in {At(t) - At(0), At(t) - At(0) - LOCK_MAX}
    BY <2>1 DEF Places
  <2>4. At(t) - At(0) = THREAD_MAX
    BY <2>1, <2>2, <1>5 DEF At
  <2>5. i[0] = next(i[t])
    BY <2>1, <2>3, <2>4, <1>1, NextMutex DEF Mutex, LOCK_MAX
  <2>6. QED
    BY <2>1, <2>2, <2>5, <1>1, <1>3
<1>6. QED
  BY <1>4, <1>5

-----------------------------------------------------------------------------
LEMMA Initial == Init => IInv
<1> SUFFICES ASSUME Init PROVE IInv
  OBVIOUS
<1> USE DEF Init, L!Init
<1>1. TypeOK
  BY DEF TypeOK, ThreadPC, Thread, Mutex, LOCK_MAX
<1>2. Rounds /\ Places
  BY DEF Rounds, Places, At, Thread
<1>3. Holds /\ Single /\ LastRound
  BY DEF Holds, Single, LastRound
<1>4. Line
  BY DEF Line, Thread
<1>5. Count
  <2>1. Ready = {}
    BY DEF Ready
  <2>2. QED
    BY <2>1, FS_EmptySet DEF Count
<1>6. QED
  BY <1>1, <1>2, <1>3, <1>4, <1>5 DEF IInv

(* What does not touch the ring.                                           *)
LEMMA RingStays ==
  ASSUME Rounds, Places, Holds, Single, LastRound, Count,
         UNCHANGED <<owner, pc, i, loop, ready_count>>
  PROVE  Rounds' /\ Places' /\ Holds' /\ Single' /\ LastRound' /\ Count'
BY DEF Rounds, Places, At, Holds, Single, LastRound, Count, Ready

(* main goes from one thread to the next, or on.                           *)
LEMMA Next_k ==
  ASSUME k \in Thread, NEW here, NEW there, ForEach(here, there)
  PROVE  /\ k' \in Thread /\ main = here
         /\ \/ k' = k + 1 /\ main' = here
            \/ k = THREAD_MAX - 1 /\ k' = 0 /\ main' = there
BY DEF ForEach, Thread

LEMMA MainStep ==
  ASSUME IInv, contention_test \/ spurious
  PROVE  IInv'
<1> USE DEF IInv
<1>1. CASE create
  <2>1. k \in Thread /\ pc[k] = "none" /\ main = "create" /\ pc \in [Thread -> ThreadPC]
    BY <1>1 DEF create, ForEach, Line, TypeOK, Thread
  <2>2. \A s \in Thread : pc'[s] = IF s = k THEN "first" ELSE pc[s]
    BY <1>1, <2>1 DEF create
  <2>3. TypeOK'
    BY <1>1, <2>1, Next_k DEF TypeOK, create, ThreadPC, lockVars
  <2>4. Rounds' /\ Places' /\ Single'
    BY <1>1 DEF create, lockVars, Rounds, Places, At, Single
  <2>5. Holds'
    BY <1>1, <2>1, <2>2 DEF create, lockVars, Holds
  <2>6. LastRound'
    BY <1>1, <2>1, <2>2 DEF create, LastRound
  <2>7. Count'
    <3>1. Ready' = Ready
      BY <2>1, <2>2 DEF Ready
    <3>2. QED
      BY <1>1, <3>1 DEF create, Count
  <2>8. Line'
    BY <1>1, <2>1, <2>2, Next_k DEF create, Line, Thread
  <2>9. QED
    BY <2>3, <2>4, <2>5, <2>6, <2>7, <2>8
<1>2. CASE wait_ready
  <2>1. ready_count = THREAD_MAX => \A t \in Thread : pc[t] \notin Early
    <3>1. Ready \in SUBSET Thread
      BY DEF Ready
    <3>2. QED
      BY <3>1, ThreadsCount DEF Count, Ready
  <2>2. Line'
    BY <1>2, <2>1 DEF wait_ready, Line, TypeOK, Thread
  <2>3. TypeOK'
    BY <1>2 DEF wait_ready, lockVars, TypeOK
  <2>4. QED
    BY <1>2, <2>2, <2>3, RingStays DEF wait_ready, lockVars
<1>3. CASE spurious
  <2>1. TypeOK' /\ Line'
    BY <1>3 DEF spurious, lockVars, TypeOK, Line
  <2>2. QED
    BY <1>3, <2>1, RingStays DEF spurious, lockVars
<1>4. CASE unlock_start
  <2>1. /\ k \in Thread /\ k' \in Thread /\ main = "start" /\ line' = line \ {k}
        /\ \/ k' = k + 1 /\ main' = "start"
           \/ k = THREAD_MAX - 1 /\ k' = 0 /\ main' = "join"
    BY <1>4, Next_k DEF unlock_start, TypeOK
  <2>2. TypeOK'
    BY <1>4, <2>1 DEF TypeOK, unlock_start, lockVars
  <2>3. /\ main' = "start" => \A t \in line' : t >= k'
        /\ main' = "join" => line' = {}
    BY <2>1 DEF Line, TypeOK, Thread
  <2>4. Line'
    BY <1>4, <2>1, <2>3 DEF unlock_start, Line
  <2>5. QED
    BY <1>4, <2>2, <2>4, RingStays DEF unlock_start, lockVars
<1>5. CASE join
  <2>1. k' \in Thread /\ main = "join" /\ main' \in {"join", "done"}
    BY <1>5, Next_k DEF join, TypeOK
  <2>2. TypeOK'
    BY <1>5, <2>1 DEF TypeOK, join, lockVars
  <2>3. Line'
    BY <1>5, <2>1 DEF join, Line
  <2>4. QED
    BY <1>5, <2>2, <2>3, RingStays DEF join, lockVars
<1>6. QED
  BY <1>1, <1>2, <1>3, <1>4, <1>5 DEF contention_test

(* A thread that moves along its code, and takes or gives up a mutex.      *)
LEMMA ThreadStep ==
  ASSUME IInv, NEW t \in Thread, thread_func(t)
  PROVE  IInv'
<1> USE NextMutex DEF IInv
<1>1. /\ pc \in [Thread -> ThreadPC] /\ i \in [Thread -> Mutex]
      /\ loop \in [Thread -> 1 .. THREAD_ITERS] /\ owner \in [Mutex -> SUBSET Thread]
  BY DEF TypeOK
<1>2. CASE lock_first(t)
  <2>1. /\ \A s \in Thread : pc'[s] = IF s = t THEN "get_first" ELSE pc[s]
        /\ pc[t] = "first" /\ UNCHANGED <<owner, i, loop>>
        /\ Ready' = Ready
    BY <1>1, <1>2 DEF lock_first, Goto, Ready, L!Request
  <2>2. TypeOK'
    BY <1>2 DEF TypeOK, lock_first, Goto, ThreadPC, L!Request, mainVars
  <2>3. Rounds' /\ Places' /\ Single'
    BY <2>1 DEF Rounds, Places, At, Single
  <2>4. Holds' /\ LastRound'
    BY <2>1 DEF Holds, LastRound
  <2>5. Line' /\ Count'
    BY <2>1, <1>2 DEF lock_first, Line, Count, mainVars
  <2>6. QED
    BY <2>2, <2>3, <2>4, <2>5
<1>3. CASE got_first(t)
  <2>1. /\ \A s \in Thread : pc'[s] = IF s = t THEN "ready" ELSE pc[s]
        /\ pc[t] = "get_first" /\ UNCHANGED <<i, loop>>
        /\ Ready' = Ready
    BY <1>1, <1>3 DEF got_first, Goto, Ready
  <2>2. /\ \A m \in Mutex : owner'[m] = IF m = i[t] THEN {t} ELSE owner[m]
        /\ owner[i[t]] = {}
    BY <1>1, <1>3 DEF got_first, L!Acquire
  <2>3. TypeOK'
    BY <1>1, <1>3 DEF TypeOK, got_first, Goto, ThreadPC, L!Acquire, mainVars
  <2>4. Rounds' /\ Places'
    BY <2>1 DEF Rounds, Places, At
  <2>5. Single' /\ LastRound'
    BY <2>1, <2>2 DEF Single, LastRound
  <2>6. Holds'
    BY <2>1, <2>2, <1>1 DEF Holds
  <2>7. Line' /\ Count'
    BY <2>1, <1>3 DEF got_first, Line, Count, mainVars
  <2>8. QED
    BY <2>3, <2>4, <2>5, <2>6, <2>7
<1>4. CASE ready(t)
  <2>1. /\ \A s \in Thread : pc'[s] = IF s = t THEN "line" ELSE pc[s]
        /\ pc[t] = "ready" /\ UNCHANGED <<owner, i, loop, line, k>>
        /\ ready_count' = ready_count + 1
        /\ main' = IF main = "asleep" /\ ready_count' = THREAD_MAX THEN "ready" ELSE main
    BY <1>1, <1>4 DEF ready, Goto, lockVars
  <2>2. Count' /\ ready_count' \in 0 .. THREAD_MAX
    <3>1. Ready' = Ready \cup {t} /\ t \notin Ready /\ Ready \in SUBSET Thread /\ Ready' \in SUBSET Thread
      BY <2>1 DEF Ready
    <3>2. Cardinality(Ready') = Cardinality(Ready) + 1
      BY <3>1, ThreadsCount, FS_AddElement
    <3>3. QED
      BY <3>1, <3>2, <2>1, ThreadsCount DEF Count
  <2>3. TypeOK'
    BY <1>4, <2>1, <2>2 DEF TypeOK, ready, Goto, ThreadPC, lockVars
  <2>4. Rounds' /\ Places' /\ Single'
    BY <2>1 DEF Rounds, Places, At, Single
  <2>5. Holds' /\ LastRound'
    BY <2>1 DEF Holds, LastRound
  <2>6. Line'
    BY <2>1, <2>2, <1>1 DEF Line, TypeOK
  <2>7. QED
    BY <2>2, <2>3, <2>4, <2>5, <2>6
<1>5. CASE start(t)
  <2>1. /\ \A s \in Thread : pc'[s] = IF s = t THEN "loop" ELSE pc[s]
        /\ pc[t] = "line" /\ t \notin line /\ UNCHANGED <<owner, i, loop, line, main, k, ready_count>>
        /\ Ready' = Ready
    BY <1>1, <1>5 DEF start, Goto, Ready, lockVars, mainVars
  <2>2. TypeOK'
    BY <1>5 DEF TypeOK, start, Goto, ThreadPC, lockVars, mainVars
  <2>3. Rounds' /\ Places' /\ Single'
    BY <2>1 DEF Rounds, Places, At, Single
  <2>4. Holds' /\ LastRound'
    BY <2>1 DEF Holds, LastRound
  <2>5. Line' /\ Count'
    BY <2>1 DEF Line, Count
  <2>6. QED
    BY <2>2, <2>3, <2>4, <2>5
<1>6. CASE lock_next(t)
  <2>1. /\ \A s \in Thread : pc'[s] = IF s = t THEN "get_next" ELSE pc[s]
        /\ pc[t] = "loop" /\ loop[t] < THREAD_ITERS
        /\ UNCHANGED <<owner, i, loop, line, main, k, ready_count>>
        /\ Ready' = Ready
    BY <1>1, <1>6 DEF lock_next, Goto, Ready, L!Request, mainVars
  <2>2. TypeOK'
    BY <1>1, <1>6 DEF TypeOK, lock_next, Goto, ThreadPC, L!Request, mainVars
  <2>3. Rounds' /\ Places' /\ Single'
    BY <2>1 DEF Rounds, Places, At, Single
  <2>4. Holds' /\ LastRound'
    BY <2>1 DEF Holds, LastRound
  <2>5. Line' /\ Count'
    BY <2>1 DEF Line, Count
  <2>6. QED
    BY <2>2, <2>3, <2>4, <2>5
<1>7. CASE got_next(t)
  <2>1. /\ \A s \in Thread : pc'[s] = IF s = t THEN "unlock" ELSE pc[s]
        /\ pc[t] = "get_next" /\ UNCHANGED <<i, loop, line, main, k, ready_count>>
        /\ Ready' = Ready
    BY <1>1, <1>7 DEF got_next, Goto, Ready, mainVars
  <2>2. /\ \A m \in Mutex : owner'[m] = IF m = next(i[t]) THEN {t} ELSE owner[m]
        /\ owner[next(i[t])] = {}
    BY <1>1, <1>7 DEF got_next, L!Acquire
  <2>3. TypeOK'
    BY <1>1, <1>7 DEF TypeOK, got_next, Goto, ThreadPC, L!Acquire, mainVars
  <2>4. Rounds' /\ Places'
    BY <2>1 DEF Rounds, Places, At
  <2>5. Single' /\ LastRound'
    BY <2>1, <2>2 DEF Single, LastRound
  <2>6. Holds'
    BY <2>1, <2>2, <1>1 DEF Holds
  <2>7. Line' /\ Count'
    BY <2>1 DEF Line, Count
  <2>8. QED
    BY <2>3, <2>4, <2>5, <2>6, <2>7
<1>8. CASE unlock_last(t)
  <2>1. /\ \A s \in Thread : pc'[s] = IF s = t THEN "ended" ELSE pc[s]
        /\ pc[t] = "loop" /\ loop[t] = THREAD_ITERS
        /\ UNCHANGED <<i, loop, line, main, k, ready_count>>
        /\ Ready' = Ready
    BY <1>1, <1>8 DEF unlock_last, Goto, Ready, mainVars
  <2>2. /\ \A m \in Mutex : owner'[m] = IF m = i[t] THEN {} ELSE owner[m]
        /\ owner[i[t]] = {t}
    BY <1>1, <1>8 DEF unlock_last, L!Release
  <2>3. TypeOK'
    BY <1>1, <1>8 DEF TypeOK, unlock_last, Goto, ThreadPC, L!Release, mainVars
  <2>4. Rounds' /\ Places'
    BY <2>1 DEF Rounds, Places, At
  <2>5. Single' /\ LastRound'
    BY <2>1, <2>2 DEF Single, LastRound
  <2>6. Holds'
    BY <2>1, <2>2, <1>1 DEF Holds
  <2>7. Line' /\ Count'
    BY <2>1 DEF Line, Count
  <2>8. QED
    BY <2>3, <2>4, <2>5, <2>6, <2>7
<1>9. CASE unlock(t)
  <2>1. /\ \A s \in Thread : pc'[s] = IF s = t THEN "loop" ELSE pc[s]
        /\ pc[t] = "unlock" /\ UNCHANGED <<line, main, k, ready_count>>
        /\ Ready' = Ready
    BY <1>1, <1>9 DEF unlock, Goto, Ready, mainVars
  <2>2. /\ \A m \in Mutex : owner'[m] = IF m = i[t] THEN {} ELSE owner[m]
        /\ owner[i[t]] = {t}
    BY <1>1, <1>9 DEF unlock, L!Release
  <2>3. /\ \A s \in Thread : i'[s] = IF s = t THEN next(i[t]) ELSE i[s]
        /\ \A s \in Thread : loop'[s] = IF s = t THEN loop[t] + 1 ELSE loop[s]
        /\ loop[t] < THREAD_ITERS
    BY <1>1, <1>9 DEF unlock, LastRound, Goto
  <2>4. TypeOK'
    BY <1>1, <1>9, <2>3 DEF TypeOK, unlock, Goto, ThreadPC, L!Release, mainVars
  <2>5. Rounds'
    <3>1. ASSUME NEW s \in Thread, s < t
          PROVE  loop[t] = loop[s]
      <4>1. /\ t + 1 \in Thread => loop[t + 1] = loop[t] + 1
            /\ t = THREAD_MAX - 1 => loop[t] = loop[0]
        BY <2>1, Ahead
      <4>2. s \in Int /\ t \in Int /\ loop[s] \in Int /\ loop[t] \in Int /\ loop[s] <= loop[t]
        BY <3>1, <1>1 DEF Rounds, Thread
      <4>3. CASE t + 1 \in Thread
        BY <4>1, <4>2, <4>3, <3>1 DEF Rounds
      <4>4. CASE t + 1 \notin Thread
        <5>1. t = THREAD_MAX - 1 /\ 0 \in Thread /\ (s = 0 \/ 0 < s) /\ loop[0] \in Int
          BY <4>4, <1>1 DEF Thread
        <5>2. QED
          BY <5>1, <4>1, <4>2 DEF Rounds
      <4>5. QED
        BY <4>3, <4>4
    <3>2. ASSUME NEW s \in Thread, t < s
          PROVE  loop[s] = loop[t] + 1
      <4>1. t + 1 \in Thread /\ (s = t + 1 \/ t + 1 < s)
        BY <3>2 DEF Thread
      <4>2. loop[t + 1] = loop[t] + 1
        BY <4>1, <2>1, Ahead
      <4>3. loop[s] \in Int /\ loop[t] \in Int /\ loop[t + 1] \in Int
        BY <4>1, <1>1
      <4>4. loop[s] <= loop[t] + 1 /\ (t + 1 < s => loop[t + 1] <= loop[s])
        BY <4>1, <3>2 DEF Rounds
      <4>5. QED
        BY <4>1, <4>2, <4>3, <4>4
    <3>3. QED
      <4> SUFFICES ASSUME NEW s \in Thread, NEW u \in Thread, s < u
                   PROVE  loop'[s] <= loop'[u] /\ loop'[u] <= loop'[s] + 1
        BY DEF Rounds
      <4>1. loop[s] \in Int /\ loop[u] \in Int /\ loop[s] <= loop[u] /\ loop[u] <= loop[s] + 1
        BY <1>1 DEF Rounds
      <4>2. s \in Int /\ u \in Int /\ s # u
        BY DEF Thread
      <4>3. QED
        BY <4>1, <4>2, <3>1, <3>2, <2>3
  <2>6. Places'
    <3> SUFFICES ASSUME NEW s \in Thread, NEW u \in Thread, s < u
                 PROVE  (i[u] - i[s] \in {At(u) - At(s), At(u) - At(s) - LOCK_MAX})'
      BY DEF Places
    <3>1. /\ At(s) \in Int /\ At(u) \in Int /\ i[s] \in 0 .. LOCK_MAX - 1 /\ i[u] \in 0 .. LOCK_MAX - 1
          /\ 0 < At(u) - At(s) /\ At(u) - At(s) < LOCK_MAX
          /\ i[u] - i[s] \in {At(u) - At(s), At(u) - At(s) - LOCK_MAX}
      <4>1. loop[s] \in Int /\ loop[u] \in Int /\ loop[s] <= loop[u] /\ loop[u] <= loop[s] + 1
        BY <1>1 DEF Rounds
      <4>2. s \in 0 .. THREAD_MAX - 1 /\ u \in 0 .. THREAD_MAX - 1
        BY DEF Thread
      <4>3. i[u] - i[s] \in {At(u) - At(s), At(u) - At(s) - LOCK_MAX}
        BY DEF Places
      <4>4. i[s] \in 0 .. LOCK_MAX - 1 /\ i[u] \in 0 .. LOCK_MAX - 1
        BY <1>1 DEF Mutex
      <4>5. QED
        BY <4>1, <4>2, <4>3, <4>4 DEF At, LOCK_MAX
    <3>2. next(i[t]) = IF i[t] + 1 = LOCK_MAX THEN 0 ELSE i[t] + 1
      BY <1>1
    <3>3. LOCK_MAX \in Nat
      BY DEF LOCK_MAX
    <3>4. CASE u = t
      <4>1. i'[u] = next(i[t]) /\ i'[s] = i[s] /\ At(u)' = At(u) + 1 /\ At(s)' = At(s)
        <5>1. u \in Int /\ loop[u] \in Int /\ loop'[u] = loop[u] + 1 /\ s # u
          BY <3>4, <2>3, <1>1 DEF Thread
        <5>2. QED
          BY <5>1, <3>4, <2>3 DEF At
      <4>2. QED
        BY <4>1, <3>1, <3>2, <3>3, <3>4 DEF LOCK_MAX
    <3>5. CASE s = t
      <4>1. i'[s] = next(i[t]) /\ i'[u] = i[u] /\ At(s)' = At(s) + 1 /\ At(u)' = At(u)
        <5>1. s \in Int /\ loop[s] \in Int /\ loop'[s] = loop[s] + 1 /\ u # t
          BY <3>5, <2>3, <1>1 DEF Thread
        <5>2. i'[s] = next(i[t]) /\ i'[u] = i[u] /\ loop'[u] = loop[u]
          BY <5>1, <3>5, <2>3
        <5>3. QED
          BY <5>1, <5>2 DEF At
      <4>2. QED
        BY <4>1, <3>1, <3>2, <3>3, <3>5 DEF LOCK_MAX
    <3>6. CASE s # t /\ u # t
      <4>1. i'[s] = i[s] /\ i'[u] = i[u] /\ At(s)' = At(s) /\ At(u)' = At(u)
        BY <3>6, <2>3 DEF At
      <4>2. QED
        BY <4>1, <3>1 DEF LOCK_MAX
    <3>7. QED
      BY <3>4, <3>5, <3>6
  <2>7. Single' /\ LastRound'
    BY <2>1, <2>2, <2>3 DEF Single, LastRound
  <2>8. Holds'
    <3>1. i[t] \in Mutex /\ next(i[t]) \in Mutex /\ next(i[t]) # i[t]
      BY <1>1 DEF Mutex, LOCK_MAX
    <3>2. QED
      BY <2>1, <2>2, <2>3, <3>1, <1>1 DEF Holds
  <2>9. Line' /\ Count'
    BY <2>1 DEF Line, Count
  <2>10. QED
    BY <2>4, <2>5, <2>6, <2>7, <2>8, <2>9
<1>10. QED
  BY <1>2, <1>3, <1>4, <1>5, <1>6, <1>7, <1>8, <1>9 DEF thread_func

-----------------------------------------------------------------------------
(* The types are kept: the ring has every mutex, the rounds end, and no    *)
(* thread is counted twice at the start.                                   *)
THEOREM Invariance == Spec => []IInv
<1>1. IInv /\ [Next]_vars => IInv'
  <2> SUFFICES ASSUME IInv, [Next]_vars PROVE IInv'
    OBVIOUS
  <2>1. CASE contention_test \/ spurious
    BY <2>1, MainStep
  <2>2. ASSUME NEW t \in Thread, thread_func(t)
        PROVE  IInv'
    BY <2>2, ThreadStep
  <2>3. CASE UNCHANGED vars
    <3>1. TypeOK' /\ Line'
      BY <2>3 DEF IInv, vars, lockVars, mainVars, TypeOK, Line
    <3>2. QED
      BY <2>3, <3>1, RingStays DEF IInv, vars, lockVars, mainVars
  <2>4. QED
    BY <2>1, <2>2, <2>3 DEF Next, Terminating
<1>2. QED
  BY Initial, <1>1, PTL DEF Spec

THEOREM TypesKept == Spec => []TypeOK
<1>1. IInv => TypeOK
  BY DEF IInv
<1>2. QED
  BY Invariance, <1>1, PTL

(* No thread overtakes another, or is lapped by one.                       *)
THEOREM NobodyOvertakes == Spec => []NoOvertaking
<1>1. IInv => NoOvertaking
  <2> SUFFICES ASSUME IInv, NEW s \in Thread, NEW t \in Thread, s < t
               PROVE  At(s) < At(t) /\ At(t) < At(s) + LOCK_MAX
    BY DEF NoOvertaking
  <2>1. loop[s] \in Int /\ loop[t] \in Int /\ loop[s] <= loop[t] /\ loop[t] <= loop[s] + 1
    BY DEF IInv, TypeOK, Rounds
  <2>2. s \in 0 .. THREAD_MAX - 1 /\ t \in 0 .. THREAD_MAX - 1
    BY DEF Thread
  <2>3. QED
    BY <2>1, <2>2 DEF At, LOCK_MAX
<1>2. QED
  BY Invariance, <1>1, PTL

(* Only one thread holds two mutexes, which is what the comment on the     *)
(* ring says, and none before all of them stand on the line.               *)
THEOREM OnlyOneMoves == Spec => []OneMoves
<1>1. IInv => OneMoves
  <2> SUFFICES ASSUME IInv PROVE OneMoves
    OBVIOUS
  <2>1. ASSUME NEW t \in Thread, HasTwo(t)
        PROVE  pc[t] = "unlock"
    BY <2>1 DEF HasTwo, IInv, Holds
  <2>2. ASSUME NEW s \in Thread, NEW t \in Thread, pc[s] = "unlock", pc[t] = "unlock", s < t
        PROVE  FALSE
    <3>1. s \in 0 .. THREAD_MAX - 1 /\ t \in 0 .. THREAD_MAX - 1 /\ 0 \in Thread /\ s + 1 \in Thread
      BY <2>2 DEF Thread
    <3>2. /\ loop[s + 1] = loop[s] + 1
          /\ t + 1 \in Thread => loop[t + 1] = loop[t] + 1
          /\ t = THREAD_MAX - 1 => loop[t] = loop[0]
      BY <3>1, <2>2, Ahead
    <3>3. \A u, v \in Thread : u <= v =>
            loop[u] \in Int /\ loop[v] \in Int /\ loop[u] <= loop[v] /\ loop[v] <= loop[u] + 1
      <4> SUFFICES ASSUME NEW u \in Thread, NEW v \in Thread, u <= v
                   PROVE  loop[u] \in Int /\ loop[v] \in Int /\ loop[u] <= loop[v] /\ loop[v] <= loop[u] + 1
        OBVIOUS
      <4>1. loop[u] \in Int /\ loop[v] \in Int /\ u \in Int /\ v \in Int
        BY DEF IInv, TypeOK, Thread
      <4>2. QED
        BY <4>1 DEF IInv, Rounds
    <3>4. loop[s + 1] <= loop[t] /\ loop[s] \in Int /\ loop[t] \in Int
      <4>1. s + 1 <= t /\ s <= t
        BY <3>1, <2>2
      <4>2. QED
        BY <4>1, <3>1, <3>3
    <3>5. CASE t + 1 \in Thread
      <4>1. loop[t + 1] <= loop[s] + 1
        BY <3>1, <3>3, <3>5
      <4>2. QED
        BY <3>2, <3>4, <3>5, <4>1
    <3>6. CASE t + 1 \notin Thread
      <4>1. t = THREAD_MAX - 1 /\ loop[0] <= loop[s] /\ loop[0] \in Int
        BY <3>1, <3>3, <3>6 DEF Thread
      <4>2. QED
        BY <3>2, <3>4, <4>1
    <3>7. QED
      BY <3>5, <3>6
  <2>3. \A s, t \in Thread : HasTwo(s) /\ HasTwo(t) => s = t
    BY <2>1, <2>2 DEF Thread
  <2>4. ASSUME NEW t \in Thread, HasTwo(t), NEW s \in Thread
        PROVE  pc[s] \notin Early
    BY <2>1, <2>4 DEF IInv, Line, TypeOK
  <2>5. QED
    BY <2>3, <2>4 DEF OneMoves
<1>2. QED
  BY Invariance, <1>1, PTL

(* The one who is at the next mutex of the ring is one mutex ahead, or     *)
(* a whole ring less one behind.                                           *)
LEMMA AtNext ==
  ASSUME IInv, NEW s \in Thread, NEW u \in Thread, i[u] = next(i[s])
  PROVE  /\ s < u => At(u) = At(s) + 1
         /\ u < s => At(u) = At(s) + 1 - LOCK_MAX
         /\ s # u
<1>1. /\ i[s] \in 0 .. THREAD_MAX /\ i[u] \in 0 .. THREAD_MAX
      /\ i[u] = IF i[s] = THREAD_MAX THEN 0 ELSE i[s] + 1
  <2>1. i[s] \in Mutex /\ i[u] \in Mutex
    BY DEF IInv, TypeOK
  <2>2. i[u] = IF i[s] + 1 = LOCK_MAX THEN 0 ELSE i[s] + 1
    BY <2>1, NextMutex
  <2>3. QED
    BY <2>1, <2>2 DEF Mutex, LOCK_MAX
<1>2. /\ loop[s] \in Int /\ loop[u] \in Int
      /\ s \in 0 .. THREAD_MAX - 1 /\ u \in 0 .. THREAD_MAX - 1
  BY DEF IInv, TypeOK, Thread
<1>3. ASSUME s < u
      PROVE  At(u) = At(s) + 1
  <2>1. loop[s] <= loop[u] /\ loop[u] <= loop[s] + 1
    BY <1>3 DEF IInv, Rounds
  <2>2. i[u] - i[s] \in {At(u) - At(s), At(u) - At(s) - LOCK_MAX}
    BY <1>3 DEF IInv, Places
  <2>3. QED
    BY <1>1, <1>2, <1>3, <2>1, <2>2 DEF At, LOCK_MAX
<1>4. ASSUME u < s
      PROVE  At(u) = At(s) + 1 - LOCK_MAX
  <2>1. loop[u] <= loop[s] /\ loop[s] <= loop[u] + 1
    BY <1>4 DEF IInv, Rounds
  <2>2. i[s] - i[u] \in {At(s) - At(u), At(s) - At(u) - LOCK_MAX}
    BY <1>4 DEF IInv, Places
  <2>3. QED
    BY <1>1, <1>2, <1>4, <2>1, <2>2 DEF At, LOCK_MAX
<1>5. s # u
  BY <1>1
<1>6. QED
  BY <1>3, <1>4, <1>5

(* Somebody can always go on.  Before the start that is whoever was not    *)
(* counted.  On the ring it is the last thread of those in the first       *)
(* one's round, as the mutex after its own is the one that is left over.   *)
THEOREM AlwaysProgress == Spec => []NoDeadlock
<1>1. IInv => NoDeadlock
  <2> SUFFICES ASSUME IInv, MainBlocked, \A t \in Thread : Blocked(t)
               PROVE  FALSE
    BY DEF NoDeadlock
  <2>1. CASE main = "asleep"
    <3>1. PICK t \in Thread : pc[t] \in Early
      <4>1. Ready # Thread
        BY <2>1, ThreadsCount DEF IInv, Line, Count, TypeOK
      <4>2. QED
        BY <4>1 DEF Ready
    <3>2. pc[t] = "get_first" /\ owner[i[t]] # {} /\ i[t] = t
      BY <2>1, <3>1 DEF Blocked, IInv, Line, LastRound
    <3>3. PICK u \in Thread : u \in owner[i[t]]
      BY <3>2 DEF IInv, TypeOK
    <3>4. pc[u] \in BeforeStart /\ i[u] = u
      BY <2>1, <3>1, <3>2 DEF IInv, Line, LastRound
    <3>5. i[t] \in Mutex
      BY DEF IInv, TypeOK
    <3>6. QED
      BY <3>2, <3>3, <3>4, <3>5 DEF IInv, Holds
  <2>2. CASE main = "join" /\ pc[k] # "ended"
    <3>1. \A t \in Thread : pc[t] \in {"ended", "get_next"}
      BY <2>2 DEF Blocked, IInv, Line, TypeOK, ThreadPC
    <3>2. k \in Thread /\ loop[k] < THREAD_ITERS
      BY <2>2, <3>1 DEF IInv, TypeOK, LastRound
    (* No thread has a next mutex that is free, unless it is at its end.   *)
    <3>3. ASSUME NEW s \in Thread, loop[s] < THREAD_ITERS
          PROVE  \E u \in Thread : i[u] = next(i[s])
      <4>1. pc[s] = "get_next" /\ next(i[s]) \in Mutex
        BY <3>1, <3>3, NextMutex DEF IInv, LastRound, TypeOK
      <4>2. PICK u \in Thread : u \in owner[next(i[s])]
        BY <4>1 DEF Blocked, IInv, TypeOK
      <4>3. QED
        BY <3>1, <4>1, <4>2 DEF IInv, Holds
    <3> DEFINE T == {t \in Thread : loop[t] # loop[0]}
    <3>4. /\ \A t \in Thread : loop[t] \in Int /\ t \in 0 .. THREAD_MAX - 1
          /\ 0 \in Thread /\ THREAD_MAX - 1 \in Thread
      BY DEF IInv, TypeOK, Thread
    <3>5. \A t \in Thread : loop[t] = loop[0] \/ loop[t] = loop[0] + 1
      <4> SUFFICES ASSUME NEW t \in Thread PROVE loop[t] = loop[0] \/ loop[t] = loop[0] + 1
        OBVIOUS
      <4>1. t = 0 \/ 0 < t
        BY <3>4
      <4>2. QED
        BY <4>1, <3>4 DEF IInv, Rounds
    <3>6. CASE T = {}
      <4> DEFINE s == THREAD_MAX - 1
      <4>1. loop[s] = loop[0] /\ loop[k] = loop[0]
        BY <3>2, <3>4, <3>6
      <4>2. PICK u \in Thread : i[u] = next(i[s])
        BY <3>2, <3>3, <3>4, <4>1
      <4>3. u < s /\ loop[u] = loop[0]
        BY <3>4, <3>6, <4>2, AtNext
      <4>4. At(u) = At(s) + 1 - LOCK_MAX
        BY <3>4, <4>2, <4>3, AtNext
      <4>5. QED
        BY <3>4, <4>1, <4>3, <4>4 DEF At, LOCK_MAX
    <3>7. CASE T # {}
      <4>1. PICK x \in T : \A y \in T : x <= y
        <5>1. T \in SUBSET Nat
          BY DEF Thread
        <5>2. QED
          BY <5>1, <3>7, Least
      <4> DEFINE s == x - 1
      <4>2. /\ x \in Thread /\ x # 0 /\ loop[x] = loop[0] + 1
            /\ \A y \in Thread : y < x => loop[y] = loop[0]
        <5>1. x \in Thread /\ x # 0 /\ loop[x] = loop[0] + 1
          BY <3>5
        <5>2. ASSUME NEW y \in Thread, y < x
              PROVE  loop[y] = loop[0]
          BY <5>1, <5>2, <4>1, <3>4
        <5>3. QED
          BY <5>1, <5>2
      <4>3. s \in Thread /\ s < x /\ loop[s] = loop[0] /\ s \in Int /\ x \in Int
        BY <4>2, <3>4 DEF Thread
      <4>4. loop[s] < THREAD_ITERS
        <5>1. loop[x] \in 1 .. THREAD_ITERS
          BY <4>2 DEF IInv, TypeOK
        <5>2. QED
          BY <5>1, <4>2, <4>3, <3>4
      <4>5. PICK u \in Thread : i[u] = next(i[s])
        BY <3>3, <4>3, <4>4
      <4>6. u \in 0 .. THREAD_MAX - 1 /\ loop[0] \in Int
        BY <3>4
      <4>7. CASE u < s
        <5>1. At(u) = At(s) + 1 - LOCK_MAX /\ loop[u] = loop[0]
          BY <4>2, <4>3, <4>5, <4>6, <4>7, AtNext
        <5>2. QED
          BY <5>1, <4>3, <4>6, <4>2, <3>4 DEF At, LOCK_MAX
      <4>8. CASE s < u
        <5>1. At(u) = At(s) + 1
          BY <4>3, <4>5, <4>8, AtNext
        <5>2. loop[u] = loop[0] + 1
          <6>1. u = x \/ x < u
            BY <4>3, <4>6, <4>8
          <6>2. loop[x] <= loop[u]
            BY <6>1, <4>2, <3>4 DEF IInv, Rounds
          <6>3. QED
            BY <6>2, <4>2, <3>4, <3>5
        <5>3. QED
          BY <5>1, <5>2, <4>3, <4>6, <4>8 DEF At
      <4>9. s # u
        BY <4>3, <4>5, AtNext
      <4>10. QED
        BY <4>3, <4>6, <4>7, <4>8, <4>9
    <3>8. QED
      BY <3>6, <3>7
  <2>3. QED
    BY <2>1, <2>2 DEF MainBlocked
<1>2. QED
  BY Invariance, <1>1, PTL
=============================================================================
