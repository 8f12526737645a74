---------------------------- MODULE QsortMtProofs ----------------------------
(***************************************************************************)
(* Proofs about the pool of QsortMt, for any number of threads, any array  *)
(* and any way to split its parts: every position is sorted by exactly one *)
(* thread, and the pool ends when all are.                                 *)
(***************************************************************************)
EXTENDS QsortMt, WellFoundedInduction, FiniteSetTheorems, TLAPS

(* The least of a set of numbers.                                          *)
LEMMA Least ==
  ASSUME NEW T \in SUBSET Nat, T # {}
  PROVE  \E k \in T : \A j \in T : k <= j
<1> DEFINE R == {ss \in Nat \X Nat : ss[1] < ss[2]}
<1>1. IsWellFoundedOn(R, Nat)
  BY NatLessThanWellFounded, Zenon DEF OpToRel
<1> HIDE DEF R
<1>2. PICK k \in T : \A j \in T : ~ (<<j, k>> \in R)
  BY <1>1, WFMin, Zenon
<1>3. ASSUME NEW j \in T
      PROVE  k <= j
  <2>1. k \in Nat /\ j \in Nat /\ ~ (<<j, k>> \in R)
    BY <1>2
  <2>2. ~ (j < k)
    BY <2>1 DEF R
  <2>3. QED
    BY <2>1, <2>2
<1>4. QED
  BY <1>3

(* main: who was created, who has been joined.                             *)
Created ==
  /\ slot <= islot
  /\ \A t \in Pool : pc[t] = "none" <=> t >= islot
  /\ destroyed = {t \in Pool : t < slot}
  /\ \A t \in destroyed : pc[t] = "exit"
  /\ ~bailout => islot = maxthreads
  /\ main = "create" => bailout /\ slot = 0 /\ \A t \in Pool : st[t] = "idle" /\ pc[t] # "exit"
  /\ main = "join" => slot < islot
  /\ bailout /\ main # "return" => sorted = {}
  /\ main = "qsort" => bailout
  /\ main = "return" => sorted = Position

(* Whatever the threads do.                                                *)
Anyway ==
  \A t \in Pool :
    /\ pc[t] # "failed" /\ (t \in waiting => pc[t] = "again")
    /\ pc[t] = "awake" => st[t] # "idle"
    /\ pc[t] \in {"none", "again", "awake", "terminate", "exit"} => todo[t] = <<>>
    /\ pc[t] \in {"algo", "allocate", "allocate_st", "give"} <=>
         st[t] = "work" /\ pc[t] \notin {"again", "awake"}
    /\ to[t] # 0 => pc[t] \in {"allocate_st", "give", "terminate"}

(* The two mutexes.                                                        *)
Locks ==
  /\ \A t \in Pool : mtx_al = t <=> pc[t] \in {"allocate_st", "terminate"}
  /\ \A t, s \in Pool : mtx_st[t] = s <=> pc[s] = "give" /\ to[s] = t
  /\ \A t \in Pool : pc[t] \in {"allocate_st", "give"} =>
       /\ to[t] \in Pool /\ pc[to[t]] = "again"
       /\ st[to[t]] = IF pc[t] = "give" THEN "work" ELSE "idle"

(* The pool could not be had, or not yet.                                  *)
NoPool ==
  bailout => /\ idlethreads = 0
             /\ \A t \in Pool : /\ st[t] # "work"
                                /\ pc[t] \in {"none", "again", "awake", "exit"}

(* It sorts: idlethreads are the threads allocate_thread can still choose. *)
Free == {t \in Pool : st[t] = "idle" /\ \A s \in Pool : ~(pc[s] = "allocate_st" /\ to[s] = t)}

Sorting ==
  ~bailout /\ idlethreads < maxthreads =>
    /\ idlethreads = Cardinality(Free)
    /\ \A t \in Pool : /\ st[t] # "term" /\ pc[t] \notin {"terminate", "exit"}
                       /\ st[t] = "idle" => pc[t] = "again"

(* It ends: one thread tells the others, in order.                         *)
Ending ==
  ~bailout /\ idlethreads = maxthreads =>
    /\ sorted = Position
    /\ \A t \in Pool : st[t] # "work" /\ pc[t] \in {"again", "awake", "terminate", "exit"}
    /\ \A t \in Pool : pc[t] = "terminate" =>
         /\ st[t] = "idle"
         /\ \A s \in Pool \ {t} : /\ st[s] = "term" <=> s < to[t]
                                  /\ pc[s] = "exit" => st[s] = "term"

(* Each position is in one part, or final.                                 *)
Has(t, m, p) == m \in Slots(t) /\ p \in Positions(PartIn(t, m))

Covered ==
  ~bailout => \A p \in Position \ sorted : \E t \in Pool : \E m \in Int : Has(t, m, p)

Once ==
  \A t, s \in Pool : \A m, n \in Int : \A p \in Position :
    Has(t, m, p) => p \notin sorted /\ (Has(s, n, p) => t = s /\ m = n)

IInv == TypeOK /\ Created /\ Anyway /\ Locks /\ NoPool /\ Sorting /\ Ending /\ Covered /\ Once

-----------------------------------------------------------------------------
USE QsortMtAssumption

Giving == {"allocate", "allocate_st", "give"}

LEMMA PoolFacts ==
  /\ 0 \in Pool /\ Pool \subseteq Nat /\ NULL \notin Pool
  /\ IsFiniteSet(Pool) /\ Cardinality(Pool) = maxthreads
<1>1. IsFiniteSet(0 .. maxthreads - 1) /\ Cardinality(0 .. maxthreads - 1) = maxthreads
  BY FS_Interval
<1>2. QED
  BY <1>1 DEF Pool

LEMMA FreeFacts ==
  /\ IsFiniteSet(Free) /\ Cardinality(Free) \in 0 .. maxthreads
  /\ Cardinality(Free) = maxthreads => Free = Pool
<1>1. Free \in SUBSET Pool
  BY DEF Free
<1>2. /\ IsFiniteSet(Free) /\ Cardinality(Free) <= Cardinality(Pool)
      /\ Cardinality(Free) = Cardinality(Pool) => Free = Pool
  BY <1>1, PoolFacts, FS_Subset
<1>3. Cardinality(Free) \in Nat
  BY <1>2, FS_CardinalityType
<1>4. QED
  BY <1>2, <1>3, PoolFacts

(* The positions of a part.                                                *)
LEMMA InPart ==
  ASSUME NEW q \in Part, NEW p \in Int
  PROVE  /\ q[1] \in 0 .. ELEMS /\ q[2] \in 0 .. ELEMS /\ q[1] <= q[2]
         /\ p \in Positions(q) <=> q[1] <= p /\ p < q[2]
         /\ p \in Positions(q) => p \in Position
BY DEF Part, Positions, Position

LEMMA Initial == Init => IInv
<1> SUFFICES ASSUME Init PROVE IInv
  OBVIOUS
<1> USE DEF Init
<1>1. TypeOK
  BY PoolFacts DEF TypeOK, Part
<1>2. Created /\ Anyway /\ Locks /\ NoPool /\ Sorting /\ Ending /\ Covered
  BY PoolFacts DEF Created, Anyway, Locks, NoPool, Sorting, Ending, Covered, Pool
<1>3. Once
  <2>1. \A t \in Pool : Slots(t) = {}
    BY DEF Slots, Given
  <2>2. QED
    BY <2>1 DEF Once, Has
<1>4. QED
  BY <1>1, <1>2, <1>3 DEF IInv

-----------------------------------------------------------------------------
(* What steps leave alone.                                                 *)
LEMMA PartsStay ==
  ASSUME Covered, Once, UNCHANGED <<bailout, sorted, todo, left, part>>,
         \A t \in Pool : /\ pc'[t] \in Giving <=> pc[t] \in Giving
                         /\ Given(t)' <=> Given(t)
  PROVE  Covered' /\ Once'
<1>1. \A t \in Pool : Slots(t)' = Slots(t)
  BY DEF Slots, Giving
<1>2. \A t \in Pool : \A m \in Int : PartIn(t, m)' = PartIn(t, m)
  BY DEF PartIn
<1>3. \A t \in Pool : \A m \in Int : \A p \in Position : Has(t, m, p)' <=> Has(t, m, p)
  BY <1>1, <1>2 DEF Has, Positions
<1>4. QED
  BY <1>3 DEF Covered, Once

(* A thread sorts a part of what it has.                                   *)
LEMMA PartsOfOne ==
  ASSUME Covered, Once, bailout' = bailout, NEW t \in Pool, NEW D \in SUBSET Position,
         sorted' = sorted \cup D,
         \A s \in Pool \ {t} : \A m \in Int : \A p \in Position : Has(s, m, p)' <=> Has(s, m, p),
         \A p \in D : \E n \in Int : Has(t, n, p),
         \A m \in Int : \A p \in Position : Has(t, m, p)' => p \notin D /\ \E n \in Int : Has(t, n, p),
         \A p \in Position \ D : (\E n \in Int : Has(t, n, p)) => \E m \in Int : Has(t, m, p)',
         \A m, n \in Int : \A p \in Position : Has(t, m, p)' /\ Has(t, n, p)' => m = n
  PROVE  Covered' /\ Once'
<1>1. Covered'
  <2> SUFFICES ASSUME ~bailout, NEW p \in Position, p \notin sorted, p \notin D
               PROVE  \E s \in Pool : \E m \in Int : Has(s, m, p)'
    BY DEF Covered
  <2>1. PICK s \in Pool, n \in Int : Has(s, n, p)
    BY DEF Covered
  <2>2. CASE s = t
    BY <2>1, <2>2
  <2>3. CASE s # t
    BY <2>1, <2>3
  <2>4. QED
    BY <2>2, <2>3
<1>2. Once'
  <2> SUFFICES ASSUME NEW u \in Pool, NEW s \in Pool, NEW m \in Int, NEW n \in Int,
                      NEW p \in Position, Has(u, m, p)'
               PROVE  p \notin sorted /\ p \notin D /\ (Has(s, n, p)' => u = s /\ m = n)
    BY DEF Once
  <2>1. PICK k \in Int : Has(u, k, p)
    OBVIOUS
  <2>2. p \notin sorted
    BY <2>1 DEF Once
  <2>3. p \notin D
    <3>1. CASE u = t
      BY <3>1
    <3>2. CASE u # t
      BY <3>2, <2>1 DEF Once
    <3>3. QED
      BY <3>1, <3>2
  <2>4. ASSUME Has(s, n, p)'
        PROVE  u = s /\ m = n
    <3>1. PICK j \in Int : Has(s, j, p)
      BY <2>4
    <3>2. u = s
      BY <2>1, <3>1 DEF Once
    <3>3. CASE u = t
      BY <2>4, <3>2, <3>3
    <3>4. CASE u # t
      BY <2>4, <3>2, <3>4 DEF Once
    <3>5. QED
      BY <3>2, <3>3, <3>4
  <2>5. QED
    BY <2>2, <2>3, <2>4
<1>3. QED
  BY <1>1, <1>2

(* It only orders what it has.                                             *)
LEMMA PartsMove ==
  ASSUME Covered, Once, UNCHANGED <<bailout, sorted>>, NEW t \in Pool,
         \A s \in Pool \ {t} : \A m \in Int : \A p \in Position : Has(s, m, p)' <=> Has(s, m, p),
         \A p \in Position : (\E m \in Int : Has(t, m, p)') <=> \E n \in Int : Has(t, n, p),
         \A m, n \in Int : \A p \in Position : Has(t, m, p)' /\ Has(t, n, p)' => m = n
  PROVE  Covered' /\ Once'
<1> DEFINE D == {}
<1>1. D \in SUBSET Position /\ sorted' = sorted \cup D /\ \A p \in Position : p \notin D
  OBVIOUS
<1> HIDE DEF D
<1>2. \A m \in Int : \A p \in Position : Has(t, m, p)' => p \notin D /\ \E n \in Int : Has(t, n, p)
  BY <1>1
<1>3. \A p \in Position \ D : (\E n \in Int : Has(t, n, p)) => \E m \in Int : Has(t, m, p)'
  OBVIOUS
<1>4. \A p \in D : \E n \in Int : Has(t, n, p)
  BY <1>1
<1>5. QED
  BY <1>1, <1>2, <1>3, <1>4, PartsOfOne

-----------------------------------------------------------------------------
(* main, apart from hand_out.                                              *)
LEMMA MainStep ==
  ASSUME IInv, create \/ create_fails \/ stop \/ join \/ joined \/ qsort
  PROVE  IInv'
<1> USE DEF IInv
<1>1. CASE create
  <2>1. /\ islot \in Pool /\ pc' = [pc EXCEPT ![islot] = "again"] /\ pc[islot] = "none"
        /\ pc \in [Pool -> {"none", "again", "awake", "algo", "allocate", "allocate_st", "give",
                      "terminate", "exit", "failed"}]
        /\ islot' = islot + 1 /\ main = "create" /\ bailout /\ st[islot] = "idle"
        /\ UNCHANGED <<main, slot, bailout, destroyed, st, part, mtx_st, waiting, mtx_al,
                       idlethreads, todo, left, to, sorted>>
    BY <1>1 DEF create, Step, Created, TypeOK, Pool, poolVars, localVars
  <2>2. \A t \in Pool : pc'[t] = IF t = islot THEN "again" ELSE pc[t]
    BY <2>1
  <2>3. TypeOK'
    <3>1. pc' \in [Pool -> {"none", "again", "awake", "algo", "allocate", "allocate_st", "give",
                           "terminate", "exit", "failed"}]
      BY <2>1
    <3>2. islot' \in 0 .. maxthreads
      BY <2>1 DEF TypeOK, Pool
    <3>3. QED
      BY <2>1, <3>1, <3>2 DEF TypeOK
  <2>4. Created'
    <3>1. /\ islot \in Nat /\ slot = 0 /\ st' = st /\ slot' = slot
          /\ destroyed = {t \in Pool : t < slot}
          /\ \A t \in Pool : t \in Nat /\ (pc[t] = "none" <=> t >= islot)
                          /\ st[t] = "idle" /\ pc[t] # "exit"
      BY <2>1 DEF Created, Pool
    <3>2. \A t \in Pool : pc'[t] = "none" <=> t >= islot'
      BY <2>1, <2>2, <3>1
    <3>3. \A t \in Pool : st'[t] = "idle" /\ pc'[t] # "exit"
      BY <2>2, <3>1
    <3>4. destroyed' = {t \in Pool : t < slot'}
      BY <2>1, <3>1
    <3>5. destroyed' = {} /\ sorted' = {}
      <4>1. sorted = {} /\ \A t \in Pool : ~(t < 0)
        BY <2>1 DEF Created, Pool
      <4>2. QED
        BY <2>1, <3>1, <4>1
    <3>6. QED
      BY <2>1, <3>1, <3>2, <3>3, <3>4, <3>5 DEF Created
  <2>5. Anyway' /\ NoPool' /\ Sorting' /\ Ending'
    <3>1. Anyway'
      BY <2>1, <2>2 DEF Anyway
    <3>2. NoPool'
      BY <2>1, <2>2 DEF NoPool
    <3>3. Sorting' /\ Ending'
      BY <2>1 DEF Sorting, Ending
    <3>4. QED
      BY <3>1, <3>2, <3>3
  <2>6. Locks'
    BY <2>1, <2>2 DEF Locks
  <2>7. Covered' /\ Once'
    BY <2>1, <2>2, PartsStay DEF Given, Giving
  <2>8. QED
    BY <2>3, <2>4, <2>5, <2>6, <2>7
<1>2. CASE create_fails \/ join \/ joined
  <2>1. /\ UNCHANGED <<islot, bailout, st, part, mtx_st, waiting, mtx_al,
                       idlethreads, todo, left, to, pc, sorted>>
        /\ main \in {"create", "join", "stop"}
    BY <1>2 DEF create_fails, join, joined, poolVars, localVars
  <2>2. TypeOK'
    <3>1. main = "join" => slot \in Pool /\ slot + 1 \in 0 .. maxthreads
      BY DEF TypeOK, Created, Pool
    <3>2. QED
      BY <1>2, <2>1, <3>1 DEF TypeOK, create_fails, join, joined
  <2>3. Created'
    <3>1. CASE create_fails
      BY <3>1, <2>1 DEF Created, create_fails
    <3>2. CASE join
      <4>1. /\ slot \in Nat /\ islot \in Nat /\ slot < islot /\ islot <= maxthreads
            /\ main' = "stop" /\ slot' = slot + 1 /\ destroyed' = destroyed \cup {slot}
            /\ pc[slot] = "exit"
        BY <3>2, <2>1 DEF Created, join, TypeOK
      <4>2. destroyed' = {t \in Pool : t < slot'}
        <5>1. slot \in Pool /\ \A t \in Pool : t < slot + 1 <=> t < slot \/ t = slot
          BY <4>1 DEF Pool
        <5>2. QED
          BY <4>1, <5>1 DEF Created
      <4>3. \A t \in destroyed' : pc[t] = "exit"
        BY <4>1 DEF Created
      <4>4. QED
        BY <2>1, <4>1, <4>2, <4>3 DEF Created
    <3>3. CASE joined
      <4>1. ~bailout => sorted = Position
        <5>1. ~bailout => slot = maxthreads /\ 0 \in destroyed
          BY <3>3, PoolFacts DEF joined, Created
        <5>2. ~bailout => pc[0] = "exit"
          BY <5>1 DEF Created
        <5>3. QED
          BY <5>2, PoolFacts DEF TypeOK, Sorting, Ending
      <4>2. QED
        BY <3>3, <2>1, <4>1 DEF Created, joined
    <3>4. QED
      BY <1>2, <3>1, <3>2, <3>3
  <2>4. Anyway' /\ NoPool' /\ Sorting' /\ Ending'
    BY <2>1 DEF Anyway, NoPool, Sorting, Ending, Free
  <2>5. Locks'
    BY <2>1 DEF Locks
  <2>6. Covered' /\ Once'
    BY <2>1, PartsStay DEF Given
  <2>7. QED
    BY <2>2, <2>3, <2>4, <2>5, <2>6
<1>3. CASE stop
  <2>1. /\ UNCHANGED <<islot, slot, bailout, destroyed, part, mtx_st, mtx_al,
                       idlethreads, todo, left, to, pc, sorted>>
        /\ main = "stop" /\ main' = "join" /\ slot < islot
        /\ slot \in Pool
        /\ \/ bailout /\ st' = [st EXCEPT ![slot] = "term"] /\ waiting' = waiting \ {slot}
           \/ ~bailout /\ st' = st /\ waiting' = waiting
    BY <1>3 DEF stop, localVars, TypeOK, Pool, Set, Signal
  <2>2. \A t \in Pool : st'[t] = IF bailout /\ t = slot THEN "term" ELSE st[t]
    BY <2>1 DEF TypeOK
  <2>3. TypeOK'
    BY <2>1 DEF TypeOK
  <2>4. Created' /\ Anyway'
    BY <2>1, <2>2 DEF Created, Anyway, NoPool
  <2>5. NoPool' /\ Sorting' /\ Ending'
    BY <2>1, <2>2 DEF NoPool, Sorting, Ending, Free
  <2>6. Locks'
    BY <2>1, <2>2 DEF Locks, NoPool
  <2>7. Covered' /\ Once'
    BY <2>1, <2>2, PartsStay DEF Given, NoPool
  <2>8. QED
    BY <2>3, <2>4, <2>5, <2>6, <2>7
<1>4. CASE qsort
  <2>1. /\ UNCHANGED <<islot, slot, bailout, destroyed, st, part, mtx_st, waiting, mtx_al,
                       idlethreads, todo, left, to, pc>>
        /\ main = "qsort" /\ main' = "return" /\ sorted' = Position /\ bailout
    BY <1>4 DEF qsort, poolVars, localVars, Created
  <2>2. TypeOK' /\ Created' /\ Anyway'
    BY <2>1 DEF TypeOK, Created, Anyway
  <2>3. NoPool' /\ Sorting' /\ Ending' /\ Covered'
    BY <2>1 DEF NoPool, Sorting, Ending, Covered
  <2>4. Locks'
    BY <2>1 DEF Locks
  <2>5. Once'
    <3>1. \A t \in Pool : Slots(t)' = {}
      BY <2>1 DEF Slots, Given, NoPool, Anyway
    <3>2. QED
      BY <3>1 DEF Once, Has
  <2>6. QED
    BY <2>2, <2>3, <2>4, <2>5
<1>5. QED
  BY <1>1, <1>2, <1>3, <1>4

(* The first thread gets the whole array.                                  *)
LEMMA HandOut ==
  ASSUME IInv, hand_out
  PROVE  IInv'
<1> USE DEF IInv
<1>1. /\ main = "create" /\ main' = "stop" /\ bailout /\ ~bailout' /\ islot = maxthreads
      /\ mtx_st[0] = NULL /\ idlethreads' = maxthreads - 1 /\ sorted = {}
      /\ \A t \in Pool : /\ st'[t] = IF t = 0 THEN "work" ELSE "idle"
                         /\ part'[t] = IF t = 0 THEN All ELSE part[t]
      /\ st' \in [Pool -> {"idle", "work", "term"}] /\ part' \in [Pool -> Part]
      /\ waiting' = waiting \ {0}
      /\ UNCHANGED <<islot, slot, destroyed, mtx_st, mtx_al, todo, left, to, pc, sorted>>
  <2>1. All \in Part
    BY DEF All, Part
  <2>2. /\ main = "create" /\ main' = "stop" /\ bailout /\ ~bailout' /\ islot = maxthreads
        /\ mtx_st[0] = NULL /\ idlethreads' = maxthreads - 1 /\ sorted = {}
        /\ st' = [st EXCEPT ![0] = "work"] /\ part' = [part EXCEPT ![0] = All]
        /\ waiting' = waiting \ {0}
        /\ UNCHANGED <<islot, slot, destroyed, mtx_st, mtx_al, todo, left, to, pc, sorted>>
    BY DEF hand_out, Created, localVars, Set, Signal
  <2>3. \A t \in Pool : st[t] = "idle"
    BY <2>2 DEF Created
  <2>4. QED
    BY <2>1, <2>2, <2>3, PoolFacts DEF TypeOK
<1>2. \A t \in Pool : pc[t] = "again" /\ todo[t] = <<>>
  <2>1. \A t \in Pool : pc[t] # "none"
    BY <1>1 DEF Created, Pool
  <2>2. QED
    BY <1>1, <2>1 DEF Created, NoPool, Anyway
<1>3. TypeOK'
  <2>1. waiting' \subseteq Pool /\ idlethreads' \in 0 .. maxthreads
    BY <1>1 DEF TypeOK
  <2>2. main' \in {"create", "stop", "join", "qsort", "return"} /\ bailout' \in BOOLEAN
    BY <1>1 DEF hand_out
  <2>3. QED
    BY <1>1, <2>1, <2>2 DEF TypeOK
<1>4. Created' /\ Anyway' /\ NoPool' /\ Ending'
  BY <1>1, <1>2 DEF Created, Anyway, NoPool, Ending
<1>5. Locks'
  BY <1>1, <1>2 DEF Locks
<1>6. Sorting'
  <2>1. Free' = Pool \ {0}
    BY <1>1, <1>2 DEF Free
  <2>2. Cardinality(Free') = maxthreads - 1
    BY <2>1, PoolFacts, FS_RemoveElement
  <2>3. QED
    BY <1>1, <1>2, <2>2 DEF Sorting
<1>7. \A t \in Pool : Slots(t)' = IF t = 0 THEN {-1} ELSE {}
  BY <1>1, <1>2, PoolFacts DEF Slots, Given
<1>8. Covered'
  <2>1. \A p \in Position : Has(0, -1, p)'
    BY <1>1, <1>7, PoolFacts DEF Has, PartIn, Positions, Position, All
  <2>2. QED
    BY <2>1, PoolFacts DEF Covered
<1>9. Once'
  BY <1>1, <1>7 DEF Once, Has
<1>10. QED
  BY <1>3, <1>4, <1>5, <1>6, <1>8, <1>9

-----------------------------------------------------------------------------
(* The threads.                                                            *)
LEMMA Steps ==
  ASSUME TypeOK, NEW t \in Pool, NEW from, NEW next, Step(t, from, next)
  PROVE  /\ pc[t] = from /\ \A s \in Pool : pc'[s] = IF s = t THEN next ELSE pc[s]
         /\ next \in {"again", "awake", "algo", "allocate", "allocate_st", "give",
                      "terminate", "exit"} =>
              pc' \in [Pool -> {"none", "again", "awake", "algo", "allocate", "allocate_st",
                                "give", "terminate", "exit", "failed"}]
BY DEF TypeOK, Step

LEMMA Waits ==
  ASSUME IInv, (\E t \in Pool : await(t)) \/ Surprise \/ UNCHANGED vars
  PROVE  IInv'
<1> USE DEF IInv
<1>1. UNCHANGED <<main, islot, slot, bailout, destroyed, st, part, mtx_st, mtx_al,
                  idlethreads, todo, left, to, sorted>>
  BY DEF await, Surprise, mainVars, poolVars, localVars, vars
<1>2. CASE /\ pc' = pc /\ waiting' \subseteq Pool
           /\ \A t \in waiting' : t \in waiting \/ pc[t] = "again"
  <2>1. TypeOK' /\ Created' /\ Anyway'
    BY <1>1, <1>2 DEF TypeOK, Created, Anyway
  <2>2. NoPool' /\ Sorting' /\ Ending'
    BY <1>1, <1>2 DEF NoPool, Sorting, Ending, Free
  <2>3. Locks'
    BY <1>1, <1>2 DEF Locks
  <2>4. Covered' /\ Once'
    BY <1>1, <1>2, PartsStay DEF Given
  <2>5. QED
    BY <2>1, <2>2, <2>3, <2>4
<1>3. ASSUME NEW t \in Pool, Step(t, "again", "awake"), st[t] # "idle", mtx_st[t] = NULL,
             waiting' = waiting, t \notin waiting
      PROVE  IInv'
  <2>1. /\ pc[t] = "again" /\ \A s \in Pool : pc'[s] = IF s = t THEN "awake" ELSE pc[s]
        /\ pc' \in [Pool -> {"none", "again", "awake", "algo", "allocate", "allocate_st",
                             "give", "terminate", "exit", "failed"}]
    BY <1>3, Steps
  <2>2. TypeOK'
    BY <1>1, <1>3, <2>1 DEF TypeOK
  <2>3. Created' /\ Anyway' /\ NoPool' /\ Ending'
    BY <1>1, <1>3, <2>1 DEF Created, Anyway, NoPool, Ending
  <2>4. Sorting'
    <3>1. Free' = Free
      BY <1>1, <2>1 DEF Free
    <3>2. QED
      BY <1>1, <1>3, <2>1, <3>1 DEF Sorting
  <2>5. Locks'
    <3>1. \A s \in Pool : pc[s] \in {"allocate_st", "give"} => to[s] # t
      <4>1. ASSUME NEW s \in Pool, pc[s] \in {"allocate_st", "give"}, to[s] = t
            PROVE  FALSE
        <5>1. pc[s] = "give"
          BY <1>3, <4>1 DEF Locks
        <5>2. mtx_st[t] = s
          BY <5>1, <4>1 DEF Locks
        <5>3. QED
          BY <5>2, <1>3, PoolFacts
      <4>2. QED
        BY <4>1
    <3>2. QED
      BY <1>1, <2>1, <3>1 DEF Locks
  <2>6. Covered' /\ Once'
    BY <1>1, <2>1, PartsStay DEF Given, Giving
  <2>7. QED
    BY <2>2, <2>3, <2>4, <2>5, <2>6
<1>4. CASE \E t \in Pool : await(t)
  <2>1. PICK t \in Pool : await(t)
    BY <1>4
  <2>2. waiting \subseteq Pool
    BY DEF TypeOK
  <2>3. QED
    BY <2>1, <2>2, <1>2, <1>3 DEF await
<1>5. CASE Surprise
  BY <1>2, <1>5 DEF Surprise, Signal, TypeOK
<1>6. CASE UNCHANGED vars
  BY <1>2, <1>6 DEF vars, poolVars, TypeOK
<1>7. QED
  BY <1>4, <1>5, <1>6

LEMMA Awakes ==
  ASSUME IInv, NEW t \in Pool, awake(t)
  PROVE  IInv'
<1> USE DEF IInv
<1> DEFINE next == IF st[t] = "term" THEN "exit" ELSE "algo"
<1>1. st[t] \in {"work", "term"} /\ todo[t] = <<>> /\ pc[t] = "awake"
  BY DEF awake, Step, Anyway, TypeOK
<1>2. /\ Step(t, "awake", next)
      /\ todo' = IF st[t] = "work" THEN [todo EXCEPT ![t] = <<part[t]>>] ELSE todo
      /\ UNCHANGED <<main, islot, slot, bailout, destroyed, st, part, mtx_st, waiting, mtx_al,
                     idlethreads, left, to, sorted>>
  BY <1>1 DEF awake, mainVars, poolVars, Set
<1>3. /\ \A s \in Pool : pc'[s] = IF s = t THEN next ELSE pc[s]
      /\ pc' \in [Pool -> {"none", "again", "awake", "algo", "allocate", "allocate_st",
                           "give", "terminate", "exit", "failed"}]
  <2>1. next \in {"exit", "algo"}
    OBVIOUS
  <2>2. QED
    BY <1>2, <2>1, Steps
<1>4. todo' \in [Pool -> Seq(Part)] /\ \A s \in Pool \ {t} : todo'[s] = todo[s]
  BY <1>2 DEF TypeOK
<1>5. st[t] = "work" => todo'[t] = <<part[t]>> /\ part[t] \in Part
  BY <1>2 DEF TypeOK
<1>6. TypeOK'
  BY <1>2, <1>3, <1>4 DEF TypeOK
<1>7. Created' /\ NoPool' /\ Ending'
  BY <1>1, <1>2, <1>3 DEF Created, NoPool, Ending
<1>8. Anyway'
  <2>1. st[t] = "term" => todo' = todo
    BY <1>2
  <2>2. QED
    BY <1>1, <1>2, <1>3, <1>4, <2>1 DEF Anyway
<1>9. Sorting'
  <2>1. Free' = Free
    BY <1>1, <1>2, <1>3 DEF Free
  <2>2. QED
    BY <1>1, <1>2, <1>3, <2>1 DEF Sorting
<1>10. Locks'
  BY <1>1, <1>2, <1>3 DEF Locks
<1>11. Covered' /\ Once'
  <2>1. mtx_st[t] = NULL
    <3>1. ASSUME NEW s \in Pool, mtx_st[t] = s
          PROVE  FALSE
      BY <1>1, <3>1 DEF Locks
    <3>2. QED
      BY <3>1 DEF TypeOK
  <2>2. CASE st[t] = "term"
    BY <1>1, <1>2, <1>3, <2>2, PartsStay DEF Given, Giving
  <2>3. CASE st[t] = "work"
    <3>1. /\ Slots(t) = {-1} /\ PartIn(t, -1) = part[t]
          /\ Slots(t)' = {1} /\ PartIn(t, 1)' = part[t]
      BY <1>1, <1>2, <1>3, <1>5, <2>1, <2>3 DEF Slots, Given, PartIn
    <3>2. /\ \A m \in Int : \A p \in Position : Has(t, m, p) <=> m = -1 /\ p \in Positions(part[t])
          /\ \A m \in Int : \A p \in Position : Has(t, m, p)' <=> m = 1 /\ p \in Positions(part[t])
      BY <3>1, <1>2 DEF Has
    <3>3. ASSUME NEW s \in Pool \ {t}, NEW m \in Int, NEW p \in Position
          PROVE  Has(s, m, p)' <=> Has(s, m, p)
      <4>1. Slots(s)' = Slots(s) /\ PartIn(s, m)' = PartIn(s, m)
        BY <1>2, <1>3, <1>4 DEF Slots, Given, PartIn
      <4>2. QED
        BY <4>1 DEF Has, Positions
    <3>4. \A p \in Position : (\E m \in Int : Has(t, m, p)') <=> \E n \in Int : Has(t, n, p)
      BY <3>2
    <3>5. \A m, n \in Int : \A p \in Position : Has(t, m, p)' /\ Has(t, n, p)' => m = n
      BY <3>2
    <3>6. QED
      BY <1>2, <3>3, <3>4, <3>5, PartsMove
  <2>4. QED
    BY <1>1, <2>2, <2>3
<1>12. QED
  BY <1>6, <1>7, <1>8, <1>9, <1>10, <1>11

-----------------------------------------------------------------------------
(* Lists of parts: the positions they have, and that they have each once.  *)
Cell(s, m, p) == m \in 1 .. Len(s) /\ p \in Positions(s[m])
Content(s) == {p \in Position : \E m \in Int : Cell(s, m, p)}
Simple(s) == \A m, n \in Int : \A p \in Position : Cell(s, m, p) /\ Cell(s, n, p) => m = n

LEMMA PushedParts ==
  ASSUME NEW q \in Part, NEW s \in Seq(Part), Simple(s), Positions(q) \cap Content(s) = {}
  PROVE  /\ Pushed(q, s) \in Seq(Part) /\ Simple(Pushed(q, s))
         /\ Content(Pushed(q, s)) = Positions(q) \cup Content(s)
<1>1. CASE Empty(q)
  <2>1. Positions(q) = {}
    BY <1>1 DEF Empty, Size, Part, Positions
  <2>2. QED
    BY <1>1, <2>1 DEF Pushed
<1>2. CASE ~Empty(q)
  <2> DEFINE u == <<q>> \o s
  <2>1. /\ Pushed(q, s) = u /\ u \in Seq(Part) /\ Len(u) = Len(s) + 1 /\ u[1] = q
        /\ \A m \in 2 .. Len(s) + 1 : u[m] = s[m - 1]
    BY <1>2 DEF Pushed
  <2> HIDE DEF u
  <2>2. \A m \in Int : \A p \in Position :
          Cell(u, m, p) <=> (m = 1 /\ p \in Positions(q)) \/ (m >= 2 /\ Cell(s, m - 1, p))
    BY <2>1 DEF Cell
  <2>3. Positions(q) \subseteq Position
    BY InPart DEF Positions
  <2>4. Content(u) = Positions(q) \cup Content(s)
    <3>1. ASSUME NEW p \in Content(u)
          PROVE  p \in Positions(q) \cup Content(s)
      BY <3>1, <2>2 DEF Content
    <3>2. ASSUME NEW p \in Positions(q)
          PROVE  p \in Content(u)
      <4>1. Cell(u, 1, p) /\ p \in Position
        BY <2>2, <2>3
      <4>2. QED
        BY <4>1 DEF Content
    <3>3. ASSUME NEW p \in Content(s)
          PROVE  p \in Content(u)
      <4>1. PICK m \in Int : Cell(s, m, p) /\ m >= 1
        BY DEF Content, Cell
      <4>2. Cell(u, m + 1, p) /\ p \in Position
        <5>1. m + 1 >= 2 /\ (m + 1) - 1 = m /\ m + 1 \in Int
          BY <4>1
        <5>2. QED
          BY <5>1, <4>1, <2>2 DEF Content
      <4>3. QED
        BY <4>2 DEF Content
    <3>4. QED
      BY <3>1, <3>2, <3>3
  <2>5. Simple(u)
    <3> SUFFICES ASSUME NEW m \in Int, NEW n \in Int, NEW p \in Position, Cell(u, m, p), Cell(u, n, p)
                 PROVE  m = n
      BY DEF Simple
    <3>1. CASE m = 1 /\ p \in Positions(q)
      <4>1. p \notin Content(s)
        BY <3>1
      <4>2. QED
        BY <4>1, <3>1, <2>2 DEF Content
    <3>2. CASE m >= 2 /\ Cell(s, m - 1, p)
      <4>1. p \in Content(s)
        BY <3>2 DEF Content
      <4>2. n >= 2 /\ Cell(s, n - 1, p)
        BY <4>1, <2>2
      <4>3. m - 1 = n - 1
        BY <3>2, <4>2 DEF Simple
      <4>4. QED
        BY <4>3
    <3>3. QED
      BY <2>2, <3>1, <3>2
  <2>6. QED
    BY <2>1, <2>4, <2>5
<1>3. QED
  BY <1>1, <1>2

LEMMA TailParts ==
  ASSUME NEW s \in Seq(Part), s # <<>>, Simple(s)
  PROVE  /\ Head(s) \in Part /\ Tail(s) \in Seq(Part) /\ Simple(Tail(s))
         /\ Positions(Head(s)) \subseteq Content(s)
         /\ Content(Tail(s)) = Content(s) \ Positions(Head(s))
<1>1. /\ Head(s) = s[1] /\ s[1] \in Part /\ Tail(s) \in Seq(Part) /\ Len(Tail(s)) = Len(s) - 1
      /\ Len(s) \in Nat /\ Len(s) >= 1 /\ \A m \in 1 .. Len(s) - 1 : Tail(s)[m] = s[m + 1]
  OBVIOUS
<1>2. /\ \A p \in Position : Cell(s, 1, p) <=> p \in Positions(Head(s))
      /\ \A m \in Int : \A p \in Position : Cell(Tail(s), m, p) <=> m >= 1 /\ Cell(s, m + 1, p)
  BY <1>1 DEF Cell
<1>3. Positions(Head(s)) \subseteq Position
  BY <1>1, InPart DEF Positions
<1>4. Simple(Tail(s))
  <2> SUFFICES ASSUME NEW m \in Int, NEW n \in Int, NEW p \in Position,
                      Cell(s, m + 1, p), Cell(s, n + 1, p)
               PROVE  m = n
    BY <1>2 DEF Simple
  <2>1. m + 1 = n + 1
    BY DEF Simple
  <2>2. QED
    BY <2>1
<1>5. Positions(Head(s)) \subseteq Content(s)
  BY <1>2, <1>3 DEF Content
<1>6. ASSUME NEW p \in Position
      PROVE  p \in Content(Tail(s)) <=> p \in Content(s) /\ p \notin Positions(Head(s))
  <2>1. ASSUME p \in Content(Tail(s))
        PROVE  p \in Content(s) /\ p \notin Positions(Head(s))
    <3>1. PICK m \in Int : m >= 1 /\ Cell(s, m + 1, p)
      BY <2>1, <1>2 DEF Content
    <3>2. m + 1 \in Int /\ m + 1 # 1
      BY <3>1
    <3>3. ~Cell(s, 1, p)
      BY <3>1, <3>2 DEF Simple
    <3>4. QED
      BY <1>2, <3>1, <3>2, <3>3 DEF Content
  <2>2. ASSUME p \in Content(s), p \notin Positions(Head(s))
        PROVE  p \in Content(Tail(s))
    <3>1. PICK m \in Int : Cell(s, m, p) /\ m >= 1
      BY <2>2 DEF Content, Cell
    <3>2. m - 1 >= 1 /\ m - 1 \in Int /\ (m - 1) + 1 = m
      BY <3>1, <2>2, <1>2
    <3>3. Cell(Tail(s), m - 1, p)
      BY <1>2, <3>1, <3>2
    <3>4. QED
      BY <3>2, <3>3 DEF Content
  <2>3. QED
    BY <2>1, <2>2
<1>7. Content(Tail(s)) = Content(s) \ Positions(Head(s))
  BY <1>6 DEF Content
<1>8. QED
  BY <1>1, <1>4, <1>5, <1>7

(* A thread in qsort_algo has its list, and what it would give away.       *)
Listed ==
  \A t \in Pool : \A m \in Int : \A p \in Position :
    pc[t] \in Giving \cup {"algo"} /\ todo[t] \in Seq(Part) =>
      (Has(t, m, p) <=> \/ Cell(todo[t], m, p)
                        \/ m = 0 /\ pc[t] \in Giving /\ p \in Positions(left[t]))

LEMMA Lists == Listed
BY DEF Listed, Has, Slots, Given, PartIn, Cell, Giving

LEMMA ListsNext == Listed'
BY Lists, PTL

Held(t) == Content(todo[t]) \cup (IF pc[t] \in Giving THEN Positions(left[t]) ELSE {})

LEMMA HeldOnce ==
  ASSUME TypeOK, Once, NEW t \in Pool, pc[t] \in Giving \cup {"algo"}
  PROVE  /\ Simple(todo[t]) /\ Held(t) \subseteq Position
         /\ pc[t] \in Giving => Content(todo[t]) \cap Positions(left[t]) = {}
         /\ \A p \in Position : p \in Held(t) <=> \E m \in Int : Has(t, m, p)
<1>1. /\ todo[t] \in Seq(Part) /\ left[t] \in Part
      /\ Positions(left[t]) \subseteq Position
  <2>1. todo[t] \in Seq(Part) /\ left[t] \in Part
    BY DEF TypeOK
  <2>2. QED
    BY <2>1, InPart DEF Positions
<1>2. \A m \in Int : \A p \in Position :
        Has(t, m, p) <=> \/ Cell(todo[t], m, p)
                         \/ m = 0 /\ pc[t] \in Giving /\ p \in Positions(left[t])
  BY <1>1, Lists DEF Listed
<1>3. Simple(todo[t])
  BY <1>2 DEF Simple, Once
<1>4. pc[t] \in Giving => Content(todo[t]) \cap Positions(left[t]) = {}
  <2> SUFFICES ASSUME pc[t] \in Giving, NEW p \in Position, NEW m \in Int,
                      Cell(todo[t], m, p), p \in Positions(left[t])
               PROVE  FALSE
    BY DEF Content
  <2>1. Has(t, m, p) /\ Has(t, 0, p) /\ m # 0
    BY <1>2 DEF Cell
  <2>2. QED
    BY <2>1 DEF Once
<1>5. Held(t) \subseteq Position
  BY <1>1 DEF Held, Content
<1>6. ASSUME NEW p \in Position
      PROVE  p \in Held(t) <=> \E m \in Int : Has(t, m, p)
  <2>1. ASSUME NEW m \in Int, Has(t, m, p)
        PROVE  p \in Held(t)
    BY <2>1, <1>2 DEF Held, Content
  <2>2. ASSUME p \in Held(t)
        PROVE  \E m \in Int : Has(t, m, p)
    <3>1. CASE p \in Content(todo[t])
      BY <3>1, <1>2 DEF Content
    <3>2. CASE pc[t] \in Giving /\ p \in Positions(left[t])
      BY <3>2, <1>2
    <3>3. QED
      BY <2>2, <3>1, <3>2 DEF Held
  <2>3. QED
    BY <2>1, <2>2
<1>7. QED
  BY <1>3, <1>4, <1>5, <1>6

(* A step of qsort_algo makes the positions D final.                       *)
LEMMA Within ==
  ASSUME IInv, TypeOK', NEW t \in Pool, NEW D \in SUBSET Held(t),
         pc[t] \in {"algo", "allocate"}, pc'[t] \in {"algo", "allocate"},
         UNCHANGED <<main, islot, slot, bailout, destroyed, st, mtx_st, waiting, mtx_al,
                     idlethreads, to>>,
         \A s \in Pool \ {t} : /\ pc'[s] = pc[s] /\ todo'[s] = todo[s]
                               /\ left'[s] = left[s] /\ part'[s] = part[s],
         sorted' = sorted \cup D, Held(t)' = Held(t) \ D, Simple(todo'[t]),
         pc'[t] \in Giving => Content(todo'[t]) \cap Positions(left'[t]) = {}
  PROVE  IInv'
<1> USE DEF IInv
<1>1. ~bailout /\ idlethreads < maxthreads /\ st[t] = "work"
  BY DEF TypeOK, NoPool, Ending, Anyway
<1>2. Created'
  BY <1>1, HeldOnce DEF Created, Giving
<1>3. Anyway' /\ NoPool' /\ Ending'
  BY <1>1 DEF Anyway, NoPool, Ending
<1>4. Sorting'
  <2>1. Free' = Free
    BY DEF Free
  <2>2. QED
    BY <1>1, <2>1 DEF Sorting
<1>5. Locks'
  BY DEF Locks
<1>6. \A p \in Position : p \in Held(t) <=> \E m \in Int : Has(t, m, p)
  BY HeldOnce DEF Giving
<1>7. /\ \A m, n \in Int : \A p \in Position : Has(t, m, p)' /\ Has(t, n, p)' => m = n
      /\ \A p \in Position : p \in Held(t)' <=> \E m \in Int : Has(t, m, p)'
  <2>1. \A m \in Int : \A p \in Position :
          Has(t, m, p)' <=> \/ Cell(todo'[t], m, p)
                            \/ m = 0 /\ pc'[t] \in Giving /\ p \in Positions(left'[t])
    BY ListsNext DEF Listed, TypeOK, Giving
  <2>2. \A m \in Int : \A p \in Position :
          Cell(todo'[t], m, p) => p \in Content(todo'[t]) /\ m # 0
    BY DEF Content, Cell
  <2>3. \A m, n \in Int : \A p \in Position : Has(t, m, p)' /\ Has(t, n, p)' => m = n
    BY <2>1, <2>2 DEF Simple
  <2>4. ASSUME NEW p \in Position
        PROVE  p \in Held(t)' <=> \E m \in Int : Has(t, m, p)'
    <3>1. ASSUME NEW m \in Int, Has(t, m, p)'
          PROVE  p \in Held(t)'
      BY <3>1, <2>1, <2>2 DEF Held
    <3>2. ASSUME p \in Held(t)'
          PROVE  \E m \in Int : Has(t, m, p)'
      <4>1. CASE p \in Content(todo'[t])
        BY <4>1, <2>1 DEF Content
      <4>2. CASE pc'[t] \in Giving /\ p \in Positions(left'[t])
        BY <4>2, <2>1
      <4>3. QED
        BY <3>2, <4>1, <4>2 DEF Held
    <3>3. QED
      BY <3>1, <3>2
  <2>5. QED
    BY <2>3, <2>4
<1>8. ASSUME NEW s \in Pool \ {t}, NEW m \in Int, NEW p \in Position
      PROVE  Has(s, m, p)' <=> Has(s, m, p)
  <2>1. Slots(s)' = Slots(s) /\ PartIn(s, m)' = PartIn(s, m)
    BY DEF Slots, Given, PartIn
  <2>2. QED
    BY <2>1 DEF Has, Positions
<1>9. Covered' /\ Once'
  <2>1. D \subseteq Position
    BY HeldOnce DEF Giving
  <2>2. \A p \in D : \E n \in Int : Has(t, n, p)
    BY <1>6, <2>1
  <2>3. \A m \in Int : \A p \in Position : Has(t, m, p)' => p \notin D /\ \E n \in Int : Has(t, n, p)
    BY <1>6, <1>7
  <2>4. \A p \in Position \ D : (\E n \in Int : Has(t, n, p)) => \E m \in Int : Has(t, m, p)'
    BY <1>6, <1>7
  <2>5. QED
    BY <1>7, <1>8, <2>1, <2>2, <2>3, <2>4, PartsOfOne
<1>10. QED
  BY <1>2, <1>3, <1>4, <1>5, <1>9

LEMMA InsertionSort ==
  ASSUME IInv, NEW t \in Pool, insertion_sort(t)
  PROVE  IInv'
<1>1. /\ pc[t] = "algo" /\ todo[t] # <<>>
      /\ todo' = [todo EXCEPT ![t] = Tail(todo[t])]
      /\ sorted' = sorted \cup Positions(Head(todo[t]))
      /\ UNCHANGED <<main, islot, slot, bailout, destroyed, st, part, mtx_st, waiting, mtx_al,
                     idlethreads, left, to, pc>>
  BY DEF insertion_sort, mainVars, poolVars, Set
<1>2. /\ Simple(todo[t]) /\ Held(t) = Content(todo[t]) /\ Held(t) \subseteq Position
      /\ todo[t] \in Seq(Part)
  BY <1>1, HeldOnce DEF IInv, TypeOK, Held, Giving
<1>3. /\ Tail(todo[t]) \in Seq(Part) /\ Simple(Tail(todo[t]))
      /\ Positions(Head(todo[t])) \subseteq Content(todo[t])
      /\ Content(Tail(todo[t])) = Content(todo[t]) \ Positions(Head(todo[t]))
  BY <1>1, <1>2, TailParts
<1>4. todo'[t] = Tail(todo[t]) /\ \A s \in Pool \ {t} : todo'[s] = todo[s]
  BY <1>1 DEF IInv, TypeOK
<1>5. TypeOK'
  BY <1>1, <1>2, <1>3 DEF IInv, TypeOK
<1>6. Held(t)' = Held(t) \ Positions(Head(todo[t]))
  BY <1>1, <1>2, <1>3, <1>4 DEF Held, Giving, Content, Cell, Positions
<1>7. QED
  BY <1>1, <1>2, <1>3, <1>4, <1>5, <1>6, Within DEF Giving

LEMMA Sides ==
  ASSUME NEW h \in Part, NEW nl \in Int, NEW nr \in Int, nl >= 0, nr >= 0, nl + nr < h[2] - h[1]
  PROVE  LET l == <<h[1], h[1] + nl>>
             r == <<h[2] - nr, h[2]>>
             D == l[2] .. r[1] - 1
         IN  /\ l \in Part /\ r \in Part
             /\ Positions(l) \cup Positions(r) \cup D = Positions(h)
             /\ Positions(l) \cap Positions(r) = {}
             /\ Positions(l) \cap D = {} /\ Positions(r) \cap D = {}
<1> PICK a \in 0 .. ELEMS, b \in 0 .. ELEMS : h = <<a, b>> /\ a <= b
  BY DEF Part
<1>1. h[1] = a /\ h[2] = b /\ nl + nr < b - a
  OBVIOUS
<1> DEFINE l == <<a, a + nl>>
           r == <<b - nr, b>>
           D == a + nl .. b - nr - 1
<1>2. l \in Part /\ r \in Part
  BY <1>1 DEF Part
<1>3. /\ Positions(l) = a .. a + nl - 1 /\ Positions(r) = b - nr .. b - 1
      /\ Positions(h) = a .. b - 1
  BY DEF Positions
<1>4. /\ (a .. a + nl - 1) \cup (b - nr .. b - 1) \cup D = a .. b - 1
      /\ (a .. a + nl - 1) \cap (b - nr .. b - 1) = {}
      /\ (a .. a + nl - 1) \cap D = {} /\ (b - nr .. b - 1) \cap D = {}
  BY <1>1
<1>5. QED
  BY <1>1, <1>2, <1>3, <1>4

(* What is between the two sides is final.                                 *)
LEMMA Split ==
  ASSUME IInv, NEW t \in Pool, split(t)
  PROVE  IInv'
<1> DEFINE h == Head(todo[t])
<1>1. /\ pc[t] = "algo" /\ todo[t] # <<>> /\ Size(h) >= FEW
      /\ UNCHANGED <<main, islot, slot, bailout, destroyed, st, mtx_st, waiting, mtx_al,
                     idlethreads, to>>
  BY DEF split, mainVars
<1>2. /\ Simple(todo[t]) /\ Held(t) = Content(todo[t]) /\ Held(t) \subseteq Position
      /\ todo \in [Pool -> Seq(Part)] /\ left \in [Pool -> Part] /\ part \in [Pool -> Part]
      /\ pc \in [Pool -> {"none", "again", "awake", "algo", "allocate", "allocate_st", "give",
                      "terminate", "exit", "failed"}]
  BY <1>1, HeldOnce DEF IInv, TypeOK, Held, Giving
<1>3. /\ h \in Part /\ Tail(todo[t]) \in Seq(Part) /\ Simple(Tail(todo[t]))
      /\ Positions(h) \subseteq Content(todo[t])
      /\ Content(Tail(todo[t])) = Content(todo[t]) \ Positions(h)
  BY <1>1, <1>2, TailParts
<1> HIDE DEF h
<1>4. PICK nl \in 0 .. Size(h) - 1, nr \in 0 .. Size(h) - 1 :
        /\ nl + nr < Size(h)
        /\ LET l == <<h[1], h[1] + nl>>
               r == <<h[2] - nr, h[2]>>
               rest == Pushed(r, Tail(todo[t]))
           IN  /\ sorted' = sorted \cup (l[2] .. r[1] - 1)
               /\ \/ /\ nl > forkelem /\ nr > forkelem
                     /\ Step(t, "algo", "allocate")
                     /\ left' = Set(left, t, l)
                     /\ todo' = Set(todo, t, rest)
                     /\ UNCHANGED part
                  \/ /\ ~(nl > forkelem /\ nr > forkelem)
                     /\ recurse(t, l, rest)
                     /\ UNCHANGED <<pc, left>>
  BY DEF split, h
<1> DEFINE l == <<h[1], h[1] + nl>>
           r == <<h[2] - nr, h[2]>>
           rest == Pushed(r, Tail(todo[t]))
           D == l[2] .. r[1] - 1
<1>5. /\ l \in Part /\ r \in Part /\ Size(h) = h[2] - h[1]
      /\ Positions(l) \cup Positions(r) \cup D = Positions(h)
      /\ Positions(l) \cap Positions(r) = {} /\ Positions(l) \cap D = {} /\ Positions(r) \cap D = {}
  <2>1. /\ h[1] \in Int /\ h[2] \in Int /\ 0 <= h[1] /\ h[1] <= h[2] /\ h[2] <= ELEMS
        /\ Size(h) = h[2] - h[1] /\ nl \in Int /\ nr \in Int /\ nl >= 0 /\ nr >= 0
        /\ nl + nr < h[2] - h[1]
    BY <1>1, <1>3, <1>4 DEF Part, Size
  <2>2. QED
    BY <2>1, <1>3, Sides
<1>6. /\ sorted' = sorted \cup D
      /\ \/ /\ Step(t, "algo", "allocate") /\ left' = [left EXCEPT ![t] = l]
            /\ todo' = [todo EXCEPT ![t] = rest] /\ part' = part
         \/ /\ todo' = [todo EXCEPT ![t] = Pushed(l, rest)]
            /\ part' = (IF Empty(l) THEN part ELSE [part EXCEPT ![t] = l])
            /\ pc' = pc /\ left' = left
  BY <1>4 DEF recurse, Set
<1> HIDE DEF l, r, D
<1>7. /\ rest \in Seq(Part) /\ Simple(rest)
      /\ Content(rest) = Positions(r) \cup Content(Tail(todo[t]))
  BY <1>3, <1>5, PushedParts
<1> HIDE DEF rest
<1>8. Positions(l) \cap Content(rest) = {}
  BY <1>3, <1>5, <1>7
<1>9. /\ Pushed(l, rest) \in Seq(Part) /\ Simple(Pushed(l, rest))
      /\ Content(Pushed(l, rest)) = Positions(l) \cup Content(rest)
  BY <1>5, <1>7, <1>8, PushedParts
<1>10. /\ Positions(l) \cup Content(rest) = Held(t) \ D /\ D \in SUBSET Held(t)
       /\ sorted \cup D \subseteq Position
  BY <1>2, <1>3, <1>5, <1>7 DEF IInv, TypeOK
<1>11. CASE /\ Step(t, "algo", "allocate") /\ left' = [left EXCEPT ![t] = l]
            /\ todo' = [todo EXCEPT ![t] = rest] /\ part' = part
  <2>1. /\ pc'[t] = "allocate" /\ todo'[t] = rest /\ left'[t] = l
        /\ \A s \in Pool \ {t} : /\ pc'[s] = pc[s] /\ todo'[s] = todo[s]
                                 /\ left'[s] = left[s] /\ part'[s] = part[s]
    BY <1>2, <1>11 DEF Step
  <2>2. TypeOK'
    BY <1>1, <1>2, <1>5, <1>6, <1>7, <1>10, <1>11 DEF IInv, TypeOK, Step
  <2>3. Held(t)' = Held(t) \ D
    <3>1. Held(t)' = Content(rest) \cup Positions(l)
      BY <2>1 DEF Held, Giving, Content, Cell, Positions
    <3>2. QED
      BY <3>1, <1>10
  <2>4. pc'[t] \in Giving => Content(todo'[t]) \cap Positions(left'[t]) = {}
    BY <1>8, <2>1
  <2>5. QED
    BY <1>1, <1>6, <1>7, <1>10, <2>1, <2>2, <2>3, <2>4, Within
<1>12. CASE /\ todo' = [todo EXCEPT ![t] = Pushed(l, rest)]
            /\ part' = (IF Empty(l) THEN part ELSE [part EXCEPT ![t] = l])
            /\ pc' = pc /\ left' = left
  <2>1. /\ pc'[t] = "algo" /\ todo'[t] = Pushed(l, rest) /\ part' \in [Pool -> Part]
        /\ \A s \in Pool \ {t} : /\ pc'[s] = pc[s] /\ todo'[s] = todo[s]
                                 /\ left'[s] = left[s] /\ part'[s] = part[s]
    BY <1>1, <1>2, <1>5, <1>12
  <2>2. TypeOK'
    BY <1>1, <1>2, <1>6, <1>9, <1>10, <1>12, <2>1 DEF IInv, TypeOK
  <2>3. Held(t)' = Held(t) \ D
    <3>1. Held(t)' = Content(Pushed(l, rest))
      BY <2>1 DEF Held, Giving, Content, Cell, Positions
    <3>2. QED
      BY <3>1, <1>9, <1>10
  <2>4. pc'[t] \notin Giving
    BY <2>1 DEF Giving
  <2>5. QED
    BY <1>1, <1>6, <1>9, <1>10, <2>1, <2>2, <2>3, <2>4, Within
<1>13. QED
  BY <1>6, <1>11, <1>12

(* Nobody is idle: the left side is sorted first.                          *)
LEMMA AllocateNone ==
  ASSUME IInv, NEW t \in Pool, allocate(t), Idle = {}
  PROVE  IInv'
<1>1. /\ pc[t] = "allocate" /\ Step(t, "allocate", "algo")
      /\ todo' = [todo EXCEPT ![t] = Pushed(left[t], todo[t])]
      /\ part' = (IF Empty(left[t]) THEN part ELSE [part EXCEPT ![t] = left[t]])
      /\ left' = [left EXCEPT ![t] = <<0, 0>>]
      /\ UNCHANGED <<main, islot, slot, bailout, destroyed, st, mtx_st, waiting, mtx_al,
                     idlethreads, to, sorted>>
  BY DEF allocate, mainVars, recurse, Set
<1>2. /\ Simple(todo[t]) /\ Held(t) = Content(todo[t]) \cup Positions(left[t])
      /\ Content(todo[t]) \cap Positions(left[t]) = {}
      /\ todo \in [Pool -> Seq(Part)] /\ left \in [Pool -> Part] /\ part \in [Pool -> Part]
      /\ pc \in [Pool -> {"none", "again", "awake", "algo", "allocate", "allocate_st", "give",
                      "terminate", "exit", "failed"}]
  BY <1>1, HeldOnce DEF IInv, TypeOK, Held, Giving
<1>3. /\ Pushed(left[t], todo[t]) \in Seq(Part) /\ Simple(Pushed(left[t], todo[t]))
      /\ Content(Pushed(left[t], todo[t])) = Held(t)
  BY <1>2, PushedParts
<1>4. /\ pc'[t] = "algo" /\ todo'[t] = Pushed(left[t], todo[t]) /\ part' \in [Pool -> Part]
      /\ \A s \in Pool \ {t} : /\ pc'[s] = pc[s] /\ todo'[s] = todo[s]
                               /\ left'[s] = left[s] /\ part'[s] = part[s]
  BY <1>1, <1>2 DEF Step
<1>5. TypeOK'
  <2>1. <<0, 0>> \in Part
    BY DEF Part
  <2>2. /\ todo' \in [Pool -> Seq(Part)] /\ left' \in [Pool -> Part]
        /\ pc' \in [Pool -> {"none", "again", "awake", "algo", "allocate", "allocate_st", "give",
                      "terminate", "exit", "failed"}]
    BY <1>1, <1>2, <1>3, <2>1 DEF Step
  <2>3. QED
    BY <1>1, <1>4, <2>2 DEF IInv, TypeOK
<1>6. Held(t)' = Held(t)
  <2>1. Held(t)' = Content(Pushed(left[t], todo[t]))
    BY <1>4 DEF Held, Giving, Content, Cell, Positions
  <2>2. QED
    BY <2>1, <1>3
<1>7. pc'[t] \notin Giving
  BY <1>4 DEF Giving
<1> DEFINE D == {}
<1>8. D \in SUBSET Held(t) /\ sorted' = sorted \cup D /\ Held(t)' = Held(t) \ D
  BY <1>1, <1>6
<1> HIDE DEF D
<1>9. /\ Simple(todo'[t]) /\ pc[t] \in {"algo", "allocate"} /\ pc'[t] \in {"algo", "allocate"}
      /\ UNCHANGED <<main, islot, slot, bailout, destroyed, st, mtx_st, waiting, mtx_al,
                     idlethreads, to>>
  BY <1>1, <1>3, <1>4
<1>10. QED
  BY <1>4, <1>5, <1>7, <1>8, <1>9, Within

(* A thread in qsort_algo works for a pool that has not ended.             *)
LEMMA Busy ==
  ASSUME IInv, NEW t \in Pool, pc[t] \in Giving \cup {"algo"}
  PROVE  ~bailout /\ idlethreads < maxthreads /\ st[t] = "work"
BY DEF IInv, TypeOK, NoPool, Ending, Anyway, Giving

(* An idle thread is chosen, and no longer counted.                        *)
LEMMA AllocateOne ==
  ASSUME IInv, NEW t \in Pool, allocate(t), Idle # {}
  PROVE  IInv'
<1> USE DEF IInv
<1>1. PICK q \in Idle : to' = [to EXCEPT ![t] = q]
  <2>1. Idle \in SUBSET Nat
    BY DEF Idle, Pool
  <2>2. \E s \in Idle : \A r \in Idle : s <= r
    BY <2>1, Least
  <2>3. (CHOOSE s \in Idle : \A r \in Idle : s <= r) \in Idle
    BY <2>2
  <2>4. QED
    BY <2>3 DEF allocate, Set
<1>2. /\ mtx_al = NULL /\ mtx_al' = t /\ idlethreads' = idlethreads - 1
      /\ pc[t] = "allocate" /\ Step(t, "allocate", "allocate_st")
      /\ UNCHANGED <<main, islot, slot, bailout, destroyed, st, part, mtx_st, waiting,
                     todo, left, sorted>>
  BY DEF allocate, mainVars
<1>3. /\ \A s \in Pool : /\ pc'[s] = IF s = t THEN "allocate_st" ELSE pc[s]
                         /\ to'[s] = IF s = t THEN q ELSE to[s]
      /\ pc' \in [Pool -> {"none", "again", "awake", "algo", "allocate", "allocate_st",
                           "give", "terminate", "exit", "failed"}]
      /\ to' \in [Pool -> 0 .. maxthreads]
  <2>1. to' \in [Pool -> 0 .. maxthreads] /\ \A s \in Pool : to'[s] = IF s = t THEN q ELSE to[s]
    <3>1. to \in [Pool -> 0 .. maxthreads]
      BY DEF TypeOK
    <3>2. q \in 0 .. maxthreads
      BY DEF Idle, Pool
    <3>3. QED
      BY <1>1, <3>1, <3>2
  <2>2. QED
    BY <1>2, <2>1, Steps
<1>4. /\ ~bailout /\ idlethreads < maxthreads /\ st[t] = "work"
      /\ q \in Pool /\ st[q] = "idle" /\ pc[q] = "again" /\ q # t
  <2>1. ~bailout /\ idlethreads < maxthreads /\ st[t] = "work"
    BY <1>2, Busy DEF Giving
  <2>2. QED
    BY <2>1, <1>1 DEF Sorting, Idle
<1>5. \A s \in Pool : pc[s] \notin {"allocate_st", "terminate"}
  BY <1>2, PoolFacts DEF Locks
<1>6. idlethreads = Cardinality(Free) /\ Free' = Free \ {q} /\ q \in Free
  <2>1. q \in Free
    BY <1>4, <1>5 DEF Free
  <2>2. Free' = Free \ {q}
    BY <1>2, <1>3, <1>5 DEF Free
  <2>3. QED
    BY <2>1, <2>2, <1>4 DEF Sorting
<1>7. Cardinality(Free') = idlethreads - 1 /\ idlethreads' \in 0 .. maxthreads - 1
  <2>1. Cardinality(Free') = idlethreads - 1
    BY <1>6, FreeFacts, FS_RemoveElement
  <2>2. IsFiniteSet(Free')
    BY <1>6, FreeFacts, FS_RemoveElement
  <2>3. Cardinality(Free') \in Nat
    BY <2>2, FS_CardinalityType
  <2>4. QED
    BY <2>1, <2>3, <1>2, <1>4 DEF TypeOK
<1>8. TypeOK'
  BY <1>2, <1>3, <1>7 DEF TypeOK
<1>9. Created' /\ Anyway' /\ NoPool' /\ Ending'
  <2>1. Created' /\ NoPool'
    BY <1>2, <1>3, <1>4 DEF Created, NoPool
  <2>2. Anyway'
    BY <1>2, <1>3, <1>4 DEF Anyway
  <2>3. Ending'
    BY <1>7 DEF Ending
  <2>4. QED
    BY <2>1, <2>2, <2>3
<1>10. Sorting'
  BY <1>2, <1>3, <1>4, <1>7 DEF Sorting
<1>11. Locks'
  <2>1. \A s \in Pool : mtx_al' = s <=> pc'[s] \in {"allocate_st", "terminate"}
    BY <1>2, <1>3, <1>5
  <2>2. \A r, s \in Pool : mtx_st'[r] = s <=> pc'[s] = "give" /\ to'[s] = r
    BY <1>2, <1>3 DEF Locks
  <2>3. ASSUME NEW s \in Pool, pc'[s] \in {"allocate_st", "give"}
        PROVE  /\ to'[s] \in Pool /\ pc'[to'[s]] = "again"
               /\ st'[to'[s]] = IF pc'[s] = "give" THEN "work" ELSE "idle"
    <3>1. CASE s = t
      BY <3>1, <1>2, <1>3, <1>4
    <3>2. CASE s # t
      <4>1. pc[s] = pc'[s] /\ to'[s] = to[s] /\ to[s] \in Pool /\ pc[to[s]] = "again" /\ to[s] # t
        BY <2>3, <3>2, <1>2, <1>3 DEF Locks
      <4>2. QED
        BY <2>3, <4>1, <1>2, <1>3 DEF Locks
    <3>3. QED
      BY <3>1, <3>2
  <2>4. QED
    BY <2>1, <2>2, <2>3 DEF Locks
<1>12. Covered' /\ Once'
  BY <1>2, <1>3, PartsStay DEF Given, Giving
<1>13. QED
  BY <1>8, <1>9, <1>10, <1>11, <1>12

(* It is told to work, and kept from looking at its part.                  *)
LEMMA AllocateSt ==
  ASSUME IInv, NEW t \in Pool, allocate_st(t)
  PROVE  IInv'
<1> USE DEF IInv
<1> DEFINE q == to[t]
<1>1. /\ pc[t] = "allocate_st" /\ Step(t, "allocate_st", "give")
      /\ mtx_st[q] = NULL /\ mtx_al' = NULL
      /\ mtx_st' = [mtx_st EXCEPT ![q] = t] /\ st' = [st EXCEPT ![q] = "work"]
      /\ UNCHANGED <<main, islot, slot, bailout, destroyed, part, waiting, idlethreads,
                     todo, left, to, sorted>>
  BY DEF allocate_st, mainVars, localVars, Step, Set
<1>2. /\ ~bailout /\ idlethreads < maxthreads /\ st[t] = "work" /\ mtx_al = t
      /\ q \in Pool /\ st[q] = "idle" /\ pc[q] = "again" /\ q # t
  <2>1. ~bailout /\ idlethreads < maxthreads /\ st[t] = "work"
    BY <1>1, Busy DEF Giving
  <2>2. QED
    BY <2>1, <1>1 DEF Locks
<1> HIDE DEF q
<1>3. /\ \A s \in Pool : /\ pc'[s] = IF s = t THEN "give" ELSE pc[s]
                         /\ mtx_st'[s] = IF s = q THEN t ELSE mtx_st[s]
                         /\ st'[s] = IF s = q THEN "work" ELSE st[s]
      /\ pc' \in [Pool -> {"none", "again", "awake", "algo", "allocate", "allocate_st",
                           "give", "terminate", "exit", "failed"}]
      /\ mtx_st' \in [Pool -> Pool \cup {NULL}] /\ st' \in [Pool -> {"idle", "work", "term"}]
  <2>1. /\ \A s \in Pool : /\ mtx_st'[s] = IF s = q THEN t ELSE mtx_st[s]
                           /\ st'[s] = IF s = q THEN "work" ELSE st[s]
        /\ mtx_st' \in [Pool -> Pool \cup {NULL}] /\ st' \in [Pool -> {"idle", "work", "term"}]
    BY <1>1, <1>2 DEF TypeOK
  <2>2. QED
    BY <1>1, <2>1, Steps
<1>4. \A s \in Pool \ {t} : pc[s] \notin {"allocate_st", "terminate"}
  BY <1>2 DEF Locks
<1>5. \A s \in Pool \ {t} : pc[s] = "give" => to[s] # q
  BY <1>2 DEF Locks
<1>6. TypeOK'
  BY <1>1, <1>3 DEF TypeOK
<1>7. Created' /\ Anyway' /\ NoPool' /\ Ending'
  BY <1>1, <1>2, <1>3 DEF Created, Anyway, NoPool, Ending
<1>8. Sorting'
  <2>1. Free' = Free
    BY <1>1, <1>2, <1>3, <1>4 DEF Free, q
  <2>2. QED
    BY <1>1, <1>2, <1>3, <2>1 DEF Sorting
<1>9. Locks'
  <2>1. \A s \in Pool : mtx_al' = s <=> pc'[s] \in {"allocate_st", "terminate"}
    BY <1>1, <1>3, <1>4, PoolFacts
  <2>2. ASSUME NEW r \in Pool, NEW s \in Pool
        PROVE  mtx_st'[r] = s <=> pc'[s] = "give" /\ to'[s] = r
    <3>1. CASE r = q
      BY <3>1, <1>1, <1>3, <1>5 DEF q
    <3>2. CASE r # q
      BY <3>2, <1>1, <1>3 DEF q, Locks
    <3>3. QED
      BY <3>1, <3>2
  <2>3. ASSUME NEW s \in Pool, pc'[s] \in {"allocate_st", "give"}
        PROVE  /\ to'[s] \in Pool /\ pc'[to'[s]] = "again"
               /\ st'[to'[s]] = IF pc'[s] = "give" THEN "work" ELSE "idle"
    <3>1. CASE s = t
      BY <3>1, <1>1, <1>2, <1>3 DEF q
    <3>2. CASE s # t
      <4>1. pc[s] = "give" /\ pc'[s] = "give" /\ to[s] # q
        BY <2>3, <3>2, <1>3, <1>4, <1>5
      <4>2. to[s] \in Pool /\ pc[to[s]] = "again" /\ st[to[s]] = "work" /\ to[s] # t
        BY <4>1, <1>1 DEF Locks
      <4>3. QED
        BY <4>1, <4>2, <1>1, <1>3
    <3>3. QED
      BY <3>1, <3>2
  <2>4. QED
    BY <2>1, <2>2, <2>3 DEF Locks
<1>10. Covered' /\ Once'
  <2>1. ASSUME NEW s \in Pool
        PROVE  /\ pc'[s] \in Giving <=> pc[s] \in Giving
               /\ Given(s)' <=> Given(s)
    BY <1>1, <1>2, <1>3, PoolFacts DEF Given, Giving
  <2>2. QED
    BY <2>1, <1>1, PartsStay
<1>11. QED
  BY <1>6, <1>7, <1>8, <1>9, <1>10

(* It gets its part.                                                       *)
LEMMA Give ==
  ASSUME IInv, NEW t \in Pool, give(t)
  PROVE  IInv'
<1> USE DEF IInv
<1>0. PICK q \in Pool : q = to[t]
  BY DEF Locks, give, Step
<1>1. /\ pc[t] = "give" /\ Step(t, "give", "algo")
      /\ part' = [part EXCEPT ![q] = left[t]] /\ waiting' = waiting \ {q}
      /\ mtx_st' = [mtx_st EXCEPT ![q] = NULL]
      /\ left' = [left EXCEPT ![t] = <<0, 0>>] /\ to' = [to EXCEPT ![t] = 0]
      /\ UNCHANGED <<main, islot, slot, bailout, destroyed, st, mtx_al, idlethreads,
                     todo, sorted>>
  BY <1>0 DEF give, mainVars, Step, Set, Signal
<1>2. /\ ~bailout /\ idlethreads < maxthreads /\ st[t] = "work"
      /\ q \in Pool /\ st[q] = "work" /\ pc[q] = "again" /\ q # t /\ mtx_st[q] = t
  <2>1. ~bailout /\ idlethreads < maxthreads /\ st[t] = "work"
    BY <1>1, Busy DEF Giving
  <2>2. QED
    BY <2>1, <1>0, <1>1 DEF Locks
<1>3. /\ \A s \in Pool : /\ pc'[s] = IF s = t THEN "algo" ELSE pc[s]
                         /\ mtx_st'[s] = IF s = q THEN NULL ELSE mtx_st[s]
                         /\ part'[s] = IF s = q THEN left[t] ELSE part[s]
                         /\ left'[s] = IF s = t THEN <<0, 0>> ELSE left[s]
                         /\ to'[s] = IF s = t THEN 0 ELSE to[s]
      /\ pc' \in [Pool -> {"none", "again", "awake", "algo", "allocate", "allocate_st",
                           "give", "terminate", "exit", "failed"}]
      /\ mtx_st' \in [Pool -> Pool \cup {NULL}] /\ part' \in [Pool -> Part]
      /\ left' \in [Pool -> Part] /\ to' \in [Pool -> 0 .. maxthreads]
  <2>1. <<0, 0>> \in Part
    BY DEF Part
  <2>2. /\ \A s \in Pool : /\ mtx_st'[s] = IF s = q THEN NULL ELSE mtx_st[s]
                           /\ part'[s] = IF s = q THEN left[t] ELSE part[s]
                           /\ left'[s] = IF s = t THEN <<0, 0>> ELSE left[s]
                           /\ to'[s] = IF s = t THEN 0 ELSE to[s]
        /\ mtx_st' \in [Pool -> Pool \cup {NULL}] /\ part' \in [Pool -> Part]
        /\ left' \in [Pool -> Part] /\ to' \in [Pool -> 0 .. maxthreads]
    BY <1>1, <1>2, <2>1 DEF TypeOK
  <2>3. QED
    BY <1>1, <2>2, Steps
<1>4. \A s \in Pool \ {t} : pc[s] = "give" => to[s] # q
  BY <1>2 DEF Locks
<1>5. TypeOK'
  BY <1>1, <1>3 DEF TypeOK
<1>6. Created' /\ Anyway' /\ NoPool' /\ Ending'
  <2>1. Created'
    BY <1>1, <1>2, <1>3 DEF Created
  <2>2. Anyway'
    BY <1>1, <1>2, <1>3 DEF Anyway
  <2>3. NoPool' /\ Ending'
    BY <1>1, <1>2 DEF NoPool, Ending
  <2>4. QED
    BY <2>1, <2>2, <2>3
<1>7. Sorting'
  <2>1. Free' = Free
    BY <1>1, <1>2, <1>3 DEF Free
  <2>2. QED
    BY <1>1, <1>2, <1>3, <2>1 DEF Sorting
<1>8. Locks'
  <2>1. \A s \in Pool : mtx_al' = s <=> pc'[s] \in {"allocate_st", "terminate"}
    BY <1>1, <1>3 DEF Locks
  <2>2. ASSUME NEW r \in Pool, NEW s \in Pool
        PROVE  mtx_st'[r] = s <=> pc'[s] = "give" /\ to'[s] = r
    <3>1. CASE r = q
      BY <3>1, <1>0, <1>1, <1>3, <1>4, PoolFacts
    <3>2. CASE r # q
      BY <3>2, <1>0, <1>1, <1>3 DEF Locks
    <3>3. QED
      BY <3>1, <3>2
  <2>3. ASSUME NEW s \in Pool, pc'[s] \in {"allocate_st", "give"}
        PROVE  /\ to'[s] \in Pool /\ pc'[to'[s]] = "again"
               /\ st'[to'[s]] = IF pc'[s] = "give" THEN "work" ELSE "idle"
    <3>1. s # t /\ pc[s] = pc'[s] /\ to'[s] = to[s]
      BY <2>3, <1>3
    <3>2. to[s] \in Pool /\ pc[to[s]] = "again" /\ to[s] # t
      BY <2>3, <3>1, <1>1 DEF Locks
    <3>3. QED
      BY <2>3, <3>1, <3>2, <1>1, <1>3 DEF Locks
  <2>4. QED
    BY <2>1, <2>2, <2>3 DEF Locks
<1>9. ASSUME NEW s \in Pool, NEW m \in Int, NEW p \in Position
      PROVE  Has(s, m, p)' <=> \/ s = q /\ m = -1 /\ Has(t, 0, p)
                               \/ s = t /\ m # 0 /\ Has(t, m, p)
                               \/ s \notin {q, t} /\ Has(s, m, p)
  <2>1. CASE s = q
    <3>1. Slots(q)' = {-1} /\ PartIn(q, -1)' = left[t]
      <4>1. todo'[q] = <<>> /\ DOMAIN todo'[q] = {} /\ pc'[q] = "again" /\ Given(q)'
        BY <1>1, <1>2, <1>3 DEF Given, Anyway
      <4>2. QED
        BY <4>1, <1>2, <1>3 DEF Slots, PartIn
    <3>2. Has(t, 0, p) <=> p \in Positions(left[t])
      BY <1>1 DEF Has, Slots, PartIn
    <3>3. Has(q, m, p)' <=> m = -1 /\ p \in Positions(PartIn(q, -1)')
      BY <3>1 DEF Has, Positions
    <3>4. QED
      BY <2>1, <3>1, <3>2, <3>3, <1>2
  <2>2. CASE s = t
    <3>1. Slots(t)' = DOMAIN todo[t] /\ Slots(t) = DOMAIN todo[t] \cup {0}
      BY <1>1, <1>3 DEF Slots, Given
    <3>2. 0 \notin DOMAIN todo[t] /\ \A k \in DOMAIN todo[t] : PartIn(t, k)' = PartIn(t, k)
      BY <1>1 DEF PartIn, TypeOK
    <3>3. QED
      BY <2>2, <3>1, <3>2, <1>2 DEF Has, Positions
  <2>3. CASE s \notin {q, t}
    <3>1. Slots(s)' = Slots(s) /\ PartIn(s, m)' = PartIn(s, m)
      BY <2>3, <1>1, <1>3 DEF Slots, Given, PartIn
    <3>2. QED
      BY <2>3, <3>1 DEF Has, Positions
  <2>4. QED
    BY <2>1, <2>2, <2>3
<1>10. \A m \in Int : \A p \in Position : ~Has(q, m, p)
  <2>1. Slots(q) = {}
    <3>1. mtx_st[q] # NULL
      BY <1>2, PoolFacts
    <3>2. QED
      BY <3>1, <1>2 DEF Slots, Given, Anyway
  <2>2. QED
    BY <2>1 DEF Has
<1>11. Covered'
  <2> SUFFICES ASSUME NEW p \in Position, p \notin sorted
               PROVE  \E s \in Pool : \E m \in Int : Has(s, m, p)'
    BY <1>1 DEF Covered
  <2>1. PICK s \in Pool, m \in Int : Has(s, m, p)
    BY <1>2 DEF Covered
  <2>2. CASE s = t /\ m = 0
    BY <2>1, <2>2, <1>2, <1>9
  <2>3. CASE ~(s = t /\ m = 0)
    BY <2>1, <2>3, <1>9, <1>10
  <2>4. QED
    BY <2>2, <2>3
<1>12. Once'
  <2> SUFFICES ASSUME NEW r \in Pool, NEW s \in Pool, NEW m \in Int, NEW n \in Int,
                      NEW p \in Position, Has(r, m, p)'
               PROVE  p \notin sorted /\ (Has(s, n, p)' => r = s /\ m = n)
    BY <1>1 DEF Once
  <2>1. p \notin sorted
    BY <1>9 DEF Once
  <2>2. Has(s, n, p)' => r = s /\ m = n
    BY <1>2, <1>9 DEF Once
  <2>3. QED
    BY <2>1, <2>2
<1>13. QED
  BY <1>5, <1>6, <1>7, <1>8, <1>11, <1>12

(* A thread is idle again; if all are, everything is sorted.               *)
LEMMA Finish ==
  ASSUME IInv, NEW t \in Pool, finish(t)
  PROVE  IInv'
<1> USE DEF IInv
<1> DEFINE next == IF idlethreads + 1 = maxthreads THEN "terminate" ELSE "again"
<1>1. /\ pc[t] = "algo" /\ todo[t] = <<>> /\ mtx_al = NULL /\ Step(t, "algo", next)
      /\ idlethreads' = idlethreads + 1 /\ st' = [st EXCEPT ![t] = "idle"]
      /\ mtx_al' = (IF idlethreads + 1 = maxthreads THEN t ELSE NULL)
      /\ UNCHANGED <<main, islot, slot, bailout, destroyed, part, mtx_st, waiting,
                     todo, left, to, sorted>>
  BY DEF finish, mainVars, localVars, Step, Set
<1>2. ~bailout /\ idlethreads < maxthreads /\ st[t] = "work" /\ to[t] = 0
  BY <1>1, Busy DEF Anyway
<1>3. /\ \A s \in Pool : /\ pc'[s] = IF s = t THEN next ELSE pc[s]
                         /\ st'[s] = IF s = t THEN "idle" ELSE st[s]
      /\ pc' \in [Pool -> {"none", "again", "awake", "algo", "allocate", "allocate_st",
                           "give", "terminate", "exit", "failed"}]
      /\ st' \in [Pool -> {"idle", "work", "term"}]
  <2>1. next \in {"terminate", "again"}
    OBVIOUS
  <2>2. st' \in [Pool -> {"idle", "work", "term"}] /\ \A s \in Pool : st'[s] = IF s = t THEN "idle" ELSE st[s]
    BY <1>1 DEF TypeOK
  <2>3. QED
    BY <1>1, <2>1, <2>2, Steps
<1>4. \A s \in Pool : pc[s] \notin {"allocate_st", "terminate"}
  BY <1>1, PoolFacts DEF Locks
<1>5. /\ Free' = Free \cup {t} /\ t \notin Free /\ idlethreads = Cardinality(Free)
      /\ Cardinality(Free') = idlethreads + 1
  <2>1. Free' = Free \cup {t} /\ t \notin Free
    BY <1>1, <1>2, <1>3, <1>4 DEF Free
  <2>2. idlethreads = Cardinality(Free)
    BY <1>2 DEF Sorting
  <2>3. QED
    BY <2>1, <2>2, FreeFacts, FS_AddElement
<1>6. TypeOK'
  BY <1>1, <1>2, <1>3 DEF TypeOK
<1>7. Created' /\ NoPool'
  BY <1>1, <1>2, <1>3 DEF Created, NoPool
<1>8. Anyway'
  BY <1>1, <1>2, <1>3 DEF Anyway
<1>9. Locks'
  <2>1. \A s \in Pool : mtx_al' = s <=> pc'[s] \in {"allocate_st", "terminate"}
    BY <1>1, <1>3, <1>4, PoolFacts
  <2>2. \A r, s \in Pool : mtx_st'[r] = s <=> pc'[s] = "give" /\ to'[s] = r
    BY <1>1, <1>3 DEF Locks
  <2>3. ASSUME NEW s \in Pool, pc'[s] \in {"allocate_st", "give"}
        PROVE  /\ to'[s] \in Pool /\ pc'[to'[s]] = "again"
               /\ st'[to'[s]] = IF pc'[s] = "give" THEN "work" ELSE "idle"
    <3>1. s # t /\ pc[s] = pc'[s] /\ to'[s] = to[s]
      BY <2>3, <1>1, <1>3
    <3>2. to[s] \in Pool /\ pc[to[s]] = "again" /\ to[s] # t
      BY <2>3, <3>1, <1>1 DEF Locks
    <3>3. QED
      BY <2>3, <3>1, <3>2, <1>3 DEF Locks
  <2>4. QED
    BY <2>1, <2>2, <2>3 DEF Locks
<1>10. Sorting'
  BY <1>1, <1>2, <1>3, <1>5 DEF Sorting
<1>11. Covered' /\ Once'
  <2>1. \A s \in Pool : /\ pc'[s] \in Giving <=> pc[s] \in Giving
                        /\ Given(s)' <=> Given(s)
    BY <1>1, <1>2, <1>3 DEF Given, Giving
  <2>2. QED
    BY <2>1, <1>1, PartsStay
<1>12. Ending'
  <2> SUFFICES ASSUME idlethreads + 1 = maxthreads
               PROVE  Ending'
    BY <1>1 DEF Ending
  <2>1. Free' = Pool
    <3>1. Free' \in SUBSET Pool
      BY DEF Free
    <3>2. QED
      BY <3>1, <1>5, PoolFacts, FS_Subset
  <2>2. \A s \in Pool \ {t} : st[s] = "idle" /\ pc[s] = "again" /\ todo[s] = <<>>
    BY <2>1, <1>2, <1>5 DEF Free, Sorting, Anyway
  <2>3. \A s \in Pool : Slots(s) = {}
    <3>1. Slots(t) = {}
      BY <1>1 DEF Slots, Given
    <3>2. ASSUME NEW s \in Pool \ {t}
          PROVE  Slots(s) = {}
      BY <2>2 DEF Slots, Given
    <3>3. QED
      BY <3>1, <3>2
  <2>4. sorted = Position
    BY <2>3, <1>2 DEF Covered, Has, TypeOK
  <2>5. ASSUME NEW r \in Pool, pc'[r] = "terminate"
        PROVE  /\ st'[r] = "idle"
               /\ \A s \in Pool \ {r} : /\ st'[s] = "term" <=> s < to'[r]
                                        /\ pc'[s] = "exit" => st'[s] = "term"
    <3>1. r = t /\ to'[r] = 0
      BY <2>5, <2>2, <1>1, <1>2, <1>3
    <3>2. \A s \in Pool : ~(s < 0)
      BY PoolFacts
    <3>3. QED
      BY <3>1, <3>2, <2>2, <1>1, <1>2, <1>3
  <2>6. \A s \in Pool : st'[s] # "work" /\ pc'[s] \in {"again", "awake", "terminate", "exit"}
    BY <2>2, <1>3
  <2>7. QED
    BY <2>4, <2>5, <2>6, <1>1 DEF Ending
<1>13. QED
  BY <1>6, <1>7, <1>8, <1>9, <1>10, <1>11, <1>12

LEMMA Told ==
  ASSUME IInv, NEW t \in Pool, pc[t] = "terminate"
  PROVE  ~bailout /\ idlethreads = maxthreads
<1>1. ~bailout
  BY DEF IInv, NoPool
<1>2. ~(idlethreads < maxthreads)
  BY <1>1 DEF IInv, Sorting
<1>3. idlethreads \in 0 .. maxthreads
  BY DEF IInv, TypeOK
<1>4. QED
  BY <1>1, <1>2, <1>3

(* It tells the others, one by one.                                        *)
LEMMA Terminate ==
  ASSUME IInv, NEW t \in Pool, terminate(t)
  PROVE  IInv'
<1> USE DEF IInv
<1>1. /\ pc[t] = "terminate"
      /\ UNCHANGED <<main, islot, slot, bailout, destroyed, part, mtx_st, idlethreads,
                     todo, left, sorted>>
  BY DEF terminate, mainVars
<1>2. ~bailout /\ idlethreads = maxthreads /\ mtx_al = t /\ st[t] = "idle"
  BY <1>1, Told DEF Locks, Ending
<1>3. /\ sorted = Position
      /\ \A s \in Pool : st[s] # "work" /\ pc[s] \in {"again", "awake", "terminate", "exit"}
      /\ \A s \in Pool \ {t} : /\ st[s] = "term" <=> s < to[t]
                               /\ pc[s] = "exit" => st[s] = "term"
                               /\ pc[s] # "terminate"
  BY <1>1, <1>2 DEF Ending, Locks
<1>4. CASE /\ to[t] \in Pool \ {t} /\ st' = [st EXCEPT ![to[t]] = "term"]
           /\ waiting' = waiting \ {to[t]} /\ to' = [to EXCEPT ![t] = to[t] + 1]
           /\ UNCHANGED <<pc, mtx_al>>
  <2>1. PICK q \in Pool \ {t} : q = to[t]
    BY <1>4
  <2>2. /\ \A s \in Pool : /\ st'[s] = IF s = q THEN "term" ELSE st[s]
                           /\ to'[s] = IF s = t THEN q + 1 ELSE to[s]
        /\ st' \in [Pool -> {"idle", "work", "term"}] /\ to' \in [Pool -> 0 .. maxthreads]
        /\ pc' = pc /\ mtx_al' = mtx_al /\ waiting' \subseteq waiting
    <3>1. q + 1 \in 0 .. maxthreads
      BY DEF Pool
    <3>2. QED
      BY <1>4, <2>1, <3>1 DEF TypeOK
  <2>3. TypeOK' /\ Created' /\ NoPool' /\ Sorting'
    <3>1. TypeOK'
      BY <1>1, <2>2 DEF TypeOK
    <3>2. Created'
      BY <1>1, <1>2, <2>2 DEF Created
    <3>3. QED
      BY <3>1, <3>2, <1>1, <1>2, <2>2 DEF NoPool, Sorting
  <2>4. Anyway'
    BY <1>1, <1>3, <2>2 DEF Anyway
  <2>5. Locks'
    BY <1>1, <1>3, <2>2 DEF Locks
  <2>6. Ending'
    <3>1. \A s \in Pool \ {t} : st'[s] = "term" <=> s < q + 1
      <4>1. \A s \in Pool : s < q + 1 <=> s < q \/ s = q
        BY DEF Pool
      <4>2. QED
        BY <4>1, <1>3, <2>1, <2>2
    <3>2. \A s \in Pool : st'[s] # "work" /\ pc'[s] \in {"again", "awake", "terminate", "exit"}
      BY <1>3, <2>2
    <3>3. QED
      BY <3>1, <3>2, <1>1, <1>2, <1>3, <2>2 DEF Ending
  <2>7. Covered' /\ Once'
    BY <1>1, <1>3, <2>2, PartsStay DEF Given
  <2>8. QED
    BY <2>3, <2>4, <2>5, <2>6, <2>7
<1>5. CASE to[t] = t /\ to' = [to EXCEPT ![t] = t + 1] /\ UNCHANGED <<pc, st, waiting, mtx_al>>
  <2>1. /\ to' \in [Pool -> 0 .. maxthreads]
        /\ \A s \in Pool : to'[s] = IF s = t THEN t + 1 ELSE to[s]
    <3>1. t + 1 \in 0 .. maxthreads
      BY DEF Pool
    <3>2. QED
      BY <1>5, <3>1 DEF TypeOK
  <2>2. TypeOK' /\ Created' /\ NoPool' /\ Sorting'
    BY <1>1, <1>2, <1>5, <2>1 DEF TypeOK, Created, NoPool, Sorting
  <2>3. Anyway' /\ Locks'
    BY <1>1, <1>3, <1>5, <2>1 DEF Anyway, Locks
  <2>4. Ending'
    <3>1. \A s \in Pool \ {t} : s < t + 1 <=> s < t
      BY DEF Pool
    <3>2. QED
      BY <3>1, <1>1, <1>2, <1>3, <1>5, <2>1 DEF Ending
  <2>5. Covered' /\ Once'
    BY <1>1, <1>5, PartsStay DEF Given
  <2>6. QED
    BY <2>2, <2>3, <2>4, <2>5
<1>6. CASE /\ to[t] = maxthreads /\ Step(t, "terminate", "exit") /\ mtx_al' = NULL
           /\ to' = [to EXCEPT ![t] = 0] /\ UNCHANGED <<st, waiting>>
  <2>1. /\ \A s \in Pool : /\ pc'[s] = IF s = t THEN "exit" ELSE pc[s]
                           /\ to'[s] = IF s = t THEN 0 ELSE to[s]
        /\ pc' \in [Pool -> {"none", "again", "awake", "algo", "allocate", "allocate_st",
                             "give", "terminate", "exit", "failed"}]
        /\ to' \in [Pool -> 0 .. maxthreads]
    <3>1. to' \in [Pool -> 0 .. maxthreads] /\ \A s \in Pool : to'[s] = IF s = t THEN 0 ELSE to[s]
      BY <1>6 DEF TypeOK
    <3>2. QED
      BY <1>6, <3>1, Steps
  <2>2. TypeOK' /\ NoPool' /\ Sorting'
    BY <1>1, <1>2, <1>6, <2>1 DEF TypeOK, NoPool, Sorting
  <2>3. Created'
    BY <1>1, <1>2, <1>6, <2>1 DEF Created
  <2>4. Anyway'
    BY <1>1, <1>3, <1>6, <2>1 DEF Anyway
  <2>5. Locks'
    BY <1>1, <1>3, <1>6, <2>1, PoolFacts DEF Locks
  <2>6. Ending'
    BY <1>1, <1>2, <1>3, <1>6, <2>1 DEF Ending
  <2>7. Covered' /\ Once'
    BY <1>1, <1>3, <1>6, <2>1, PartsStay DEF Given, Giving
  <2>8. QED
    BY <2>2, <2>3, <2>4, <2>5, <2>6, <2>7
<1>7. QED
  BY <1>4, <1>5, <1>6 DEF terminate, Set, Signal

-----------------------------------------------------------------------------
(* The inductive invariant: what threads idlethreads counts, who waits for *)
(* which part, and that nobody is at work once it reaches maxthreads.      *)
THEOREM Invariance == Spec => []IInv
<1>1. IInv /\ [Next]_vars => IInv'
  <2> SUFFICES ASSUME IInv, [Next]_vars PROVE IInv'
    OBVIOUS
  <2>1. CASE qsort_mt
    BY <2>1, MainStep, HandOut DEF qsort_mt
  <2>2. ASSUME NEW t \in Pool, qsort_thread(t)
        PROVE  IInv'
    BY <2>2, Waits, Awakes, InsertionSort, Split, AllocateNone, AllocateOne, AllocateSt,
       Give, Finish, Terminate DEF qsort_thread
  <2>3. CASE Surprise \/ UNCHANGED vars
    BY <2>3, Waits
  <2>4. QED
    BY <2>1, <2>2, <2>3 DEF Next, Terminating
<1>2. QED
  BY <1>1, Initial, PTL DEF Spec

(* Type correctness.                                                       *)
THEOREM TypesKept == Spec => []TypeOK
<1>1. IInv => TypeOK
  BY DEF IInv
<1>2. QED
  BY Invariance, <1>1, PTL

(* However the parts are split and given away, each position has one       *)
(* thread to sort it until it is final.                                    *)
THEOREM PartsKept == Spec => []PartsExact
<1>1. IInv => PartsExact
  <2> SUFFICES ASSUME IInv PROVE PartsExact
    OBVIOUS
  <2>1. ASSUME NEW t \in Pool, NEW m \in Slots(t)
        PROVE  m \in Int /\ Positions(PartIn(t, m)) \subseteq Position
    <3>1. m \in Int
      BY DEF Slots, IInv, TypeOK
    <3>2. PartIn(t, m) \in Part
      BY <3>1 DEF Slots, PartIn, IInv, TypeOK
    <3>3. QED
      BY <3>1, <3>2, InPart DEF Positions
  <2>2. ASSUME ~bailout, NEW p \in Position \ sorted
        PROVE  \E t \in Pool : \E m \in Slots(t) : p \in Positions(PartIn(t, m))
    BY <2>2 DEF IInv, Covered, Has
  <2>3. ASSUME NEW t \in Pool, NEW s \in Pool, NEW m \in Slots(t), NEW n \in Slots(s)
        PROVE  /\ Positions(PartIn(t, m)) \cap sorted = {}
               /\ <<t, m>> # <<s, n>> => Positions(PartIn(t, m)) \cap Positions(PartIn(s, n)) = {}
    <3>1. ASSUME NEW p \in Positions(PartIn(t, m))
          PROVE  p \notin sorted /\ (p \in Positions(PartIn(s, n)) => t = s /\ m = n)
      <4>1. p \in Position /\ m \in Int /\ n \in Int /\ Has(t, m, p)
        BY <2>1, <3>1 DEF Has
      <4>2. p \in Positions(PartIn(s, n)) => Has(s, n, p)
        BY DEF Has
      <4>3. QED
        BY <4>1, <4>2 DEF IInv, Once
    <3>2. QED
      BY <3>1
  <2>4. QED
    BY <2>2, <2>3 DEF PartsExact
<1>2. QED
  BY Invariance, <1>1, PTL

(* Nobody is told to end, and qsort_mt does not return, before everything  *)
(* is sorted or the pool was given up.                                     *)
THEOREM EndsSorted == Spec => []EndedSorted
<1>1. IInv => EndedSorted
  BY DEF IInv, TypeOK, Sorting, Ending, Created, EndedSorted
<1>2. QED
  BY Invariance, <1>1, PTL

(* A thread whose mutex and condition variable main has destroyed is not   *)
(* used again.                                                             *)
THEOREM DestroyedLast == Spec => []DestroyedUnused
<1>1. IInv => DestroyedUnused
  <2> SUFFICES ASSUME IInv, NEW t \in destroyed
               PROVE  /\ pc[t] = "exit" /\ t \notin waiting /\ mtx_st[t] = NULL
                      /\ \A s \in Pool :
                           /\ pc[s] \in {"allocate_st", "give"} => to[s] # t
                           /\ pc[s] = "terminate" /\ t # s => to[s] > t
    BY DEF DestroyedUnused
  <2>1. t \in Pool /\ pc[t] = "exit" /\ t \notin waiting
    BY DEF IInv, TypeOK, Created, Anyway
  <2>2. ASSUME NEW s \in Pool
        PROVE  pc[s] \in {"allocate_st", "give"} => to[s] # t
    BY <2>1 DEF IInv, Locks
  <2>3. mtx_st[t] = NULL
    BY <2>1, <2>2 DEF IInv, TypeOK, Locks
  <2>4. ASSUME NEW s \in Pool, pc[s] = "terminate", t # s
        PROVE  to[s] > t
    <3>1. ~bailout /\ idlethreads = maxthreads
      BY <2>4, Told
    <3>2. t < to[s]
      BY <3>1, <2>1, <2>4 DEF IInv, Ending
    <3>3. t \in Int /\ to[s] \in Int
      BY <2>1, <2>4 DEF IInv, TypeOK, Pool
    <3>4. QED
      BY <3>2, <3>3
  <2>5. QED
    BY <2>1, <2>2, <2>3, <2>4
<1>2. QED
  BY Invariance, <1>1, PTL
=============================================================================
