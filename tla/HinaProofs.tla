------------------------------ MODULE HinaProofs ------------------------------
(***************************************************************************)
(* Proofs about the pool of Hina and the deques under it, for any number   *)
(* of workers and of works and any first size of the arrays.  The          *)
(* invariant has three layers, each proved with the help of those before:  *)
(* what holds in every state (Base); where the replaced arrays are, as     *)
(* long as no resize was hidden from deque_gc (Storage); and where the     *)
(* works are, as long as no take was overtaken either (Delivery).          *)
(***************************************************************************)
EXTENDS Hina, WellFoundedInduction, FiniteSetTheorems, SequenceTheorems, TLAPS

(* The least of a set of numbers.                                          *)
LEMMA Least ==
  ASSUME NEW T \in SUBSET Nat, T # {}
  PROVE  \E k \in T : \A j \in T : k <= j
<1> DEFINE R == {ss \in Nat \X Nat : ss[1] < ss[2]}
<1>1. IsWellFoundedOn(R, Nat)
  BY NatLessThanWellFounded, Zenon DEF OpToRel
<1> HIDE DEF R
<1>2. PICK k \in T : \A j \in T : ~ (<<j, k>> \in R)
  BY <1>1, WFMin, Zenon
<1>3. ASSUME NEW j \in T
      PROVE  k <= j
  <2>1. k \in Nat /\ j \in Nat /\ ~ (<<j, k>> \in R)
    BY <1>2
  <2>2. ~ (j < k)
    BY <2>1 DEF R
  <2>3. QED
    BY <2>1, <2>2
<1>4. QED
  BY <1>3

(* A number below the modulus is its own remainder.                        *)
LEMMA Remainder ==
  ASSUME NEW m \in Nat, NEW n \in Nat, n < m
  PROVE  n % m = n
OBVIOUS

(* Division with a remainder.                                              *)
LEMMA Division ==
  ASSUME NEW m \in Nat \ {0}, NEW n \in Nat
  PROVE  /\ n \div m \in Nat /\ n % m \in 0 .. m - 1
         /\ (n \div m) * m + (n % m) = n
OBVIOUS

PushPC == {"push_top", "resize", "resize_old", "push_bottom"}
TakePC == {"take_top", "take_cas", "take_bottom"}
StealPC == {"steal_top", "steal_bottom", "steal_array", "steal_slot", "steal_cas"}
GcPC == {"gc_array", "gc_handle", "gc_old", "gc_cas", "gc_scan", "gc_put_back"}

(* A worker in the middle of a work, or of a spawn that the work makes.    *)
Running(t) ==
  \/ pc[t] \in PushPC \cup {"run", "aborted"}
  \/ pc[t] \in GcPC /\ ret[t] = "run"

(* The main thread calls hina_spawn once, then hina_exit.  A worker pushes *)
(* to its own deque and takes from it, and steals from the others.         *)
MainControl ==
  /\ pc[Main] \in {"spawn", "push_top", "push_bottom", "wait", "join", "exit"} \cup GcPC
  /\ dq[Main] = 0 /\ ret[Main] = "wait" /\ job[Main] = EMPTY

ControlOf(t) ==
  /\ pc[t] \in PushPC \cup TakePC \cup StealPC \cup GcPC
               \cup {"taken", "stolen", "run", "exit", "aborted"}
  /\ ret[t] \in {"taken", "stolen", "run"}
  /\ pc[t] \in TakePC \cup {"taken"} => ret[t] = "taken"
  /\ pc[t] \in StealPC \cup {"stolen"} => ret[t] = "stolen"
  /\ pc[t] \in PushPC \cup {"aborted"} => ret[t] = "run"
  /\ pc[t] \in PushPC \cup TakePC \cup StealPC \cup GcPC \cup {"aborted"} =>
       (dq[t] = t <=> ret[t] # "stolen")
  /\ job[t] \in Work <=> Running(t)

(* Before the first push is complete the workers find nothing.             *)
Early == pc[Main] \in {"spawn", "push_top", "push_bottom"}

EarlyOf(t) ==
  /\ pc[t] \in {"take_top", "steal_top", "steal_bottom", "taken", "stolen"} \cup GcPC
  /\ ~Running(t) /\ x[t] = EMPTY
  /\ pc[t] = "steal_bottom" => tt[t] = 1

First ==
  /\ spawned = 0 <=> pc[Main] = "spawn"
  /\ Early => /\ \A q \in Deque : top[q] = 1 /\ bottom[q] = 1
              /\ \A t \in Worker : EarlyOf(t)
  /\ done => pc[Main] \in {"join", "exit"}
  /\ \A t \in Worker : pc[t] = "exit" => done
  /\ pc[Main] = "exit" => \A t \in Worker : pc[t] = "exit"

(* What a thread holds in its hands while it spawns, and that it has       *)
(* nothing before it takes.                                                *)
HandsOf(t) ==
  /\ pc[t] \in PushPC \cup {"aborted"} => x[t] \in 1 .. spawned
  /\ pc[t] \in {"take_top", "steal_top", "steal_bottom", "steal_array", "steal_slot",
                "run", "spawn", "wait", "join", "exit"} => x[t] \notin Work
  /\ pc[t] \in GcPC /\ ret[t] \in {"run", "wait"} => x[t] \notin Work

(* No index passes the number of works, counted before the push.           *)
Indexed(q) == top[q] <= spawned + 1 /\ bottom[q] <= spawned + 1

BoundsOf(t) ==
  /\ pc[t] \in PushPC => bottom[dq[t]] <= x[t]
  /\ pc[t] \in {"resize", "resize_old", "push_bottom"} => b[t] = bottom[dq[t]]
  /\ pc[t] \in {"take_cas", "take_bottom"} =>
       /\ b[t] + 1 = bottom[dq[t]] /\ 1 <= tt[t] /\ tt[t] <= b[t]
       /\ tt[t] <= top[dq[t]]
  /\ pc[t] = "take_cas" => tt[t] = b[t]
  /\ pc[t] \in StealPC \ {"steal_top"} => tt[t] <= top[dq[t]]
  /\ pc[t] \in {"steal_array", "steal_slot", "steal_cas"} => tt[t] <= spawned

(* The arrays: none is empty, and what the pointers to them point to.      *)
Sized(q) == Newest(q) > 0 /\ \A n \in 1 .. Newest(q) : Len(buffer[q][n]) > 0

PointersOf(t) ==
  /\ pc[t] \in {"resize", "push_bottom"} => a[t] = Newest(dq[t])
  /\ pc[t] \in {"resize_old", "aborted"} => a[t] + 1 = Newest(dq[t])
  /\ pc[t] \in {"resize_old", "aborted", "gc_handle", "steal_slot", "steal_cas"} =>
       a[t] \in 1 .. Newest(dq[t])
  /\ pc[t] \in {"gc_cas", "gc_scan", "gc_put_back"} => old_a[t] \in 1 .. Newest(dq[t])
  /\ pc[t] \notin {"gc_scan", "gc_put_back"} => i[t] = 0

Base ==
  /\ TypeOK /\ MainControl /\ First
  /\ \A t \in Worker : ControlOf(t)
  /\ \A q \in Deque : Indexed(q) /\ Sized(q)
  /\ \A t \in Thread : HandsOf(t) /\ BoundsOf(t) /\ PointersOf(t)

(* The array that push uses; the next one counts from the moment that the  *)
(* one before is in old_array.                                             *)
Current(q) == IF pc[q] \in {"resize_old", "aborted"} THEN Newest(q) - 1 ELSE Newest(q)

(* Of the replaced arrays at most the last one is not released: it is in   *)
(* old_array, or in the hands of one thread.                               *)
Lingers(q) == old_array[q] # NULL \/ InGc(q) # {}

ArraysOf(q) ==
  /\ old_array[q] \in {NULL, Current(q) - 1}
  /\ \A t \in InGc(q) : old_a[t] = Current(q) - 1 /\ old_array[q] = NULL
  /\ \A s, t \in InGc(q) : s = t
  /\ pc[Main] # "exit" => freed[q] = 1 .. Current(q) - (IF Lingers(q) THEN 2 ELSE 1)
  /\ pc[Main] = "exit" => freed[q] = 1 .. Newest(q)

(* A handle of another thread is on the current array, or on the one       *)
(* before; that one then stays, and the scan has not passed the handle.    *)
Kept(q, k) ==
  \/ old_array[q] = handle[q][k]
  \/ \E s \in InGc(q) : pc[s] = "gc_scan" => i[s] <= k

SeenOf(q) ==
  \A k \in Deque \ {q} :
    /\ Current(q) - 1 <= handle[q][k]
    /\ Current(q) - 1 = handle[q][k] => Kept(q, k)

SeenBy(t) ==
  pc[t] \in {"gc_handle", "steal_slot", "steal_cas"} /\ dq[t] # t => handle[dq[t]][t] <= a[t]

Storage ==
  \/ hidden
  \/ /\ \A q \in Deque : ArraysOf(q) /\ SeenOf(q)
     /\ \A t \in Worker : SeenBy(t)

(* The work of index n; the deque without the one that a take_bottom       *)
(* claims.                                                                 *)
Slot(q, array, n) == buffer[q][array][Place(buffer[q][array], n)]
Item(q, n) == Slot(q, Newest(q), n)
Bot(q) == IF pc[q] = "take_bottom" THEN bottom[q] - 1 ELSE bottom[q]

Fits(q) ==
  /\ top[q] <= Bot(q) /\ bottom[q] - top[q] <= Len(buffer[q][Newest(q)])
  /\ \A n \in top[q] .. bottom[q] - 1 : Item(q, n) \in Work

RoomOf(t) ==
  pc[t] \in {"resize_old", "push_bottom"} =>
    bottom[dq[t]] - top[dq[t]] < Len(buffer[dq[t]][Newest(dq[t])])

(* What a take has picked and not yet claimed, or not yet cut off.         *)
ClaimOf(q) ==
  /\ pc[q] \in {"take_cas", "take_bottom"} => x[q] = Item(q, b[q]) /\ x[q] \in Work
  /\ pc[q] = "take_bottom" => x[q] \in kept

(* If top is what a thief has read, what it finds is the work at top, or   *)
(* one that a take has claimed meanwhile.                                  *)
Found(t) ==
  CASE pc[t] = "steal_array" -> Item(dq[t], tt[t])
    [] pc[t] = "steal_slot" -> Slot(dq[t], a[t], tt[t])
    [] pc[t] = "steal_cas" -> x[t]

ThiefOf(t) ==
  pc[t] \in {"steal_array", "steal_slot", "steal_cas"} /\ tt[t] = top[dq[t]] =>
    /\ Found(t) \in Work
    /\ \/ Found(t) \in kept
       \/ tt[t] < Bot(dq[t]) /\ Found(t) = Item(dq[t], tt[t])
    /\ pc[dq[t]] = "resize" => tt[t] < bottom[dq[t]]

(* A work lies in a deque, or a thread has it, or it was begun, once.      *)
Lies(q, n, w) == top[q] <= n /\ n < Bot(q) /\ Item(q, n) = w
Has(t, w) == x[t] = w /\ pc[t] \notin {"take_cas", "steal_cas"}
Pending(w) == w <= spawned /\ starts[w] = 0

WorkOf(w) ==
  /\ \A p, q \in Deque : \A m, n \in Nat : Lies(p, m, w) /\ Lies(q, n, w) => p = q /\ m = n
  /\ \A s, t \in Thread : Has(s, w) /\ Has(t, w) => s = t
  /\ \A q \in Deque : \A n \in Nat : Lies(q, n, w) => \A t \in Thread : ~Has(t, w)
  /\ (\E q \in Deque : \E n \in Nat : Lies(q, n, w)) \/ (\E t \in Thread : Has(t, w))
       <=> Pending(w)

JobOf(w) ==
  /\ starts[w] <= 1 /\ ends[w] <= starts[w]
  /\ starts[w] = 1 => w <= spawned
  /\ \A s, t \in Worker : job[s] = w /\ job[t] = w => s = t
  /\ (\E t \in Worker : job[t] = w) <=> starts[w] = 1 /\ ends[w] = 0

(* active counts the works that have not ended.                            *)
EndedWorks == {w \in Work : ends[w] = 1}

Counted ==
  /\ active = spawned - Cardinality(EndedWorks)
  /\ done => active = 0

Carried ==
  /\ \A q \in Deque : Fits(q) /\ ClaimOf(q)
  /\ \A t \in Thread : RoomOf(t)
  /\ \A t \in Worker : ThiefOf(t)
  /\ \A w \in Work : WorkOf(w) /\ JobOf(w)
  /\ Counted

Delivery == Disturbed \/ Carried

(* The constants.                                                          *)
LEMMA Constants ==
  /\ 0 \in Deque /\ Deque \subseteq Nat /\ Worker = Deque
  /\ Thread = Worker \cup {Main} /\ Main \notin Worker
  /\ Tid[Main] = 0 /\ \A t \in Worker : Tid[t] = t
  /\ Work = 1 .. WORKS /\ WORKS \in Nat /\ WORKS < SIZE_MAX /\ SIZE_MAX \in Nat
  /\ EMPTY \notin Work /\ ABORT \notin Work /\ EMPTY # ABORT
  /\ NULL \notin Nat /\ NULL \notin Work
  /\ NR_THREADS \in Nat \ {0} /\ SIZE_HINT \in Nat \ {0}
BY DequeAssumption, HinaAssumption DEF Deque, Worker

LEMMA Threads ==
  ASSUME NEW t \in Thread
  PROVE  Tid[t] \in Deque /\ (t = Main \/ (t \in Worker /\ t \in Deque /\ Tid[t] = t))
BY Constants

(* Indices do not wrap.                                                    *)
LEMMA Plus ==
  ASSUME NEW n \in Nat, n < SIZE_MAX
  PROVE  Add(n, 1) = n + 1
<1>1. n + 1 \in Nat /\ SIZE_MAX + 1 \in Nat /\ n + 1 < SIZE_MAX + 1
  BY Constants
<1>2. QED
  BY <1>1, Remainder DEF Add

LEMMA Minus ==
  ASSUME NEW m \in Nat, NEW n \in Nat, n <= m, m <= SIZE_MAX
  PROVE  Sub(m, n) = m - n
<1>1. m - n \in Nat /\ SIZE_MAX + 1 \in Nat /\ m - n < SIZE_MAX + 1
  BY Constants
<1>2. QED
  BY <1>1, Remainder DEF Sub

LEMMA Wraps ==
  ASSUME NEW n \in Int
  PROVE  Add(n, 1) \in 0 .. SIZE_MAX /\ Sub(n, 1) \in 0 .. SIZE_MAX
<1>1. SIZE_MAX + 1 \in Nat \ {0}
  BY Constants
<1>2. ASSUME NEW k \in Int PROVE k % (SIZE_MAX + 1) \in 0 .. SIZE_MAX
  BY <1>1, Constants
<1>3. n + 1 \in Int /\ n - 1 \in Int
  OBVIOUS
<1>4. QED
  BY <1>2, <1>3 DEF Add, Sub

-----------------------------------------------------------------------------
(* The type invariant in parts.                                            *)
TypeOfIndices == top \in [Deque -> 1 .. SIZE_MAX] /\ bottom \in [Deque -> 1 .. SIZE_MAX]

TypeOfArrays ==
  /\ buffer \in [Deque -> Seq(Seq(Work \cup {NULL}))]
  /\ old_array \in [Deque -> Nat \cup {NULL}]
  /\ handle \in [Deque -> [Deque -> Nat]] /\ freed \in [Deque -> SUBSET Nat]
  /\ \A q \in Deque :
       /\ old_array[q] \in 1 .. Newest(q) \cup {NULL}
       /\ \A k \in Deque : handle[q][k] \in 1 .. Newest(q)
       /\ freed[q] \subseteq 1 .. Newest(q)

TypeOfFlags ==
  /\ failed \in BOOLEAN /\ overtaken \in BOOLEAN /\ hidden \in BOOLEAN
  /\ kept \subseteq Work \cup {EMPTY}

TypeOfCalls ==
  /\ pc \in [Thread -> DequePC \cup {"spawn", "wait", "join", "taken", "stolen",
                                     "run", "exit", "aborted"}]
  /\ dq \in [Thread -> Deque]
  /\ ret \in [Thread -> {"taken", "stolen", "run", "wait"}]

TypeOfLocals ==
  /\ b \in [Thread -> 0 .. SIZE_MAX] /\ tt \in [Thread -> 0 .. SIZE_MAX]
  /\ x \in [Thread -> Work \cup {EMPTY, ABORT}]
  /\ a \in [Thread -> Nat] /\ old_a \in [Thread -> Nat]
  /\ i \in [Thread -> Deque]

TypeOfPool ==
  /\ active \in 0 .. SIZE_MAX /\ done \in BOOLEAN /\ spawned \in 0 .. WORKS
  /\ job \in [Thread -> Work \cup {EMPTY}]
  /\ starts \in [Work -> Nat] /\ ends \in [Work -> Nat]

LEMMA TypesAre ==
  TypeOK <=> /\ TypeOfIndices /\ TypeOfArrays /\ TypeOfFlags
             /\ TypeOfCalls /\ TypeOfLocals /\ TypeOfPool
BY DEF TypeOK, TypeOfIndices, TypeOfArrays, TypeOfFlags, TypeOfCalls, TypeOfLocals, TypeOfPool

(* The number of arrays, and their lengths.                                *)
LEMMA Newer ==
  ASSUME TypeOK, NEW q \in Deque
  PROVE  /\ Newest(q) \in Nat
         /\ \A n \in 1 .. Newest(q) :
              /\ buffer[q][n] \in Seq(Work \cup {NULL}) /\ Len(buffer[q][n]) \in Nat
              /\ Len(buffer[q][n]) > 0 =>
                   \A k \in Nat : /\ Place(buffer[q][n], k) \in 1 .. Len(buffer[q][n])
                                  /\ Slot(q, n, k) \in Work \cup {NULL}
<1>1. buffer[q] \in Seq(Seq(Work \cup {NULL}))
  BY DEF TypeOK
<1>2. Newest(q) \in Nat
  BY <1>1 DEF Newest
<1>3. ASSUME NEW n \in 1 .. Newest(q)
      PROVE  buffer[q][n] \in Seq(Work \cup {NULL}) /\ Len(buffer[q][n]) \in Nat
  BY <1>1, <1>3 DEF Newest
<1>4. ASSUME NEW n \in 1 .. Newest(q), Len(buffer[q][n]) > 0, NEW k \in Nat
      PROVE  /\ Place(buffer[q][n], k) \in 1 .. Len(buffer[q][n])
             /\ Slot(q, n, k) \in Work \cup {NULL}
  <2>1. \A m \in Nat \ {0} : (k % m) + 1 \in 1 .. m
    BY Division
  <2>2. Len(buffer[q][n]) \in Nat \ {0}
    BY <1>3, <1>4
  <2>3. Place(buffer[q][n], k) \in 1 .. Len(buffer[q][n])
    BY <2>1, <2>2 DEF Place
  <2>4. QED
    BY <1>3, <2>3 DEF Slot
<1>5. QED
  BY <1>2, <1>3, <1>4

LEMMA LoadsTyped ==
  ASSUME TypeOK, NEW q \in Deque, Sized(q), NEW n \in 1 .. Newest(q), NEW k \in Nat
  PROVE  Loads(q, n, k) \subseteq Work \cup {EMPTY}
<1>1. Slot(q, n, k) \in Work \cup {NULL}
  BY Newer DEF Sized
<1>2. QED
  BY <1>1 DEF Loads, Slot

(* The numbers are numbers.                                                *)
LEMMA Ranges ==
  ASSUME TypeOK
  PROVE  /\ \A t \in Thread : /\ b[t] \in Nat /\ b[t] <= SIZE_MAX /\ tt[t] \in Nat /\ tt[t] <= SIZE_MAX
                              /\ a[t] \in Nat /\ old_a[t] \in Nat /\ i[t] \in Nat /\ dq[t] \in Deque
                              /\ x[t] \in Work \cup {EMPTY, ABORT}
         /\ \A q \in Deque : /\ top[q] \in Nat /\ 1 <= top[q] /\ top[q] <= SIZE_MAX
                             /\ bottom[q] \in Nat /\ 1 <= bottom[q] /\ bottom[q] <= SIZE_MAX
         /\ spawned \in Nat /\ spawned <= WORKS /\ active \in Nat /\ active <= SIZE_MAX
<1>1. SIZE_MAX \in Nat /\ WORKS \in Nat /\ Deque \subseteq Nat
  BY Constants
<1>2. /\ \A t \in Thread : /\ b[t] \in 0 .. SIZE_MAX /\ tt[t] \in 0 .. SIZE_MAX
                           /\ a[t] \in Nat /\ old_a[t] \in Nat /\ i[t] \in Deque /\ dq[t] \in Deque
                           /\ x[t] \in Work \cup {EMPTY, ABORT}
      /\ \A q \in Deque : top[q] \in 1 .. SIZE_MAX /\ bottom[q] \in 1 .. SIZE_MAX
      /\ spawned \in 0 .. WORKS /\ active \in 0 .. SIZE_MAX
  BY DEF TypeOK
<1>3. \A n \in 0 .. SIZE_MAX : n \in Nat /\ n <= SIZE_MAX
  BY <1>1
<1>4. \A n \in 1 .. SIZE_MAX : n \in Nat /\ 1 <= n /\ n <= SIZE_MAX
  BY <1>1
<1>5. \A n \in 0 .. WORKS : n \in Nat /\ n <= WORKS
  BY <1>1
<1>6. ASSUME NEW t \in Thread
      PROVE  /\ b[t] \in Nat /\ b[t] <= SIZE_MAX /\ tt[t] \in Nat /\ tt[t] <= SIZE_MAX
             /\ a[t] \in Nat /\ old_a[t] \in Nat /\ i[t] \in Nat /\ dq[t] \in Deque
             /\ x[t] \in Work \cup {EMPTY, ABORT}
  BY <1>1, <1>2, <1>3
<1>7. ASSUME NEW q \in Deque
      PROVE  /\ top[q] \in Nat /\ 1 <= top[q] /\ top[q] <= SIZE_MAX
             /\ bottom[q] \in Nat /\ 1 <= bottom[q] /\ bottom[q] <= SIZE_MAX
  BY <1>2, <1>4
<1>8. QED
  BY <1>2, <1>3, <1>5, <1>6, <1>7

LEMMA Below ==
  ASSUME TypeOK, NEW q \in Deque
  PROVE  Sub(bottom[q], 1) = bottom[q] - 1 /\ bottom[q] - 1 \in Nat /\ bottom[q] - 1 \in 0 .. SIZE_MAX
<1>1. bottom[q] \in Nat /\ 1 <= bottom[q] /\ bottom[q] <= SIZE_MAX /\ SIZE_MAX \in Nat
  BY Ranges, Constants
<1>2. QED
  BY <1>1, Minus

-----------------------------------------------------------------------------
(* What a step of one thread leaves alone.                                 *)
Locals(s) == <<pc[s], dq[s], ret[s], b[s], tt[s], x[s], a[s], old_a[s], i[s], job[s]>>

LEMMA OthersStay ==
  ASSUME TypeOK, NEW t \in Thread, ThreadStep(t), NEW s \in Thread \ {t}
  PROVE  UNCHANGED Locals(s)
<1> USE DEF Step, Set, Locals, localVars
<1>1. /\ DOMAIN pc = Thread /\ DOMAIN dq = Thread /\ DOMAIN ret = Thread /\ DOMAIN b = Thread
      /\ DOMAIN tt = Thread /\ DOMAIN x = Thread /\ DOMAIN a = Thread
      /\ DOMAIN old_a = Thread /\ DOMAIN i = Thread /\ DOMAIN job = Thread
  BY DEF TypeOK
<1>2. CASE DequeStep(t) /\ UNCHANGED poolVars
  <2>1. job' = job
    BY <1>2 DEF poolVars
  <2>2. CASE push_top(t) \/ resize(t) \/ resize_old(t) \/ push_bottom(t)
    BY <1>1, <2>1, <2>2 DEF push_top, resize, resize_old, push_bottom, ForgetLocals
  <2>3. CASE take_top(t)
    BY <1>1, <2>1, <2>3 DEF take_top
  <2>4. CASE take_cas(t) \/ take_bottom(t)
    BY <1>1, <2>1, <2>4 DEF take_cas, take_bottom, ForgetLocals
  <2>5. CASE steal_top(t) \/ steal_bottom(t) \/ steal_array(t) \/ steal_slot(t) \/ steal_cas(t)
    BY <1>1, <2>1, <2>5 DEF steal_top, steal_bottom, steal_array, steal_slot, steal_cas, ForgetLocals
  <2>6. CASE gc_array(t) \/ gc_handle(t) \/ gc_old(t)
    BY <1>1, <2>1, <2>6 DEF gc_array, gc_handle, gc_old
  <2>7. CASE gc_cas(t) \/ gc_scan(t) \/ gc_put_back(t)
    BY <1>1, <2>1, <2>7 DEF gc_cas, gc_scan, gc_put_back, GcEnds
  <2>8. QED
    BY <1>2, <2>2, <2>3, <2>4, <2>5, <2>6, <2>7 DEF DequeStep
<1>3. CASE hina_spawn(t)
  BY <1>1, <1>3 DEF hina_spawn, deque_push, DequeCall
<1>4. CASE do_work(t)
  BY <1>1, <1>4 DEF do_work
<1>5. CASE work_done(t)
  BY <1>1, <1>5 DEF work_done, deque_take, DequeCall
<1>6. CASE first_steal(t) \/ next_steal(t)
  BY <1>1, <1>6 DEF first_steal, next_steal, StealFrom, deque_steal, DequeCall, poolVars
<1>7. CASE check_done(t)
  BY <1>1, <1>7 DEF check_done, deque_take, DequeCall, poolVars
<1>8. CASE hina_exit(t)
  BY <1>1, <1>8 DEF hina_exit, exit_wait, exit_join, poolVars
<1>9. QED
  BY <1>2, <1>3, <1>4, <1>5, <1>6, <1>7, <1>8 DEF ThreadStep, thread

(* Who writes the indices, the arrays and the counter of works.            *)
LEMMA Writers ==
  ASSUME TypeOK, NEW t \in Thread, ThreadStep(t)
  PROVE  /\ bottom' = bottom \/ (push_bottom(t) \/ take_bottom(t))
         /\ top' = top \/ (take_cas(t) \/ steal_cas(t))
         /\ buffer' = buffer \/ (resize(t) \/ push_bottom(t))
         /\ spawned' = spawned \/ hina_spawn(t)
         /\ starts' = starts \/ do_work(t)
         /\ ends' = ends \/ work_done(t)
         /\ done' = done \/ exit_wait(t)
         /\ UNCHANGED active \/ hina_spawn(t) \/ work_done(t)
         /\ old_array' = old_array \/ resize_old(t) \/ gc_cas(t) \/ gc_put_back(t)
         /\ freed' = freed \/ gc_scan(t) \/ exit_join(t)
         /\ handle' = handle \/ gc_handle(t)
         /\ kept' = kept \/ take_top(t)
         /\ overtaken' = overtaken \/ steal_cas(t)
         /\ hidden' = hidden \/ resize_old(t)
         /\ failed' = failed \/ resize_old(t)
<1>1. CASE DequeStep(t) /\ UNCHANGED poolVars
  <2>1. UNCHANGED <<active, done, spawned, starts, ends>>
    BY <1>1 DEF poolVars
  <2>2. CASE push_top(t) \/ resize(t) \/ resize_old(t) \/ push_bottom(t)
    BY <2>1, <2>2 DEF push_top, resize, resize_old, push_bottom, dequeVars, historyVars
  <2>3. CASE take_top(t) \/ take_cas(t) \/ take_bottom(t)
    BY <2>1, <2>3 DEF take_top, take_cas, take_bottom, dequeVars, historyVars
  <2>4. CASE steal_top(t) \/ steal_bottom(t) \/ steal_array(t) \/ steal_slot(t) \/ steal_cas(t)
    BY <2>1, <2>4 DEF steal_top, steal_bottom, steal_array, steal_slot, steal_cas,
                      dequeVars, historyVars
  <2>5. CASE gc_array(t) \/ gc_handle(t) \/ gc_old(t) \/ gc_cas(t) \/ gc_scan(t) \/ gc_put_back(t)
    BY <2>1, <2>5 DEF gc_array, gc_handle, gc_old, gc_cas, gc_scan, gc_put_back,
                      dequeVars, historyVars
  <2>6. QED
    BY <1>1, <2>2, <2>3, <2>4, <2>5 DEF DequeStep
<1>2. CASE hina_spawn(t) \/ do_work(t) \/ work_done(t)
  BY <1>2 DEF hina_spawn, deque_push, do_work, work_done, deque_take, DequeCall, dequeVars, historyVars
<1>3. CASE first_steal(t) \/ next_steal(t) \/ check_done(t)
  BY <1>3 DEF first_steal, next_steal, StealFrom, check_done, deque_steal, deque_take, DequeCall,
              dequeVars, historyVars, poolVars
<1>4. CASE hina_exit(t)
  BY <1>4 DEF hina_exit, exit_wait, exit_join, dequeVars, historyVars, poolVars
<1>5. QED
  BY <1>1, <1>2, <1>3, <1>4 DEF ThreadStep, thread

-----------------------------------------------------------------------------
(* What each step does, thread by thread and deque by deque.               *)
LEMMA Domains ==
  ASSUME TypeOK
  PROVE  /\ DOMAIN pc = Thread /\ DOMAIN dq = Thread /\ DOMAIN ret = Thread /\ DOMAIN b = Thread
         /\ DOMAIN tt = Thread /\ DOMAIN x = Thread /\ DOMAIN a = Thread
         /\ DOMAIN old_a = Thread /\ DOMAIN i = Thread /\ DOMAIN job = Thread
         /\ DOMAIN top = Deque /\ DOMAIN bottom = Deque /\ DOMAIN buffer = Deque
         /\ DOMAIN old_array = Deque /\ DOMAIN handle = Deque /\ DOMAIN freed = Deque
         /\ DOMAIN starts = Work /\ DOMAIN ends = Work
         /\ \A t \in Thread : dq[t] \in Deque
         /\ \A q \in Deque : DOMAIN handle[q] = Deque
BY DEF TypeOK

LEMMA PushTopDoes ==
  ASSUME TypeOK, NEW t \in Thread, push_top(t)
  PROVE  /\ pc[t] = "push_top" /\ pc'[t] = (IF Room(dq[t]) THEN "push_bottom" ELSE "resize")
         /\ b'[t] = bottom[dq[t]] /\ a'[t] = Newest(dq[t])
         /\ UNCHANGED <<dequeVars, dq[t], ret[t], tt[t], x[t], old_a[t], i[t]>>
<1>1. dq[t] \in Deque /\ Tid[t] \in Deque
  BY Domains, Threads
<1>2. QED
  BY <1>1, Domains DEF push_top, Step, Set

LEMMA ResizeDoes ==
  ASSUME TypeOK, NEW t \in Thread, resize(t)
  PROVE  /\ pc[t] = "resize" /\ pc'[t] = "resize_old"
         /\ buffer'[dq[t]] = Append(buffer[dq[t]], Resized(dq[t]))
         /\ \A q \in Deque \ {dq[t]} : buffer'[q] = buffer[q]
         /\ UNCHANGED <<top, bottom, old_array, handle, freed, failed, historyVars>>
         /\ UNCHANGED <<dq[t], ret[t], b[t], tt[t], x[t], a[t], old_a[t], i[t]>>
<1>1. dq[t] \in Deque /\ Tid[t] \in Deque
  BY Domains, Threads
<1>2. QED
  BY <1>1, Domains DEF resize, localVars, Step, Set

LEMMA ResizeOldDoes ==
  ASSUME TypeOK, NEW t \in Thread, resize_old(t)
  PROVE  /\ pc[t] = "resize_old"
         /\ \/ /\ old_array[dq[t]] = NULL /\ pc'[t] = "push_bottom"
               /\ old_array'[dq[t]] = a[t] /\ a'[t] = Newest(dq[t])
               /\ \A q \in Deque \ {dq[t]} : old_array'[q] = old_array[q]
               /\ hidden' = (hidden \/ InGc(dq[t]) # {})
               /\ failed' = failed
            \/ /\ old_array[dq[t]] # NULL /\ pc'[t] = "aborted" /\ failed' = TRUE
               /\ a'[t] = a[t] /\ UNCHANGED <<old_array, hidden>>
         /\ UNCHANGED <<top, bottom, buffer, handle, freed, kept, overtaken>>
         /\ UNCHANGED <<dq[t], ret[t], b[t], tt[t], x[t], old_a[t], i[t]>>
<1>1. dq[t] \in Deque /\ Tid[t] \in Deque
  BY Domains, Threads
<1>2. QED
  BY <1>1, Domains DEF resize_old, Step, Set

LEMMA PushBottomDoes ==
  ASSUME TypeOK, NEW t \in Thread, push_bottom(t)
  PROVE  /\ pc[t] = "push_bottom"
         /\ buffer' = [buffer EXCEPT ![dq[t]][a[t]][Place(buffer[dq[t]][a[t]], b[t])] = x[t]]
         /\ \/ /\ bottom[dq[t]] = b[t] /\ bottom'[dq[t]] = Add(b[t], 1)
               /\ pc'[t] = "gc_array" /\ x'[t] = EMPTY
            \/ bottom[dq[t]] # b[t]
         /\ \A q \in Deque \ {dq[t]} : bottom'[q] = bottom[q]
         /\ b'[t] = 0 /\ tt'[t] = 0 /\ a'[t] = 0
         /\ UNCHANGED <<top, old_array, handle, freed, failed, historyVars>>
         /\ UNCHANGED <<dq[t], ret[t], old_a[t], i[t]>>
<1>1. dq[t] \in Deque /\ Tid[t] \in Deque
  BY Domains, Threads
<1>2. QED
  BY <1>1, Domains DEF push_bottom, ForgetLocals, Step, Set

LEMMA TakeTopDoes ==
  ASSUME TypeOK, NEW t \in Thread, take_top(t)
  PROVE  /\ pc[t] = "take_top"
         /\ LET last == Sub(bottom[dq[t]], 1)
            IN  \/ /\ top[dq[t]] <= last /\ x'[t] \in Loads(dq[t], Newest(dq[t]), last)
                   /\ kept' = IF top[dq[t]] < last THEN kept \cup {x'[t]} ELSE kept
                   /\ pc'[t] = (IF top[dq[t]] < last THEN "take_bottom" ELSE "take_cas")
                   /\ b'[t] = last /\ tt'[t] = top[dq[t]]
                \/ /\ top[dq[t]] > last /\ pc'[t] = "gc_array"
                   /\ UNCHANGED <<x[t], b[t], tt[t], kept>>
         /\ UNCHANGED <<top, bottom, buffer, old_array, handle, freed, failed, overtaken, hidden>>
         /\ UNCHANGED <<dq[t], ret[t], a[t], old_a[t], i[t]>>
<1>1. dq[t] \in Deque /\ Tid[t] \in Deque
  BY Domains, Threads
<1>2. QED
  BY <1>1, Domains DEF take_top, Step, Set

LEMMA TakeCasDoes ==
  ASSUME TypeOK, NEW t \in Thread, take_cas(t)
  PROVE  /\ pc[t] = "take_cas" /\ pc'[t] = "gc_array"
         /\ \/ /\ top[dq[t]] = tt[t] /\ top'[dq[t]] = Add(tt[t], 1)
               /\ \A q \in Deque \ {dq[t]} : top'[q] = top[q]
               /\ x'[t] = x[t]
            \/ /\ top[dq[t]] # tt[t] /\ x'[t] = EMPTY /\ top' = top
         /\ b'[t] = 0 /\ tt'[t] = 0 /\ a'[t] = 0
         /\ UNCHANGED <<bottom, buffer, old_array, handle, freed, failed, historyVars>>
         /\ UNCHANGED <<dq[t], ret[t], old_a[t], i[t]>>
<1>1. dq[t] \in Deque /\ Tid[t] \in Deque
  BY Domains, Threads
<1>2. QED
  BY <1>1, Domains DEF take_cas, ForgetLocals, Step, Set

LEMMA TakeBottomDoes ==
  ASSUME TypeOK, NEW t \in Thread, take_bottom(t)
  PROVE  /\ pc[t] = "take_bottom" /\ pc'[t] = "gc_array"
         /\ bottom'[dq[t]] = b[t] /\ \A q \in Deque \ {dq[t]} : bottom'[q] = bottom[q]
         /\ b'[t] = 0 /\ tt'[t] = 0 /\ a'[t] = 0
         /\ UNCHANGED <<top, buffer, old_array, handle, freed, failed, historyVars>>
         /\ UNCHANGED <<dq[t], ret[t], x[t], old_a[t], i[t]>>
<1>1. dq[t] \in Deque /\ Tid[t] \in Deque
  BY Domains, Threads
<1>2. QED
  BY <1>1, Domains DEF take_bottom, ForgetLocals, Step, Set

LEMMA StealTopDoes ==
  ASSUME TypeOK, NEW t \in Thread, steal_top(t)
  PROVE  /\ pc[t] = "steal_top" /\ pc'[t] = "steal_bottom" /\ tt'[t] = top[dq[t]]
         /\ UNCHANGED <<dequeVars, dq[t], ret[t], b[t], x[t], a[t], old_a[t], i[t]>>
<1>1. dq[t] \in Deque /\ Tid[t] \in Deque
  BY Domains, Threads
<1>2. QED
  BY <1>1, Domains DEF steal_top, Step, Set

LEMMA StealBottomDoes ==
  ASSUME TypeOK, NEW t \in Thread, steal_bottom(t)
  PROVE  /\ pc[t] = "steal_bottom"
         /\ \/ /\ tt[t] < bottom[dq[t]] /\ pc'[t] = "steal_array"
               /\ UNCHANGED <<b[t], tt[t], a[t]>>
            \/ /\ tt[t] >= bottom[dq[t]] /\ pc'[t] = "gc_array"
               /\ b'[t] = 0 /\ tt'[t] = 0 /\ a'[t] = 0
         /\ UNCHANGED <<dequeVars, dq[t], ret[t], x[t], old_a[t], i[t]>>
<1>1. dq[t] \in Deque /\ Tid[t] \in Deque
  BY Domains, Threads
<1>2. QED
  BY <1>1, Domains DEF steal_bottom, ForgetLocals, Step, Set

LEMMA StealArrayDoes ==
  ASSUME TypeOK, NEW t \in Thread, steal_array(t)
  PROVE  /\ pc[t] = "steal_array" /\ pc'[t] = "steal_slot" /\ a'[t] = Newest(dq[t])
         /\ UNCHANGED <<dequeVars, dq[t], ret[t], b[t], tt[t], x[t], old_a[t], i[t]>>
<1>1. dq[t] \in Deque /\ Tid[t] \in Deque
  BY Domains, Threads
<1>2. QED
  BY <1>1, Domains DEF steal_array, Step, Set

LEMMA StealSlotDoes ==
  ASSUME TypeOK, NEW t \in Thread, steal_slot(t)
  PROVE  /\ pc[t] = "steal_slot" /\ pc'[t] = "steal_cas" /\ x'[t] \in Loads(dq[t], a[t], tt[t])
         /\ UNCHANGED <<dequeVars, dq[t], ret[t], b[t], tt[t], a[t], old_a[t], i[t]>>
<1>1. dq[t] \in Deque /\ Tid[t] \in Deque
  BY Domains, Threads
<1>2. QED
  BY <1>1, Domains DEF steal_slot, Step, Set

LEMMA StealCasDoes ==
  ASSUME TypeOK, NEW t \in Thread, steal_cas(t)
  PROVE  /\ pc[t] = "steal_cas" /\ pc'[t] = "gc_array"
         /\ \/ /\ top[dq[t]] = tt[t] /\ top'[dq[t]] = Add(tt[t], 1)
               /\ \A q \in Deque \ {dq[t]} : top'[q] = top[q]
               /\ overtaken' = (overtaken \/ x[t] \in kept) /\ x'[t] = x[t]
            \/ /\ top[dq[t]] # tt[t] /\ x'[t] = ABORT /\ UNCHANGED <<top, overtaken>>
         /\ b'[t] = 0 /\ tt'[t] = 0 /\ a'[t] = 0
         /\ UNCHANGED <<bottom, buffer, old_array, handle, freed, failed, kept, hidden>>
         /\ UNCHANGED <<dq[t], ret[t], old_a[t], i[t]>>
<1>1. dq[t] \in Deque /\ Tid[t] \in Deque
  BY Domains, Threads
<1>2. QED
  BY <1>1, Domains DEF steal_cas, ForgetLocals, Step, Set

LEMMA GcArrayDoes ==
  ASSUME TypeOK, NEW t \in Thread, gc_array(t)
  PROVE  /\ pc[t] = "gc_array" /\ pc'[t] = "gc_handle" /\ a'[t] = Newest(dq[t])
         /\ UNCHANGED <<dequeVars, dq[t], ret[t], b[t], tt[t], x[t], old_a[t], i[t]>>
<1>1. dq[t] \in Deque /\ Tid[t] \in Deque
  BY Domains, Threads
<1>2. QED
  BY <1>1, Domains DEF gc_array, Step, Set

LEMMA GcHandleDoes ==
  ASSUME TypeOK, NEW t \in Thread, gc_handle(t)
  PROVE  /\ pc[t] = "gc_handle" /\ pc'[t] = "gc_old" /\ a'[t] = 0
         /\ handle'[dq[t]][Tid[t]] = a[t]
         /\ \A q, k \in Deque : q # dq[t] \/ k # Tid[t] => handle'[q][k] = handle[q][k]
         /\ UNCHANGED <<top, bottom, buffer, old_array, freed, failed, historyVars>>
         /\ UNCHANGED <<dq[t], ret[t], b[t], tt[t], x[t], old_a[t], i[t]>>
<1>1. dq[t] \in Deque /\ Tid[t] \in Deque
  BY Domains, Threads
<1>2. QED
  BY <1>1, Domains DEF gc_handle, Step, Set

LEMMA GcOldDoes ==
  ASSUME TypeOK, NEW t \in Thread, gc_old(t)
  PROVE  /\ pc[t] = "gc_old"
         /\ \/ old_array[dq[t]] = NULL /\ pc'[t] = ret[t] /\ old_a'[t] = old_a[t]
            \/ old_array[dq[t]] # NULL /\ pc'[t] = "gc_cas" /\ old_a'[t] = old_array[dq[t]]
         /\ UNCHANGED <<dequeVars, dq[t], ret[t], b[t], tt[t], x[t], a[t], i[t]>>
<1>1. dq[t] \in Deque /\ Tid[t] \in Deque
  BY Domains, Threads
<1>2. QED
  BY <1>1, Domains DEF gc_old, Step, Set

LEMMA GcCasDoes ==
  ASSUME TypeOK, NEW t \in Thread, gc_cas(t)
  PROVE  /\ pc[t] = "gc_cas"
         /\ \/ /\ old_array[dq[t]] = old_a[t] /\ old_array'[dq[t]] = NULL
               /\ \A q \in Deque \ {dq[t]} : old_array'[q] = old_array[q]
               /\ pc'[t] = "gc_scan" /\ UNCHANGED <<old_a[t], i[t]>>
            \/ /\ old_array[dq[t]] # old_a[t] /\ old_array' = old_array
               /\ pc'[t] = ret[t] /\ old_a'[t] = 0 /\ i'[t] = 0
         /\ UNCHANGED <<top, bottom, buffer, handle, freed, failed, historyVars>>
         /\ UNCHANGED <<dq[t], ret[t], b[t], tt[t], x[t], a[t]>>
<1>1. dq[t] \in Deque /\ Tid[t] \in Deque
  BY Domains, Threads
<1>2. QED
  BY <1>1, Domains DEF gc_cas, GcEnds, Step, Set

LEMMA GcScanDoes ==
  ASSUME TypeOK, NEW t \in Thread, gc_scan(t)
  PROVE  /\ pc[t] = "gc_scan"
         /\ \/ /\ handle[dq[t]][i[t]] = old_a[t] /\ pc'[t] = "gc_put_back"
               /\ UNCHANGED <<freed, old_a[t], i[t]>>
            \/ /\ handle[dq[t]][i[t]] # old_a[t] /\ i[t] + 1 < NR_THREADS
               /\ i'[t] = i[t] + 1 /\ UNCHANGED <<pc[t], freed, old_a[t]>>
            \/ /\ handle[dq[t]][i[t]] # old_a[t] /\ i[t] + 1 = NR_THREADS
               /\ freed'[dq[t]] = freed[dq[t]] \cup {old_a[t]}
               /\ \A q \in Deque \ {dq[t]} : freed'[q] = freed[q]
               /\ pc'[t] = ret[t] /\ old_a'[t] = 0 /\ i'[t] = 0
         /\ UNCHANGED <<top, bottom, buffer, old_array, handle, failed, historyVars>>
         /\ UNCHANGED <<dq[t], ret[t], b[t], tt[t], x[t], a[t]>>
<1>1. dq[t] \in Deque /\ Tid[t] \in Deque
  BY Domains, Threads
<1>2. QED
  BY <1>1, Domains DEF gc_scan, GcEnds, Step, Set

LEMMA GcPutBackDoes ==
  ASSUME TypeOK, NEW t \in Thread, gc_put_back(t)
  PROVE  /\ pc[t] = "gc_put_back" /\ pc'[t] = ret[t] /\ old_a'[t] = 0 /\ i'[t] = 0
         /\ old_array'[dq[t]] = old_a[t] /\ \A q \in Deque \ {dq[t]} : old_array'[q] = old_array[q]
         /\ UNCHANGED <<top, bottom, buffer, handle, freed, failed, historyVars>>
         /\ UNCHANGED <<dq[t], ret[t], b[t], tt[t], x[t], a[t]>>
<1>1. dq[t] \in Deque /\ Tid[t] \in Deque
  BY Domains, Threads
<1>2. QED
  BY <1>1, Domains DEF gc_put_back, GcEnds, Step, Set

LEMMA SpawnDoes ==
  ASSUME TypeOK, NEW t \in Thread, hina_spawn(t)
  PROVE  /\ pc[t] \in {"spawn", "run"} /\ pc'[t] = "push_top"
         /\ spawned < WORKS /\ spawned' = spawned + 1 /\ active' = Add(active, 1)
         /\ dq'[t] = Tid[t] /\ x'[t] = spawned + 1
         /\ ret'[t] = (IF t = Main THEN "wait" ELSE "run")
         /\ UNCHANGED <<dequeVars, done, job, starts, ends>>
         /\ UNCHANGED <<b[t], tt[t], a[t], old_a[t], i[t]>>
<1>1. dq[t] \in Deque /\ Tid[t] \in Deque
  BY Domains, Threads
<1>2. QED
  BY <1>1, Domains DEF hina_spawn, deque_push, DequeCall, Step, Set

LEMMA DoWorkDoes ==
  ASSUME TypeOK, NEW t \in Thread, do_work(t)
  PROVE  /\ pc[t] \in {"taken", "stolen"} /\ x[t] \in Work
         /\ pc'[t] = "run" /\ job'[t] = x[t] /\ x'[t] = EMPTY
         /\ starts'[x[t]] = starts[x[t]] + 1
         /\ \A w \in Work \ {x[t]} : starts'[w] = starts[w]
         /\ UNCHANGED <<dequeVars, active, done, spawned, ends>>
         /\ UNCHANGED <<dq[t], ret[t], b[t], tt[t], a[t], old_a[t], i[t]>>
<1>1. dq[t] \in Deque /\ Tid[t] \in Deque
  BY Domains, Threads
<1>2. QED
  BY <1>1, Domains DEF do_work, Step, Set

LEMMA WorkDoneDoes ==
  ASSUME TypeOK, NEW t \in Thread, work_done(t)
  PROVE  /\ pc[t] = "run" /\ pc'[t] = "take_top" /\ dq'[t] = t /\ ret'[t] = "taken"
         /\ x'[t] = EMPTY /\ job'[t] = EMPTY /\ active' = Sub(active, 1)
         /\ job[t] \in Work => ends'[job[t]] = ends[job[t]] + 1
         /\ \A w \in Work : w # job[t] => ends'[w] = ends[w]
         /\ UNCHANGED <<dequeVars, done, spawned, starts>>
         /\ UNCHANGED <<b[t], tt[t], a[t], old_a[t], i[t]>>
<1>1. dq[t] \in Deque /\ Tid[t] \in Deque
  BY Domains, Threads
<1>2. QED
  BY <1>1, Domains DEF work_done, deque_take, DequeCall, Step, Set

LEMMA VictimIsOther ==
  ASSUME NEW t, NEW n, Victims(t, n) # {}
  PROVE  (CHOOSE q \in Victims(t, n) : \A p \in Victims(t, n) : q <= p) \in Deque \ {t}
<1>1. Victims(t, n) \in SUBSET Nat
  BY Constants DEF Victims
<1>2. \E q \in Victims(t, n) : \A p \in Victims(t, n) : q <= p
  BY <1>1, Least
<1>3. (CHOOSE q \in Victims(t, n) : \A p \in Victims(t, n) : q <= p) \in Victims(t, n)
  BY <1>2
<1>4. QED
  BY <1>3 DEF Victims

LEMMA StealDoes ==
  ASSUME TypeOK, NEW t \in Thread, first_steal(t) \/ next_steal(t)
  PROVE  /\ pc[t] \in {"taken", "stolen"} /\ x[t] \in {EMPTY, ABORT}
         /\ x[t] = ABORT => pc[t] = "stolen"
         /\ pc'[t] = "steal_top" /\ dq'[t] \in Deque \ {t} /\ ret'[t] = "stolen" /\ x'[t] = EMPTY
         /\ UNCHANGED <<dequeVars, poolVars>>
         /\ UNCHANGED <<b[t], tt[t], a[t], old_a[t], i[t]>>
<1>1. PICK n \in {0, dq[t], dq[t] + 1} : StealFrom(t, n)
  BY DEF first_steal, next_steal
<1>2. /\ pc[t] \in {"taken", "stolen"} /\ x[t] \in {EMPTY, ABORT}
      /\ x[t] = ABORT => pc[t] = "stolen"
  BY Constants DEF first_steal, next_steal
<1>3. dq'[t] \in Deque \ {t}
  BY <1>1, Domains, VictimIsOther DEF StealFrom, deque_steal, DequeCall, Set
<1>4. QED
  BY <1>1, <1>2, <1>3, Domains DEF StealFrom, deque_steal, DequeCall, Set

LEMMA CheckDoneDoes ==
  ASSUME TypeOK, NEW t \in Thread, check_done(t)
  PROVE  /\ pc[t] \in {"taken", "stolen"} /\ x[t] = EMPTY
         /\ \/ ~done /\ pc'[t] = "take_top" /\ dq'[t] = t /\ ret'[t] = "taken" /\ x'[t] = EMPTY
            \/ done /\ pc'[t] = "exit" /\ UNCHANGED <<dq[t], ret[t], x[t]>>
         /\ UNCHANGED <<dequeVars, poolVars>>
         /\ UNCHANGED <<b[t], tt[t], a[t], old_a[t], i[t]>>
BY Domains DEF check_done, deque_take, DequeCall, localVars, Set

LEMMA ExitDoes ==
  ASSUME TypeOK, NEW t \in Thread, hina_exit(t)
  PROVE  /\ \/ /\ pc[t] = "wait" /\ pc'[t] = "join" /\ active = 0 /\ done' = TRUE
               /\ UNCHANGED <<active, spawned, job, starts, ends, freed>>
            \/ /\ pc[t] = "join" /\ pc'[t] = "exit"
               /\ \A s \in Worker : pc[s] = "exit"
               /\ \A q \in Deque :
                    freed'[q] = freed[q] \cup {Newest(q)} \cup ({old_array[q]} \ {NULL})
               /\ UNCHANGED poolVars
         /\ UNCHANGED <<top, bottom, buffer, old_array, handle, failed, historyVars>>
         /\ UNCHANGED <<dq[t], ret[t], b[t], tt[t], x[t], a[t], old_a[t], i[t]>>
BY Domains DEF hina_exit, exit_wait, exit_join, dequeVars, localVars, Step

-----------------------------------------------------------------------------
(* The arrays: a new one keeps the items, and a push changes one slot.     *)
LEMMA SameRemainder ==
  ASSUME NEW m \in Nat \ {0}, NEW n \in Nat, NEW k \in Nat,
         n % m = k % m, n < k + m, k < n + m
  PROVE  n = k
<1> DEFINE dn == n \div m
           dk == k \div m
           r == n % m
<1>1. dn \in Nat /\ dk \in Nat /\ r \in Nat /\ dn * m + r = n /\ dk * m + r = k
  <2>1. n \div m \in Nat /\ n % m \in 0 .. m - 1 /\ (n \div m) * m + (n % m) = n
    BY Division
  <2>2. k \div m \in Nat /\ (k \div m) * m + (k % m) = k
    BY Division
  <2>3. QED
    BY <2>1, <2>2
<1> HIDE DEF dn, dk, r
<1>2. \A d, e \in Nat : d < e => d * m + m <= e * m
  <2>1. ASSUME NEW d \in Nat, NEW e \in Nat, d < e
        PROVE  d * m + m <= e * m
    <3>1. PICK j \in Nat : e = d + 1 + j
      <4>1. e - d - 1 \in Nat /\ e = d + 1 + (e - d - 1)
        BY <2>1
      <4>2. QED
        BY <4>1
    <3>2. e * m = d * m + m + j * m
      BY <3>1
    <3>3. j * m \in Nat /\ d * m \in Nat
      OBVIOUS
    <3>4. QED
      BY <3>2, <3>3
  <2>2. QED
    BY <2>1
<1>3. dn * m \in Nat /\ dk * m \in Nat
  BY <1>1
<1>4. ~ (dn < dk)
  BY <1>1, <1>2, <1>3
<1>5. ~ (dk < dn)
  BY <1>1, <1>2, <1>3
<1>6. dn = dk
  BY <1>1, <1>4, <1>5
<1>7. QED
  BY <1>1, <1>6

Cell == Work \cup {NULL}

LEMMA ResizedIs ==
  ASSUME TypeOK, NEW q \in Deque, Sized(q)
  PROVE  /\ Resized(q) \in Seq(Cell) /\ Len(Resized(q)) = 2 * Len(buffer[q][Newest(q)])
         /\ bottom[q] - top[q] <= Len(buffer[q][Newest(q)]) =>
              \A n \in top[q] .. bottom[q] - 1 :
                Resized(q)[Place(Resized(q), n)] = Item(q, n)
<1> DEFINE last == buffer[q][Newest(q)]
           size == 2 * Len(last)
           items == top[q] .. bottom[q] - 1
           pick(s) == CHOOSE n \in items : n % size = s - 1
           f(s) == IF \E n \in items : n % size = s - 1 THEN last[Place(last, pick(s))] ELSE NULL
<1>1. /\ last \in Seq(Cell) /\ Len(last) \in Nat \ {0}
      /\ \A k \in Nat : Place(last, k) \in 1 .. Len(last)
  <2>1. Newest(q) \in 1 .. Newest(q) /\ Len(last) > 0
    BY Newer DEF Sized
  <2>2. last \in Seq(Cell) /\ Len(last) \in Nat
    BY <2>1, Newer DEF Cell
  <2>3. \A k \in Nat : Place(last, k) \in 1 .. Len(last)
    BY <2>1, Newer
  <2>4. QED
    BY <2>1, <2>2, <2>3
<1>2. size \in Nat \ {0} /\ Resized(q) = [s \in 1 .. size |-> f(s)]
  <2>1. size \in Nat \ {0}
    <3>1. PICK l \in Nat \ {0} : l = Len(last)
      BY <1>1
    <3>2. 2 * l \in Nat \ {0}
      OBVIOUS
    <3>3. QED
      BY <3>1, <3>2
  <2>2. Resized(q) = [s \in 1 .. size |-> f(s)]
    BY Zenon DEF Resized
  <2>3. QED
    BY <2>1, <2>2
<1>3. top[q] \in Nat /\ bottom[q] \in Nat
  BY DEF TypeOK
<1>4. \A n \in items : n \in Nat /\ top[q] <= n /\ n < bottom[q]
  BY <1>3
<1> HIDE DEF last, size, items
<1>5. ASSUME NEW s \in 1 .. size
      PROVE  f(s) \in Cell
  <2>1. CASE \E n \in items : n % size = s - 1
    <3>1. pick(s) \in items
      BY <2>1
    <3>2. last[Place(last, pick(s))] \in Cell
      BY <1>1, <1>4, <3>1, ElementOfSeq
    <3>3. QED
      BY <2>1, <3>2
  <2>2. CASE ~ \E n \in items : n % size = s - 1
    BY <2>2 DEF Cell
  <2>3. QED
    BY <2>1, <2>2
<1>6. ASSUME bottom[q] - top[q] <= Len(last), NEW n \in items
      PROVE  /\ (n % size) + 1 \in 1 .. size
             /\ f((n % size) + 1) = last[Place(last, n)]
  <2> DEFINE s == (n % size) + 1
  <2>1. n % size \in 0 .. size - 1
    BY <1>2, <1>4, Division
  <2>2. s \in 1 .. size /\ n % size = s - 1
    BY <1>2, <2>1
  <2> HIDE DEF s
  <2>3. pick(s) \in items /\ pick(s) % size = s - 1
    BY <2>2
  <2> HIDE DEF pick
  <2>4. pick(s) = n
    <3>1. pick(s) < n + size /\ n < pick(s) + size
      <4>1. PICK m \in items : m = pick(s)
        BY <2>3
      <4>2. m \in Nat /\ top[q] <= m /\ m < bottom[q] /\ n \in Nat /\ top[q] <= n /\ n < bottom[q]
        BY <1>4, <1>6
      <4>3. PICK l \in Nat \ {0} : l = Len(last) /\ size = 2 * l /\ bottom[q] - top[q] <= l
        BY <1>1, <1>6 DEF size
      <4>4. m < n + 2 * l /\ n < m + 2 * l
        BY <1>3, <4>2, <4>3
      <4>5. QED
        BY <4>1, <4>3, <4>4
    <3>2. QED
      BY <1>2, <1>4, <2>2, <2>3, <3>1, SameRemainder
  <2>5. f(s) = last[Place(last, n)]
    BY <2>2, <2>4
  <2>6. QED
    BY <2>2, <2>5 DEF s
<1> HIDE DEF f
<1>7. Resized(q) \in Seq(Cell) /\ Len(Resized(q)) = size
  BY <1>2, <1>5
<1>8. ASSUME bottom[q] - top[q] <= Len(last), NEW n \in items
      PROVE  Resized(q)[Place(Resized(q), n)] = last[Place(last, n)]
  <2>1. Place(Resized(q), n) = (n % size) + 1
    BY <1>7 DEF Place
  <2>2. QED
    BY <1>2, <1>6, <1>8, <2>1
<1>9. QED
  BY <1>7, <1>8 DEF last, size, items, Item, Slot

LEMMA ResizeBuffers ==
  ASSUME TypeOK, NEW t \in Thread, resize(t), Sized(dq[t])
  PROVE  /\ buffer' \in [Deque -> Seq(Seq(Cell))]
         /\ Newest(dq[t])' = Newest(dq[t]) + 1
         /\ buffer'[dq[t]][Newest(dq[t]) + 1] = Resized(dq[t])
         /\ \A n \in 1 .. Newest(dq[t]) : buffer'[dq[t]][n] = buffer[dq[t]][n]
         /\ \A q \in Deque \ {dq[t]} : buffer'[q] = buffer[q]
<1>1. buffer \in [Deque -> Seq(Seq(Cell))] /\ dq[t] \in Deque
  BY DEF TypeOK, Cell
<1>2. Resized(dq[t]) \in Seq(Cell)
  BY <1>1, ResizedIs
<1> DEFINE old == buffer[dq[t]]
           new == Append(old, Resized(dq[t]))
<1>3. old \in Seq(Seq(Cell))
  BY <1>1
<1>4. /\ new \in Seq(Seq(Cell)) /\ Len(new) = Len(old) + 1
      /\ \A n \in 1 .. Len(old) : new[n] = old[n]
      /\ new[Len(old) + 1] = Resized(dq[t])
  BY <1>2, <1>3, AppendProperties
<1>5. buffer' = [buffer EXCEPT ![dq[t]] = new] /\ UNCHANGED dq
  BY DEF resize, localVars
<1> HIDE DEF new
<1>6. buffer' \in [Deque -> Seq(Seq(Cell))] /\ buffer'[dq[t]] = new
  BY <1>1, <1>4, <1>5
<1>7. \A q \in Deque \ {dq[t]} : buffer'[q] = buffer[q]
  BY <1>1, <1>5
<1>8. QED
  BY <1>4, <1>5, <1>6, <1>7 DEF Newest

LEMMA PushBuffers ==
  ASSUME TypeOK, NEW t \in Thread, push_bottom(t), x[t] \in Work,
         Sized(dq[t]), a[t] = Newest(dq[t])
  PROVE  /\ buffer' \in [Deque -> Seq(Seq(Cell))]
         /\ Newest(dq[t])' = Newest(dq[t])
         /\ \A n \in 1 .. Newest(dq[t]) : n # a[t] => buffer'[dq[t]][n] = buffer[dq[t]][n]
         /\ Len(buffer'[dq[t]][a[t]]) = Len(buffer[dq[t]][a[t]])
         /\ \A m \in 1 .. Len(buffer[dq[t]][a[t]]) :
              buffer'[dq[t]][a[t]][m] = IF m = Place(buffer[dq[t]][a[t]], b[t])
                                          THEN x[t] ELSE buffer[dq[t]][a[t]][m]
         /\ \A q \in Deque \ {dq[t]} : buffer'[q] = buffer[q]
<1> DEFINE old == buffer[dq[t]]
           row == old[a[t]]
           m == Place(row, b[t])
           newrow == [row EXCEPT ![m] = x[t]]
           new == [old EXCEPT ![a[t]] = newrow]
<1>1. /\ buffer \in [Deque -> Seq(Seq(Cell))] /\ dq[t] \in Deque
      /\ b[t] \in Nat /\ x[t] \in Cell
  <2>1. buffer \in [Deque -> Seq(Seq(Cell))] /\ dq[t] \in Deque /\ x[t] \in Cell
    BY DEF TypeOK, Cell
  <2>2. b[t] \in 0 .. SIZE_MAX /\ SIZE_MAX \in Nat
    BY Constants DEF TypeOK
  <2>3. QED
    BY <2>1, <2>2
<1>2. old \in Seq(Seq(Cell)) /\ a[t] \in 1 .. Len(old) /\ row \in Seq(Cell)
  <2>1. old \in Seq(Seq(Cell))
    BY <1>1
  <2>2. a[t] \in 1 .. Len(old)
    BY <2>1 DEF Sized, Newest
  <2>3. QED
    BY <2>1, <2>2, ElementOfSeq
<1>3. m \in 1 .. Len(row)
  BY <1>1, <1>2, Newer DEF Sized, Newest
<1> HIDE DEF m
<1>4. /\ newrow \in Seq(Cell) /\ Len(newrow) = Len(row)
      /\ \A k \in 1 .. Len(row) : newrow[k] = IF k = m THEN x[t] ELSE row[k]
  BY <1>1, <1>2, <1>3, ExceptSeq
<1> HIDE DEF newrow
<1>5. /\ new \in Seq(Seq(Cell)) /\ Len(new) = Len(old)
      /\ \A k \in 1 .. Len(old) : new[k] = IF k = a[t] THEN newrow ELSE old[k]
  BY <1>2, <1>4, ExceptSeq
<1>6. buffer' = [buffer EXCEPT ![dq[t]] = new] /\ dq' = dq
  BY DEF push_bottom, newrow, m
<1> HIDE DEF new
<1>7. /\ buffer' \in [Deque -> Seq(Seq(Cell))] /\ buffer'[dq[t]] = new
      /\ \A q \in Deque \ {dq[t]} : buffer'[q] = buffer[q]
  BY <1>1, <1>5, <1>6
<1>8. QED
  BY <1>2, <1>4, <1>5, <1>6, <1>7 DEF Newest, m

(* Every step keeps the lengths, and only resize adds an array.            *)
LEMMA Buffers ==
  ASSUME TypeOK, NEW t \in Thread, ThreadStep(t),
         \A q \in Deque : Sized(q), PointersOf(t), HandsOf(t)
  PROVE  /\ buffer' \in [Deque -> Seq(Seq(Cell))]
         /\ \A q \in Deque :
              /\ Newest(q)' = (IF resize(t) /\ q = dq[t] THEN Newest(q) + 1 ELSE Newest(q))
              /\ \A n \in 1 .. Newest(q) : Len(buffer'[q][n]) = Len(buffer[q][n])
              /\ Sized(q)'
<1>1. CASE buffer' = buffer /\ ~resize(t)
  BY <1>1 DEF Newest, Sized, TypeOK, Cell
<1>2. CASE resize(t)
  <2>1. dq[t] \in Deque /\ Newest(dq[t]) \in Nat /\ dq' = dq
    BY <1>2, Newer DEF TypeOK, resize, localVars
  <2>2. /\ buffer' \in [Deque -> Seq(Seq(Cell))]
        /\ Newest(dq[t])' = Newest(dq[t]) + 1
        /\ buffer'[dq[t]][Newest(dq[t]) + 1] = Resized(dq[t])
        /\ \A n \in 1 .. Newest(dq[t]) : buffer'[dq[t]][n] = buffer[dq[t]][n]
        /\ \A q \in Deque \ {dq[t]} : buffer'[q] = buffer[q]
    BY <1>2, <2>1, ResizeBuffers
  <2>3. Len(Resized(dq[t])) > 0
    <3>1. Newest(dq[t]) \in 1 .. Newest(dq[t]) /\ Len(buffer[dq[t]][Newest(dq[t])]) > 0
      BY <2>1 DEF Sized
    <3>2. Len(buffer[dq[t]][Newest(dq[t])]) \in Nat
      BY <2>1, <3>1, Newer
    <3>3. Len(Resized(dq[t])) = 2 * Len(buffer[dq[t]][Newest(dq[t])])
      BY <2>1, ResizedIs
    <3>4. QED
      BY <3>1, <3>2, <3>3
  <2>4. /\ \A n \in 1 .. Newest(dq[t]) : Len(buffer'[dq[t]][n]) = Len(buffer[dq[t]][n])
        /\ \A n \in 1 .. Newest(dq[t]) + 1 : Len(buffer'[dq[t]][n]) > 0
    <3>1. \A n \in 1 .. Newest(dq[t]) : Len(buffer[dq[t]][n]) > 0
      BY <2>1 DEF Sized
    <3>2. ASSUME NEW n \in 1 .. Newest(dq[t]) + 1
          PROVE  Len(buffer'[dq[t]][n]) > 0
      <4>1. CASE n = Newest(dq[t]) + 1
        BY <2>2, <2>3, <4>1
      <4>2. CASE n # Newest(dq[t]) + 1
        <5>1. n \in 1 .. Newest(dq[t])
          BY <2>1, <4>2
        <5>2. QED
          BY <2>2, <3>1, <5>1
      <4>3. QED
        BY <4>1, <4>2
    <3>3. QED
      BY <2>2, <3>2
  <2>5. ASSUME NEW q \in Deque, q = dq[t]
        PROVE  /\ Newest(q)' = Newest(q) + 1
               /\ \A n \in 1 .. Newest(q) : Len(buffer'[q][n]) = Len(buffer[q][n])
               /\ Sized(q)'
    BY <2>1, <2>2, <2>4, <2>5 DEF Sized, Newest
  <2>6. ASSUME NEW q \in Deque, q # dq[t]
        PROVE  /\ Newest(q)' = Newest(q)
               /\ \A n \in 1 .. Newest(q) : Len(buffer'[q][n]) = Len(buffer[q][n])
               /\ Sized(q)'
    BY <2>2, <2>6 DEF Sized, Newest
  <2>7. QED
    BY <1>2, <2>2, <2>5, <2>6
<1>3. CASE push_bottom(t) /\ ~resize(t)
  <2>1. dq[t] \in Deque /\ Newest(dq[t]) \in Nat /\ dq' = dq
    BY <1>3, Newer DEF TypeOK, push_bottom
  <2>2. x[t] \in Work /\ a[t] = Newest(dq[t])
    BY <1>3, Constants DEF push_bottom, HandsOf, PointersOf, PushPC, TypeOK
  <2>3. /\ buffer' \in [Deque -> Seq(Seq(Cell))]
        /\ Newest(dq[t])' = Newest(dq[t])
        /\ \A n \in 1 .. Newest(dq[t]) : n # a[t] => buffer'[dq[t]][n] = buffer[dq[t]][n]
        /\ Len(buffer'[dq[t]][a[t]]) = Len(buffer[dq[t]][a[t]])
        /\ \A q \in Deque \ {dq[t]} : buffer'[q] = buffer[q]
    BY <1>3, <2>1, <2>2, PushBuffers
  <2>4. \A n \in 1 .. Newest(dq[t]) : Len(buffer'[dq[t]][n]) = Len(buffer[dq[t]][n])
    BY <2>3
  <2>5. ASSUME NEW q \in Deque
        PROVE  /\ Newest(q)' = Newest(q)
               /\ \A n \in 1 .. Newest(q) : Len(buffer'[q][n]) = Len(buffer[q][n])
    <3>1. CASE q = dq[t]
      BY <2>1, <2>3, <2>4, <3>1 DEF Newest
    <3>2. CASE q # dq[t]
      BY <2>3, <3>2 DEF Newest
    <3>3. QED
      BY <3>1, <3>2
  <2>6. QED
    BY <1>3, <2>3, <2>5 DEF Sized
<1>4. QED
  BY <1>1, <1>2, <1>3, Writers

-----------------------------------------------------------------------------
(* The thread that writes bottom and the slots: one per deque, since the   *)
(* main thread pushes before worker 0 has anything to push or to take.     *)
OwnerPC == PushPC \cup {"take_cas", "take_bottom", "aborted"}

LEMMA OwnerIs ==
  ASSUME Base, NEW t \in Thread, pc[t] \in OwnerPC
  PROVE  /\ t \in Worker => dq[t] = t
         /\ t = Main => Early /\ pc[Main] \in {"push_top", "push_bottom"} /\ dq[t] = 0
<1>1. ASSUME t \in Worker
      PROVE  dq[t] = t
  BY <1>1 DEF Base, ControlOf, OwnerPC, PushPC, TakePC, StealPC, GcPC
<1>2. ASSUME t = Main
      PROVE  Early /\ pc[Main] \in {"push_top", "push_bottom"} /\ dq[t] = 0
  BY <1>2 DEF Base, MainControl, Early, OwnerPC, PushPC, GcPC
<1>3. QED
  BY <1>1, <1>2

LEMMA Exclusive ==
  ASSUME Base, NEW s \in Thread, NEW t \in Thread,
         pc[s] \in OwnerPC, pc[t] \in OwnerPC, dq[s] = dq[t]
  PROVE  s = t
<1>1. ASSUME NEW r \in Worker, pc[r] \in OwnerPC
      PROVE  ~Early
  BY <1>1 DEF Base, First, EarlyOf, OwnerPC, PushPC, GcPC
<1>2. QED
  BY <1>1, OwnerIs, Threads

LEMMA TopStep ==
  ASSUME Base, NEW t \in Thread, ThreadStep(t)
  PROVE  /\ top' \in [Deque -> 1 .. SIZE_MAX]
         /\ \A q \in Deque :
              \/ top'[q] = top[q]
              \/ /\ q = dq[t] /\ (take_cas(t) \/ steal_cas(t)) /\ tt[t] = top[q]
                 /\ top'[q] = top[q] + 1 /\ top[q] <= spawned
<1>1. top \in [Deque -> 1 .. SIZE_MAX] /\ dq[t] \in Deque /\ spawned \in 0 .. WORKS
      /\ tt[t] \in Nat /\ bottom[dq[t]] \in Nat /\ b[t] \in Nat
  <2>1. TypeOK
    BY DEF Base
  <2>2. top \in [Deque -> 1 .. SIZE_MAX] /\ spawned \in 0 .. WORKS
    BY <2>1 DEF TypeOK
  <2>3. QED
    BY <2>1, <2>2, Ranges
<1>2. CASE top' = top
  BY <1>1, <1>2
<1>3. CASE take_cas(t) \/ steal_cas(t)
  <2>1. tt[t] <= spawned
    <3>1. CASE take_cas(t)
      BY <3>1, <1>1 DEF take_cas, Step, Base, BoundsOf, Indexed
    <3>2. CASE steal_cas(t)
      BY <3>2 DEF steal_cas, Step, Base, BoundsOf
    <3>3. QED
      BY <1>3, <3>1, <3>2
  <2>2. Add(tt[t], 1) = tt[t] + 1 /\ tt[t] + 1 \in 1 .. SIZE_MAX
    <3>1. tt[t] \in Nat /\ SIZE_MAX \in Nat /\ tt[t] < SIZE_MAX
      BY <1>1, <2>1, Constants
    <3>2. QED
      BY <3>1, Plus
  <2>3. top' = top \/ (top[dq[t]] = tt[t] /\ top' = Set(top, dq[t], tt[t] + 1))
    BY <1>3, <2>2 DEF take_cas, steal_cas
  <2>4. QED
    BY <1>1, <1>3, <2>1, <2>2, <2>3 DEF Set
<1>4. QED
  BY <1>2, <1>3, Writers DEF Base

LEMMA BottomStep ==
  ASSUME Base, NEW t \in Thread, ThreadStep(t)
  PROVE  /\ bottom' \in [Deque -> 1 .. SIZE_MAX]
         /\ \A q \in Deque :
              \/ bottom'[q] = bottom[q]
              \/ /\ q = dq[t] /\ push_bottom(t) /\ bottom[q] = b[t]
                 /\ bottom'[q] = bottom[q] + 1 /\ bottom[q] <= spawned
              \/ /\ q = dq[t] /\ take_bottom(t) /\ bottom'[q] = bottom[q] - 1 /\ bottom'[q] = b[t]
<1>1. bottom \in [Deque -> 1 .. SIZE_MAX] /\ dq[t] \in Deque /\ spawned \in 0 .. WORKS
      /\ b[t] \in Nat /\ tt[t] \in Nat /\ bottom[dq[t]] \in 1 .. SIZE_MAX
  BY DEF Base, TypeOK
<1>2. CASE bottom' = bottom
  BY <1>1, <1>2
<1>3. CASE push_bottom(t)
  <2>1. bottom[dq[t]] = b[t] /\ b[t] <= spawned
    <3>1. pc[t] = "push_bottom"
      BY <1>3 DEF push_bottom
    <3>2. bottom[dq[t]] = b[t] /\ bottom[dq[t]] <= x[t] /\ x[t] \in 1 .. spawned
      BY <3>1 DEF Base, BoundsOf, HandsOf, PushPC
    <3>3. QED
      BY <3>2, <1>1
  <2>2. Add(b[t], 1) = b[t] + 1 /\ b[t] + 1 \in 1 .. SIZE_MAX
    <3>1. b[t] \in Nat /\ SIZE_MAX \in Nat /\ b[t] < SIZE_MAX
      BY <1>1, <2>1, Constants
    <3>2. QED
      BY <3>1, Plus
  <2>3. bottom' = Set(bottom, dq[t], b[t] + 1)
    BY <1>3, <2>1, <2>2 DEF push_bottom
  <2>4. QED
    BY <1>1, <1>3, <2>1, <2>2, <2>3 DEF Set
<1>4. CASE take_bottom(t)
  <2>1. bottom' = Set(bottom, dq[t], b[t]) /\ pc[t] = "take_bottom"
    BY <1>4 DEF take_bottom, Step
  <2>2. b[t] + 1 = bottom[dq[t]] /\ 1 <= b[t]
    BY <1>1, <2>1 DEF Base, BoundsOf
  <2>3. b[t] \in 1 .. SIZE_MAX /\ b[t] = bottom[dq[t]] - 1
    BY <1>1, <2>2, Constants
  <2>4. QED
    BY <1>1, <1>4, <2>1, <2>3 DEF Set
<1>5. QED
  BY <1>2, <1>3, <1>4, Writers DEF Base

LEMMA SpawnedStep ==
  ASSUME Base, NEW t \in Thread, ThreadStep(t)
  PROVE  /\ spawned' \in 0 .. WORKS
         /\ \/ spawned' = spawned
            \/ hina_spawn(t) /\ spawned < WORKS /\ spawned' = spawned + 1
<1>1. spawned \in 0 .. WORKS /\ WORKS \in Nat
  BY Constants DEF Base, TypeOK
<1>2. spawned' = spawned \/ hina_spawn(t)
  BY Writers DEF Base
<1>3. QED
  BY <1>1, <1>2 DEF hina_spawn

LEMMA IndexedStep ==
  ASSUME Base, NEW t \in Thread, ThreadStep(t), NEW q \in Deque
  PROVE  Indexed(q)'
<1>1. /\ top[q] \in 1 .. SIZE_MAX /\ bottom[q] \in 1 .. SIZE_MAX /\ spawned \in 0 .. WORKS
      /\ top[q] <= spawned + 1 /\ bottom[q] <= spawned + 1 /\ SIZE_MAX \in Nat /\ WORKS \in Nat
  BY Constants DEF Base, TypeOK, Indexed
<1>a. spawned' \in Nat /\ spawned \in Nat /\ spawned <= spawned'
  BY <1>1, SpawnedStep
<1>2. /\ top'[q] = top[q] \/ (top'[q] = top[q] + 1 /\ top[q] <= spawned)
      /\ \/ bottom'[q] = bottom[q] \/ bottom'[q] = bottom[q] - 1
         \/ bottom'[q] = bottom[q] + 1 /\ bottom[q] <= spawned
  BY TopStep, BottomStep
<1>3. QED
  BY <1>1, <1>a, <1>2 DEF Indexed

-----------------------------------------------------------------------------
(* What a step leaves of its own thread.                                   *)
Mine(t) ==
  /\ t \in Worker => ControlOf(t)
  /\ t = Main => MainControl
  /\ HandsOf(t) /\ BoundsOf(t) /\ PointersOf(t)

LEMMA Present ==
  ASSUME Base, NEW t \in Thread
  PROVE  /\ TypeOK /\ HandsOf(t) /\ BoundsOf(t) /\ PointersOf(t) /\ dq[t] \in Deque
         /\ t \in Worker => ControlOf(t)
         /\ t = Main => MainControl
         /\ x[t] \in Work \cup {EMPTY, ABORT} /\ b[t] \in Nat /\ tt[t] \in Nat
         /\ a[t] \in Nat /\ old_a[t] \in Nat /\ top[dq[t]] \in Nat \ {0} /\ bottom[dq[t]] \in Nat \ {0}
         /\ spawned \in Nat /\ Sized(dq[t]) /\ Indexed(dq[t]) /\ Newest(dq[t]) \in Nat
<1>1. TypeOK /\ SIZE_MAX \in Nat /\ WORKS \in Nat
  BY Constants DEF Base
<1>2. /\ dq[t] \in Deque /\ x[t] \in Work \cup {EMPTY, ABORT} /\ b[t] \in 0 .. SIZE_MAX
      /\ tt[t] \in 0 .. SIZE_MAX /\ a[t] \in Nat /\ old_a[t] \in Nat /\ spawned \in 0 .. WORKS
      /\ \A q \in Deque : top[q] \in 1 .. SIZE_MAX /\ bottom[q] \in 1 .. SIZE_MAX
  BY <1>1 DEF TypeOK
<1>3. Newest(dq[t]) \in Nat
  BY <1>1, <1>2, Newer
<1>4. /\ HandsOf(t) /\ BoundsOf(t) /\ PointersOf(t)
      /\ t \in Worker => ControlOf(t)
      /\ t = Main => MainControl
      /\ Sized(dq[t]) /\ Indexed(dq[t])
  BY <1>2 DEF Base
<1>5. /\ b[t] \in Nat /\ tt[t] \in Nat /\ spawned \in Nat
      /\ top[dq[t]] \in Nat \ {0} /\ bottom[dq[t]] \in Nat \ {0}
  BY <1>1, <1>2
<1>6. QED
  BY <1>1, <1>2, <1>3, <1>4, <1>5

LEMMA PushTopKeeps ==
  ASSUME Base, NEW t \in Thread, push_top(t), UNCHANGED poolVars
  PROVE  Mine(t)'
<1>1. /\ TypeOK /\ HandsOf(t) /\ BoundsOf(t) /\ PointersOf(t) /\ dq[t] \in Deque
      /\ t \in Worker => ControlOf(t)
      /\ t = Main => MainControl
      /\ x[t] \in Work \cup {EMPTY, ABORT} /\ b[t] \in Nat /\ tt[t] \in Nat
      /\ a[t] \in Nat /\ old_a[t] \in Nat /\ top[dq[t]] \in Nat \ {0} /\ bottom[dq[t]] \in Nat \ {0}
      /\ spawned \in Nat /\ Sized(dq[t]) /\ Indexed(dq[t]) /\ Newest(dq[t]) \in Nat
  BY Present
<1>2. EMPTY \notin Work /\ ABORT \notin Work /\ Main \notin Worker /\ (t = Main \/ t \in Worker)
  BY Constants, Threads
<1>a. ASSUME t = Main, pc[t] = "push_top"
      PROVE  Room(dq[t])
  <2>1. top[dq[t]] = 1 /\ bottom[dq[t]] = 1
    BY <1>1, <1>a DEF Base, First, Early
  <2>2. Sub(1, 1) = 0
    BY Constants, Minus
  <2>3. Len(buffer[dq[t]][Newest(dq[t])]) > 0 /\ Len(buffer[dq[t]][Newest(dq[t])]) \in Nat
    BY <1>1, Newer DEF Sized
  <2>4. QED
    BY <2>1, <2>2, <2>3 DEF Room
<1>3. ASSUME t \in Worker
      PROVE  ControlOf(t)'
  BY <1>1, <1>2, <1>3, PushTopDoes, <1>a DEF ControlOf, Running, dequeVars, poolVars, PushPC, TakePC, StealPC, GcPC
<1>4. ASSUME t = Main
      PROVE  MainControl'
  BY <1>1, <1>2, <1>4, PushTopDoes, <1>a DEF MainControl, dequeVars, poolVars, PushPC, TakePC, StealPC, GcPC
<1>5. HandsOf(t)'
  BY <1>1, <1>2, PushTopDoes DEF HandsOf, ControlOf, MainControl, dequeVars, poolVars, PushPC, TakePC, StealPC, GcPC
<1>6. BoundsOf(t)'
  BY <1>1, <1>2, PushTopDoes DEF BoundsOf, ControlOf, MainControl, dequeVars, poolVars, PushPC, TakePC, StealPC, GcPC
<1>7. PointersOf(t)'
  BY <1>1, <1>2, PushTopDoes DEF PointersOf, Newest, ControlOf, MainControl, dequeVars, poolVars, PushPC, TakePC, StealPC, GcPC
<1>8. QED
  BY <1>3, <1>4, <1>5, <1>6, <1>7 DEF Mine

LEMMA ResizeKeeps ==
  ASSUME Base, NEW t \in Thread, resize(t), UNCHANGED poolVars
  PROVE  Mine(t)'
<1>1. /\ TypeOK /\ HandsOf(t) /\ BoundsOf(t) /\ PointersOf(t) /\ dq[t] \in Deque
      /\ t \in Worker => ControlOf(t)
      /\ t = Main => MainControl
      /\ x[t] \in Work \cup {EMPTY, ABORT} /\ b[t] \in Nat /\ tt[t] \in Nat
      /\ a[t] \in Nat /\ old_a[t] \in Nat /\ top[dq[t]] \in Nat \ {0} /\ bottom[dq[t]] \in Nat \ {0}
      /\ spawned \in Nat /\ Sized(dq[t]) /\ Indexed(dq[t]) /\ Newest(dq[t]) \in Nat
  BY Present
<1>2. EMPTY \notin Work /\ ABORT \notin Work /\ Main \notin Worker /\ (t = Main \/ t \in Worker)
  BY Constants, Threads
<1>a. /\ Len(buffer'[dq[t]]) = Len(buffer[dq[t]]) + 1 /\ Len(buffer[dq[t]]) \in Nat
      /\ Len(buffer[dq[t]]) > 0
  <2>1. Newest(dq[t])' = Newest(dq[t]) + 1 /\ dq'[t] = dq[t]
    BY <1>1, ResizeBuffers, ResizeDoes
  <2>2. QED
    BY <1>1, <2>1 DEF Newest, Sized
<1>3. ASSUME t \in Worker
      PROVE  ControlOf(t)'
  BY <1>1, <1>2, <1>3, ResizeDoes DEF ControlOf, Running, dequeVars, poolVars, PushPC, TakePC, StealPC, GcPC
<1>4. ASSUME t = Main
      PROVE  MainControl'
  BY <1>1, <1>2, <1>4, ResizeDoes DEF MainControl, dequeVars, poolVars, PushPC, TakePC, StealPC, GcPC
<1>5. HandsOf(t)'
  BY <1>1, <1>2, ResizeDoes DEF HandsOf, ControlOf, MainControl, dequeVars, poolVars, PushPC, TakePC, StealPC, GcPC
<1>6. BoundsOf(t)'
  BY <1>1, <1>2, ResizeDoes DEF BoundsOf, ControlOf, MainControl, dequeVars, poolVars, PushPC, TakePC, StealPC, GcPC
<1>7. PointersOf(t)'
  <2>1. /\ pc[t] = "resize" /\ pc'[t] = "resize_old" /\ dq'[t] = dq[t]
        /\ a'[t] = a[t] /\ i'[t] = i[t]
    BY <1>1, ResizeDoes
  <2>2. a[t] = Newest(dq[t]) /\ i[t] = 0
    BY <1>1, <2>1 DEF PointersOf
  <2>3. Newest(dq[t])' = Newest(dq[t]) + 1 /\ Newest(dq[t]) > 0 /\ Newest(dq[t]) \in Nat
    BY <1>a, <2>1 DEF Newest
  <2>4. a'[t] + 1 = Newest(dq[t])' /\ a'[t] \in 1 .. Newest(dq[t])' /\ i'[t] = 0
    BY <2>1, <2>2, <2>3
  <2>5. QED
    BY <2>1, <2>4 DEF PointersOf
<1>8. QED
  BY <1>3, <1>4, <1>5, <1>6, <1>7 DEF Mine

LEMMA ResizeOldKeeps ==
  ASSUME Base, NEW t \in Thread, resize_old(t), UNCHANGED poolVars
  PROVE  Mine(t)'
<1>1. /\ TypeOK /\ HandsOf(t) /\ BoundsOf(t) /\ PointersOf(t) /\ dq[t] \in Deque
      /\ t \in Worker => ControlOf(t)
      /\ t = Main => MainControl
      /\ x[t] \in Work \cup {EMPTY, ABORT} /\ b[t] \in Nat /\ tt[t] \in Nat
      /\ a[t] \in Nat /\ old_a[t] \in Nat /\ top[dq[t]] \in Nat \ {0} /\ bottom[dq[t]] \in Nat \ {0}
      /\ spawned \in Nat /\ Sized(dq[t]) /\ Indexed(dq[t]) /\ Newest(dq[t]) \in Nat
  BY Present
<1>2. EMPTY \notin Work /\ ABORT \notin Work /\ Main \notin Worker /\ (t = Main \/ t \in Worker)
  BY Constants, Threads
<1>3. ASSUME t \in Worker
      PROVE  ControlOf(t)'
  BY <1>1, <1>2, <1>3, ResizeOldDoes DEF ControlOf, Running, dequeVars, poolVars, PushPC, TakePC, StealPC, GcPC
<1>4. ASSUME t = Main
      PROVE  MainControl'
  BY <1>1, <1>2, <1>4, ResizeOldDoes DEF MainControl, dequeVars, poolVars, PushPC, TakePC, StealPC, GcPC
<1>5. HandsOf(t)'
  BY <1>1, <1>2, ResizeOldDoes DEF HandsOf, ControlOf, MainControl, dequeVars, poolVars, PushPC, TakePC, StealPC, GcPC
<1>6. BoundsOf(t)'
  BY <1>1, <1>2, ResizeOldDoes DEF BoundsOf, ControlOf, MainControl, dequeVars, poolVars, PushPC, TakePC, StealPC, GcPC
<1>7. PointersOf(t)'
  BY <1>1, <1>2, ResizeOldDoes DEF PointersOf, Newest, ControlOf, MainControl, dequeVars, poolVars, PushPC, TakePC, StealPC, GcPC
<1>8. QED
  BY <1>3, <1>4, <1>5, <1>6, <1>7 DEF Mine

LEMMA PushBottomKeeps ==
  ASSUME Base, NEW t \in Thread, push_bottom(t), UNCHANGED poolVars
  PROVE  Mine(t)'
<1>1. /\ TypeOK /\ HandsOf(t) /\ BoundsOf(t) /\ PointersOf(t) /\ dq[t] \in Deque
      /\ t \in Worker => ControlOf(t)
      /\ t = Main => MainControl
      /\ x[t] \in Work \cup {EMPTY, ABORT} /\ b[t] \in Nat /\ tt[t] \in Nat
      /\ a[t] \in Nat /\ old_a[t] \in Nat /\ top[dq[t]] \in Nat \ {0} /\ bottom[dq[t]] \in Nat \ {0}
      /\ spawned \in Nat /\ Sized(dq[t]) /\ Indexed(dq[t]) /\ Newest(dq[t]) \in Nat
  BY Present
<1>2. EMPTY \notin Work /\ ABORT \notin Work /\ Main \notin Worker /\ (t = Main \/ t \in Worker)
  BY Constants, Threads
<1>a. pc[t] = "push_bottom" /\ bottom[dq[t]] = b[t]
  BY <1>1, PushBottomDoes DEF BoundsOf
<1>3. ASSUME t \in Worker
      PROVE  ControlOf(t)'
  BY <1>1, <1>2, <1>3, PushBottomDoes, <1>a DEF ControlOf, Running, dequeVars, poolVars, PushPC, TakePC, StealPC, GcPC
<1>4. ASSUME t = Main
      PROVE  MainControl'
  BY <1>1, <1>2, <1>4, PushBottomDoes, <1>a DEF MainControl, dequeVars, poolVars, PushPC, TakePC, StealPC, GcPC
<1>5. HandsOf(t)'
  BY <1>1, <1>2, PushBottomDoes, <1>a DEF HandsOf, ControlOf, MainControl, dequeVars, poolVars, PushPC, TakePC, StealPC, GcPC
<1>6. BoundsOf(t)'
  BY <1>1, <1>2, PushBottomDoes, <1>a DEF BoundsOf, ControlOf, MainControl, dequeVars, poolVars, PushPC, TakePC, StealPC, GcPC
<1>7. PointersOf(t)'
  BY <1>1, <1>2, PushBottomDoes, <1>a DEF PointersOf, Newest, ControlOf, MainControl, dequeVars, poolVars, PushPC, TakePC, StealPC, GcPC
<1>8. QED
  BY <1>3, <1>4, <1>5, <1>6, <1>7 DEF Mine

LEMMA TakeTopKeeps ==
  ASSUME Base, NEW t \in Thread, take_top(t), UNCHANGED poolVars
  PROVE  Mine(t)'
<1>1. /\ TypeOK /\ HandsOf(t) /\ BoundsOf(t) /\ PointersOf(t) /\ dq[t] \in Deque
      /\ t \in Worker => ControlOf(t)
      /\ t = Main => MainControl
      /\ x[t] \in Work \cup {EMPTY, ABORT} /\ b[t] \in Nat /\ tt[t] \in Nat
      /\ a[t] \in Nat /\ old_a[t] \in Nat /\ top[dq[t]] \in Nat \ {0} /\ bottom[dq[t]] \in Nat \ {0}
      /\ spawned \in Nat /\ Sized(dq[t]) /\ Indexed(dq[t]) /\ Newest(dq[t]) \in Nat
  BY Present
<1>2. EMPTY \notin Work /\ ABORT \notin Work /\ Main \notin Worker /\ (t = Main \/ t \in Worker)
  BY Constants, Threads
<1>a. Sub(bottom[dq[t]], 1) = bottom[dq[t]] - 1 /\ bottom[dq[t]] - 1 \in Nat
  BY <1>1, Below
<1>3. ASSUME t \in Worker
      PROVE  ControlOf(t)'
  BY <1>1, <1>2, <1>3, TakeTopDoes, <1>a DEF ControlOf, Running, dequeVars, poolVars, PushPC, TakePC, StealPC, GcPC
<1>4. ASSUME t = Main
      PROVE  MainControl'
  BY <1>1, <1>2, <1>4, TakeTopDoes, <1>a DEF MainControl, dequeVars, poolVars, PushPC, TakePC, StealPC, GcPC
<1>5. HandsOf(t)'
  BY <1>1, <1>2, TakeTopDoes, <1>a DEF HandsOf, ControlOf, MainControl, dequeVars, poolVars, PushPC, TakePC, StealPC, GcPC
<1>6. BoundsOf(t)'
  BY <1>1, <1>2, TakeTopDoes, <1>a DEF BoundsOf, ControlOf, MainControl, dequeVars, poolVars, PushPC, TakePC, StealPC, GcPC
<1>7. PointersOf(t)'
  BY <1>1, <1>2, TakeTopDoes, <1>a DEF PointersOf, Newest, ControlOf, MainControl, dequeVars, poolVars, PushPC, TakePC, StealPC, GcPC
<1>8. QED
  BY <1>3, <1>4, <1>5, <1>6, <1>7 DEF Mine

LEMMA TakeCasKeeps ==
  ASSUME Base, NEW t \in Thread, take_cas(t), UNCHANGED poolVars
  PROVE  Mine(t)'
<1>1. /\ TypeOK /\ HandsOf(t) /\ BoundsOf(t) /\ PointersOf(t) /\ dq[t] \in Deque
      /\ t \in Worker => ControlOf(t)
      /\ t = Main => MainControl
      /\ x[t] \in Work \cup {EMPTY, ABORT} /\ b[t] \in Nat /\ tt[t] \in Nat
      /\ a[t] \in Nat /\ old_a[t] \in Nat /\ top[dq[t]] \in Nat \ {0} /\ bottom[dq[t]] \in Nat \ {0}
      /\ spawned \in Nat /\ Sized(dq[t]) /\ Indexed(dq[t]) /\ Newest(dq[t]) \in Nat
  BY Present
<1>2. EMPTY \notin Work /\ ABORT \notin Work /\ Main \notin Worker /\ (t = Main \/ t \in Worker)
  BY Constants, Threads
<1>3. ASSUME t \in Worker
      PROVE  ControlOf(t)'
  BY <1>1, <1>2, <1>3, TakeCasDoes DEF ControlOf, Running, dequeVars, poolVars, PushPC, TakePC, StealPC, GcPC
<1>4. ASSUME t = Main
      PROVE  MainControl'
  BY <1>1, <1>2, <1>4, TakeCasDoes DEF MainControl, dequeVars, poolVars, PushPC, TakePC, StealPC, GcPC
<1>5. HandsOf(t)'
  BY <1>1, <1>2, TakeCasDoes DEF HandsOf, ControlOf, MainControl, dequeVars, poolVars, PushPC, TakePC, StealPC, GcPC
<1>6. BoundsOf(t)'
  BY <1>1, <1>2, TakeCasDoes DEF BoundsOf, ControlOf, MainControl, dequeVars, poolVars, PushPC, TakePC, StealPC, GcPC
<1>7. PointersOf(t)'
  BY <1>1, <1>2, TakeCasDoes DEF PointersOf, Newest, ControlOf, MainControl, dequeVars, poolVars, PushPC, TakePC, StealPC, GcPC
<1>8. QED
  BY <1>3, <1>4, <1>5, <1>6, <1>7 DEF Mine

LEMMA TakeBottomKeeps ==
  ASSUME Base, NEW t \in Thread, take_bottom(t), UNCHANGED poolVars
  PROVE  Mine(t)'
<1>1. /\ TypeOK /\ HandsOf(t) /\ BoundsOf(t) /\ PointersOf(t) /\ dq[t] \in Deque
      /\ t \in Worker => ControlOf(t)
      /\ t = Main => MainControl
      /\ x[t] \in Work \cup {EMPTY, ABORT} /\ b[t] \in Nat /\ tt[t] \in Nat
      /\ a[t] \in Nat /\ old_a[t] \in Nat /\ top[dq[t]] \in Nat \ {0} /\ bottom[dq[t]] \in Nat \ {0}
      /\ spawned \in Nat /\ Sized(dq[t]) /\ Indexed(dq[t]) /\ Newest(dq[t]) \in Nat
  BY Present
<1>2. EMPTY \notin Work /\ ABORT \notin Work /\ Main \notin Worker /\ (t = Main \/ t \in Worker)
  BY Constants, Threads
<1>3. ASSUME t \in Worker
      PROVE  ControlOf(t)'
  BY <1>1, <1>2, <1>3, TakeBottomDoes DEF ControlOf, Running, dequeVars, poolVars, PushPC, TakePC, StealPC, GcPC
<1>4. ASSUME t = Main
      PROVE  MainControl'
  BY <1>1, <1>2, <1>4, TakeBottomDoes DEF MainControl, dequeVars, poolVars, PushPC, TakePC, StealPC, GcPC
<1>5. HandsOf(t)'
  BY <1>1, <1>2, TakeBottomDoes DEF HandsOf, ControlOf, MainControl, dequeVars, poolVars, PushPC, TakePC, StealPC, GcPC
<1>6. BoundsOf(t)'
  BY <1>1, <1>2, TakeBottomDoes DEF BoundsOf, ControlOf, MainControl, dequeVars, poolVars, PushPC, TakePC, StealPC, GcPC
<1>7. PointersOf(t)'
  BY <1>1, <1>2, TakeBottomDoes DEF PointersOf, Newest, ControlOf, MainControl, dequeVars, poolVars, PushPC, TakePC, StealPC, GcPC
<1>8. QED
  BY <1>3, <1>4, <1>5, <1>6, <1>7 DEF Mine

LEMMA StealTopKeeps ==
  ASSUME Base, NEW t \in Thread, steal_top(t), UNCHANGED poolVars
  PROVE  Mine(t)'
<1>1. /\ TypeOK /\ HandsOf(t) /\ BoundsOf(t) /\ PointersOf(t) /\ dq[t] \in Deque
      /\ t \in Worker => ControlOf(t)
      /\ t = Main => MainControl
      /\ x[t] \in Work \cup {EMPTY, ABORT} /\ b[t] \in Nat /\ tt[t] \in Nat
      /\ a[t] \in Nat /\ old_a[t] \in Nat /\ top[dq[t]] \in Nat \ {0} /\ bottom[dq[t]] \in Nat \ {0}
      /\ spawned \in Nat /\ Sized(dq[t]) /\ Indexed(dq[t]) /\ Newest(dq[t]) \in Nat
  BY Present
<1>2. EMPTY \notin Work /\ ABORT \notin Work /\ Main \notin Worker /\ (t = Main \/ t \in Worker)
  BY Constants, Threads
<1>3. ASSUME t \in Worker
      PROVE  ControlOf(t)'
  BY <1>1, <1>2, <1>3, StealTopDoes DEF ControlOf, Running, dequeVars, poolVars, PushPC, TakePC, StealPC, GcPC
<1>4. ASSUME t = Main
      PROVE  MainControl'
  BY <1>1, <1>2, <1>4, StealTopDoes DEF MainControl, dequeVars, poolVars, PushPC, TakePC, StealPC, GcPC
<1>5. HandsOf(t)'
  BY <1>1, <1>2, StealTopDoes DEF HandsOf, ControlOf, MainControl, dequeVars, poolVars, PushPC, TakePC, StealPC, GcPC
<1>6. BoundsOf(t)'
  BY <1>1, <1>2, StealTopDoes DEF BoundsOf, ControlOf, MainControl, dequeVars, poolVars, PushPC, TakePC, StealPC, GcPC
<1>7. PointersOf(t)'
  BY <1>1, <1>2, StealTopDoes DEF PointersOf, Newest, ControlOf, MainControl, dequeVars, poolVars, PushPC, TakePC, StealPC, GcPC
<1>8. QED
  BY <1>3, <1>4, <1>5, <1>6, <1>7 DEF Mine

LEMMA StealBottomKeeps ==
  ASSUME Base, NEW t \in Thread, steal_bottom(t), UNCHANGED poolVars
  PROVE  Mine(t)'
<1>1. /\ TypeOK /\ HandsOf(t) /\ BoundsOf(t) /\ PointersOf(t) /\ dq[t] \in Deque
      /\ t \in Worker => ControlOf(t)
      /\ t = Main => MainControl
      /\ x[t] \in Work \cup {EMPTY, ABORT} /\ b[t] \in Nat /\ tt[t] \in Nat
      /\ a[t] \in Nat /\ old_a[t] \in Nat /\ top[dq[t]] \in Nat \ {0} /\ bottom[dq[t]] \in Nat \ {0}
      /\ spawned \in Nat /\ Sized(dq[t]) /\ Indexed(dq[t]) /\ Newest(dq[t]) \in Nat
  BY Present
<1>2. EMPTY \notin Work /\ ABORT \notin Work /\ Main \notin Worker /\ (t = Main \/ t \in Worker)
  BY Constants, Threads
<1>a. bottom[dq[t]] <= spawned + 1
  BY <1>1 DEF Indexed
<1>3. ASSUME t \in Worker
      PROVE  ControlOf(t)'
  BY <1>1, <1>2, <1>3, StealBottomDoes DEF ControlOf, Running, dequeVars, poolVars, PushPC, TakePC, StealPC, GcPC
<1>4. ASSUME t = Main
      PROVE  MainControl'
  BY <1>1, <1>2, <1>4, StealBottomDoes DEF MainControl, dequeVars, poolVars, PushPC, TakePC, StealPC, GcPC
<1>5. HandsOf(t)'
  BY <1>1, <1>2, StealBottomDoes DEF HandsOf, ControlOf, MainControl, dequeVars, poolVars, PushPC, TakePC, StealPC, GcPC
<1>6. BoundsOf(t)'
  BY <1>1, <1>2, StealBottomDoes, <1>a DEF BoundsOf, ControlOf, MainControl, dequeVars, poolVars, PushPC, TakePC, StealPC, GcPC
<1>7. PointersOf(t)'
  BY <1>1, <1>2, StealBottomDoes DEF PointersOf, Newest, ControlOf, MainControl, dequeVars, poolVars, PushPC, TakePC, StealPC, GcPC
<1>8. QED
  BY <1>3, <1>4, <1>5, <1>6, <1>7 DEF Mine

LEMMA StealArrayKeeps ==
  ASSUME Base, NEW t \in Thread, steal_array(t), UNCHANGED poolVars
  PROVE  Mine(t)'
<1>1. /\ TypeOK /\ HandsOf(t) /\ BoundsOf(t) /\ PointersOf(t) /\ dq[t] \in Deque
      /\ t \in Worker => ControlOf(t)
      /\ t = Main => MainControl
      /\ x[t] \in Work \cup {EMPTY, ABORT} /\ b[t] \in Nat /\ tt[t] \in Nat
      /\ a[t] \in Nat /\ old_a[t] \in Nat /\ top[dq[t]] \in Nat \ {0} /\ bottom[dq[t]] \in Nat \ {0}
      /\ spawned \in Nat /\ Sized(dq[t]) /\ Indexed(dq[t]) /\ Newest(dq[t]) \in Nat
  BY Present
<1>2. EMPTY \notin Work /\ ABORT \notin Work /\ Main \notin Worker /\ (t = Main \/ t \in Worker)
  BY Constants, Threads
<1>a. Len(buffer[dq[t]]) \in Nat /\ Len(buffer[dq[t]]) > 0
  BY <1>1 DEF Sized, Newest
<1>3. ASSUME t \in Worker
      PROVE  ControlOf(t)'
  BY <1>1, <1>2, <1>3, StealArrayDoes DEF ControlOf, Running, dequeVars, poolVars, PushPC, TakePC, StealPC, GcPC
<1>4. ASSUME t = Main
      PROVE  MainControl'
  BY <1>1, <1>2, <1>4, StealArrayDoes DEF MainControl, dequeVars, poolVars, PushPC, TakePC, StealPC, GcPC
<1>5. HandsOf(t)'
  BY <1>1, <1>2, StealArrayDoes DEF HandsOf, ControlOf, MainControl, dequeVars, poolVars, PushPC, TakePC, StealPC, GcPC
<1>6. BoundsOf(t)'
  BY <1>1, <1>2, StealArrayDoes DEF BoundsOf, ControlOf, MainControl, dequeVars, poolVars, PushPC, TakePC, StealPC, GcPC
<1>7. PointersOf(t)'
  BY <1>1, <1>2, StealArrayDoes, <1>a DEF PointersOf, Newest, ControlOf, MainControl, dequeVars, poolVars, PushPC, TakePC, StealPC, GcPC
<1>8. QED
  BY <1>3, <1>4, <1>5, <1>6, <1>7 DEF Mine

LEMMA StealSlotKeeps ==
  ASSUME Base, NEW t \in Thread, steal_slot(t), UNCHANGED poolVars
  PROVE  Mine(t)'
<1>1. /\ TypeOK /\ HandsOf(t) /\ BoundsOf(t) /\ PointersOf(t) /\ dq[t] \in Deque
      /\ t \in Worker => ControlOf(t)
      /\ t = Main => MainControl
      /\ x[t] \in Work \cup {EMPTY, ABORT} /\ b[t] \in Nat /\ tt[t] \in Nat
      /\ a[t] \in Nat /\ old_a[t] \in Nat /\ top[dq[t]] \in Nat \ {0} /\ bottom[dq[t]] \in Nat \ {0}
      /\ spawned \in Nat /\ Sized(dq[t]) /\ Indexed(dq[t]) /\ Newest(dq[t]) \in Nat
  BY Present
<1>2. EMPTY \notin Work /\ ABORT \notin Work /\ Main \notin Worker /\ (t = Main \/ t \in Worker)
  BY Constants, Threads
<1>3. ASSUME t \in Worker
      PROVE  ControlOf(t)'
  BY <1>1, <1>2, <1>3, StealSlotDoes DEF ControlOf, Running, dequeVars, poolVars, PushPC, TakePC, StealPC, GcPC
<1>4. ASSUME t = Main
      PROVE  MainControl'
  BY <1>1, <1>2, <1>4, StealSlotDoes DEF MainControl, dequeVars, poolVars, PushPC, TakePC, StealPC, GcPC
<1>5. HandsOf(t)'
  BY <1>1, <1>2, StealSlotDoes DEF HandsOf, ControlOf, MainControl, dequeVars, poolVars, PushPC, TakePC, StealPC, GcPC
<1>6. BoundsOf(t)'
  BY <1>1, <1>2, StealSlotDoes DEF BoundsOf, ControlOf, MainControl, dequeVars, poolVars, PushPC, TakePC, StealPC, GcPC
<1>7. PointersOf(t)'
  BY <1>1, <1>2, StealSlotDoes DEF PointersOf, Newest, ControlOf, MainControl, dequeVars, poolVars, PushPC, TakePC, StealPC, GcPC
<1>8. QED
  BY <1>3, <1>4, <1>5, <1>6, <1>7 DEF Mine

LEMMA StealCasKeeps ==
  ASSUME Base, NEW t \in Thread, steal_cas(t), UNCHANGED poolVars
  PROVE  Mine(t)'
<1>1. /\ TypeOK /\ HandsOf(t) /\ BoundsOf(t) /\ PointersOf(t) /\ dq[t] \in Deque
      /\ t \in Worker => ControlOf(t)
      /\ t = Main => MainControl
      /\ x[t] \in Work \cup {EMPTY, ABORT} /\ b[t] \in Nat /\ tt[t] \in Nat
      /\ a[t] \in Nat /\ old_a[t] \in Nat /\ top[dq[t]] \in Nat \ {0} /\ bottom[dq[t]] \in Nat \ {0}
      /\ spawned \in Nat /\ Sized(dq[t]) /\ Indexed(dq[t]) /\ Newest(dq[t]) \in Nat
  BY Present
<1>2. EMPTY \notin Work /\ ABORT \notin Work /\ Main \notin Worker /\ (t = Main \/ t \in Worker)
  BY Constants, Threads
<1>3. ASSUME t \in Worker
      PROVE  ControlOf(t)'
  BY <1>1, <1>2, <1>3, StealCasDoes DEF ControlOf, Running, dequeVars, poolVars, PushPC, TakePC, StealPC, GcPC
<1>4. ASSUME t = Main
      PROVE  MainControl'
  BY <1>1, <1>2, <1>4, StealCasDoes DEF MainControl, dequeVars, poolVars, PushPC, TakePC, StealPC, GcPC
<1>5. HandsOf(t)'
  BY <1>1, <1>2, StealCasDoes DEF HandsOf, ControlOf, MainControl, dequeVars, poolVars, PushPC, TakePC, StealPC, GcPC
<1>6. BoundsOf(t)'
  BY <1>1, <1>2, StealCasDoes DEF BoundsOf, ControlOf, MainControl, dequeVars, poolVars, PushPC, TakePC, StealPC, GcPC
<1>7. PointersOf(t)'
  BY <1>1, <1>2, StealCasDoes DEF PointersOf, Newest, ControlOf, MainControl, dequeVars, poolVars, PushPC, TakePC, StealPC, GcPC
<1>8. QED
  BY <1>3, <1>4, <1>5, <1>6, <1>7 DEF Mine

LEMMA GcArrayKeeps ==
  ASSUME Base, NEW t \in Thread, gc_array(t), UNCHANGED poolVars
  PROVE  Mine(t)'
<1>1. /\ TypeOK /\ HandsOf(t) /\ BoundsOf(t) /\ PointersOf(t) /\ dq[t] \in Deque
      /\ t \in Worker => ControlOf(t)
      /\ t = Main => MainControl
      /\ x[t] \in Work \cup {EMPTY, ABORT} /\ b[t] \in Nat /\ tt[t] \in Nat
      /\ a[t] \in Nat /\ old_a[t] \in Nat /\ top[dq[t]] \in Nat \ {0} /\ bottom[dq[t]] \in Nat \ {0}
      /\ spawned \in Nat /\ Sized(dq[t]) /\ Indexed(dq[t]) /\ Newest(dq[t]) \in Nat
  BY Present
<1>2. EMPTY \notin Work /\ ABORT \notin Work /\ Main \notin Worker /\ (t = Main \/ t \in Worker)
  BY Constants, Threads
<1>a. Len(buffer[dq[t]]) \in Nat /\ Len(buffer[dq[t]]) > 0
  BY <1>1 DEF Sized, Newest
<1>3. ASSUME t \in Worker
      PROVE  ControlOf(t)'
  BY <1>1, <1>2, <1>3, GcArrayDoes DEF ControlOf, Running, dequeVars, poolVars, PushPC, TakePC, StealPC, GcPC
<1>4. ASSUME t = Main
      PROVE  MainControl'
  BY <1>1, <1>2, <1>4, GcArrayDoes DEF MainControl, dequeVars, poolVars, PushPC, TakePC, StealPC, GcPC
<1>5. HandsOf(t)'
  BY <1>1, <1>2, GcArrayDoes DEF HandsOf, ControlOf, MainControl, dequeVars, poolVars, PushPC, TakePC, StealPC, GcPC
<1>6. BoundsOf(t)'
  BY <1>1, <1>2, GcArrayDoes DEF BoundsOf, ControlOf, MainControl, dequeVars, poolVars, PushPC, TakePC, StealPC, GcPC
<1>7. PointersOf(t)'
  BY <1>1, <1>2, GcArrayDoes, <1>a DEF PointersOf, Newest, ControlOf, MainControl, dequeVars, poolVars, PushPC, TakePC, StealPC, GcPC
<1>8. QED
  BY <1>3, <1>4, <1>5, <1>6, <1>7 DEF Mine

LEMMA GcHandleKeeps ==
  ASSUME Base, NEW t \in Thread, gc_handle(t), UNCHANGED poolVars
  PROVE  Mine(t)'
<1>1. /\ TypeOK /\ HandsOf(t) /\ BoundsOf(t) /\ PointersOf(t) /\ dq[t] \in Deque
      /\ t \in Worker => ControlOf(t)
      /\ t = Main => MainControl
      /\ x[t] \in Work \cup {EMPTY, ABORT} /\ b[t] \in Nat /\ tt[t] \in Nat
      /\ a[t] \in Nat /\ old_a[t] \in Nat /\ top[dq[t]] \in Nat \ {0} /\ bottom[dq[t]] \in Nat \ {0}
      /\ spawned \in Nat /\ Sized(dq[t]) /\ Indexed(dq[t]) /\ Newest(dq[t]) \in Nat
  BY Present
<1>2. EMPTY \notin Work /\ ABORT \notin Work /\ Main \notin Worker /\ (t = Main \/ t \in Worker)
  BY Constants, Threads
<1>3. ASSUME t \in Worker
      PROVE  ControlOf(t)'
  BY <1>1, <1>2, <1>3, GcHandleDoes DEF ControlOf, Running, dequeVars, poolVars, PushPC, TakePC, StealPC, GcPC
<1>4. ASSUME t = Main
      PROVE  MainControl'
  BY <1>1, <1>2, <1>4, GcHandleDoes DEF MainControl, dequeVars, poolVars, PushPC, TakePC, StealPC, GcPC
<1>5. HandsOf(t)'
  BY <1>1, <1>2, GcHandleDoes DEF HandsOf, ControlOf, MainControl, dequeVars, poolVars, PushPC, TakePC, StealPC, GcPC
<1>6. BoundsOf(t)'
  BY <1>1, <1>2, GcHandleDoes DEF BoundsOf, ControlOf, MainControl, dequeVars, poolVars, PushPC, TakePC, StealPC, GcPC
<1>7. PointersOf(t)'
  BY <1>1, <1>2, GcHandleDoes DEF PointersOf, Newest, ControlOf, MainControl, dequeVars, poolVars, PushPC, TakePC, StealPC, GcPC
<1>8. QED
  BY <1>3, <1>4, <1>5, <1>6, <1>7 DEF Mine

LEMMA GcOldKeeps ==
  ASSUME Base, NEW t \in Thread, gc_old(t), UNCHANGED poolVars
  PROVE  Mine(t)'
<1>1. /\ TypeOK /\ HandsOf(t) /\ BoundsOf(t) /\ PointersOf(t) /\ dq[t] \in Deque
      /\ t \in Worker => ControlOf(t)
      /\ t = Main => MainControl
      /\ x[t] \in Work \cup {EMPTY, ABORT} /\ b[t] \in Nat /\ tt[t] \in Nat
      /\ a[t] \in Nat /\ old_a[t] \in Nat /\ top[dq[t]] \in Nat \ {0} /\ bottom[dq[t]] \in Nat \ {0}
      /\ spawned \in Nat /\ Sized(dq[t]) /\ Indexed(dq[t]) /\ Newest(dq[t]) \in Nat
  BY Present
<1>2. EMPTY \notin Work /\ ABORT \notin Work /\ Main \notin Worker /\ (t = Main \/ t \in Worker)
  BY Constants, Threads
<1>a. old_array[dq[t]] # NULL => old_array[dq[t]] \in 1 .. Len(buffer[dq[t]])
  BY <1>1 DEF TypeOK, Newest
<1>3. ASSUME t \in Worker
      PROVE  ControlOf(t)'
  BY <1>1, <1>2, <1>3, GcOldDoes DEF ControlOf, Running, dequeVars, poolVars, PushPC, TakePC, StealPC, GcPC
<1>4. ASSUME t = Main
      PROVE  MainControl'
  BY <1>1, <1>2, <1>4, GcOldDoes DEF MainControl, dequeVars, poolVars, PushPC, TakePC, StealPC, GcPC
<1>5. HandsOf(t)'
  BY <1>1, <1>2, GcOldDoes DEF HandsOf, ControlOf, MainControl, dequeVars, poolVars, PushPC, TakePC, StealPC, GcPC
<1>6. BoundsOf(t)'
  BY <1>1, <1>2, GcOldDoes DEF BoundsOf, ControlOf, MainControl, dequeVars, poolVars, PushPC, TakePC, StealPC, GcPC
<1>7. PointersOf(t)'
  BY <1>1, <1>2, GcOldDoes, <1>a DEF PointersOf, Newest, ControlOf, MainControl, dequeVars, poolVars, PushPC, TakePC, StealPC, GcPC
<1>8. QED
  BY <1>3, <1>4, <1>5, <1>6, <1>7 DEF Mine

LEMMA GcCasKeeps ==
  ASSUME Base, NEW t \in Thread, gc_cas(t), UNCHANGED poolVars
  PROVE  Mine(t)'
<1>1. /\ TypeOK /\ HandsOf(t) /\ BoundsOf(t) /\ PointersOf(t) /\ dq[t] \in Deque
      /\ t \in Worker => ControlOf(t)
      /\ t = Main => MainControl
      /\ x[t] \in Work \cup {EMPTY, ABORT} /\ b[t] \in Nat /\ tt[t] \in Nat
      /\ a[t] \in Nat /\ old_a[t] \in Nat /\ top[dq[t]] \in Nat \ {0} /\ bottom[dq[t]] \in Nat \ {0}
      /\ spawned \in Nat /\ Sized(dq[t]) /\ Indexed(dq[t]) /\ Newest(dq[t]) \in Nat
  BY Present
<1>2. EMPTY \notin Work /\ ABORT \notin Work /\ Main \notin Worker /\ (t = Main \/ t \in Worker)
  BY Constants, Threads
<1>3. ASSUME t \in Worker
      PROVE  ControlOf(t)'
  BY <1>1, <1>2, <1>3, GcCasDoes DEF ControlOf, Running, dequeVars, poolVars, PushPC, TakePC, StealPC, GcPC
<1>4. ASSUME t = Main
      PROVE  MainControl'
  BY <1>1, <1>2, <1>4, GcCasDoes DEF MainControl, dequeVars, poolVars, PushPC, TakePC, StealPC, GcPC
<1>5. HandsOf(t)'
  BY <1>1, <1>2, GcCasDoes DEF HandsOf, ControlOf, MainControl, dequeVars, poolVars, PushPC, TakePC, StealPC, GcPC
<1>6. BoundsOf(t)'
  BY <1>1, <1>2, GcCasDoes DEF BoundsOf, ControlOf, MainControl, dequeVars, poolVars, PushPC, TakePC, StealPC, GcPC
<1>7. PointersOf(t)'
  BY <1>1, <1>2, GcCasDoes DEF PointersOf, Newest, ControlOf, MainControl, dequeVars, poolVars, PushPC, TakePC, StealPC, GcPC
<1>8. QED
  BY <1>3, <1>4, <1>5, <1>6, <1>7 DEF Mine

LEMMA GcScanKeeps ==
  ASSUME Base, NEW t \in Thread, gc_scan(t), UNCHANGED poolVars
  PROVE  Mine(t)'
<1>1. /\ TypeOK /\ HandsOf(t) /\ BoundsOf(t) /\ PointersOf(t) /\ dq[t] \in Deque
      /\ t \in Worker => ControlOf(t)
      /\ t = Main => MainControl
      /\ x[t] \in Work \cup {EMPTY, ABORT} /\ b[t] \in Nat /\ tt[t] \in Nat
      /\ a[t] \in Nat /\ old_a[t] \in Nat /\ top[dq[t]] \in Nat \ {0} /\ bottom[dq[t]] \in Nat \ {0}
      /\ spawned \in Nat /\ Sized(dq[t]) /\ Indexed(dq[t]) /\ Newest(dq[t]) \in Nat
  BY Present
<1>2. EMPTY \notin Work /\ ABORT \notin Work /\ Main \notin Worker /\ (t = Main \/ t \in Worker)
  BY Constants, Threads
<1>3. ASSUME t \in Worker
      PROVE  ControlOf(t)'
  BY <1>1, <1>2, <1>3, GcScanDoes DEF ControlOf, Running, dequeVars, poolVars, PushPC, TakePC, StealPC, GcPC
<1>4. ASSUME t = Main
      PROVE  MainControl'
  BY <1>1, <1>2, <1>4, GcScanDoes DEF MainControl, dequeVars, poolVars, PushPC, TakePC, StealPC, GcPC
<1>5. HandsOf(t)'
  BY <1>1, <1>2, GcScanDoes DEF HandsOf, ControlOf, MainControl, dequeVars, poolVars, PushPC, TakePC, StealPC, GcPC
<1>6. BoundsOf(t)'
  BY <1>1, <1>2, GcScanDoes DEF BoundsOf, ControlOf, MainControl, dequeVars, poolVars, PushPC, TakePC, StealPC, GcPC
<1>7. PointersOf(t)'
  BY <1>1, <1>2, GcScanDoes DEF PointersOf, Newest, ControlOf, MainControl, dequeVars, poolVars, PushPC, TakePC, StealPC, GcPC
<1>8. QED
  BY <1>3, <1>4, <1>5, <1>6, <1>7 DEF Mine

LEMMA GcPutBackKeeps ==
  ASSUME Base, NEW t \in Thread, gc_put_back(t), UNCHANGED poolVars
  PROVE  Mine(t)'
<1>1. /\ TypeOK /\ HandsOf(t) /\ BoundsOf(t) /\ PointersOf(t) /\ dq[t] \in Deque
      /\ t \in Worker => ControlOf(t)
      /\ t = Main => MainControl
      /\ x[t] \in Work \cup {EMPTY, ABORT} /\ b[t] \in Nat /\ tt[t] \in Nat
      /\ a[t] \in Nat /\ old_a[t] \in Nat /\ top[dq[t]] \in Nat \ {0} /\ bottom[dq[t]] \in Nat \ {0}
      /\ spawned \in Nat /\ Sized(dq[t]) /\ Indexed(dq[t]) /\ Newest(dq[t]) \in Nat
  BY Present
<1>2. EMPTY \notin Work /\ ABORT \notin Work /\ Main \notin Worker /\ (t = Main \/ t \in Worker)
  BY Constants, Threads
<1>3. ASSUME t \in Worker
      PROVE  ControlOf(t)'
  BY <1>1, <1>2, <1>3, GcPutBackDoes DEF ControlOf, Running, dequeVars, poolVars, PushPC, TakePC, StealPC, GcPC
<1>4. ASSUME t = Main
      PROVE  MainControl'
  BY <1>1, <1>2, <1>4, GcPutBackDoes DEF MainControl, dequeVars, poolVars, PushPC, TakePC, StealPC, GcPC
<1>5. HandsOf(t)'
  BY <1>1, <1>2, GcPutBackDoes DEF HandsOf, ControlOf, MainControl, dequeVars, poolVars, PushPC, TakePC, StealPC, GcPC
<1>6. BoundsOf(t)'
  BY <1>1, <1>2, GcPutBackDoes DEF BoundsOf, ControlOf, MainControl, dequeVars, poolVars, PushPC, TakePC, StealPC, GcPC
<1>7. PointersOf(t)'
  BY <1>1, <1>2, GcPutBackDoes DEF PointersOf, Newest, ControlOf, MainControl, dequeVars, poolVars, PushPC, TakePC, StealPC, GcPC
<1>8. QED
  BY <1>3, <1>4, <1>5, <1>6, <1>7 DEF Mine

LEMMA SpawnKeeps ==
  ASSUME Base, NEW t \in Thread, hina_spawn(t)
  PROVE  Mine(t)'
<1>1. /\ TypeOK /\ HandsOf(t) /\ BoundsOf(t) /\ PointersOf(t) /\ dq[t] \in Deque
      /\ t \in Worker => ControlOf(t)
      /\ t = Main => MainControl
      /\ x[t] \in Work \cup {EMPTY, ABORT} /\ b[t] \in Nat /\ tt[t] \in Nat
      /\ a[t] \in Nat /\ old_a[t] \in Nat /\ top[dq[t]] \in Nat \ {0} /\ bottom[dq[t]] \in Nat \ {0}
      /\ spawned \in Nat /\ Sized(dq[t]) /\ Indexed(dq[t]) /\ Newest(dq[t]) \in Nat
  BY Present
<1>2. EMPTY \notin Work /\ ABORT \notin Work /\ Main \notin Worker /\ (t = Main \/ t \in Worker)
  BY Constants, Threads
<1>a. Tid[Main] = 0 /\ \A u \in Worker : Tid[u] = u
  BY Constants
<1>b. Tid[t] \in Deque /\ bottom[Tid[t]] \in Nat /\ bottom[Tid[t]] <= spawned + 1
  BY <1>1, Threads, Ranges DEF Base, Indexed
<1>3. ASSUME t \in Worker
      PROVE  ControlOf(t)'
  BY <1>1, <1>2, <1>3, SpawnDoes, <1>a DEF ControlOf, Running, dequeVars, poolVars, PushPC, TakePC, StealPC, GcPC
<1>4. ASSUME t = Main
      PROVE  MainControl'
  BY <1>1, <1>2, <1>4, SpawnDoes, <1>a DEF MainControl, dequeVars, poolVars, PushPC, TakePC, StealPC, GcPC
<1>5. HandsOf(t)'
  BY <1>1, <1>2, SpawnDoes DEF HandsOf, ControlOf, MainControl, dequeVars, poolVars, PushPC, TakePC, StealPC, GcPC
<1>6. BoundsOf(t)'
  BY <1>1, <1>2, SpawnDoes, <1>b DEF BoundsOf, ControlOf, MainControl, dequeVars, poolVars, PushPC, TakePC, StealPC, GcPC
<1>7. PointersOf(t)'
  BY <1>1, <1>2, SpawnDoes DEF PointersOf, Newest, ControlOf, MainControl, dequeVars, poolVars, PushPC, TakePC, StealPC, GcPC
<1>8. QED
  BY <1>3, <1>4, <1>5, <1>6, <1>7 DEF Mine

LEMMA DoWorkKeeps ==
  ASSUME Base, NEW t \in Thread, do_work(t)
  PROVE  Mine(t)'
<1>1. /\ TypeOK /\ HandsOf(t) /\ BoundsOf(t) /\ PointersOf(t) /\ dq[t] \in Deque
      /\ t \in Worker => ControlOf(t)
      /\ t = Main => MainControl
      /\ x[t] \in Work \cup {EMPTY, ABORT} /\ b[t] \in Nat /\ tt[t] \in Nat
      /\ a[t] \in Nat /\ old_a[t] \in Nat /\ top[dq[t]] \in Nat \ {0} /\ bottom[dq[t]] \in Nat \ {0}
      /\ spawned \in Nat /\ Sized(dq[t]) /\ Indexed(dq[t]) /\ Newest(dq[t]) \in Nat
  BY Present
<1>2. EMPTY \notin Work /\ ABORT \notin Work /\ Main \notin Worker /\ (t = Main \/ t \in Worker)
  BY Constants, Threads
<1>3. ASSUME t \in Worker
      PROVE  ControlOf(t)'
  BY <1>1, <1>2, <1>3, DoWorkDoes DEF ControlOf, Running, dequeVars, poolVars, PushPC, TakePC, StealPC, GcPC
<1>4. ASSUME t = Main
      PROVE  MainControl'
  BY <1>1, <1>2, <1>4, DoWorkDoes DEF MainControl, dequeVars, poolVars, PushPC, TakePC, StealPC, GcPC
<1>5. HandsOf(t)'
  BY <1>1, <1>2, DoWorkDoes DEF HandsOf, ControlOf, MainControl, dequeVars, poolVars, PushPC, TakePC, StealPC, GcPC
<1>6. BoundsOf(t)'
  BY <1>1, <1>2, DoWorkDoes DEF BoundsOf, ControlOf, MainControl, dequeVars, poolVars, PushPC, TakePC, StealPC, GcPC
<1>7. PointersOf(t)'
  BY <1>1, <1>2, DoWorkDoes DEF PointersOf, Newest, ControlOf, MainControl, dequeVars, poolVars, PushPC, TakePC, StealPC, GcPC
<1>8. QED
  BY <1>3, <1>4, <1>5, <1>6, <1>7 DEF Mine

LEMMA WorkDoneKeeps ==
  ASSUME Base, NEW t \in Thread, work_done(t)
  PROVE  Mine(t)'
<1>1. /\ TypeOK /\ HandsOf(t) /\ BoundsOf(t) /\ PointersOf(t) /\ dq[t] \in Deque
      /\ t \in Worker => ControlOf(t)
      /\ t = Main => MainControl
      /\ x[t] \in Work \cup {EMPTY, ABORT} /\ b[t] \in Nat /\ tt[t] \in Nat
      /\ a[t] \in Nat /\ old_a[t] \in Nat /\ top[dq[t]] \in Nat \ {0} /\ bottom[dq[t]] \in Nat \ {0}
      /\ spawned \in Nat /\ Sized(dq[t]) /\ Indexed(dq[t]) /\ Newest(dq[t]) \in Nat
  BY Present
<1>2. EMPTY \notin Work /\ ABORT \notin Work /\ Main \notin Worker /\ (t = Main \/ t \in Worker)
  BY Constants, Threads
<1>3. ASSUME t \in Worker
      PROVE  ControlOf(t)'
  BY <1>1, <1>2, <1>3, WorkDoneDoes DEF ControlOf, Running, dequeVars, poolVars, PushPC, TakePC, StealPC, GcPC
<1>4. ASSUME t = Main
      PROVE  MainControl'
  BY <1>1, <1>2, <1>4, WorkDoneDoes DEF MainControl, dequeVars, poolVars, PushPC, TakePC, StealPC, GcPC
<1>5. HandsOf(t)'
  BY <1>1, <1>2, WorkDoneDoes DEF HandsOf, ControlOf, MainControl, dequeVars, poolVars, PushPC, TakePC, StealPC, GcPC
<1>6. BoundsOf(t)'
  BY <1>1, <1>2, WorkDoneDoes DEF BoundsOf, ControlOf, MainControl, dequeVars, poolVars, PushPC, TakePC, StealPC, GcPC
<1>7. PointersOf(t)'
  BY <1>1, <1>2, WorkDoneDoes DEF PointersOf, Newest, ControlOf, MainControl, dequeVars, poolVars, PushPC, TakePC, StealPC, GcPC
<1>8. QED
  BY <1>3, <1>4, <1>5, <1>6, <1>7 DEF Mine

LEMMA StealsKeep ==
  ASSUME Base, NEW t \in Thread, first_steal(t) \/ next_steal(t)
  PROVE  Mine(t)'
<1>1. /\ TypeOK /\ HandsOf(t) /\ BoundsOf(t) /\ PointersOf(t) /\ dq[t] \in Deque
      /\ t \in Worker => ControlOf(t)
      /\ t = Main => MainControl
      /\ x[t] \in Work \cup {EMPTY, ABORT} /\ b[t] \in Nat /\ tt[t] \in Nat
      /\ a[t] \in Nat /\ old_a[t] \in Nat /\ top[dq[t]] \in Nat \ {0} /\ bottom[dq[t]] \in Nat \ {0}
      /\ spawned \in Nat /\ Sized(dq[t]) /\ Indexed(dq[t]) /\ Newest(dq[t]) \in Nat
  BY Present
<1>2. EMPTY \notin Work /\ ABORT \notin Work /\ Main \notin Worker /\ (t = Main \/ t \in Worker)
  BY Constants, Threads
<1>3. ASSUME t \in Worker
      PROVE  ControlOf(t)'
  BY <1>1, <1>2, <1>3, StealDoes DEF ControlOf, Running, dequeVars, poolVars, PushPC, TakePC, StealPC, GcPC
<1>4. ASSUME t = Main
      PROVE  MainControl'
  BY <1>1, <1>2, <1>4, StealDoes DEF MainControl, dequeVars, poolVars, PushPC, TakePC, StealPC, GcPC
<1>5. HandsOf(t)'
  BY <1>1, <1>2, StealDoes DEF HandsOf, ControlOf, MainControl, dequeVars, poolVars, PushPC, TakePC, StealPC, GcPC
<1>6. BoundsOf(t)'
  BY <1>1, <1>2, StealDoes DEF BoundsOf, ControlOf, MainControl, dequeVars, poolVars, PushPC, TakePC, StealPC, GcPC
<1>7. PointersOf(t)'
  BY <1>1, <1>2, StealDoes DEF PointersOf, Newest, ControlOf, MainControl, dequeVars, poolVars, PushPC, TakePC, StealPC, GcPC
<1>8. QED
  BY <1>3, <1>4, <1>5, <1>6, <1>7 DEF Mine

LEMMA CheckDoneKeeps ==
  ASSUME Base, NEW t \in Thread, check_done(t)
  PROVE  Mine(t)'
<1>1. /\ TypeOK /\ HandsOf(t) /\ BoundsOf(t) /\ PointersOf(t) /\ dq[t] \in Deque
      /\ t \in Worker => ControlOf(t)
      /\ t = Main => MainControl
      /\ x[t] \in Work \cup {EMPTY, ABORT} /\ b[t] \in Nat /\ tt[t] \in Nat
      /\ a[t] \in Nat /\ old_a[t] \in Nat /\ top[dq[t]] \in Nat \ {0} /\ bottom[dq[t]] \in Nat \ {0}
      /\ spawned \in Nat /\ Sized(dq[t]) /\ Indexed(dq[t]) /\ Newest(dq[t]) \in Nat
  BY Present
<1>2. EMPTY \notin Work /\ ABORT \notin Work /\ Main \notin Worker /\ (t = Main \/ t \in Worker)
  BY Constants, Threads
<1>3. ASSUME t \in Worker
      PROVE  ControlOf(t)'
  BY <1>1, <1>2, <1>3, CheckDoneDoes DEF ControlOf, Running, dequeVars, poolVars, PushPC, TakePC, StealPC, GcPC
<1>4. ASSUME t = Main
      PROVE  MainControl'
  BY <1>1, <1>2, <1>4, CheckDoneDoes DEF MainControl, dequeVars, poolVars, PushPC, TakePC, StealPC, GcPC
<1>5. HandsOf(t)'
  BY <1>1, <1>2, CheckDoneDoes DEF HandsOf, ControlOf, MainControl, dequeVars, poolVars, PushPC, TakePC, StealPC, GcPC
<1>6. BoundsOf(t)'
  BY <1>1, <1>2, CheckDoneDoes DEF BoundsOf, ControlOf, MainControl, dequeVars, poolVars, PushPC, TakePC, StealPC, GcPC
<1>7. PointersOf(t)'
  BY <1>1, <1>2, CheckDoneDoes DEF PointersOf, Newest, ControlOf, MainControl, dequeVars, poolVars, PushPC, TakePC, StealPC, GcPC
<1>8. QED
  BY <1>3, <1>4, <1>5, <1>6, <1>7 DEF Mine

LEMMA ExitKeeps ==
  ASSUME Base, NEW t \in Thread, hina_exit(t)
  PROVE  Mine(t)'
<1>1. /\ TypeOK /\ HandsOf(t) /\ BoundsOf(t) /\ PointersOf(t) /\ dq[t] \in Deque
      /\ t \in Worker => ControlOf(t)
      /\ t = Main => MainControl
      /\ x[t] \in Work \cup {EMPTY, ABORT} /\ b[t] \in Nat /\ tt[t] \in Nat
      /\ a[t] \in Nat /\ old_a[t] \in Nat /\ top[dq[t]] \in Nat \ {0} /\ bottom[dq[t]] \in Nat \ {0}
      /\ spawned \in Nat /\ Sized(dq[t]) /\ Indexed(dq[t]) /\ Newest(dq[t]) \in Nat
  BY Present
<1>2. EMPTY \notin Work /\ ABORT \notin Work /\ Main \notin Worker /\ (t = Main \/ t \in Worker)
  BY Constants, Threads
<1>3. ASSUME t \in Worker
      PROVE  ControlOf(t)'
  BY <1>1, <1>2, <1>3, ExitDoes DEF ControlOf, Running, dequeVars, poolVars, PushPC, TakePC, StealPC, GcPC
<1>4. ASSUME t = Main
      PROVE  MainControl'
  BY <1>1, <1>2, <1>4, ExitDoes DEF MainControl, dequeVars, poolVars, PushPC, TakePC, StealPC, GcPC
<1>5. HandsOf(t)'
  BY <1>1, <1>2, ExitDoes DEF HandsOf, ControlOf, MainControl, dequeVars, poolVars, PushPC, TakePC, StealPC, GcPC
<1>6. BoundsOf(t)'
  BY <1>1, <1>2, ExitDoes DEF BoundsOf, ControlOf, MainControl, dequeVars, poolVars, PushPC, TakePC, StealPC, GcPC
<1>7. PointersOf(t)'
  BY <1>1, <1>2, ExitDoes DEF PointersOf, Newest, ControlOf, MainControl, dequeVars, poolVars, PushPC, TakePC, StealPC, GcPC
<1>8. QED
  BY <1>3, <1>4, <1>5, <1>6, <1>7 DEF Mine

-----------------------------------------------------------------------------
(* The labels a step leads from and to.                                    *)
LEMMA Flow ==
  ASSUME Base, NEW t \in Thread, ThreadStep(t)
  PROVE  \/ push_top(t) /\ pc[t] = "push_top" /\ pc'[t] \in {"push_bottom", "resize"}
         \/ resize(t) /\ pc[t] = "resize" /\ pc'[t] = "resize_old"
         \/ resize_old(t) /\ pc[t] = "resize_old" /\ pc'[t] \in {"push_bottom", "aborted"}
         \/ push_bottom(t) /\ pc[t] = "push_bottom" /\ pc'[t] = "gc_array"
         \/ take_top(t) /\ pc[t] = "take_top" /\ pc'[t] \in {"take_bottom", "take_cas", "gc_array"}
         \/ take_cas(t) /\ pc[t] = "take_cas" /\ pc'[t] = "gc_array"
         \/ take_bottom(t) /\ pc[t] = "take_bottom" /\ pc'[t] = "gc_array"
         \/ steal_top(t) /\ pc[t] = "steal_top" /\ pc'[t] = "steal_bottom"
         \/ steal_bottom(t) /\ pc[t] = "steal_bottom" /\ pc'[t] \in {"steal_array", "gc_array"}
         \/ steal_array(t) /\ pc[t] = "steal_array" /\ pc'[t] = "steal_slot"
         \/ steal_slot(t) /\ pc[t] = "steal_slot" /\ pc'[t] = "steal_cas"
         \/ steal_cas(t) /\ pc[t] = "steal_cas" /\ pc'[t] = "gc_array"
         \/ gc_array(t) /\ pc[t] = "gc_array" /\ pc'[t] = "gc_handle"
         \/ gc_handle(t) /\ pc[t] = "gc_handle" /\ pc'[t] = "gc_old"
         \/ gc_old(t) /\ pc[t] = "gc_old" /\ pc'[t] \in {"gc_cas", ret[t]}
         \/ gc_cas(t) /\ pc[t] = "gc_cas" /\ pc'[t] \in {"gc_scan", ret[t]}
         \/ gc_scan(t) /\ pc[t] = "gc_scan" /\ pc'[t] \in {"gc_scan", "gc_put_back", ret[t]}
         \/ gc_put_back(t) /\ pc[t] = "gc_put_back" /\ pc'[t] = ret[t]
         \/ hina_spawn(t) /\ pc[t] \in {"spawn", "run"} /\ pc'[t] = "push_top"
         \/ t \in Worker /\ do_work(t) /\ pc[t] \in {"taken", "stolen"} /\ pc'[t] = "run"
         \/ t \in Worker /\ work_done(t) /\ pc[t] = "run" /\ pc'[t] = "take_top"
         \/ /\ t \in Worker /\ (first_steal(t) \/ next_steal(t))
            /\ pc[t] \in {"taken", "stolen"} /\ pc'[t] = "steal_top"
         \/ /\ t \in Worker /\ check_done(t) /\ pc[t] \in {"taken", "stolen"}
            /\ pc'[t] = "take_top" \/ (pc'[t] = "exit" /\ done)
         \/ t = Main /\ exit_wait(t) /\ pc[t] = "wait" /\ pc'[t] = "join"
         \/ t = Main /\ exit_join(t) /\ pc[t] = "join" /\ pc'[t] = "exit"
<1>1. TypeOK
  BY DEF Base
<1>2. CASE DequeStep(t)
  <2>1. CASE push_top(t) \/ resize(t) \/ resize_old(t)
    BY <1>1, <2>1, PushTopDoes, ResizeDoes, ResizeOldDoes
  <2>2. CASE push_bottom(t)
    <3>1. pc[t] = "push_bottom"
      BY <2>2 DEF push_bottom
    <3>2. bottom[dq[t]] = b[t]
      BY <3>1 DEF Base, BoundsOf
    <3>3. QED
      BY <1>1, <2>2, <3>1, <3>2, PushBottomDoes
  <2>3. CASE take_top(t) \/ take_cas(t) \/ take_bottom(t)
    BY <1>1, <2>3, TakeTopDoes, TakeCasDoes, TakeBottomDoes
  <2>4. CASE steal_top(t) \/ steal_bottom(t) \/ steal_array(t) \/ steal_slot(t) \/ steal_cas(t)
    BY <1>1, <2>4, StealTopDoes, StealBottomDoes, StealArrayDoes, StealSlotDoes, StealCasDoes
  <2>5. CASE gc_array(t) \/ gc_handle(t) \/ gc_old(t)
    BY <1>1, <2>5, GcArrayDoes, GcHandleDoes, GcOldDoes
  <2>6. CASE gc_cas(t) \/ gc_scan(t) \/ gc_put_back(t)
    BY <1>1, <2>6, GcCasDoes, GcScanDoes, GcPutBackDoes
  <2>7. QED
    BY <1>2, <2>1, <2>2, <2>3, <2>4, <2>5, <2>6 DEF DequeStep
<1>3. CASE hina_spawn(t)
  BY <1>1, <1>3, SpawnDoes
<1>4. CASE t \in Worker /\ (do_work(t) \/ work_done(t))
  BY <1>1, <1>4, DoWorkDoes, WorkDoneDoes
<1>5. CASE t \in Worker /\ (first_steal(t) \/ next_steal(t))
  BY <1>1, <1>5, StealDoes
<1>6. CASE t \in Worker /\ check_done(t)
  BY <1>1, <1>6, CheckDoneDoes
<1>7. CASE t = Main /\ hina_exit(t)
  BY <1>1, <1>7, Domains DEF hina_exit, exit_wait, exit_join, Step
<1>8. QED
  BY <1>2, <1>3, <1>4, <1>5, <1>6, <1>7 DEF ThreadStep, thread

LEMMA Moves ==
  ASSUME Base, NEW t \in Thread, ThreadStep(t)
  PROVE  /\ pc[t] \notin {"exit", "aborted"} /\ pc'[t] # "spawn"
         /\ pc'[t] = "exit" => (t \in Worker /\ done) \/ exit_join(t)
<1>1. ret[t] \in {"taken", "stolen", "run", "wait"}
  BY DEF Base, TypeOK
<1>2. QED
  BY <1>1, Flow

LEMMA MineStep ==
  ASSUME Base, NEW t \in Thread, ThreadStep(t)
  PROVE  Mine(t)'
<1>1. CASE DequeStep(t) /\ UNCHANGED poolVars
  BY <1>1, PushTopKeeps, ResizeKeeps, ResizeOldKeeps, PushBottomKeeps, TakeTopKeeps, TakeCasKeeps,
     TakeBottomKeeps, StealTopKeeps, StealBottomKeeps, StealArrayKeeps, StealSlotKeeps,
     StealCasKeeps, GcArrayKeeps, GcHandleKeeps, GcOldKeeps, GcCasKeeps, GcScanKeeps,
     GcPutBackKeeps DEF DequeStep
<1>2. CASE hina_spawn(t) \/ do_work(t) \/ work_done(t)
  BY <1>2, SpawnKeeps, DoWorkKeeps, WorkDoneKeeps
<1>3. CASE first_steal(t) \/ next_steal(t) \/ check_done(t) \/ hina_exit(t)
  BY <1>3, StealsKeep, CheckDoneKeeps, ExitKeeps
<1>4. QED
  BY <1>1, <1>2, <1>3 DEF ThreadStep, thread

-----------------------------------------------------------------------------
(* Types.                                                                  *)
LEMMA ArraysTyped ==
  ASSUME Base, NEW t \in Thread, ThreadStep(t)
  PROVE  TypeOfArrays'
<1>1. TypeOK /\ dq[t] \in Deque /\ PointersOf(t) /\ HandsOf(t) /\ (\A q \in Deque : Sized(q))
  BY DEF Base, TypeOK
<1>2. buffer' \in [Deque -> Seq(Seq(Work \cup {NULL}))]
  BY <1>1, Buffers DEF Cell
<1>3. \A q \in Deque : Newest(q) \in Nat /\ Newest(q)' \in Nat /\ Newest(q) <= Newest(q)' /\ 0 < Newest(q)
  BY <1>1, Buffers, Newer DEF Sized
<1>4. /\ old_array' \in [Deque -> Nat \cup {NULL}]
      /\ \A q \in Deque : old_array'[q] \in 1 .. Newest(q) \cup {NULL}
  <2>1. /\ old_array \in [Deque -> Nat \cup {NULL}]
        /\ \A q \in Deque : old_array[q] \in 1 .. Newest(q) \cup {NULL}
    BY <1>1 DEF TypeOK
  <2>2. ASSUME NEW v \in 1 .. Newest(dq[t]) \cup {NULL}, old_array' = Set(old_array, dq[t], v)
        PROVE  /\ old_array' \in [Deque -> Nat \cup {NULL}]
               /\ \A q \in Deque : old_array'[q] \in 1 .. Newest(q) \cup {NULL}
    BY <1>1, <2>1, <2>2, <1>3 DEF Set
  <2>3. CASE old_array' = old_array
    BY <2>1, <2>3
  <2>4. CASE resize_old(t)
    <3>1. old_array' = old_array \/ (old_array' = Set(old_array, dq[t], a[t]) /\ a[t] \in 1 .. Newest(dq[t]))
      BY <1>1, <2>4 DEF resize_old, Step, PointersOf
    <3>2. QED
      BY <2>2, <2>3, <3>1
  <2>5. CASE gc_cas(t)
    <3>1. old_array' = old_array \/ old_array' = Set(old_array, dq[t], NULL)
      BY <2>5 DEF gc_cas
    <3>2. QED
      BY <2>2, <2>3, <3>1
  <2>6. CASE gc_put_back(t)
    <3>1. old_array' = Set(old_array, dq[t], old_a[t]) /\ old_a[t] \in 1 .. Newest(dq[t])
      BY <1>1, <2>6 DEF gc_put_back, Step, PointersOf
    <3>2. QED
      BY <2>2, <3>1
  <2>7. QED
    BY <1>1, <2>3, <2>4, <2>5, <2>6, Writers
<1>5. /\ handle' \in [Deque -> [Deque -> Nat]]
      /\ \A q, k \in Deque : handle'[q][k] \in 1 .. Newest(q)
  <2>1. /\ handle \in [Deque -> [Deque -> Nat]]
        /\ \A q, k \in Deque : handle[q][k] \in 1 .. Newest(q)
    BY <1>1 DEF TypeOK
  <2>2. CASE handle' = handle
    BY <2>1, <2>2
  <2>3. CASE gc_handle(t)
    <3>1. /\ handle' = [handle EXCEPT ![dq[t]][Tid[t]] = a[t]]
          /\ a[t] \in 1 .. Newest(dq[t]) /\ Tid[t] \in Deque
      BY <1>1, <2>3, Threads DEF gc_handle, Step, PointersOf
    <3>2. handle' \in [Deque -> [Deque -> Nat]]
      BY <1>1, <1>3, <2>1, <3>1
    <3>3. \A q, k \in Deque :
            handle'[q][k] = IF q = dq[t] /\ k = Tid[t] THEN a[t] ELSE handle[q][k]
      BY <1>1, <2>1, <3>1
    <3>4. QED
      BY <2>1, <3>1, <3>2, <3>3
  <2>4. QED
    BY <1>1, <2>2, <2>3, Writers
<1>6. /\ freed' \in [Deque -> SUBSET Nat]
      /\ \A q \in Deque : freed'[q] \subseteq 1 .. Newest(q)
  <2>1. /\ freed \in [Deque -> SUBSET Nat]
        /\ \A q \in Deque : freed[q] \subseteq 1 .. Newest(q)
    BY <1>1 DEF TypeOK
  <2>2. CASE freed' = freed
    BY <2>1, <2>2
  <2>3. CASE gc_scan(t)
    <3>1. /\ freed' = freed \/ freed' = Set(freed, dq[t], freed[dq[t]] \cup {old_a[t]})
          /\ old_a[t] \in 1 .. Newest(dq[t])
      BY <1>1, <2>3 DEF gc_scan, Step, PointersOf
    <3>2. \A q \in Deque : freed'[q] \subseteq 1 .. Newest(q)
      BY <1>1, <2>1, <3>1 DEF Set
    <3>3. freed' \in [Deque -> SUBSET Nat]
      BY <1>1, <1>3, <2>1, <3>1 DEF Set
    <3>4. QED
      BY <3>2, <3>3
  <2>4. CASE exit_join(t)
    <3>1. \A q \in Deque : old_array[q] \in 1 .. Newest(q) \cup {NULL}
      BY <1>1 DEF TypeOK
    <3>2. freed' = [q \in Deque |-> freed[q] \cup {Newest(q)} \cup ({old_array[q]} \ {NULL})]
      BY <2>4 DEF exit_join
    <3>3. \A q \in Deque : freed[q] \cup {Newest(q)} \cup ({old_array[q]} \ {NULL}) \subseteq 1 .. Newest(q)
      BY <1>3, <2>1, <3>1
    <3>4. QED
      BY <1>3, <3>2, <3>3
  <2>5. QED
    BY <1>1, <2>2, <2>3, <2>4, Writers
<1>7. ASSUME NEW q \in Deque
      PROVE  /\ old_array'[q] \in 1 .. Newest(q)' \cup {NULL}
             /\ \A k \in Deque : handle'[q][k] \in 1 .. Newest(q)'
             /\ freed'[q] \subseteq 1 .. Newest(q)'
  <2>1. 1 .. Newest(q) \subseteq 1 .. Newest(q)'
    BY <1>3
  <2>2. QED
    BY <1>4, <1>5, <1>6, <2>1
<1>8. QED
  BY <1>2, <1>4, <1>5, <1>6, <1>7 DEF TypeOfArrays

LEMMA FlagsTyped ==
  ASSUME Base, NEW t \in Thread, ThreadStep(t)
  PROVE  TypeOfFlags'
<1>a. TypeOK /\ dq[t] \in Deque /\ Newest(dq[t]) \in Nat /\ Sized(dq[t])
  BY Present
<1>1. TypeOK /\ dq[t] \in Deque /\ Newest(dq[t]) \in 1 .. Newest(dq[t]) /\ Sized(dq[t])
  BY <1>a DEF Sized
<1>2. failed' \in BOOLEAN /\ overtaken' \in BOOLEAN /\ hidden' \in BOOLEAN
  <2>1. failed \in BOOLEAN /\ overtaken \in BOOLEAN /\ hidden \in BOOLEAN
    BY <1>1 DEF TypeOK
  <2>2. /\ failed' = failed \/ failed' = TRUE
        /\ hidden' = hidden \/ hidden' = (hidden \/ InGc(dq[t]) # {})
        /\ overtaken' = overtaken \/ overtaken' = (overtaken \/ x[t] \in kept)
    BY <1>1, Writers DEF resize_old, steal_cas
  <2>3. QED
    BY <2>1, <2>2
<1>3. kept' \subseteq Work \cup {EMPTY}
  <2>1. CASE kept' = kept
    BY <1>1, <2>1 DEF TypeOK
  <2>2. CASE take_top(t)
    <3>1. Sub(bottom[dq[t]], 1) \in Nat
      BY <1>1, Below
    <3>2. Loads(dq[t], Newest(dq[t]), Sub(bottom[dq[t]], 1)) \subseteq Work \cup {EMPTY}
      BY <1>1, <3>1, LoadsTyped
    <3>3. QED
      BY <1>1, <2>2, <3>2 DEF take_top, TypeOK
  <2>3. QED
    BY <1>1, <2>1, <2>2, Writers
<1>4. QED
  BY <1>2, <1>3 DEF TypeOfFlags

LEMMA CallsTyped ==
  ASSUME Base, NEW t \in Thread, ThreadStep(t)
  PROVE  TypeOfCalls'
<1> DEFINE Labels == DequePC \cup {"spawn", "wait", "join", "taken", "stolen",
                                   "run", "exit", "aborted"}
           Returns == {"taken", "stolen", "run", "wait"}
           All == pc' \in [Thread -> Labels] /\ dq' \in [Thread -> Deque] /\ ret' \in [Thread -> Returns]
<1>1. /\ pc \in [Thread -> Labels] /\ dq \in [Thread -> Deque] /\ ret \in [Thread -> Returns]
      /\ ret[t] \in Labels
  BY DEF Base, TypeOK
<1>4. /\ "push_top" \in Labels /\ "resize" \in Labels /\ "resize_old" \in Labels /\ "push_bottom" \in Labels
      /\ "take_top" \in Labels /\ "take_cas" \in Labels /\ "take_bottom" \in Labels /\ "steal_top" \in Labels
      /\ "steal_bottom" \in Labels /\ "steal_array" \in Labels /\ "steal_slot" \in Labels /\ "steal_cas" \in Labels
      /\ "gc_array" \in Labels /\ "gc_handle" \in Labels /\ "gc_old" \in Labels /\ "gc_cas" \in Labels
      /\ "gc_scan" \in Labels /\ "gc_put_back" \in Labels /\ "run" \in Labels /\ "exit" \in Labels
      /\ "join" \in Labels /\ "aborted" \in Labels
      /\ "taken" \in Returns /\ "stolen" \in Returns /\ "run" \in Returns /\ "wait" \in Returns
  BY DEF DequePC
<1> SUFFICES All
  BY DEF TypeOfCalls
<1> HIDE DEF Labels, Returns
<1>5. CASE DequeStep(t)
  <2>1. CASE push_top(t) \/ resize(t) \/ resize_old(t) \/ push_bottom(t)
    BY <1>1, <1>4, <2>1 DEF push_top, resize, resize_old, push_bottom, Step, localVars
  <2>2. CASE take_top(t) \/ take_cas(t) \/ take_bottom(t)
    BY <1>1, <1>4, <2>2 DEF take_top, take_cas, take_bottom, Step
  <2>3. CASE steal_top(t) \/ steal_bottom(t) \/ steal_array(t) \/ steal_slot(t) \/ steal_cas(t)
    BY <1>1, <1>4, <2>3 DEF steal_top, steal_bottom, steal_array, steal_slot, steal_cas, Step
  <2>4. CASE gc_array(t) \/ gc_handle(t) \/ gc_old(t) \/ gc_cas(t) \/ gc_put_back(t)
    BY <1>1, <1>4, <2>4 DEF gc_array, gc_handle, gc_old, gc_cas, gc_put_back, Step
  <2>5. CASE gc_scan(t)
    <3>1. CASE pc' = pc
      BY <1>1, <2>5, <3>1 DEF gc_scan
    <3>2. CASE pc' # pc
      BY <1>1, <1>4, <2>5, <3>2 DEF gc_scan, Step
    <3>3. QED
      BY <3>1, <3>2
  <2>6. QED
    BY <1>5, <2>1, <2>2, <2>3, <2>4, <2>5 DEF DequeStep
<1>6. CASE hina_spawn(t)
  <2>1. Tid[t] \in Deque
    BY Threads
  <2>2. QED
    BY <1>1, <1>4, <1>6, <2>1 DEF hina_spawn, deque_push, DequeCall, Set
<1>7. CASE do_work(t)
  BY <1>1, <1>4, <1>7 DEF do_work, Set
<1>8. CASE t \in Worker /\ work_done(t)
  BY <1>1, <1>4, <1>8, Constants DEF work_done, deque_take, DequeCall, Set
<1>9. CASE first_steal(t) \/ next_steal(t)
  <2>1. PICK n \in {0, dq[t], dq[t] + 1} : StealFrom(t, n)
    BY <1>9 DEF first_steal, next_steal
  <2>2. PICK q \in Deque : dq' = [dq EXCEPT ![t] = q]
    BY <2>1, VictimIsOther DEF StealFrom, deque_steal, DequeCall, Set
  <2>3. QED
    BY <1>1, <1>4, <2>1, <2>2 DEF StealFrom, deque_steal, DequeCall, Set
<1>10. CASE t \in Worker /\ check_done(t)
  <2>1. CASE dq' = dq /\ ret' = ret /\ pc' = Set(pc, t, "exit")
    BY <1>1, <1>4, <2>1 DEF Set
  <2>2. CASE deque_take(t, t, "taken")
    BY <1>1, <1>4, <1>10, <2>2, Constants DEF deque_take, DequeCall, Set
  <2>3. QED
    BY <1>10, <2>1, <2>2 DEF check_done, localVars
<1>11. CASE hina_exit(t)
  BY <1>1, <1>4, <1>11 DEF hina_exit, exit_wait, exit_join, Step, localVars
<1>12. QED
  BY <1>5, <1>6, <1>7, <1>8, <1>9, <1>10, <1>11 DEF ThreadStep, thread

LEMMA LocalsTyped ==
  ASSUME Base, NEW t \in Thread, ThreadStep(t)
  PROVE  TypeOfLocals'
<1> DEFINE Sizes == 0 .. SIZE_MAX
           Values == Work \cup {EMPTY, ABORT}
<1>a. /\ TypeOK /\ dq[t] \in Deque /\ PointersOf(t) /\ tt[t] \in Nat
      /\ Newest(dq[t]) \in Nat /\ Newest(dq[t]) \in 1 .. Newest(dq[t]) /\ Sized(dq[t])
  BY Present DEF Sized
<1>b. bottom[dq[t]] \in Sizes /\ top[dq[t]] \in Sizes
  <2>1. bottom[dq[t]] \in 1 .. SIZE_MAX /\ top[dq[t]] \in 1 .. SIZE_MAX
    BY <1>a DEF TypeOK
  <2>2. \A n \in 1 .. SIZE_MAX : n \in Sizes
    BY Constants
  <2>3. QED
    BY <2>1, <2>2
<1>c. /\ b \in [Thread -> Sizes] /\ tt \in [Thread -> Sizes] /\ x \in [Thread -> Values]
      /\ a \in [Thread -> Nat] /\ old_a \in [Thread -> Nat] /\ i \in [Thread -> Deque]
  BY <1>a DEF TypeOK
<1>1. /\ TypeOK /\ dq[t] \in Deque /\ PointersOf(t) /\ tt[t] \in Nat
      /\ bottom[dq[t]] \in Sizes /\ top[dq[t]] \in Sizes
      /\ Newest(dq[t]) \in Nat /\ Newest(dq[t]) \in 1 .. Newest(dq[t]) /\ Sized(dq[t])
      /\ b \in [Thread -> Sizes] /\ tt \in [Thread -> Sizes] /\ x \in [Thread -> Values]
      /\ a \in [Thread -> Nat] /\ old_a \in [Thread -> Nat] /\ i \in [Thread -> Deque]
  BY <1>a, <1>b, <1>c
<1>2. 0 \in Sizes /\ 0 \in Nat /\ 0 \in Deque /\ EMPTY \in Values /\ ABORT \in Values
  BY Constants
<1>3. Sub(bottom[dq[t]], 1) \in Nat /\ Sub(bottom[dq[t]], 1) \in Sizes
  BY <1>1, Below
<1> HIDE DEF Sizes
<1>4. CASE DequeStep(t)
  <2>1. CASE push_top(t) \/ resize(t) \/ resize_old(t) \/ push_bottom(t)
    <3>1. CASE push_top(t)
      BY <1>1, <3>1 DEF push_top, Set, TypeOfLocals, Sizes
    <3>2. CASE resize(t)
      BY <1>1, <3>2 DEF resize, localVars, TypeOfLocals, Sizes
    <3>3. CASE resize_old(t)
      BY <1>1, <3>3 DEF resize_old, Set, TypeOfLocals, Sizes
    <3>4. CASE push_bottom(t)
      BY <1>1, <1>2, <3>4 DEF push_bottom, ForgetLocals, Set, TypeOfLocals, Sizes
    <3>5. QED
      BY <2>1, <3>1, <3>2, <3>3, <3>4
  <2>2. CASE take_top(t)
    <3>1. Loads(dq[t], Newest(dq[t]), Sub(bottom[dq[t]], 1)) \subseteq Values
      BY <1>1, <1>3, LoadsTyped
    <3>2. x' \in [Thread -> Values]
      BY <1>1, <2>2, <3>1 DEF take_top, Set
    <3>3. b' \in [Thread -> Sizes] /\ tt' \in [Thread -> Sizes]
      BY <1>1, <1>3, <2>2 DEF take_top, Set
    <3>4. QED
      BY <1>1, <2>2, <3>2, <3>3 DEF take_top, TypeOfLocals, Sizes
  <2>3. CASE take_cas(t) \/ take_bottom(t) \/ steal_cas(t)
    BY <1>1, <1>2, <2>3 DEF take_cas, take_bottom, steal_cas, ForgetLocals, Set, TypeOfLocals, Sizes
  <2>4. CASE steal_top(t) \/ steal_bottom(t) \/ steal_array(t)
    BY <1>1, <1>2, <2>4 DEF steal_top, steal_bottom, steal_array, ForgetLocals, Set, TypeOfLocals, Sizes
  <2>5. CASE steal_slot(t)
    <3>1. Loads(dq[t], a[t], tt[t]) \subseteq Values
      <4>1. a[t] \in 1 .. Newest(dq[t])
        BY <1>1, <2>5 DEF PointersOf, steal_slot, Step
      <4>2. QED
        BY <1>1, <4>1, LoadsTyped
    <3>2. x' \in [Thread -> Values]
      BY <1>1, <2>5, <3>1 DEF steal_slot, Set
    <3>3. QED
      BY <1>1, <2>5, <3>2 DEF steal_slot, TypeOfLocals, Sizes
  <2>6. CASE gc_array(t) \/ gc_handle(t) \/ gc_put_back(t)
    BY <1>1, <1>2, <2>6 DEF gc_array, gc_handle, gc_put_back, GcEnds, Set, TypeOfLocals, Sizes
  <2>7. CASE gc_old(t)
    <3>1. old_array[dq[t]] \in Nat \cup {NULL}
      BY <1>1 DEF TypeOK
    <3>2. QED
      BY <1>1, <1>2, <2>7, <3>1 DEF gc_old, Set, TypeOfLocals, Sizes
  <2>8. CASE gc_cas(t)
    BY <1>1, <1>2, <2>8 DEF gc_cas, GcEnds, Set, TypeOfLocals, Sizes
  <2>9. CASE gc_scan(t)
    <3>1. i[t] + 1 < NR_THREADS => i[t] + 1 \in Deque
      <4>1. i[t] \in Deque
        BY <1>1
      <4>2. QED
        BY <4>1, Constants DEF Deque
    <3>2. i' \in [Thread -> Deque]
      BY <1>1, <1>2, <2>9, <3>1 DEF gc_scan, GcEnds, Set
    <3>3. old_a' \in [Thread -> Nat]
      BY <1>1, <1>2, <2>9 DEF gc_scan, GcEnds, Set
    <3>4. QED
      BY <1>1, <2>9, <3>2, <3>3 DEF gc_scan, TypeOfLocals, Sizes
  <2>10. QED
    BY <1>4, <2>1, <2>2, <2>3, <2>4, <2>5, <2>6, <2>7, <2>8, <2>9 DEF DequeStep
<1>5. CASE hina_spawn(t)
  <2>1. spawned' \in Values
    BY <1>1, <1>5, Constants DEF hina_spawn, TypeOK
  <2>2. QED
    BY <1>1, <1>5, <2>1 DEF hina_spawn, deque_push, DequeCall, Set, TypeOfLocals, Sizes
<1>6. CASE do_work(t) \/ work_done(t)
  BY <1>1, <1>2, <1>6 DEF do_work, work_done, deque_take, DequeCall, Set, TypeOfLocals, Sizes
<1>7. CASE first_steal(t) \/ next_steal(t)
  <2>1. PICK n \in {0, dq[t], dq[t] + 1} : StealFrom(t, n)
    BY <1>7 DEF first_steal, next_steal
  <2>2. QED
    BY <1>1, <1>2, <2>1 DEF StealFrom, deque_steal, DequeCall, Set, TypeOfLocals, Sizes
<1>8. CASE check_done(t)
  BY <1>1, <1>2, <1>8 DEF check_done, deque_take, DequeCall, localVars, Set, TypeOfLocals, Sizes
<1>9. CASE hina_exit(t)
  BY <1>1, <1>9 DEF hina_exit, exit_wait, exit_join, localVars, TypeOfLocals, Sizes
<1>10. QED
  BY <1>4, <1>5, <1>6, <1>7, <1>8, <1>9 DEF ThreadStep, thread

LEMMA PoolTyped ==
  ASSUME Base, NEW t \in Thread, ThreadStep(t)
  PROVE  TypeOfPool'
<1>a. active \in Int
  BY Ranges DEF Base
<1>1. /\ active \in 0 .. SIZE_MAX /\ done \in BOOLEAN
      /\ job \in [Thread -> Work \cup {EMPTY}]
      /\ starts \in [Work -> Nat] /\ ends \in [Work -> Nat] /\ x[t] \in Work \cup {EMPTY, ABORT}
  BY DEF Base, TypeOK
<1>2. active' \in 0 .. SIZE_MAX
  <2>1. UNCHANGED active \/ active' = Add(active, 1) \/ active' = Sub(active, 1)
    BY Writers DEF Base, hina_spawn, work_done
  <2>2. QED
    BY <1>1, <1>a, <2>1, Wraps
<1>3. done' \in BOOLEAN
  BY <1>1, Writers DEF Base, exit_wait
<1>4. spawned' \in 0 .. WORKS
  BY SpawnedStep
<1>5. job' \in [Thread -> Work \cup {EMPTY}]
  <2>1. CASE do_work(t)
    BY <1>1, <2>1 DEF do_work, Set
  <2>2. CASE work_done(t)
    BY <1>1, <2>2 DEF work_done, Set
  <2>3. CASE job' = job
    BY <1>1, <2>3
  <2>4. job' = job \/ do_work(t) \/ work_done(t)
    BY DEF ThreadStep, thread, poolVars, hina_spawn, first_steal, next_steal, StealFrom,
           check_done, hina_exit, exit_wait, exit_join
  <2>5. QED
    BY <2>1, <2>2, <2>3, <2>4
<1>6. starts' \in [Work -> Nat]
  <2>1. CASE do_work(t)
    BY <1>1, <2>1 DEF do_work, Set
  <2>2. QED
    BY <1>1, <2>1, Writers DEF Base
<1>7. ends' \in [Work -> Nat]
  <2>1. CASE work_done(t)
    <3>1. job[t] \in Work => ends[job[t]] + 1 \in Nat
      BY <1>1
    <3>2. QED
      BY <1>1, <2>1, <3>1 DEF work_done, Set
  <2>2. QED
    BY <1>1, <2>1, Writers DEF Base
<1>8. QED
  BY <1>2, <1>3, <1>4, <1>5, <1>6, <1>7 DEF TypeOfPool

LEMMA TypeStep ==
  ASSUME Base, NEW t \in Thread, ThreadStep(t)
  PROVE  TypeOK'
<1>1. TypeOfIndices'
  BY TopStep, BottomStep DEF TypeOfIndices
<1>2. QED
  BY <1>1, ArraysTyped, FlagsTyped, CallsTyped, LocalsTyped, PoolTyped
     DEF TypeOK, TypeOfIndices, TypeOfArrays, TypeOfFlags, TypeOfCalls, TypeOfLocals, TypeOfPool

-----------------------------------------------------------------------------
(* The step of one thread and what holds of another.                       *)
LEMMA OtherStep ==
  ASSUME Base, NEW t \in Thread, ThreadStep(t), NEW s \in Thread \ {t}
  PROVE  Mine(s)'
<1>1. UNCHANGED Locals(s) /\ dq[s] \in Deque
  BY OthersStay DEF Base, TypeOK
<1>2. /\ s \in Worker => ControlOf(s)
      /\ s = Main => MainControl
      /\ HandsOf(s) /\ BoundsOf(s) /\ PointersOf(s)
  BY DEF Base
<1>3. ASSUME s \in Worker
      PROVE  ControlOf(s)'
  BY <1>1, <1>2, <1>3 DEF ControlOf, Running, Locals
<1>4. ASSUME s = Main
      PROVE  MainControl'
  BY <1>1, <1>2, <1>4 DEF MainControl, Locals
<1>5. /\ spawned \in Nat /\ spawned' \in Nat /\ spawned <= spawned'
      /\ top[dq[s]] \in Nat /\ top'[dq[s]] \in Nat /\ top[dq[s]] <= top'[dq[s]]
      /\ tt[s] \in Nat /\ x[s] \in Work \cup {EMPTY, ABORT}
  <2>1. /\ spawned \in Nat /\ top[dq[s]] \in Nat /\ tt[s] \in Nat /\ x[s] \in Work \cup {EMPTY, ABORT}
    BY <1>1, Ranges DEF Base
  <2>2. spawned' = spawned \/ spawned' = spawned + 1
    BY SpawnedStep
  <2>3. top'[dq[s]] = top[dq[s]] \/ top'[dq[s]] = top[dq[s]] + 1
    BY <1>1, TopStep
  <2>4. QED
    BY <2>1, <2>2, <2>3
<1>6. pc[s] \in OwnerPC => bottom'[dq[s]] = bottom[dq[s]]
  <2>1. ASSUME pc[s] \in OwnerPC, bottom'[dq[s]] # bottom[dq[s]]
        PROVE  FALSE
    <3>1. dq[s] = dq[t] /\ (push_bottom(t) \/ take_bottom(t))
      BY <1>1, <2>1, BottomStep
    <3>2. pc[t] \in OwnerPC
      BY <3>1 DEF push_bottom, take_bottom, Step, OwnerPC, PushPC
    <3>3. QED
      BY <2>1, <3>1, <3>2, Exclusive
  <2>2. QED
    BY <2>1
<1>7. /\ Newest(dq[s]) \in Nat /\ Newest(dq[s])' \in Nat /\ Newest(dq[s]) <= Newest(dq[s])'
      /\ pc[s] \in OwnerPC => Newest(dq[s])' = Newest(dq[s])
  <2>1. /\ \A q \in Deque : Newest(q) \in Nat
        /\ \A q \in Deque : Newest(q)' = (IF resize(t) /\ q = dq[t] THEN Newest(q) + 1 ELSE Newest(q))
    BY Buffers, Newer DEF Base
  <2>2. ASSUME pc[s] \in OwnerPC
        PROVE  ~ (resize(t) /\ dq[s] = dq[t])
    BY <2>2, Exclusive DEF resize, Step, OwnerPC, PushPC
  <2>3. Newest(dq[s])' = (IF resize(t) /\ dq[s] = dq[t] THEN Newest(dq[s]) + 1 ELSE Newest(dq[s]))
    <3>1. dq'[s] = dq[s]
      BY <1>1 DEF Locals
    <3>2. PICK q \in Deque : q = dq[s]
      BY <1>1
    <3>3. Newest(dq[s])' = Newest(q)' /\ Newest(dq[s]) = Newest(q)
      BY <3>1, <3>2 DEF Newest
    <3>4. QED
      BY <2>1, <3>2, <3>3
  <2>4. Newest(dq[s]) \in Nat
    BY <1>1, <2>1
  <2>5. QED
    BY <2>2, <2>3, <2>4
<1>8. HandsOf(s)'
  BY <1>1, <1>2, <1>5 DEF HandsOf, Locals
<1>9. BoundsOf(s)'
  BY <1>1, <1>2, <1>5, <1>6 DEF BoundsOf, Locals, OwnerPC, PushPC, StealPC
<1>10. PointersOf(s)'
  <2>1. 1 .. Newest(dq[s]) \subseteq 1 .. Newest(dq[s])'
    BY <1>7
  <2> DEFINE n == Newest(dq[s])
  <2>2. n' = Newest(dq[s])'
    OBVIOUS
  <2> HIDE DEF n
  <2>3. QED
    BY <1>1, <1>2, <1>7, <2>1, <2>2 DEF PointersOf, Locals, OwnerPC, PushPC
<1>11. QED
  BY <1>3, <1>4, <1>8, <1>9, <1>10 DEF Mine

(* What the main thread does before its push is complete.                  *)
LEMMA MainSteps ==
  ASSUME Base, ThreadStep(Main)
  PROVE  \/ hina_spawn(Main) /\ pc[Main] = "spawn" /\ pc'[Main] = "push_top"
         \/ push_top(Main) /\ pc'[Main] = "push_bottom"
         \/ push_bottom(Main) /\ pc'[Main] = "gc_array"
         \/ ~Early /\ ~Early' /\ ~hina_spawn(Main)
<1>1. /\ TypeOK /\ MainControl /\ Main \in Thread /\ Main \notin Worker /\ BoundsOf(Main)
      /\ pc[Main] \in {"spawn", "push_top", "push_bottom", "wait", "join", "exit"} \cup GcPC
      /\ ret[Main] = "wait"
  BY Constants DEF Base, MainControl
<1>2. MainControl'
  BY <1>1, MineStep DEF Mine
<1>3. CASE hina_spawn(Main)
  BY <1>1, <1>3, SpawnDoes DEF GcPC
<1>4. CASE push_top(Main)
  BY <1>1, <1>2, <1>4, PushTopDoes DEF MainControl, GcPC
<1>5. CASE push_bottom(Main)
  BY <1>1, <1>5, PushBottomDoes DEF BoundsOf
<1>6. CASE pc[Main] \in GcPC \cup {"wait", "join"}
  <2>1. ~Early /\ ~hina_spawn(Main)
    BY <1>6 DEF Early, GcPC, hina_spawn
  <2>2. pc'[Main] \notin {"spawn", "push_top", "push_bottom"}
    <3>1. CASE gc_array(Main) \/ gc_handle(Main) \/ gc_old(Main)
      BY <1>1, <3>1, GcArrayDoes, GcHandleDoes, GcOldDoes
    <3>2. CASE gc_cas(Main) \/ gc_scan(Main) \/ gc_put_back(Main)
      BY <1>1, <3>2, GcCasDoes, GcScanDoes, GcPutBackDoes
    <3>3. CASE hina_exit(Main)
      BY <1>1, <3>3, ExitDoes
    <3>4. gc_array(Main) \/ gc_handle(Main) \/ gc_old(Main) \/ gc_cas(Main) \/ gc_scan(Main)
            \/ gc_put_back(Main) \/ hina_exit(Main)
      BY <1>1, <1>6, Flow DEF GcPC, hina_exit
    <3>5. QED
      BY <3>1, <3>2, <3>3, <3>4
  <2>3. QED
    BY <2>1, <2>2 DEF Early
<1>7. CASE pc[Main] \in {"spawn", "push_top", "push_bottom"}
  <2>1. hina_spawn(Main) \/ push_top(Main) \/ push_bottom(Main)
    BY <1>1, <1>7, Flow
  <2>2. QED
    BY <1>3, <1>4, <1>5, <2>1
<1>8. pc[Main] # "exit"
  BY <1>1, Moves
<1>9. QED
  BY <1>1, <1>6, <1>7, <1>8

(* Before that the workers go round and find nothing.                      *)
LEMMA EarlyStep ==
  ASSUME Base, Early, NEW t \in Worker, ThreadStep(t)
  PROVE  EarlyOf(t)' /\ \A q \in Deque : top'[q] = top[q] /\ bottom'[q] = bottom[q]
<1>a. TypeOK /\ t \in Thread /\ t # Main /\ EarlyOf(t) /\ ControlOf(t)
  BY Constants DEF Base, First
<1>b. dq[t] \in Deque /\ top[dq[t]] = 1 /\ bottom[dq[t]] = 1 /\ ~done
  BY <1>a, Domains DEF Base, First, Early
<1>c. /\ pc[t] \in {"take_top", "steal_top", "steal_bottom", "taken", "stolen"} \cup GcPC
      /\ x[t] = EMPTY /\ (pc[t] = "steal_bottom" => tt[t] = 1)
      /\ pc[t] \in {"take_top", "taken"} => ret[t] = "taken"
      /\ pc[t] \in {"steal_top", "steal_bottom", "stolen"} => ret[t] = "stolen"
      /\ pc[t] \in GcPC => ret[t] \in {"taken", "stolen"}
  BY <1>a DEF EarlyOf, ControlOf, Running, TakePC, StealPC
<1>1. /\ TypeOK /\ t \in Thread /\ t # Main /\ dq[t] \in Deque
      /\ top[dq[t]] = 1 /\ bottom[dq[t]] = 1 /\ ~done
      /\ pc[t] \in {"take_top", "steal_top", "steal_bottom", "taken", "stolen"} \cup GcPC
      /\ x[t] = EMPTY /\ (pc[t] = "steal_bottom" => tt[t] = 1)
      /\ pc[t] \in {"take_top", "taken"} => ret[t] = "taken"
      /\ pc[t] \in {"steal_top", "steal_bottom", "stolen"} => ret[t] = "stolen"
      /\ pc[t] \in GcPC => ret[t] \in {"taken", "stolen"}
  BY <1>a, <1>b, <1>c
<1>2. EMPTY \notin Work
  BY Constants
<1>3. \A q \in Deque : top'[q] = top[q] /\ bottom'[q] = bottom[q]
  <2>1. ~take_cas(t) /\ ~steal_cas(t) /\ ~push_bottom(t) /\ ~take_bottom(t)
    BY <1>1 DEF take_cas, steal_cas, push_bottom, take_bottom, Step, GcPC
  <2>2. \A q \in Deque : top'[q] = top[q]
    BY <1>a, <2>1, TopStep
  <2>3. \A q \in Deque : bottom'[q] = bottom[q]
    BY <1>a, <2>1, BottomStep
  <2>4. QED
    BY <2>2, <2>3
<1>4. CASE take_top(t)
  <2>1. Sub(bottom[dq[t]], 1) = 0
    BY <1>1, Below
  <2>2. pc'[t] = "gc_array" /\ x'[t] = x[t] /\ ret'[t] = ret[t] /\ pc[t] = "take_top"
    BY <1>1, <1>4, <2>1, TakeTopDoes
  <2>3. QED
    BY <1>3, <1>1, <2>2 DEF EarlyOf, Running, PushPC, GcPC
<1>5. CASE steal_top(t)
  <2>1. pc'[t] = "steal_bottom" /\ x'[t] = x[t] /\ tt'[t] = 1
    BY <1>1, <1>5, StealTopDoes
  <2>2. QED
    BY <1>3, <1>1, <2>1 DEF EarlyOf, Running, PushPC, GcPC
<1>a5. CASE steal_bottom(t)
  <2>1. pc[t] = "steal_bottom" /\ pc'[t] = "gc_array" /\ x'[t] = x[t] /\ ret'[t] = ret[t]
    BY <1>1, <1>a5, StealBottomDoes
  <2>2. QED
    BY <1>3, <1>1, <2>1 DEF EarlyOf, Running, PushPC, GcPC
<1>6. CASE gc_array(t) \/ gc_handle(t) \/ gc_old(t) \/ gc_cas(t) \/ gc_scan(t) \/ gc_put_back(t)
  <2>1. pc[t] \in GcPC /\ pc'[t] \in GcPC \cup {ret[t]}
    BY <1>1, <1>6, GcArrayDoes, GcHandleDoes, GcOldDoes, GcCasDoes, GcScanDoes, GcPutBackDoes DEF GcPC
  <2>2. x'[t] = x[t] /\ ret'[t] = ret[t]
    BY <1>1, <1>6, GcArrayDoes, GcHandleDoes, GcOldDoes, GcCasDoes, GcScanDoes, GcPutBackDoes
  <2>3. QED
    BY <1>3, <1>1, <2>1, <2>2 DEF EarlyOf, Running, PushPC, GcPC
<1>8. CASE first_steal(t) \/ next_steal(t)
  <2>1. pc'[t] = "steal_top" /\ x'[t] = EMPTY
    BY <1>1, <1>8, StealDoes
  <2>2. QED
    BY <1>3, <2>1 DEF EarlyOf, Running, PushPC, GcPC
<1>9. CASE check_done(t)
  <2>1. pc'[t] = "take_top" /\ x'[t] = EMPTY
    BY <1>1, <1>9, CheckDoneDoes
  <2>2. QED
    BY <1>3, <2>1 DEF EarlyOf, Running, PushPC, GcPC
<1>10. take_top(t) \/ steal_top(t) \/ steal_bottom(t) \/ gc_array(t) \/ gc_handle(t) \/ gc_old(t)
         \/ gc_cas(t) \/ gc_scan(t) \/ gc_put_back(t) \/ first_steal(t) \/ next_steal(t) \/ check_done(t)
  <2>1. ~do_work(t)
    BY <1>1, <1>2 DEF do_work
  <2>2. QED
    BY <1>1, <2>1, Flow DEF GcPC
<1>11. QED
  BY <1>3, <1>4, <1>5, <1>a5, <1>6, <1>8, <1>9, <1>10

LEMMA FirstStep ==
  ASSUME Base, NEW t \in Thread, ThreadStep(t)
  PROVE  First'
<1>1. /\ TypeOK /\ First /\ MainControl /\ Main \in Thread /\ Main \notin Worker
      /\ spawned \in Nat /\ pc[Main] \in {"spawn", "push_top", "push_bottom", "wait", "join", "exit"} \cup GcPC
      /\ (t = Main \/ t \in Worker) /\ \A s \in Worker : s \in Thread
  BY Constants, Ranges DEF Base, MainControl
<1>2. ASSUME NEW s \in Thread, s # t
      PROVE  UNCHANGED Locals(s)
  BY <1>1, <1>2, OthersStay
<1>3. (spawned = 0 <=> pc[Main] = "spawn")'
  <2>1. CASE t = Main
    <3>1. pc'[Main] # "spawn"
      BY <2>1, Moves
    <3>2. spawned' # 0
      <4>1. CASE hina_spawn(Main)
        BY <1>1, <4>1, SpawnDoes
      <4>2. CASE ~hina_spawn(Main)
        BY <1>1, <2>1, <4>2, MainSteps, SpawnedStep DEF First, Early, push_top, push_bottom, Step
      <4>3. QED
        BY <4>1, <4>2
    <3>3. QED
      BY <3>1, <3>2
  <2>2. CASE t \in Worker
    <3>1. pc'[Main] = pc[Main]
      BY <1>1, <1>2, <2>2 DEF Locals
    <3>2. CASE spawned' = spawned
      BY <1>1, <3>1, <3>2 DEF First
    <3>3. CASE hina_spawn(t) /\ spawned' = spawned + 1
      <4>1. ~Early
        BY <1>1, <2>2, <3>3, SpawnDoes DEF First, EarlyOf, GcPC
      <4>2. QED
        BY <1>1, <3>1, <3>3, <4>1 DEF Early
    <3>4. QED
      BY <3>2, <3>3, SpawnedStep
  <2>3. QED
    BY <1>1, <2>1, <2>2
<1>4. (Early => /\ \A q \in Deque : top[q] = 1 /\ bottom[q] = 1
                /\ \A s \in Worker : EarlyOf(s))'
  <2>1. CASE t = Main
    <3>1. ASSUME hina_spawn(Main) \/ push_top(Main), Early
          PROVE  (/\ \A q \in Deque : top[q] = 1 /\ bottom[q] = 1
                  /\ \A s \in Worker : EarlyOf(s))'
      <4>1. top' = top /\ bottom' = bottom
        BY <3>1 DEF hina_spawn, push_top, deque_push, DequeCall, dequeVars
      <4>2. ASSUME NEW s \in Worker PROVE EarlyOf(s)'
        BY <1>1, <1>2, <2>1, <3>1 DEF First, EarlyOf, Running, Locals
      <4>3. QED
        BY <1>1, <3>1, <4>1, <4>2 DEF First
    <3>2. CASE ~Early'
      BY <3>2
    <3>3. QED
      BY <2>1, <3>1, <3>2, MainSteps DEF Early, push_top, Step
  <2>2. CASE t \in Worker
    <3>1. Early' <=> Early
      BY <1>1, <1>2, <2>2 DEF Early, Locals
    <3>2. ASSUME Early, NEW s \in Worker
          PROVE  EarlyOf(s)'
      <4>1. CASE s = t
        BY <2>2, <3>2, <4>1, EarlyStep
      <4>2. CASE s # t
        BY <1>1, <1>2, <3>2, <4>2 DEF First, EarlyOf, Running, Locals
      <4>3. QED
        BY <4>1, <4>2
    <3>3. QED
      BY <1>1, <2>2, <3>1, <3>2, EarlyStep DEF First
  <2>3. QED
    BY <1>1, <2>1, <2>2
<1>5. (done => pc[Main] \in {"join", "exit"})'
  <2>1. CASE t = Main
    <3>1. CASE exit_wait(Main)
      BY <1>1, <3>1, Domains DEF exit_wait, Step
    <3>2. CASE done' = done
      <4>1. ASSUME done
            PROVE  exit_join(Main)
        <5>1. pc[Main] = "join"
          BY <1>1, <2>1, <4>1, Moves DEF First
        <5>2. QED
          BY <1>1, <2>1, <5>1, Flow
      <4>2. QED
        BY <1>1, <3>2, <4>1, Domains DEF exit_join, Step
    <3>3. QED
      BY <1>1, <2>1, <3>1, <3>2, Writers
  <2>2. CASE t \in Worker
    <3>1. pc'[Main] = pc[Main]
      BY <1>1, <1>2, <2>2 DEF Locals
    <3>2. ~exit_wait(t)
      BY <1>1, <2>2 DEF exit_wait, Step, Base, ControlOf, PushPC, TakePC, StealPC, GcPC
    <3>3. QED
      BY <1>1, <3>1, <3>2, Writers DEF First
  <2>3. QED
    BY <1>1, <2>1, <2>2
<1>6. done => done'
  BY <1>1, Writers DEF exit_wait
<1>7. ASSUME NEW s \in Worker, pc'[s] = "exit"
      PROVE  done'
  <2>1. CASE s = t
    <3>1. ~exit_join(t)
      BY <1>1, <2>1 DEF exit_join, Step, Base, ControlOf, PushPC, TakePC, StealPC, GcPC
    <3>2. QED
      BY <1>6, <1>7, <2>1, <3>1, Moves
  <2>2. CASE s # t
    BY <1>1, <1>2, <1>6, <1>7, <2>2 DEF First, Locals
  <2>3. QED
    BY <2>1, <2>2
<1>8. ASSUME pc'[Main] = "exit", NEW s \in Worker
      PROVE  pc'[s] = "exit"
  <2>1. CASE t = Main
    <3>1. exit_join(Main)
      BY <1>1, <1>8, <2>1, Moves
    <3>2. pc[s] = "exit"
      BY <3>1 DEF exit_join
    <3>3. QED
      BY <1>1, <1>2, <2>1, <3>2 DEF Locals
  <2>2. CASE t \in Worker
    <3>1. pc[Main] = "exit"
      BY <1>1, <1>2, <1>8, <2>2 DEF Locals
    <3>2. pc[t] = "exit"
      BY <1>1, <2>2, <3>1 DEF First
    <3>3. QED
      BY <3>2, Moves
  <2>3. QED
    BY <1>1, <2>1, <2>2
<1>9. QED
  BY <1>3, <1>4, <1>5, <1>7, <1>8 DEF First

-----------------------------------------------------------------------------
LEMMA BaseStep ==
  ASSUME Base, NEW t \in Thread, ThreadStep(t)
  PROVE  Base'
<1>1. \A s \in Thread : Mine(s)'
  BY MineStep, OtherStep
<1>2. Main \in Thread /\ \A s \in Worker : s \in Thread
  BY Constants
<1>3. MainControl' /\ \A s \in Worker : ControlOf(s)'
  BY <1>1, <1>2 DEF Mine
<1>4. \A s \in Thread : HandsOf(s)' /\ BoundsOf(s)' /\ PointersOf(s)'
  BY <1>1 DEF Mine
<1>5. \A q \in Deque : Indexed(q)' /\ Sized(q)'
  BY IndexedStep, Buffers DEF Base
<1>6. QED
  BY <1>3, <1>4, <1>5, TypeStep, FirstStep DEF Base

LEMMA BaseStutters ==
  ASSUME Base, UNCHANGED vars
  PROVE  Base'
<1>1. UNCHANGED <<top, bottom, buffer, old_array, handle, freed, failed, kept, overtaken, hidden,
                  dq, ret, b, tt, x, a, old_a, i, pc, active, done, spawned, job, starts, ends>>
  BY DEF vars, dequeVars, historyVars, localVars, poolVars
<1>2. TypeOK'
  BY <1>1 DEF Base, TypeOK, Newest
<1>3. First' /\ MainControl' /\ \A s \in Worker : ControlOf(s)'
  BY <1>1 DEF Base, First, Early, EarlyOf, Running, MainControl, ControlOf
<1>4. \A s \in Thread : HandsOf(s)' /\ BoundsOf(s)' /\ PointersOf(s)'
  BY <1>1 DEF Base, HandsOf, BoundsOf, PointersOf, Newest
<1>5. \A q \in Deque : Indexed(q)' /\ Sized(q)'
  BY <1>1 DEF Base, Indexed, Sized, Newest
<1>6. QED
  BY <1>2, <1>3, <1>4, <1>5 DEF Base

LEMMA BaseInit ==
  ASSUME Init
  PROVE  Base
<1>1. /\ top = [q \in Deque |-> 1] /\ bottom = [q \in Deque |-> 1]
      /\ buffer = [q \in Deque |-> <<[n \in 1 .. SIZE_HINT |-> NULL]>>]
      /\ old_array = [q \in Deque |-> NULL]
      /\ handle = [q \in Deque |-> [n \in Deque |-> 1]]
      /\ freed = [q \in Deque |-> {}]
      /\ failed = FALSE /\ kept = {} /\ overtaken = FALSE /\ hidden = FALSE
      /\ dq = Tid
      /\ b = [t \in Thread |-> 0] /\ tt = [t \in Thread |-> 0]
      /\ x = [t \in Thread |-> EMPTY] /\ a = [t \in Thread |-> 0]
      /\ old_a = [t \in Thread |-> 0] /\ i = [t \in Thread |-> 0]
      /\ pc = [t \in Thread |-> IF t = Main THEN "spawn" ELSE "take_top"]
      /\ ret = [t \in Thread |-> IF t = Main THEN "wait" ELSE "taken"]
      /\ active = 0 /\ done = FALSE /\ spawned = 0
      /\ job = [t \in Thread |-> EMPTY]
      /\ starts = [w \in Work |-> 0] /\ ends = [w \in Work |-> 0]
  BY DEF Init, DequeInit, LocalInit
<1>2. /\ 0 \in Deque /\ Tid \in [Thread -> Deque] /\ EMPTY \notin Work
      /\ Main \in Thread /\ Main \notin Worker /\ \A t \in Worker : t \in Thread /\ t # Main /\ Tid[t] = t
      /\ Tid[Main] = 0 /\ 1 \in 1 .. SIZE_MAX /\ 0 \in 0 .. SIZE_MAX /\ 0 \in 0 .. WORKS /\ 1 \in Nat
  BY Constants, DequeAssumption
<1>3. [n \in 1 .. SIZE_HINT |-> NULL] \in Seq(Cell) /\ Len([n \in 1 .. SIZE_HINT |-> NULL]) = SIZE_HINT
  BY Constants DEF Cell
<1>4. ASSUME NEW q \in Deque
      PROVE  /\ buffer[q] \in Seq(Seq(Cell)) /\ Newest(q) = 1 /\ Len(buffer[q][1]) > 0
  BY <1>1, <1>3, Constants DEF Newest
<1>5. ASSUME NEW q \in Deque
      PROVE  Indexed(q) /\ Sized(q)
  <2>1. Indexed(q)
    BY <1>1 DEF Indexed
  <2>2. Newest(q) = 1 /\ Len(buffer[q][1]) > 0
    BY <1>4
  <2>3. QED
    BY <2>1, <2>2 DEF Sized
<1>6. TypeOfIndices /\ TypeOfFlags /\ TypeOfPool
  BY <1>1, <1>2 DEF TypeOfIndices, TypeOfFlags, TypeOfPool
<1>7. TypeOfArrays
  <2>1. buffer \in [Deque -> Seq(Seq(Work \cup {NULL}))]
    BY <1>1, <1>4 DEF Cell
  <2>2. QED
    <3>1. old_array \in [Deque -> Nat \cup {NULL}] /\ freed \in [Deque -> SUBSET Nat]
      BY <1>1
    <3>2. handle \in [Deque -> [Deque -> Nat]]
      BY <1>1
    <3>3. ASSUME NEW q \in Deque
          PROVE  /\ old_array[q] \in 1 .. Newest(q) \cup {NULL}
                 /\ \A k \in Deque : handle[q][k] \in 1 .. Newest(q)
                 /\ freed[q] \subseteq 1 .. Newest(q)
      BY <1>1, <1>4
    <3>4. QED
      BY <2>1, <3>1, <3>2, <3>3 DEF TypeOfArrays
<1>8. TypeOfCalls
  BY <1>1, <1>2 DEF TypeOfCalls, DequePC
<1>9. TypeOfLocals
  BY <1>1, <1>2 DEF TypeOfLocals
<1>10. First
  BY <1>1, <1>2 DEF First, Early, EarlyOf, Running, PushPC, GcPC
<1>11. MainControl /\ \A t \in Worker : ControlOf(t)
  BY <1>1, <1>2 DEF MainControl, ControlOf, Running, PushPC, TakePC, StealPC, GcPC
<1>12. \A t \in Thread : HandsOf(t) /\ BoundsOf(t) /\ PointersOf(t)
  BY <1>1, <1>2 DEF HandsOf, BoundsOf, PointersOf, PushPC, StealPC, GcPC
<1>13. QED
  BY <1>5, <1>6, <1>7, <1>8, <1>9, <1>10, <1>11, <1>12, TypesAre DEF Base

LEMMA BaseKept ==
  ASSUME Base, [Next]_vars
  PROVE  Base'
BY BaseStep, BaseStutters DEF Next, Stopped

LEMMA BaseHolds == Spec => []Base
BY BaseInit, BaseKept, PTL DEF Spec

(* Every variable keeps its type in every state, whatever the races do:    *)
(* no index passes the bound and no array pointer points past the arrays.  *)
THEOREM TypesKept == Spec => []TypeOK
<1>1. Base => TypeOK
  BY DEF Base
<1>2. QED
  BY <1>1, BaseHolds, PTL

-----------------------------------------------------------------------------
(* The replaced arrays.                                                    *)
LEMMA NotOver ==
  ASSUME Base, NEW t \in Thread, ThreadStep(t)
  PROVE  pc[Main] # "exit"
<1>1. ASSUME pc[Main] = "exit"
      PROVE  pc[t] = "exit"
  BY <1>1, Threads DEF Base, First
<1>2. QED
  BY <1>1, Moves

LEMMA GoesOn ==
  ASSUME Base, NEW t \in Thread, ThreadStep(t), pc'[t] # "exit"
  PROVE  pc[Main] # "exit" /\ pc'[Main] # "exit"
<1>1. pc[Main] # "exit" /\ Main \in Thread /\ TypeOK
  BY NotOver, Constants DEF Base
<1>2. CASE t # Main
  <2>1. UNCHANGED Locals(Main)
    BY <1>1, <1>2, OthersStay
  <2>2. QED
    BY <1>1, <2>1 DEF Locals
<1>3. QED
  BY <1>1, <1>2

LEMMA CurrentIs ==
  ASSUME Base, NEW q \in Deque
  PROVE  /\ Current(q) \in Nat \ {0} /\ Current(q) <= Newest(q) /\ Newest(q) \in Nat
         /\ pc[q] \in {"resize_old", "aborted"} =>
              dq[q] = q /\ a[q] = Current(q) /\ Newest(q) = Current(q) + 1
         /\ pc[q] \notin {"resize_old", "aborted"} => Current(q) = Newest(q)
<1>1. q \in Worker /\ q \in Thread /\ Newest(q) \in Nat /\ Newest(q) > 0
  BY Constants, Newer DEF Base, Sized
<1>2. CASE pc[q] \in {"resize_old", "aborted"}
  <2>1. dq[q] = q
    BY <1>1, <1>2, OwnerIs DEF OwnerPC, PushPC
  <2>2. a[q] + 1 = Newest(q) /\ a[q] \in 1 .. Newest(q)
    BY <1>1, <1>2, <2>1 DEF Base, PointersOf
  <2>3. QED
    BY <1>1, <1>2, <2>1, <2>2 DEF Current
<1>3. CASE pc[q] \notin {"resize_old", "aborted"}
  BY <1>1, <1>3 DEF Current
<1>4. QED
  BY <1>2, <1>3

LEMMA StorageFrame ==
  ASSUME NEW q \in Deque, ArraysOf(q), SeenOf(q), pc[Main] # "exit", pc'[Main] # "exit",
         Current(q)' = Current(q), old_array'[q] = old_array[q], freed'[q] = freed[q],
         \A k \in Deque \ {q} : handle'[q][k] = handle[q][k],
         InGc(q)' = InGc(q),
         \A s \in InGc(q) : pc'[s] = pc[s] /\ i'[s] = i[s] /\ old_a'[s] = old_a[s]
  PROVE  ArraysOf(q)' /\ SeenOf(q)'
<1>1. Lingers(q)' = Lingers(q)
  BY DEF Lingers
<1>2. ArraysOf(q)'
  BY <1>1 DEF ArraysOf
<1>3. \A k \in Deque \ {q} : Kept(q, k)' <=> Kept(q, k)
  BY DEF Kept
<1>4. SeenOf(q)'
  BY <1>3 DEF SeenOf
<1>5. QED
  BY <1>2, <1>4

(* The steps that have to do with them.                                    *)
Moving(t) ==
  \/ resize(t) \/ resize_old(t) \/ gc_handle(t) \/ gc_cas(t) \/ gc_scan(t) \/ gc_put_back(t)

LEMMA PusherIs ==
  ASSUME Base, NEW t \in Thread, resize(t) \/ resize_old(t)
  PROVE  t \in Worker /\ dq[t] = t /\ t \in Deque
<1>1. pc[t] \in {"resize", "resize_old"}
  BY DEF resize, resize_old, Step
<1>2. t # Main
  BY <1>1, OwnerIs DEF OwnerPC, PushPC
<1>3. QED
  BY <1>1, <1>2, Threads, OwnerIs DEF OwnerPC, PushPC

LEMMA CurrentStays ==
  ASSUME Base, NEW t \in Thread, ThreadStep(t), NEW q \in Deque,
         q # dq[t] \/ ~(resize(t) \/ resize_old(t))
  PROVE  Current(q)' = Current(q)
<1>1. q \in Thread /\ q \in Worker
  BY Constants
<1>2. Newest(q)' = Newest(q)
  BY Buffers DEF Base
<1>3. pc'[q] \in {"resize_old", "aborted"} <=> pc[q] \in {"resize_old", "aborted"}
  <2>1. CASE q # t
    BY <1>1, <2>1, OthersStay DEF Base, Locals
  <2>2. CASE q = t
    <3>1. ~(resize(t) \/ resize_old(t))
      BY <2>2, PusherIs
    <3>2. ret[t] \in {"taken", "stolen", "run", "wait"}
      BY DEF Base, TypeOK
    <3>3. QED
      BY <2>2, <3>1, <3>2, Flow
  <2>3. QED
    BY <2>1, <2>2
<1>4. QED
  BY <1>2, <1>3 DEF Current

LEMMA OthersInGc ==
  ASSUME Base, NEW t \in Thread, ThreadStep(t), NEW q \in Deque, NEW s \in Thread \ {t}
  PROVE  /\ s \in InGc(q)' <=> s \in InGc(q)
         /\ pc'[s] = pc[s] /\ i'[s] = i[s] /\ old_a'[s] = old_a[s]
<1>1. UNCHANGED Locals(s)
  BY OthersStay DEF Base
<1>2. QED
  BY <1>1 DEF InGc, Locals

LEMMA SameInGc ==
  ASSUME Base, NEW t \in Thread, ThreadStep(t), NEW q \in Deque, t \notin InGc(q), t \notin InGc(q)'
  PROVE  /\ InGc(q)' = InGc(q)
         /\ \A s \in InGc(q) : pc'[s] = pc[s] /\ i'[s] = i[s] /\ old_a'[s] = old_a[s]
<1>1. InGc(q) \subseteq Thread /\ InGc(q)' \subseteq Thread
  BY DEF InGc
<1>2. \A s \in Thread \ {t} : s \in InGc(q)' <=> s \in InGc(q)
  BY OthersInGc
<1>3. \A s : s \in InGc(q)' <=> s \in InGc(q)
  BY <1>1, <1>2
<1>4. ASSUME NEW s \in InGc(q)
      PROVE  pc'[s] = pc[s] /\ i'[s] = i[s] /\ old_a'[s] = old_a[s]
  <2>1. s \in Thread \ {t}
    BY <1>1
  <2>2. QED
    BY <2>1, OthersInGc
<1>5. QED
  BY <1>3, <1>4

LEMMA Quiet ==
  ASSUME Base, NEW t \in Thread, ThreadStep(t), NEW q \in Deque, ~exit_join(t),
         q # dq[t] \/ ~Moving(t)
  PROVE  /\ Current(q)' = Current(q) /\ old_array'[q] = old_array[q] /\ freed'[q] = freed[q]
         /\ \A k \in Deque \ {q} : handle'[q][k] = handle[q][k]
         /\ InGc(q)' = InGc(q)
         /\ \A s \in InGc(q) : pc'[s] = pc[s] /\ i'[s] = i[s] /\ old_a'[s] = old_a[s]
<1>1. TypeOK
  BY DEF Base
<1>2. Current(q)' = Current(q)
  BY CurrentStays DEF Moving
<1>3. old_array'[q] = old_array[q]
  <2>1. CASE Moving(t)
    <3>1. q \in Deque \ {dq[t]}
      BY <2>1
    <3>2. resize_old(t) => old_array'[q] = old_array[q]
      BY <1>1, <3>1, ResizeOldDoes
    <3>3. gc_cas(t) => old_array'[q] = old_array[q]
      BY <1>1, <3>1, GcCasDoes
    <3>4. gc_put_back(t) => old_array'[q] = old_array[q]
      BY <1>1, <3>1, GcPutBackDoes
    <3>5. QED
      BY <1>1, <3>2, <3>3, <3>4, Writers
  <2>2. QED
    BY <1>1, <2>1, Writers DEF Moving
<1>4. freed'[q] = freed[q]
  BY <1>1, Writers, GcScanDoes DEF Moving
<1>5. \A k \in Deque \ {q} : handle'[q][k] = handle[q][k]
  BY <1>1, Writers, GcHandleDoes DEF Moving
<1>6. t \notin InGc(q)
  BY <1>1, Flow DEF InGc, Moving
<1>7. t \notin InGc(q)'
  <2>1. ASSUME pc'[t] \in {"gc_scan", "gc_put_back"}
        PROVE  dq'[t] = dq[t] /\ (gc_cas(t) \/ gc_scan(t))
    <3>1. ret[t] \in {"taken", "stolen", "run", "wait"}
      BY <1>1 DEF TypeOK
    <3>2. gc_cas(t) \/ gc_scan(t)
      BY <2>1, <3>1, Flow
    <3>3. QED
      BY <1>1, <3>2, GcCasDoes, GcScanDoes
  <2>2. QED
    BY <2>1 DEF InGc, Moving
<1>9. QED
  BY <1>2, <1>3, <1>4, <1>5, <1>6, <1>7, SameInGc

(* The moments when an array is added and when the last one but one may    *)
(* be released.                                                            *)
LEMMA StorageResize ==
  ASSUME Base, Base', NEW t \in Thread, ThreadStep(t), resize(t), NEW q \in Deque, q = dq[t],
         ArraysOf(q), SeenOf(q)
  PROVE  ArraysOf(q)' /\ SeenOf(q)'
<1>1. /\ TypeOK /\ t \in Worker /\ dq[t] = t /\ t \in Deque /\ dq'[t] = dq[t]
      /\ pc[t] = "resize" /\ pc'[t] = "resize_old"
      /\ UNCHANGED <<old_array, handle, freed>>
  BY PusherIs, ResizeDoes DEF Base
<1>2. Newest(q)' = Newest(q) + 1 /\ Newest(q) \in Nat
  BY <1>1, Buffers, Newer DEF Base
<1>3. Current(q)' = Current(q)
  BY <1>1, <1>2 DEF Current
<1>4. t \notin InGc(q) /\ t \notin InGc(q)'
  BY <1>1 DEF InGc
<1>5. pc[Main] # "exit" /\ pc'[Main] # "exit"
  BY <1>1, GoesOn
<1>6. QED
  BY <1>1, <1>3, <1>4, <1>5, SameInGc, StorageFrame

LEMMA StorageResizeOld ==
  ASSUME Base, Base', NEW t \in Thread, ThreadStep(t), resize_old(t), NEW q \in Deque, q = dq[t],
         ArraysOf(q), SeenOf(q), ~hidden'
  PROVE  ArraysOf(q)' /\ SeenOf(q)'
<1>1. /\ TypeOK /\ t \in Worker /\ dq[t] = t /\ t = q /\ pc[t] = "resize_old" /\ dq'[t] = dq[t]
      /\ UNCHANGED <<buffer, handle, freed>>
  BY PusherIs, ResizeOldDoes DEF Base
<1>2. pc[Main] # "exit" /\ pc'[Main] # "exit"
  <2>1. pc'[t] # "exit"
    BY <1>1, ResizeOldDoes
  <2>2. QED
    BY <2>1, GoesOn
<1>3. Current(q) \in Nat \ {0} /\ a[t] = Current(q) /\ Newest(q) = Current(q) + 1 /\ Newest(q)' = Newest(q)
  BY <1>1, CurrentIs DEF Newest
<1>4. t \notin InGc(q)
  BY <1>1 DEF InGc
<1>5. InGc(q) \subseteq Thread /\ InGc(q)' \subseteq Thread
  BY DEF InGc
<1>6. CASE old_array[q] = NULL
  <2>1. /\ pc'[t] = "push_bottom" /\ old_array'[q] = Current(q) /\ InGc(q) = {}
    BY <1>1, <1>3, <1>6, ResizeOldDoes
  <2>2. Current(q)' = Current(q) + 1
    BY <1>1, <1>3, <2>1 DEF Current
  <2>3. InGc(q)' = {}
    <3>1. t \notin InGc(q)'
      BY <2>1 DEF InGc
    <3>2. QED
      BY <1>5, <2>1, <3>1, OthersInGc
  <2>4. freed'[q] = 1 .. Current(q) - 1
    BY <1>1, <1>2, <1>6, <2>1 DEF ArraysOf, Lingers
  <2>5. Lingers(q)'
    BY <1>3, <2>1, Constants DEF Lingers
  <2>6. ArraysOf(q)'
    BY <1>2, <1>3, <2>1, <2>2, <2>3, <2>4, <2>5 DEF ArraysOf
  <2>7. ASSUME NEW k \in Deque \ {q}
        PROVE  Current(q) <= handle[q][k] /\ (Current(q) = handle[q][k] => Kept(q, k)')
    <3>1. handle[q][k] \in Nat
      BY <1>1 DEF TypeOK
    <3>2. Current(q) - 1 <= handle[q][k] /\ Current(q) - 1 # handle[q][k]
      BY <1>6, <2>1, <3>1, Constants DEF SeenOf, Kept
    <3>3. QED
      BY <1>1, <1>3, <2>1, <3>1, <3>2 DEF Kept
  <2>8. SeenOf(q)'
    <3>1. Current(q)' - 1 = Current(q)
      BY <1>3, <2>2
    <3>2. QED
      BY <1>1, <2>7, <3>1 DEF SeenOf
  <2>9. QED
    BY <2>6, <2>8
<1>7. CASE old_array[q] # NULL
  <2>1. pc'[t] = "aborted" /\ old_array' = old_array
    BY <1>1, <1>7, ResizeOldDoes
  <2>2. Current(q)' = Current(q)
    BY <1>1, <1>3, <2>1 DEF Current
  <2>3. t \notin InGc(q)'
    BY <2>1 DEF InGc
  <2>4. InGc(q)' = InGc(q) /\ \A s \in InGc(q) : pc'[s] = pc[s] /\ i'[s] = i[s] /\ old_a'[s] = old_a[s]
    BY <1>4, <2>3, SameInGc
  <2>5. QED
    BY <1>1, <1>2, <2>1, <2>2, <2>4, StorageFrame
<1>8. QED
  BY <1>6, <1>7

LEMMA StorageHandle ==
  ASSUME Base, Base', NEW t \in Thread, ThreadStep(t), gc_handle(t), NEW q \in Deque, q = dq[t],
         ArraysOf(q), SeenOf(q), t \in Worker => SeenBy(t)
  PROVE  ArraysOf(q)' /\ SeenOf(q)'
<1>1. /\ TypeOK /\ pc[t] = "gc_handle" /\ pc'[t] = "gc_old" /\ dq'[t] = dq[t]
      /\ handle'[q][Tid[t]] = a[t]
      /\ \A k \in Deque : k # Tid[t] => handle'[q][k] = handle[q][k]
      /\ UNCHANGED <<old_array, freed>>
      /\ a[t] \in 1 .. Newest(q)
  BY GcHandleDoes DEF Base, PointersOf
<1>2. pc[Main] # "exit" /\ pc'[Main] # "exit"
  BY <1>1, GoesOn
<1>3. Current(q)' = Current(q)
  BY <1>1, CurrentStays DEF resize, resize_old, Step
<1>4. t \notin InGc(q) /\ t \notin InGc(q)' /\ InGc(q) \subseteq Thread /\ InGc(q)' \subseteq Thread
  BY <1>1 DEF InGc
<1>5. InGc(q)' = InGc(q) /\ \A s \in InGc(q) : pc'[s] = pc[s] /\ i'[s] = i[s] /\ old_a'[s] = old_a[s]
  BY <1>4, SameInGc
<1>6. Lingers(q)' = Lingers(q)
  BY <1>1, <1>5 DEF Lingers
<1>7. ArraysOf(q)'
  BY <1>1, <1>2, <1>3, <1>5, <1>6 DEF ArraysOf
<1>8. ASSUME NEW k \in Deque \ {q}
      PROVE  Current(q) - 1 <= handle'[q][k] /\ (Current(q) - 1 = handle'[q][k] => Kept(q, k)')
  <2>1. Current(q) - 1 <= handle[q][k] /\ (Current(q) - 1 = handle[q][k] => Kept(q, k))
    BY <1>8 DEF SeenOf
  <2>2. Kept(q, k) /\ handle'[q][k] = handle[q][k] => Kept(q, k)'
    BY <1>1, <1>5 DEF Kept
  <2>3. CASE k # Tid[t]
    BY <1>1, <2>1, <2>2, <2>3
  <2>4. CASE k = Tid[t]
    <3>1. t \in Worker /\ k = t
      BY <1>8, <2>4, Threads, Constants DEF Base, MainControl
    <3>2. handle[q][k] <= a[t]
      BY <1>1, <1>8, <3>1 DEF SeenBy
    <3>3. handle[q][k] \in Nat /\ a[t] \in Nat /\ Current(q) \in Nat /\ handle'[q][k] = a[t]
      <4>1. handle[q][k] \in Nat /\ a[t] \in Nat
        BY <1>1, <1>8, Ranges DEF TypeOK
      <4>2. QED
        BY <1>1, <2>4, <4>1, CurrentIs
    <3>4. QED
      BY <2>1, <2>2, <3>2, <3>3
  <2>5. QED
    BY <2>3, <2>4
<1>9. SeenOf(q)'
  BY <1>3, <1>8 DEF SeenOf
<1>10. QED
  BY <1>7, <1>9

LEMMA StorageCas ==
  ASSUME Base, Base', NEW t \in Thread, ThreadStep(t), gc_cas(t), NEW q \in Deque, q = dq[t],
         ArraysOf(q), SeenOf(q)
  PROVE  ArraysOf(q)' /\ SeenOf(q)'
<1>1. /\ TypeOK /\ pc[t] = "gc_cas" /\ dq'[t] = dq[t] /\ UNCHANGED <<handle, freed>>
      /\ old_a[t] \in 1 .. Newest(q) /\ i[t] = 0 /\ ret[t] \in {"taken", "stolen", "run", "wait"}
  BY GcCasDoes DEF Base, PointersOf, TypeOK
<1>2. pc[Main] # "exit" /\ pc'[Main] # "exit"
  BY <1>1, GoesOn, GcCasDoes
<1>3. Current(q)' = Current(q) /\ Current(q) \in Nat \ {0}
  BY <1>1, CurrentStays, CurrentIs DEF resize, resize_old, Step
<1>4. t \notin InGc(q) /\ InGc(q) \subseteq Thread /\ InGc(q)' \subseteq Thread
  BY <1>1 DEF InGc
<1>5. CASE old_array[q] = old_a[t]
  <2>1. old_array'[q] = NULL /\ pc'[t] = "gc_scan" /\ old_a'[t] = old_a[t] /\ i'[t] = 0
    BY <1>1, <1>5, GcCasDoes
  <2>2. old_array[q] # NULL /\ old_a[t] = Current(q) - 1
    BY <1>1, <1>5, Constants DEF ArraysOf
  <2>3. InGc(q) = {}
    BY <2>2 DEF ArraysOf
  <2>4. InGc(q)' = {t}
    <3>1. t \in InGc(q)'
      BY <1>1, <2>1 DEF InGc
    <3>2. QED
      BY <1>4, <2>3, <3>1, OthersInGc
  <2>5. Lingers(q) /\ Lingers(q)'
    BY <2>2, <2>4 DEF Lingers
  <2>6. ArraysOf(q)'
    BY <1>1, <1>2, <1>3, <2>1, <2>2, <2>4, <2>5 DEF ArraysOf
  <2>7. \A k \in Deque : Kept(q, k)'
    <3>1. \A k \in Deque : 0 <= k
      BY Constants
    <3>2. QED
      BY <2>1, <2>4, <3>1 DEF Kept
  <2>8. SeenOf(q)'
    BY <1>1, <1>3, <2>7 DEF SeenOf
  <2>9. QED
    BY <2>6, <2>8
<1>6. CASE old_array[q] # old_a[t]
  <2>1. old_array' = old_array /\ pc'[t] = ret[t]
    BY <1>1, <1>6, GcCasDoes
  <2>2. t \notin InGc(q)'
    BY <1>1, <2>1 DEF InGc
  <2>3. InGc(q)' = InGc(q) /\ \A s \in InGc(q) : pc'[s] = pc[s] /\ i'[s] = i[s] /\ old_a'[s] = old_a[s]
    BY <1>4, <2>2, SameInGc
  <2>4. QED
    BY <1>1, <1>2, <1>3, <2>1, <2>3, StorageFrame
<1>7. QED
  BY <1>5, <1>6

LEMMA StorageScan ==
  ASSUME Base, Base', NEW t \in Thread, ThreadStep(t), gc_scan(t), NEW q \in Deque, q = dq[t],
         ArraysOf(q), SeenOf(q)
  PROVE  ArraysOf(q)' /\ SeenOf(q)'
<1>1. /\ TypeOK /\ pc[t] = "gc_scan" /\ dq'[t] = dq[t] /\ UNCHANGED <<handle, old_array>>
      /\ ret[t] \in {"taken", "stolen", "run", "wait"} /\ i[t] \in Deque /\ i[t] \in Nat
  BY GcScanDoes, Ranges DEF Base, TypeOK
<1>2. pc[Main] # "exit" /\ pc'[Main] # "exit"
  BY <1>1, GoesOn, GcScanDoes
<1>3. Current(q)' = Current(q) /\ Current(q) \in Nat \ {0}
  BY <1>1, CurrentStays, CurrentIs DEF resize, resize_old, Step
<1>4. t \in InGc(q) /\ InGc(q) \subseteq Thread /\ InGc(q)' \subseteq Thread
  BY <1>1 DEF InGc
<1>5. InGc(q) = {t} /\ old_a[t] = Current(q) - 1 /\ old_array[q] = NULL
  BY <1>4 DEF ArraysOf
<1>6. \A k \in Deque \ {q} : Current(q) - 1 = handle[q][k] => i[t] <= k
  <2>1. ASSUME NEW k \in Deque \ {q}, Current(q) - 1 = handle[q][k]
        PROVE  i[t] <= k
    <3>1. Kept(q, k)
      BY <2>1 DEF SeenOf
    <3>2. handle[q][k] # NULL
      BY <1>3, <2>1, Constants
    <3>3. QED
      BY <1>1, <1>5, <3>1, <3>2 DEF Kept
  <2>2. QED
    BY <2>1
<1>7. Lingers(q)
  BY <1>4 DEF Lingers
<1>8. freed[q] = 1 .. Current(q) - 2
  BY <1>2, <1>7 DEF ArraysOf
<1>9. CASE pc'[t] \in {"gc_scan", "gc_put_back"}
  <2>1. InGc(q)' = {t}
    <3>1. t \in InGc(q)'
      BY <1>1, <1>9 DEF InGc
    <3>2. QED
      BY <1>4, <1>5, <3>1, OthersInGc
  <2>2. freed' = freed /\ old_a'[t] = old_a[t]
    BY <1>1, <1>9, GcScanDoes
  <2>3. Lingers(q)'
    BY <2>1 DEF Lingers
  <2>4. ArraysOf(q)'
    BY <1>1, <1>2, <1>3, <1>5, <1>8, <2>1, <2>2, <2>3 DEF ArraysOf
  <2>5. ASSUME NEW k \in Deque \ {q}, Current(q) - 1 = handle[q][k]
        PROVE  Kept(q, k)'
    <3>1. CASE pc'[t] = "gc_put_back"
      BY <2>1, <3>1 DEF Kept
    <3>2. CASE pc'[t] = "gc_scan"
      <4>1. handle[q][i[t]] # old_a[t] /\ i'[t] = i[t] + 1
        BY <1>1, <3>2, GcScanDoes
      <4>2. i[t] <= k /\ k # i[t] /\ k \in Nat
        <5>1. i[t] <= k
          BY <1>6, <2>5
        <5>2. k # i[t]
          BY <1>5, <2>5, <4>1
        <5>3. QED
          BY <5>1, <5>2, Constants
      <4>3. i'[t] <= k
        BY <1>1, <4>1, <4>2
      <4>4. QED
        BY <2>1, <4>3 DEF Kept
    <3>3. QED
      BY <1>9, <3>1, <3>2
  <2>6. SeenOf(q)'
    BY <1>1, <1>3, <2>5 DEF SeenOf
  <2>7. QED
    BY <2>4, <2>6
<1>10. CASE pc'[t] \notin {"gc_scan", "gc_put_back"}
  <2>1. /\ handle[q][i[t]] # old_a[t] /\ i[t] + 1 = NR_THREADS
        /\ freed'[q] = freed[q] \cup {old_a[t]} /\ pc'[t] = ret[t]
    BY <1>1, <1>10, GcScanDoes
  <2>2. InGc(q)' = {}
    <3>1. t \notin InGc(q)'
      BY <1>1, <2>1 DEF InGc
    <3>2. QED
      BY <1>4, <1>5, <3>1, OthersInGc
  <2>3. ~Lingers(q)'
    BY <1>1, <1>5, <2>2 DEF Lingers
  <2>4. freed'[q] = 1 .. Current(q) - 1
    <3>1. old_a[t] \in 1 .. Newest(q)
      BY <1>1 DEF Base, PointersOf
    <3>2. Current(q) - 1 \in Nat \ {0}
      BY <1>3, <1>5, <3>1
    <3>3. (1 .. Current(q) - 2) \cup {Current(q) - 1} = 1 .. Current(q) - 1
      BY <1>3, <3>2
    <3>4. QED
      BY <1>5, <1>8, <2>1, <3>3
  <2>5. ArraysOf(q)'
    BY <1>1, <1>2, <1>3, <1>5, <2>2, <2>3, <2>4 DEF ArraysOf
  <2>6. ASSUME NEW k \in Deque \ {q}
        PROVE  Current(q) - 1 # handle[q][k]
    <3>1. ASSUME Current(q) - 1 = handle[q][k]
          PROVE  FALSE
      <4>1. i[t] <= k /\ k < NR_THREADS /\ k \in Nat /\ NR_THREADS \in Nat
        <5>1. i[t] <= k
          BY <1>6, <2>6, <3>1
        <5>2. k \in 0 .. NR_THREADS - 1 /\ NR_THREADS \in Nat
          BY <2>6, Constants DEF Deque
        <5>3. QED
          BY <5>1, <5>2
      <4>2. k = i[t]
        BY <1>1, <2>1, <4>1
      <4>3. QED
        BY <1>5, <2>1, <3>1, <4>2
    <3>2. QED
      BY <3>1
  <2>7. SeenOf(q)'
    BY <1>1, <1>3, <2>6 DEF SeenOf
  <2>8. QED
    BY <2>5, <2>7
<1>11. QED
  BY <1>9, <1>10

LEMMA StoragePutBack ==
  ASSUME Base, Base', NEW t \in Thread, ThreadStep(t), gc_put_back(t), NEW q \in Deque, q = dq[t],
         ArraysOf(q), SeenOf(q)
  PROVE  ArraysOf(q)' /\ SeenOf(q)'
<1>1. /\ TypeOK /\ pc[t] = "gc_put_back" /\ pc'[t] = ret[t] /\ dq'[t] = dq[t]
      /\ UNCHANGED <<handle, freed>> /\ old_array'[q] = old_a[t]
      /\ ret[t] \in {"taken", "stolen", "run", "wait"} /\ old_a[t] \in 1 .. Newest(q)
  BY GcPutBackDoes DEF Base, TypeOK, PointersOf
<1>2. pc[Main] # "exit" /\ pc'[Main] # "exit"
  BY <1>1, GoesOn
<1>3. Current(q)' = Current(q) /\ Current(q) \in Nat \ {0}
  BY <1>1, CurrentStays, CurrentIs DEF resize, resize_old, Step
<1>4. t \in InGc(q) /\ InGc(q) \subseteq Thread /\ InGc(q)' \subseteq Thread
  BY <1>1 DEF InGc
<1>5. InGc(q) = {t} /\ old_a[t] = Current(q) - 1
  BY <1>4 DEF ArraysOf
<1>6. InGc(q)' = {}
  <2>1. t \notin InGc(q)'
    BY <1>1 DEF InGc
  <2>2. QED
    BY <1>4, <1>5, <2>1, OthersInGc
<1>7. old_array'[q] = Current(q) - 1 /\ old_array'[q] # NULL
  BY <1>1, <1>5, Constants
<1>8. Lingers(q) /\ Lingers(q)'
  BY <1>4, <1>7 DEF Lingers
<1>9. ArraysOf(q)'
  BY <1>1, <1>2, <1>3, <1>6, <1>7, <1>8 DEF ArraysOf
<1>10. \A k \in Deque : Current(q) - 1 = handle[q][k] => Kept(q, k)'
  BY <1>1, <1>7 DEF Kept
<1>11. SeenOf(q)'
  BY <1>1, <1>3, <1>10 DEF SeenOf
<1>12. QED
  BY <1>9, <1>11

(* The end: what is left is released.                                      *)
LEMMA StorageExit ==
  ASSUME Base, Base', ThreadStep(Main), exit_join(Main), NEW q \in Deque, ArraysOf(q), SeenOf(q)
  PROVE  ArraysOf(q)' /\ SeenOf(q)'
<1>1. /\ TypeOK /\ Main \in Thread /\ pc[Main] = "join" /\ pc'[Main] = "exit"
      /\ \A s \in Worker : pc[s] = "exit"
      /\ freed'[q] = freed[q] \cup {Newest(q)} \cup ({old_array[q]} \ {NULL})
      /\ UNCHANGED <<buffer, old_array, handle, dq>>
  BY Constants, Domains DEF Base, exit_join, Step, localVars
<1>2. q \in Worker /\ q \in Thread /\ q # Main /\ \A s \in Thread : s = Main \/ s \in Worker
  BY Constants
<1>3. pc'[q] = pc[q] /\ Newest(q)' = Newest(q) /\ Newest(q) \in Nat \ {0}
  BY <1>1, <1>2, OthersStay, CurrentIs DEF Locals, Newest
<1>4. Current(q) = Newest(q) /\ Current(q)' = Current(q)
  BY <1>1, <1>2, <1>3 DEF Current
<1>5. InGc(q) = {}
  BY <1>1, <1>2 DEF InGc
<1>6. InGc(q)' = {}
  <2>1. Main \notin InGc(q)' /\ InGc(q)' \subseteq Thread
    BY <1>1 DEF InGc
  <2>2. QED
    BY <1>1, <1>5, <2>1, OthersInGc
<1>7. freed'[q] = 1 .. Newest(q)
  <2>1. CASE old_array[q] = NULL
    <3>1. freed[q] = 1 .. Newest(q) - 1
      BY <1>1, <1>4, <1>5, <2>1 DEF ArraysOf, Lingers
    <3>2. freed'[q] = freed[q] \cup {Newest(q)}
      BY <1>1, <2>1
    <3>3. QED
      BY <1>3, <3>1, <3>2
  <2>2. CASE old_array[q] # NULL
    <3>1. freed[q] = 1 .. Newest(q) - 2 /\ old_array[q] = Newest(q) - 1
      BY <1>1, <1>4, <2>2 DEF ArraysOf, Lingers
    <3>2. old_array[q] \in 1 .. Newest(q)
      BY <1>1, <2>2 DEF TypeOK
    <3>3. freed'[q] = (1 .. Newest(q) - 2) \cup {Newest(q)} \cup {Newest(q) - 1}
      BY <1>1, <2>2, <3>1
    <3>4. Newest(q) - 1 \in Nat \ {0}
      BY <1>3, <3>1, <3>2
    <3>5. QED
      BY <1>3, <3>3, <3>4
  <2>3. QED
    BY <2>1, <2>2
<1>8. ArraysOf(q)'
  BY <1>1, <1>3, <1>4, <1>6, <1>7 DEF ArraysOf
<1>9. \A k \in Deque : Kept(q, k) => Kept(q, k)'
  BY <1>1, <1>5 DEF Kept
<1>10. SeenOf(q)'
  BY <1>1, <1>4, <1>9 DEF SeenOf
<1>11. QED
  BY <1>8, <1>10

LEMMA SeenByStep ==
  ASSUME Base, Base', NEW t \in Thread, ThreadStep(t), NEW s \in Worker, SeenBy(s)
  PROVE  SeenBy(s)'
<1>1. TypeOK /\ s \in Thread /\ s # Main /\ s \in Deque /\ dq[s] \in Deque
  BY Constants, Domains DEF Base
<1>2. CASE s # t
  <2>1. UNCHANGED Locals(s)
    BY <1>1, <1>2, OthersStay
  <2>2. CASE handle' = handle
    BY <2>1, <2>2 DEF SeenBy, Locals
  <2>3. CASE gc_handle(t) /\ dq[s] # s
    <3>1. dq[s] # dq[t] \/ s # Tid[t]
      <4>1. CASE t = Main
        BY <2>3, <4>1, Constants DEF Base, MainControl
      <4>2. CASE t \in Worker
        BY <1>2, <4>2, Constants
      <4>3. QED
        BY <4>1, <4>2, Threads
    <3>2. handle'[dq[s]][s] = handle[dq[s]][s]
      BY <1>1, <2>3, <3>1, GcHandleDoes
    <3>3. QED
      BY <2>1, <3>2 DEF SeenBy, Locals
  <2>4. CASE dq[s] = s
    BY <2>1, <2>4 DEF SeenBy, Locals
  <2>5. QED
    BY <1>1, <2>2, <2>3, <2>4, Writers
<1>3. CASE s = t
  <2>1. CASE gc_array(t) \/ steal_array(t)
    <3>1. a'[t] = Newest(dq[t]) /\ dq'[t] = dq[t] /\ handle' = handle
      BY <1>1, <2>1, GcArrayDoes, StealArrayDoes DEF dequeVars
    <3>2. handle[dq[t]][t] \in 1 .. Newest(dq[t]) /\ Newest(dq[t]) \in Nat
      BY <1>1, <1>3, Newer DEF TypeOK
    <3>3. QED
      BY <1>3, <3>1, <3>2 DEF SeenBy
  <2>2. CASE steal_slot(t)
    BY <1>1, <1>3, <2>2, StealSlotDoes DEF SeenBy, dequeVars
  <2>3. CASE pc'[t] \notin {"gc_handle", "steal_slot", "steal_cas"}
    BY <1>3, <2>3 DEF SeenBy
  <2>4. ret[t] \in {"taken", "stolen", "run", "wait"}
    BY <1>1 DEF TypeOK
  <2>5. QED
    BY <2>1, <2>2, <2>3, <2>4, Flow
<1>4. QED
  BY <1>2, <1>3

LEMMA StorageStep ==
  ASSUME Base, Base', Storage, NEW t \in Thread, ThreadStep(t)
  PROVE  Storage'
<1>1. CASE hidden'
  BY <1>1 DEF Storage
<1>2. CASE ~hidden'
  <2>1. ~hidden
    BY <1>2, Writers DEF Base, resize_old
  <2>2. /\ \A q \in Deque : ArraysOf(q) /\ SeenOf(q)
        /\ \A s \in Worker : SeenBy(s)
    BY <2>1 DEF Storage
  <2>3. \A s \in Worker : SeenBy(s)'
    BY <2>2, SeenByStep
  <2>4. ASSUME NEW q \in Deque
        PROVE  ArraysOf(q)' /\ SeenOf(q)'
    <3>1. CASE exit_join(t)
      <4>1. t = Main
        BY <3>1, Threads DEF exit_join, Step, Base, ControlOf, PushPC, TakePC, StealPC, GcPC
      <4>2. QED
        BY <2>2, <3>1, <4>1, StorageExit
    <3>2. CASE q = dq[t] /\ Moving(t)
      BY <1>2, <2>2, <3>2, StorageResize, StorageResizeOld, StorageHandle, StorageCas, StorageScan,
         StoragePutBack DEF Moving
    <3>3. CASE ~exit_join(t) /\ (q # dq[t] \/ ~Moving(t))
      <4>1. pc'[t] = "exit" => t \in Worker
        BY <3>3, Moves
      <4>2. pc[Main] # "exit" /\ pc'[Main] # "exit"
        <5>1. CASE pc'[t] # "exit"
          BY <5>1, GoesOn
        <5>2. CASE t \in Worker
          <6>1. Main \in Thread \ {t} /\ TypeOK
            BY <5>2, Constants DEF Base
          <6>2. UNCHANGED Locals(Main)
            BY <6>1, OthersStay
          <6>3. QED
            BY <6>2, NotOver DEF Locals
        <5>3. QED
          BY <4>1, <5>1, <5>2
      <4>3. QED
        BY <2>2, <3>3, <4>2, Quiet, StorageFrame
    <3>4. QED
      BY <3>1, <3>2, <3>3
  <2>5. QED
    BY <2>3, <2>4 DEF Storage
<1>3. QED
  BY <1>1, <1>2

LEMMA StorageStutters ==
  ASSUME Storage, UNCHANGED vars
  PROVE  Storage'
<1>1. UNCHANGED <<buffer, old_array, handle, freed, hidden, dq, a, old_a, i, pc>>
  BY DEF vars, dequeVars, historyVars, localVars, poolVars
<1>2. \A q \in Deque : InGc(q)' = InGc(q) /\ Current(q)' = Current(q) /\ Newest(q)' = Newest(q)
  BY <1>1 DEF InGc, Current, Newest
<1>3. \A q \in Deque : ArraysOf(q)' <=> ArraysOf(q)
  BY <1>1, <1>2 DEF ArraysOf, Lingers
<1>4. \A q \in Deque : SeenOf(q)' <=> SeenOf(q)
  BY <1>1, <1>2 DEF SeenOf, Kept
<1>5. \A t \in Worker : SeenBy(t)' <=> SeenBy(t)
  BY <1>1 DEF SeenBy
<1>6. QED
  BY <1>1, <1>3, <1>4, <1>5 DEF Storage

LEMMA StorageInit ==
  ASSUME Init
  PROVE  Storage
<1>1. /\ buffer = [q \in Deque |-> <<[n \in 1 .. SIZE_HINT |-> NULL]>>]
      /\ old_array = [q \in Deque |-> NULL]
      /\ handle = [q \in Deque |-> [n \in Deque |-> 1]]
      /\ freed = [q \in Deque |-> {}]
      /\ pc = [t \in Thread |-> IF t = Main THEN "spawn" ELSE "take_top"]
  BY DEF Init, DequeInit
<1>2. Main \in Thread /\ \A t \in Worker : t \in Thread /\ t # Main
  BY Constants
<1>3. ASSUME NEW q \in Deque
      PROVE  ArraysOf(q) /\ SeenOf(q)
  <2>1. pc[q] = "take_top" /\ pc[Main] = "spawn"
    BY <1>1, <1>2, Constants
  <2>2. Newest(q) = 1
    BY <1>1 DEF Newest
  <2>3. Current(q) = 1
    BY <2>1, <2>2 DEF Current
  <2>4. InGc(q) = {}
    BY <1>1 DEF InGc
  <2>5. ~Lingers(q)
    BY <1>1, <2>4 DEF Lingers
  <2>6. ArraysOf(q)
    BY <1>1, <2>1, <2>3, <2>4, <2>5 DEF ArraysOf
  <2>7. SeenOf(q)
    BY <1>1, <2>3 DEF SeenOf
  <2>8. QED
    BY <2>6, <2>7
<1>4. \A t \in Worker : SeenBy(t)
  BY <1>1, <1>2 DEF SeenBy
<1>5. QED
  BY <1>3, <1>4 DEF Storage

LEMMA StorageKept ==
  ASSUME Base, Storage, [Next]_vars
  PROVE  Base' /\ Storage'
<1>1. Base'
  BY BaseKept
<1>2. QED
  BY <1>1, StorageStep, StorageStutters DEF Next, Stopped

LEMMA StorageHolds == Spec => [](Base /\ Storage)
<1>1. Init => Base /\ Storage
  BY BaseInit, StorageInit
<1>2. Base /\ Storage /\ [Next]_vars => (Base /\ Storage)'
  BY StorageKept
<1>3. QED
  BY <1>1, <1>2, PTL DEF Spec

(* deque_gc: the array a thread is about to release is released by nobody  *)
(* else, and when hina_exit is through every array was.                    *)
THEOREM NeverFreedTwice == Spec => []ReleasedOnce
<1>1. ASSUME Base, Storage
      PROVE  ReleasedOnce
  <2>1. CASE hidden
    BY <2>1 DEF ReleasedOnce
  <2>2. CASE ~hidden
    <3>1. \A q \in Deque : ArraysOf(q)
      BY <1>1, <2>2 DEF Storage
    <3>2. ASSUME NEW q \in Deque, NEW t \in InGc(q)
          PROVE  /\ old_a[t] \notin freed[q]
                 /\ old_array[q] # old_a[t]
                 /\ \A s \in InGc(q) \ {t} : old_a[s] # old_a[t]
      <4>1. t \in Thread /\ dq[t] = q /\ pc[t] \in {"gc_scan", "gc_put_back"}
        BY DEF InGc
      <4>2. pc[Main] # "exit"
        BY <1>1, <4>1, Threads DEF Base, First
      <4>3. old_a[t] = Current(q) - 1 /\ old_array[q] = NULL /\ \A s \in InGc(q) : s = t
        BY <3>1 DEF ArraysOf
      <4>4. freed[q] = 1 .. Current(q) - 2
        BY <3>1, <4>2 DEF ArraysOf, Lingers
      <4>5. old_a[t] \in Nat /\ Current(q) \in Nat
        BY <1>1, <4>1, Ranges, CurrentIs DEF Base
      <4>6. QED
        BY <4>3, <4>4, <4>5, Constants
    <3>3. ASSUME Ended, NEW q \in Deque
          PROVE  freed[q] = 1 .. Newest(q)
      BY <3>1, <3>3, Constants DEF Ended, ArraysOf
    <3>4. QED
      BY <3>2, <3>3 DEF ReleasedOnce
  <2>3. QED
    BY <2>1, <2>2
<1>2. QED
  BY <1>1, StorageHolds, PTL

LEMMA ArraysHeld ==
  ASSUME Base, Storage
  PROVE  ArraysInUse
<1>1. CASE hidden
  BY <1>1 DEF ArraysInUse
<1>2. CASE ~hidden
  <2>1. /\ \A q \in Deque : ArraysOf(q) /\ SeenOf(q)
        /\ \A t \in Worker : SeenBy(t)
    BY <1>2 DEF Storage
  <2>2. ASSUME NEW q \in Deque, pc[Main] # "exit"
        PROVE  /\ freed[q] \subseteq 1 .. Current(q) - 1
               /\ Current(q) - 1 \in freed[q] => ~Lingers(q)
    <3>1. freed[q] = 1 .. Current(q) - (IF Lingers(q) THEN 2 ELSE 1) /\ Current(q) \in Nat
      BY <2>1, <2>2, CurrentIs DEF ArraysOf
    <3>2. QED
      BY <3>1
  <2>3. ASSUME NEW t \in Thread, pc[t] = "steal_slot"
        PROVE  a[t] \notin freed[dq[t]]
    <3>1. t \in Worker /\ dq[t] # t /\ dq[t] \in Deque /\ t \in Deque /\ pc[Main] # "exit"
      BY <2>3, Threads, Ranges DEF Base, MainControl, ControlOf, First, StealPC, GcPC
    <3>2. PICK q \in Deque : q = dq[t]
      BY <3>1
    <3>3. handle[q][t] <= a[t] /\ handle[q][t] \in Nat /\ a[t] \in Nat /\ Current(q) \in Nat
      <4>1. TypeOK
        BY DEF Base
      <4>2. handle[q][t] \in Nat
        BY <3>1, <4>1 DEF TypeOK
      <4>3. a[t] \in Nat /\ Current(q) \in Nat
        BY <4>1, Ranges, CurrentIs
      <4>4. SeenBy(t)
        BY <2>1, <3>1
      <4>5. QED
        BY <2>3, <3>1, <3>2, <4>2, <4>3, <4>4 DEF SeenBy
    <3>4. Current(q) - 1 <= handle[q][t] /\ (Current(q) - 1 = handle[q][t] => Kept(q, t))
      BY <2>1, <3>1, <3>2 DEF SeenOf
    <3>5. ASSUME a[t] \in freed[q]
          PROVE  FALSE
      <4>1. a[t] <= Current(q) - 1
        BY <2>2, <3>1, <3>3, <3>5
      <4>2. a[t] = Current(q) - 1 /\ handle[q][t] = Current(q) - 1
        BY <3>3, <3>4, <4>1
      <4>3. ~Lingers(q) /\ Kept(q, t)
        BY <2>2, <3>1, <3>4, <3>5, <4>2
      <4>4. QED
        BY <3>3, <4>3, Constants DEF Lingers, Kept
    <3>6. QED
      BY <3>2, <3>5
  <2>4. ASSUME ~Ended, NEW q \in Deque
        PROVE  Newest(q) \notin freed[q]
    <3>1. pc[Main] # "exit"
      BY <2>4, Threads DEF Ended, Base, First
    <3>2. QED
      BY <2>2, <3>1, CurrentIs
  <2>5. QED
    BY <2>3, <2>4 DEF ArraysInUse
<1>3. QED
  BY <1>1, <1>2

(* Neither the array a thief reads from nor the one that push and take use *)
(* was released, for all that deque_gc knows of the others is the handles. *)
THEOREM NothingReleasedIsRead == Spec => []ArraysInUse
<1>1. Base /\ Storage => ArraysInUse
  BY ArraysHeld
<1>2. QED
  BY <1>1, StorageHolds, PTL

-----------------------------------------------------------------------------
(* The works in the arrays.                                                *)
LEMMA Size ==
  ASSUME Base, NEW q \in Deque
  PROVE  /\ Newest(q) \in 1 .. Newest(q) /\ Newest(q) \in Nat \ {0}
         /\ Len(buffer[q][Newest(q)]) \in Nat \ {0}
         /\ top[q] \in Nat \ {0} /\ bottom[q] \in Nat \ {0} /\ Bot(q) \in Nat /\ Bot(q) <= bottom[q]
<1>1. TypeOK /\ Sized(q)
  BY DEF Base
<1>2. Newest(q) \in Nat /\ Newest(q) > 0
  BY <1>1, Newer DEF Sized
<1>3. Newest(q) \in 1 .. Newest(q)
  BY <1>2
<1>4. Len(buffer[q][Newest(q)]) \in Nat /\ Len(buffer[q][Newest(q)]) > 0
  BY <1>1, <1>3, Newer DEF Sized
<1>5. top[q] \in Nat \ {0} /\ bottom[q] \in Nat \ {0}
  BY <1>1, Ranges
<1>6. Bot(q) \in Nat /\ Bot(q) <= bottom[q]
  BY <1>5 DEF Bot
<1>7. QED
  BY <1>2, <1>3, <1>4, <1>5, <1>6

(* Who pushes to a deque finds its thread neither at a take nor at a       *)
(* resize.                                                                 *)
LEMMA PusherAlone ==
  ASSUME Base, NEW t \in Thread, pc[t] \in PushPC, NEW q \in Deque, q = dq[t]
  PROVE  /\ pc[q] \notin {"take_cas", "take_bottom"} /\ Bot(q) = bottom[q]
         /\ q # t => pc[q] \notin OwnerPC
<1>1. q \in Worker /\ q \in Thread
  BY Constants
<1>2. ASSUME pc[q] \in OwnerPC
      PROVE  q = t
  <2>1. dq[q] = q
    BY <1>1, <1>2, OwnerIs
  <2>2. pc[t] \in OwnerPC
    BY DEF OwnerPC
  <2>3. QED
    BY <1>1, <1>2, <2>1, <2>2, Exclusive
<1>3. pc[q] \notin {"take_cas", "take_bottom"}
  BY <1>2 DEF OwnerPC, PushPC
<1>4. QED
  BY <1>2, <1>3 DEF Bot

LEMMA PushedWork ==
  ASSUME Base, NEW t \in Thread, pc[t] \in PushPC \cup {"aborted"}
  PROVE  x[t] \in Work /\ x[t] \in 1 .. spawned
<1>1. x[t] \in 1 .. spawned
  BY DEF Base, HandsOf
<1>2. spawned \in Nat /\ spawned <= WORKS /\ WORKS \in Nat /\ Work = 1 .. WORKS
  BY Ranges, Constants DEF Base
<1>3. QED
  BY <1>1, <1>2

LEMMA TakerIs ==
  ASSUME Base, NEW t \in Thread, pc[t] \in TakePC
  PROVE  t \in Worker /\ t \in Deque /\ dq[t] = t
<1>1. t # Main
  BY DEF Base, MainControl, TakePC, GcPC
<1>2. t \in Worker /\ t \in Deque
  BY <1>1, Threads
<1>3. QED
  BY <1>2 DEF Base, ControlOf, PushPC, TakePC, StealPC, GcPC

LEMMA ThiefIs ==
  ASSUME Base, NEW t \in Thread, pc[t] \in StealPC
  PROVE  t \in Worker /\ t \in Deque /\ dq[t] # t
<1>1. t # Main
  BY DEF Base, MainControl, StealPC, GcPC
<1>2. t \in Worker /\ t \in Deque
  BY <1>1, Threads
<1>3. QED
  BY <1>2 DEF Base, ControlOf, PushPC, TakePC, StealPC, GcPC

LEMMA SameBuffer ==
  ASSUME Base, NEW t \in Thread, ThreadStep(t), NEW q \in Deque,
         q # dq[t] \/ ~(resize(t) \/ push_bottom(t))
  PROVE  buffer'[q] = buffer[q]
<1>1. TypeOK /\ Sized(dq[t]) /\ dq[t] \in Deque
  BY Present
<1>2. CASE resize(t)
  BY <1>1, <1>2, ResizeDoes
<1>3. CASE push_bottom(t)
  <2>1. q \in Deque \ {dq[t]}
    BY <1>3
  <2>2. pc[t] = "push_bottom"
    BY <1>3 DEF push_bottom
  <2>3. x[t] \in Work /\ a[t] = Newest(dq[t])
    BY <2>2, Present, PushedWork DEF PointersOf, PushPC
  <2>4. QED
    BY <1>1, <1>3, <2>1, <2>3, PushBuffers
<1>4. QED
  BY <1>1, <1>2, <1>3, Writers

(* A push to a deque that is not full: the slot is free, the others stay.  *)
LEMMA PushedSlot ==
  ASSUME Base, NEW t \in Thread, push_bottom(t), NEW q \in Deque, q = dq[t], RoomOf(t)
  PROVE  /\ bottom[q] = b[t] /\ x[t] \in Work /\ Newest(q)' = Newest(q)
         /\ \A n \in Nat : n = b[t] => Item(q, n)' = x[t]
         /\ \A m \in 1 .. Newest(q) : \A n \in Nat :
              m # Newest(q) \/ (top[q] <= n /\ n < bottom[q]) => Slot(q, m, n)' = Slot(q, m, n)
<1> DEFINE row == buffer[q][Newest(q)]
<1>1. pc[t] = "push_bottom"
  BY DEF push_bottom
<1>2. /\ TypeOK /\ Sized(dq[t]) /\ x[t] \in Work /\ a[t] = Newest(q)
      /\ bottom[q] = b[t] /\ b[t] \in Nat
  BY <1>1, Present, PushedWork DEF PointersOf, BoundsOf, PushPC
<1>3. /\ Newest(q)' = Newest(q)
      /\ \A n \in 1 .. Newest(q) : n # a[t] => buffer'[q][n] = buffer[q][n]
      /\ Len(buffer'[q][a[t]]) = Len(row)
      /\ \A m \in 1 .. Len(row) :
           buffer'[q][a[t]][m] = IF m = Place(row, b[t]) THEN x[t] ELSE row[m]
  <2>1. /\ Newest(dq[t])' = Newest(dq[t])
        /\ \A n \in 1 .. Newest(dq[t]) : n # a[t] => buffer'[dq[t]][n] = buffer[dq[t]][n]
        /\ Len(buffer'[dq[t]][a[t]]) = Len(buffer[dq[t]][a[t]])
        /\ \A m \in 1 .. Len(buffer[dq[t]][a[t]]) :
              buffer'[dq[t]][a[t]][m] = IF m = Place(buffer[dq[t]][a[t]], b[t])
                                          THEN x[t] ELSE buffer[dq[t]][a[t]][m]
    BY <1>2, PushBuffers
  <2>2. dq' = dq
    BY DEF push_bottom
  <2>3. QED
    BY <1>2, <2>1, <2>2 DEF Newest
<1>4. /\ Len(row) \in Nat \ {0} /\ top[q] \in Nat /\ bottom[q] \in Nat
      /\ bottom[q] - top[q] < Len(row)
  BY <1>1, Size DEF RoomOf
<1> HIDE DEF row
<1>5. ASSUME NEW n \in Nat
      PROVE  /\ Place(row, n) \in 1 .. Len(row) /\ Place(row, n) = (n % Len(row)) + 1
             /\ Place(buffer'[q][a[t]], n) = Place(row, n) /\ n % Len(row) \in Nat
  <2>1. n % Len(row) \in 0 .. Len(row) - 1
    BY <1>4, Division
  <2>2. Place(row, n) = (n % Len(row)) + 1 /\ Place(buffer'[q][a[t]], n) = Place(row, n)
    BY <1>3 DEF Place
  <2>3. QED
    BY <1>4, <2>1, <2>2
<1>a. ASSUME NEW n \in Nat
      PROVE  Slot(q, Newest(q), n)' = buffer'[q][a[t]][Place(row, n)]
  <2>1. Slot(q, Newest(q), n)' = buffer'[q][Newest(q)'][Place(buffer'[q][Newest(q)'], n)]
    BY DEF Slot
  <2>2. Newest(q)' = a[t]
    BY <1>2, <1>3
  <2>3. QED
    BY <1>5, <2>1, <2>2
<1>6. ASSUME NEW n \in Nat, n = b[t]
      PROVE  Item(q, n)' = x[t]
  <2>1. buffer'[q][a[t]][Place(row, n)] = x[t]
    BY <1>2, <1>3, <1>5, <1>6
  <2>2. Item(q, n)' = Slot(q, Newest(q), n)'
    BY DEF Item
  <2>3. QED
    BY <1>a, <2>1, <2>2
<1>7. ASSUME NEW n \in Nat, top[q] <= n, n < bottom[q]
      PROVE  Slot(q, Newest(q), n)' = Slot(q, Newest(q), n)
  <2>1. Place(row, n) # Place(row, b[t])
    <3>1. ASSUME n % Len(row) = b[t] % Len(row)
          PROVE  FALSE
      <4>1. n < b[t] + Len(row) /\ b[t] < n + Len(row)
        BY <1>2, <1>4, <1>7
      <4>2. n = b[t]
        BY <1>2, <1>4, <3>1, <4>1, SameRemainder
      <4>3. QED
        BY <1>2, <1>7, <4>2
    <3>2. PICK u \in Nat, v \in Nat : u = n % Len(row) /\ v = b[t] % Len(row)
      <4>1. n % Len(row) \in Nat /\ b[t] % Len(row) \in Nat
        BY <1>2, <1>5
      <4>2. QED
        BY <4>1
    <3>3. u # v
      BY <3>1, <3>2
    <3>4. Place(row, n) = u + 1 /\ Place(row, b[t]) = v + 1
      BY <1>2, <1>5, <3>2
    <3>5. QED
      BY <3>3, <3>4
  <2>2. buffer'[q][a[t]][Place(row, n)] = row[Place(row, n)]
    BY <1>3, <1>5, <2>1
  <2>3. Slot(q, Newest(q), n)' = buffer'[q][a[t]][Place(row, n)]
    BY <1>a
  <2>4. QED
    BY <2>2, <2>3 DEF Slot, row
<1>8. ASSUME NEW m \in 1 .. Newest(q), NEW n \in Nat, m # Newest(q)
      PROVE  Slot(q, m, n)' = Slot(q, m, n)
  BY <1>2, <1>3, <1>8 DEF Slot
<1>9. \A n \in Nat : top[q] <= n /\ n < bottom[q] => Slot(q, Newest(q), n)' = Slot(q, Newest(q), n)
  BY <1>7
<1>10. QED
  BY <1>2, <1>3, <1>6, <1>8, <1>9

(* A slot of an old array, and one between top and bottom, keeps its item. *)
LEMMA SlotsStay ==
  ASSUME Base, NEW t \in Thread, ThreadStep(t), RoomOf(t), NEW q \in Deque,
         NEW m \in 1 .. Newest(q), NEW n \in Nat, m # Newest(q) \/ (top[q] <= n /\ n < bottom[q])
  PROVE  Slot(q, m, n)' = Slot(q, m, n)
<1>1. CASE q # dq[t] \/ ~(resize(t) \/ push_bottom(t))
  BY <1>1, SameBuffer DEF Slot
<1>2. CASE q = dq[t] /\ resize(t)
  <2>1. TypeOK /\ Sized(dq[t])
    BY Present
  <2>2. buffer'[q][m] = buffer[q][m]
    BY <1>2, <2>1, ResizeBuffers
  <2>3. QED
    BY <2>2 DEF Slot
<1>3. CASE q = dq[t] /\ push_bottom(t)
  BY <1>3, PushedSlot
<1>4. QED
  BY <1>1, <1>2, <1>3

LEMMA ItemsStay ==
  ASSUME Base, NEW t \in Thread, ThreadStep(t), RoomOf(t), NEW q \in Deque, Fits(q),
         NEW n \in Nat, top[q] <= n, n < bottom[q]
  PROVE  Item(q, n)' = Item(q, n)
<1>1. Newest(q) \in 1 .. Newest(q) /\ top[q] \in Nat /\ bottom[q] \in Nat
  BY Size
<1>2. CASE q # dq[t] \/ ~resize(t)
  <2>1. Newest(q)' = Newest(q)
    BY <1>2, Buffers, Present DEF Base
  <2>2. PICK m \in 1 .. Newest(q) : m = Newest(q)
    BY <1>1
  <2>3. Slot(q, m, n)' = Slot(q, m, n)
    BY SlotsStay
  <2>4. Item(q, n)' = Slot(q, m, n)'
    BY <2>1, <2>2 DEF Item, Slot
  <2>5. QED
    BY <2>2, <2>3, <2>4 DEF Item
<1>3. CASE q = dq[t] /\ resize(t)
  <2>1. TypeOK /\ Sized(q) /\ Newest(q) \in Nat
    BY <1>3, Present
  <2>2. Newest(q)' = Newest(q) + 1 /\ buffer'[q][Newest(q) + 1] = Resized(q)
    <3>1. /\ Newest(dq[t])' = Newest(dq[t]) + 1
          /\ buffer'[dq[t]][Newest(dq[t]) + 1] = Resized(dq[t])
      BY <1>3, <2>1, ResizeBuffers
    <3>2. dq' = dq
      BY <1>3 DEF resize, localVars
    <3>3. QED
      BY <1>3, <3>1, <3>2 DEF Newest
  <2>3. Resized(q)[Place(Resized(q), n)] = Item(q, n)
    <3>1. n \in top[q] .. bottom[q] - 1
      BY <1>1
    <3>2. QED
      BY <2>1, <3>1, ResizedIs DEF Fits
  <2>4. Item(q, n)' = buffer'[q][Newest(q)'][Place(buffer'[q][Newest(q)'], n)]
    BY DEF Item, Slot
  <2>5. QED
    BY <2>2, <2>3, <2>4
<1>4. QED
  BY <1>2, <1>3

(* The ends of what a deque offers.                                        *)
LEMMA TopsStep ==
  ASSUME Base, NEW t \in Thread, ThreadStep(t), NEW q \in Deque
  PROVE  /\ top'[q] \in Nat
         /\ \/ top'[q] = top[q]
            \/ /\ q = dq[t] /\ tt[t] = top[q] /\ top'[q] = top[q] + 1
               /\ take_cas(t) \/ steal_cas(t)
BY TopStep, Size

LEMMA BotStep ==
  ASSUME Base, NEW t \in Thread, ThreadStep(t), NEW q \in Deque
  PROVE  /\ Bot(q)' \in Nat
         /\ \/ /\ Bot(q)' = Bot(q) /\ ~(push_bottom(t) /\ q = dq[t])
               /\ bottom'[q] = bottom[q] \/ bottom'[q] = bottom[q] - 1
            \/ /\ q = dq[t] /\ push_bottom(t) /\ bottom[q] = b[t] /\ bottom'[q] = bottom[q] + 1
               /\ Bot(q) = bottom[q] /\ Bot(q)' = bottom[q] + 1
            \/ /\ q = dq[t] /\ q = t /\ take_top(t) /\ pc'[t] = "take_bottom" /\ pc[t] = "take_top"
               /\ Bot(q) = bottom[q] /\ Bot(q)' = bottom[q] - 1 /\ bottom'[q] = bottom[q]
<1>1. /\ q \in Thread /\ q \in Worker /\ TypeOK
      /\ bottom[q] \in Nat \ {0} /\ Bot(q) \in Nat /\ bottom[q] - 1 \in Nat
  <2>1. bottom[q] \in Nat \ {0} /\ Bot(q) \in Nat
    BY Size
  <2>2. q \in Thread /\ q \in Worker /\ TypeOK
    BY Constants DEF Base
  <2>3. QED
    BY <2>1, <2>2
<1>2. CASE push_bottom(t) /\ q = dq[t]
  <2>1. pc[t] = "push_bottom" /\ pc'[t] = "gc_array"
    BY <1>1, <1>2, Flow DEF push_bottom
  <2>2. bottom[q] = b[t] /\ bottom[q] \in Nat
    BY <1>1, <1>2, <2>1 DEF Base, BoundsOf
  <2>3. pc[q] \notin {"take_cas", "take_bottom"} /\ Bot(q) = bottom[q]
    BY <1>2, <2>1, PusherAlone DEF PushPC
  <2>4. bottom'[q] = bottom[q] + 1
    <3>1. bottom[q] <= spawned /\ spawned < SIZE_MAX /\ spawned \in Nat
      <4>1. x[t] \in 1 .. spawned /\ bottom[q] <= x[t]
        BY <1>2, <2>1, PushedWork DEF Base, BoundsOf, PushPC
      <4>2. spawned \in Nat /\ spawned < SIZE_MAX
        BY <1>1, Ranges, Constants
      <4>3. QED
        BY <1>1, <4>1, <4>2
    <3>2. bottom[q] < SIZE_MAX
      BY <1>1, <3>1, Constants
    <3>3. bottom'[q] = Add(bottom[q], 1)
      <4>1. bottom' = Set(bottom, dq[t], Add(b[t], 1))
        BY <1>2, <2>2 DEF push_bottom
      <4>2. QED
        BY <1>1, <1>2, <2>2, <4>1, Domains DEF Set
    <3>4. QED
      BY <1>1, <3>2, <3>3, Plus
  <2>5. pc'[q] # "take_bottom"
    <3>1. CASE q = t
      BY <2>1, <3>1
    <3>2. CASE q # t
      BY <1>1, <2>3, <3>2, OthersStay DEF Locals
    <3>3. QED
      BY <3>1, <3>2
  <2>6. Bot(q)' = bottom[q] + 1
    BY <2>4, <2>5 DEF Bot
  <2>7. QED
    BY <1>1, <1>2, <2>2, <2>3, <2>4, <2>6
<1>3. CASE take_bottom(t) /\ q = dq[t]
  <2>1. pc[t] = "take_bottom" /\ pc'[t] = "gc_array" /\ bottom'[q] = b[t]
    BY <1>1, <1>3, TakeBottomDoes
  <2>2. q = t /\ b[t] + 1 = bottom[q] /\ b[t] \in Nat
    BY <1>1, <1>3, <2>1, TakerIs, Present DEF BoundsOf, TakePC
  <2>3. Bot(q) = bottom[q] - 1 /\ Bot(q)' = b[t]
    BY <2>1, <2>2 DEF Bot
  <2>4. ~push_bottom(t)
    BY <2>1 DEF push_bottom
  <2>5. QED
    BY <1>1, <2>1, <2>2, <2>3, <2>4
<1>4. CASE q # dq[t] \/ ~(push_bottom(t) \/ take_bottom(t))
  <2>1. bottom'[q] = bottom[q]
    BY <1>4, BottomStep
  <2>2. CASE q # t
    <3>1. pc'[q] = pc[q]
      BY <1>1, <2>2, OthersStay DEF Locals
    <3>2. QED
      BY <1>1, <1>4, <2>1, <3>1 DEF Bot
  <2>3. CASE q = t
    <3>1. pc[t] # "take_bottom"
      <4>1. ASSUME pc[t] = "take_bottom"
            PROVE  FALSE
        <5>1. dq[t] = t
          BY <4>1, TakerIs DEF TakePC
        <5>2. ret[t] \in {"taken", "stolen", "run", "wait"}
          BY <1>1 DEF TypeOK
        <5>3. take_bottom(t)
          BY <4>1, <5>2, Flow
        <5>4. QED
          BY <1>4, <2>3, <5>1, <5>3
      <4>2. QED
        BY <4>1
    <3>2. CASE pc'[t] # "take_bottom"
      BY <1>1, <1>4, <2>1, <2>3, <3>1, <3>2 DEF Bot
    <3>3. CASE pc'[t] = "take_bottom"
      <4>1. ret[t] \in {"taken", "stolen", "run", "wait"}
        BY <1>1 DEF TypeOK
      <4>2. take_top(t) /\ pc[t] = "take_top"
        BY <3>3, <4>1, Flow
      <4>3. dq[t] = t
        BY <4>2, TakerIs DEF TakePC
      <4>4. QED
        BY <1>1, <2>1, <2>3, <3>3, <4>2, <4>3 DEF Bot
    <3>4. QED
      BY <3>2, <3>3
  <2>4. QED
    BY <2>2, <2>3
<1>5. QED
  BY <1>2, <1>3, <1>4

(* Where a work lies after a step: where it lay, or where it was pushed.   *)
LEMMA LiesStep ==
  ASSUME Base, NEW t \in Thread, ThreadStep(t), RoomOf(t), NEW q \in Deque, Fits(q),
         NEW n \in Nat, NEW w
  PROVE  Lies(q, n, w)' <=>
           \/ Lies(q, n, w) /\ top'[q] <= n /\ n < Bot(q)'
           \/ top'[q] <= n /\ Bot(q) <= n /\ n < Bot(q)' /\ Item(q, n)' = w
<1>1. top[q] \in Nat /\ bottom[q] \in Nat /\ Bot(q) \in Nat /\ Bot(q) <= bottom[q]
  BY Size
<1>2. top'[q] \in Nat /\ top[q] <= top'[q] /\ Bot(q)' \in Nat
  BY <1>1, TopsStep, BotStep
<1>3. CASE top[q] <= n /\ n < Bot(q)
  <2>1. n < bottom[q]
    BY <1>1, <1>3
  <2>2. Item(q, n)' = Item(q, n)
    BY <1>3, <2>1, ItemsStay
  <2>3. QED
    BY <1>1, <1>2, <1>3, <2>2 DEF Lies
<1>4. CASE ~(top[q] <= n /\ n < Bot(q))
  <2>1. ~Lies(q, n, w)
    BY <1>4 DEF Lies
  <2>2. Lies(q, n, w)' <=> top'[q] <= n /\ n < Bot(q)' /\ Item(q, n)' = w
    BY DEF Lies
  <2>3. QED
    BY <1>1, <1>2, <1>4, <2>1, <2>2
<1>5. QED
  BY <1>3, <1>4

-----------------------------------------------------------------------------
(* The deques and the takes.                                               *)
LEMMA TakenItem ==
  ASSUME Base, NEW t \in Thread, take_top(t), NEW q \in Deque, q = dq[t], Fits(q),
         Newest(q) \notin freed[q]
  PROVE  \/ /\ pc'[t] = "gc_array" /\ x'[t] = x[t] /\ kept' = kept
         \/ /\ pc'[t] \in {"take_cas", "take_bottom"} /\ top[q] < bottom[q]
            /\ pc'[t] = "take_bottom" <=> top[q] < bottom[q] - 1
            /\ b'[t] = bottom[q] - 1 /\ b'[t] \in Nat
            /\ x'[t] \in Work /\ \A n \in Nat : n = bottom[q] - 1 => Item(q, n) = x'[t]
            /\ kept' = IF pc'[t] = "take_bottom" THEN kept \cup {x'[t]} ELSE kept
<1> DEFINE last == Sub(bottom[q], 1)
<1>1. TypeOK /\ bottom[q] \in Nat \ {0} /\ bottom[q] <= SIZE_MAX /\ top[q] \in Nat
  BY Size, Ranges DEF Base
<1>2. last = bottom[q] - 1 /\ last \in Nat
  <2>1. 1 \in Nat /\ 1 <= bottom[q] /\ bottom[q] - 1 \in Nat
    BY <1>1
  <2>2. QED
    BY <1>1, <2>1, Minus
<1> HIDE DEF last
<1>3. \/ /\ top[q] <= last /\ x'[t] \in Loads(q, Newest(q), last)
         /\ kept' = IF top[q] < last THEN kept \cup {x'[t]} ELSE kept
         /\ pc'[t] = (IF top[q] < last THEN "take_bottom" ELSE "take_cas")
         /\ b'[t] = last
      \/ pc'[t] = "gc_array" /\ UNCHANGED <<x[t], kept>>
  BY <1>1, TakeTopDoes DEF last
<1>4. ASSUME top[q] <= last
      PROVE  Item(q, last) \in Work /\ Loads(q, Newest(q), last) = {Item(q, last)}
  <2>1. last \in top[q] .. bottom[q] - 1
    BY <1>1, <1>2, <1>4
  <2>2. Item(q, last) \in Work
    BY <2>1 DEF Fits
  <2>3. Item(q, last) # NULL
    BY <2>2, Constants
  <2>4. QED
    BY <2>2, <2>3 DEF Loads, Item, Slot
<1>5. CASE pc'[t] = "gc_array" /\ UNCHANGED <<x[t], kept>>
  BY <1>5
<1>6. CASE /\ top[q] <= last /\ x'[t] \in Loads(q, Newest(q), last)
           /\ kept' = IF top[q] < last THEN kept \cup {x'[t]} ELSE kept
           /\ pc'[t] = (IF top[q] < last THEN "take_bottom" ELSE "take_cas")
           /\ b'[t] = last
  <2>1. x'[t] = Item(q, last) /\ x'[t] \in Work
    BY <1>4, <1>6
  <2>2. top[q] < bottom[q]
    BY <1>1, <1>2, <1>6
  <2>3. QED
    BY <1>2, <1>6, <2>1, <2>2
<1>7. QED
  BY <1>3, <1>5, <1>6

(* A claim of the top: a take that finds its item unclaimed, or a thief.   *)
LEMMA TakenLast ==
  ASSUME Base, NEW t \in Thread, take_cas(t), NEW q \in Deque, q = dq[t], ClaimOf(q), top'[q] # top[q]
  PROVE  /\ q = t /\ t \in Worker /\ top'[q] = top[q] + 1 /\ Bot(q) = top[q] + 1
         /\ x[t] \in Work /\ x'[t] = x[t] /\ Item(q, top[q]) = x[t]
<1>1. pc[t] = "take_cas" /\ TypeOK
  BY DEF take_cas, Step, Base
<1>2. t \in Worker /\ q = t
  BY <1>1, TakerIs DEF TakePC
<1>3. top[q] = tt[t] /\ x'[t] = x[t] /\ top'[q] = Add(tt[t], 1)
  BY <1>1, TakeCasDoes
<1>4. b[t] + 1 = bottom[q] /\ tt[t] = b[t] /\ b[t] \in Nat /\ top[q] \in Nat
  BY <1>1, Present, Size DEF BoundsOf
<1>5. top'[q] = top[q] + 1
  <2>1. top[q] < SIZE_MAX
    BY <1>1, <1>3, <1>4, Ranges, Constants
  <2>2. QED
    BY <1>3, <1>4, <2>1, Plus
<1>6. Bot(q) = top[q] + 1
  BY <1>1, <1>2, <1>3, <1>4 DEF Bot
<1>7. QED
  BY <1>1, <1>2, <1>3, <1>4, <1>5, <1>6 DEF ClaimOf

LEMMA StolenTop ==
  ASSUME Base, NEW t \in Thread, ThreadStep(t), steal_cas(t), NEW q \in Deque, q = dq[t],
         ThiefOf(t), top'[q] # top[q], ~overtaken'
  PROVE  /\ q # t /\ t \in Worker /\ top'[q] = top[q] + 1 /\ top[q] < Bot(q)
         /\ x[t] \in Work /\ x'[t] = x[t] /\ Item(q, top[q]) = x[t]
<1>1. pc[t] = "steal_cas" /\ TypeOK
  BY DEF steal_cas, Step, Base
<1>2. t \in Worker /\ q # t
  BY <1>1, ThiefIs DEF StealPC
<1>3. top[q] = tt[t] /\ x'[t] = x[t] /\ x[t] \notin kept
  BY <1>1, StealCasDoes
<1>4. top'[q] = top[q] + 1
  BY TopsStep
<1>5. QED
  BY <1>1, <1>2, <1>3, <1>4 DEF ThiefOf, Found

LEMMA FitsStep ==
  ASSUME Base, NEW t \in Thread, ThreadStep(t), RoomOf(t), NEW q \in Deque, Fits(q), ClaimOf(q),
         t \in Worker => ThiefOf(t), Newest(q) \notin freed[q], ~overtaken'
  PROVE  Fits(q)'
<1>1. /\ top[q] \in Nat /\ bottom[q] \in Nat /\ Bot(q) \in Nat /\ Bot(q) <= bottom[q] /\ top[q] <= Bot(q)
      /\ Newest(q) \in 1 .. Newest(q) /\ Newest(q) \in Nat \ {0}
      /\ Len(buffer[q][Newest(q)]) \in Nat /\ bottom[q] - top[q] <= Len(buffer[q][Newest(q)])
      /\ TypeOK
  BY Size DEF Fits, Base
<1>2. top'[q] \in Nat /\ (top'[q] = top[q] \/ top'[q] = top[q] + 1) /\ Bot(q)' \in Nat /\ top[q] <= top'[q]
  BY <1>1, TopsStep, BotStep
<1>3. top'[q] <= Bot(q)'
  <2>1. CASE top'[q] = top[q]
    <3>1. CASE Bot(q)' = Bot(q) \/ Bot(q)' = bottom[q] + 1
      BY <1>1, <2>1, <3>1
    <3>2. CASE q = dq[t] /\ take_top(t) /\ pc'[t] = "take_bottom" /\ Bot(q)' = bottom[q] - 1
      <4>1. top[q] < bottom[q] - 1
        BY <3>2, TakenItem
      <4>2. QED
        BY <1>1, <2>1, <3>2, <4>1
    <3>3. QED
      BY <3>1, <3>2, BotStep
  <2>2. CASE top'[q] # top[q]
    <3>1. q = dq[t] /\ (take_cas(t) \/ steal_cas(t))
      BY <2>2, TopsStep
    <3>2. Bot(q)' = Bot(q)
      <4>1. pc[t] \in {"take_cas", "steal_cas"}
        BY <3>1 DEF take_cas, steal_cas, Step
      <4>2. QED
        BY <4>1, BotStep DEF push_bottom
    <3>3. top'[q] = top[q] + 1 /\ top[q] < Bot(q)
      <4>1. CASE take_cas(t)
        BY <1>1, <2>2, <3>1, <4>1, TakenLast
      <4>2. CASE steal_cas(t)
        <5>1. t \in Worker
          BY <4>2, ThiefIs DEF steal_cas, Step, StealPC
        <5>2. QED
          BY <2>2, <3>1, <4>2, <5>1, StolenTop
      <4>3. QED
        BY <3>1, <4>1, <4>2
    <3>4. QED
      BY <1>1, <3>2, <3>3
  <2>3. QED
    BY <2>1, <2>2
<1>4. bottom'[q] \in Nat /\ (bottom'[q] <= bottom[q] \/ (q = dq[t] /\ push_bottom(t) /\ bottom[q] = b[t]
                                                        /\ bottom'[q] = bottom[q] + 1))
  BY <1>1, Size, BotStep
<1>5. bottom'[q] - top'[q] <= Len(buffer'[q][Newest(q)'])
  <2>1. Len(buffer'[q][Newest(q)']) \in Nat /\ Len(buffer[q][Newest(q)]) <= Len(buffer'[q][Newest(q)'])
    <3>1. CASE resize(t) /\ q = dq[t]
      <4>1. /\ Newest(dq[t])' = Newest(dq[t]) + 1
            /\ buffer'[dq[t]][Newest(dq[t]) + 1] = Resized(dq[t])
        BY <1>1, <3>1, ResizeBuffers, Present
      <4>2. dq' = dq
        BY <3>1 DEF resize, localVars
      <4>3. buffer'[q][Newest(q)'] = Resized(q)
        BY <3>1, <4>1, <4>2 DEF Newest
      <4>4. Len(Resized(q)) = 2 * Len(buffer[q][Newest(q)])
        BY <1>1, <3>1, ResizedIs, Present
      <4>5. QED
        BY <1>1, <4>3, <4>4
    <3>2. CASE ~(resize(t) /\ q = dq[t])
      <4>1. Newest(q)' = Newest(q) /\ Len(buffer'[q][Newest(q)]) = Len(buffer[q][Newest(q)])
        BY <1>1, <3>2, Buffers, Present DEF Base
      <4>2. QED
        BY <1>1, <4>1
    <3>3. QED
      BY <3>1, <3>2
  <2> DEFINE k == Len(buffer[q][Newest(q)])
             l == Len(buffer'[q][Newest(q)'])
             u == bottom'[q]
             v == top'[q]
  <2>2. /\ k \in Nat /\ l \in Nat /\ k <= l /\ u \in Nat /\ v \in Nat
        /\ bottom[q] - top[q] <= k /\ top[q] <= v
    BY <1>1, <1>2, <1>4, <2>1
  <2>3. u <= bottom[q] \/ (u = bottom[q] + 1 /\ bottom[q] - top[q] < k)
    <3>1. ASSUME q = dq[t], push_bottom(t)
          PROVE  bottom[q] - top[q] < k
      <4>1. pc[t] = "push_bottom"
        BY <3>1 DEF push_bottom
      <4>2. QED
        BY <3>1, <4>1 DEF RoomOf
    <3>2. QED
      BY <1>4, <3>1
  <2> HIDE DEF k, l, u, v
  <2>4. u - v <= l
    <3>1. CASE u <= bottom[q]
      BY <1>1, <2>2, <3>1
    <3>2. CASE u = bottom[q] + 1 /\ bottom[q] - top[q] < k
      BY <1>1, <2>2, <3>2
    <3>3. QED
      BY <2>3, <3>1, <3>2
  <2>5. QED
    BY <2>4 DEF l, u, v
<1>6. ASSUME NEW n \in top'[q] .. bottom'[q] - 1
      PROVE  Item(q, n)' \in Work
  <2>1. n \in Nat /\ top[q] <= n /\ n < bottom'[q]
    BY <1>1, <1>2, <1>4
  <2>2. CASE n < bottom[q]
    <3>1. Item(q, n)' = Item(q, n)
      BY <2>1, <2>2, ItemsStay
    <3>2. n \in top[q] .. bottom[q] - 1
      BY <1>1, <2>1, <2>2
    <3>3. QED
      BY <3>1, <3>2 DEF Fits
  <2>3. CASE n >= bottom[q]
    <3>1. q = dq[t] /\ push_bottom(t) /\ n = b[t]
      BY <1>1, <1>4, <2>1, <2>3
    <3>2. Item(q, n)' = x[t] /\ x[t] \in Work
      BY <2>1, <3>1, PushedSlot
    <3>3. QED
      BY <3>2
  <2>4. QED
    BY <1>1, <2>1, <2>2, <2>3
<1>7. QED
  BY <1>3, <1>5, <1>6 DEF Fits

LEMMA ClaimStep ==
  ASSUME Base, NEW t \in Thread, ThreadStep(t), RoomOf(t), NEW q \in Deque, Fits(q), ClaimOf(q),
         Newest(q) \notin freed[q]
  PROVE  ClaimOf(q)'
<1>1. q \in Thread /\ q \in Worker /\ TypeOK /\ ret[t] \in {"taken", "stolen", "run", "wait"}
  BY Constants DEF Base, TypeOK
<1>2. CASE q # t
  <2>1. UNCHANGED Locals(q)
    BY <1>1, <1>2, OthersStay
  <2>2. kept \subseteq kept'
    BY <1>1, Writers, TakeTopDoes
  <2>3. ASSUME pc[q] \in {"take_cas", "take_bottom"}
        PROVE  Item(q, b[q])' = Item(q, b[q])
    <3>1. dq[q] = q /\ pc[q] \in OwnerPC
      BY <1>1, <2>3, TakerIs DEF TakePC, OwnerPC
    <3>2. dq[t] = q => pc[t] \notin PushPC
      BY <1>1, <1>2, <3>1, Exclusive DEF OwnerPC
    <3>3. buffer'[q] = buffer[q]
      BY <1>1, <3>2, SameBuffer DEF resize, push_bottom, Step, PushPC
    <3>4. QED
      BY <2>1, <3>3 DEF Item, Slot, Newest, Locals
  <2>4. QED
    BY <2>1, <2>2, <2>3 DEF ClaimOf, Locals
<1>3. CASE q = t
  <2>1. CASE pc'[t] \notin {"take_cas", "take_bottom"}
    BY <1>3, <2>1 DEF ClaimOf
  <2>2. CASE pc'[t] \in {"take_cas", "take_bottom"}
    <3>1. take_top(t) /\ pc[t] = "take_top"
      BY <1>1, <2>2, Flow
    <3>2. dq[t] = q
      BY <1>3, <3>1, TakerIs DEF TakePC
    <3>3. /\ b'[t] = bottom[q] - 1 /\ b'[t] \in Nat
          /\ x'[t] \in Work /\ \A n \in Nat : n = bottom[q] - 1 => Item(q, n) = x'[t]
          /\ pc'[t] = "take_bottom" => x'[t] \in kept'
      BY <2>2, <3>1, <3>2, TakenItem
    <3>4. buffer'[q] = buffer[q]
      BY <3>1, SameBuffer DEF resize, push_bottom, Step
    <3>5. Item(q, b[q])' = x'[t]
      BY <1>3, <3>3, <3>4 DEF Item, Slot, Newest
    <3>6. QED
      BY <1>3, <3>3, <3>5 DEF ClaimOf
  <2>3. QED
    BY <2>1, <2>2
<1>4. QED
  BY <1>2, <1>3

LEMMA RoomStep ==
  ASSUME Base, NEW t \in Thread, ThreadStep(t), NEW s \in Thread, RoomOf(s), NEW q \in Deque, q = dq[s],
         Fits(q)
  PROVE  RoomOf(s)'
<1>1. TypeOK /\ ret[t] \in {"taken", "stolen", "run", "wait"} /\ top[q] \in Nat /\ bottom[q] \in Nat
  BY Size DEF Base, TypeOK
<1>2. CASE pc'[s] \notin {"resize_old", "push_bottom"}
  BY <1>2 DEF RoomOf
<1>3. CASE s # t /\ pc'[s] \in {"resize_old", "push_bottom"}
  <2>1. UNCHANGED Locals(s)
    BY <1>1, <1>3, OthersStay
  <2>2. pc[s] \in {"resize_old", "push_bottom"} /\ dq'[s] = q
    BY <1>3, <2>1 DEF Locals
  <2>3. pc[t] \in OwnerPC => dq[t] # q
    BY <1>3, <2>2, Exclusive DEF OwnerPC, PushPC
  <2>4. buffer'[q] = buffer[q] /\ bottom'[q] = bottom[q]
    <3>1. resize(t) \/ push_bottom(t) \/ take_bottom(t) => pc[t] \in OwnerPC
      BY DEF resize, push_bottom, take_bottom, Step, OwnerPC, PushPC
    <3>2. QED
      BY <2>3, <3>1, SameBuffer, BottomStep
  <2>5. top'[q] \in Nat /\ top[q] <= top'[q]
    BY <1>1, TopsStep
  <2>6. Len(buffer[q][Newest(q)]) \in Nat /\ bottom[q] - top[q] < Len(buffer[q][Newest(q)])
    BY <2>2, Size DEF RoomOf
  <2>7. bottom'[q] - top'[q] < Len(buffer'[q][Newest(q)'])
    BY <1>1, <2>4, <2>5, <2>6 DEF Newest
  <2>8. QED
    BY <2>2, <2>7 DEF RoomOf
<1>4. CASE s = t /\ pc'[s] \in {"resize_old", "push_bottom"}
  <2>1. push_top(t) \/ resize(t) \/ resize_old(t)
    BY <1>1, <1>4, Flow
  <2>2. top' = top /\ bottom' = bottom /\ dq'[t] = q /\ dq[t] = q
    BY <1>1, <1>4, <2>1, PushTopDoes, ResizeDoes, ResizeOldDoes DEF dequeVars
  <2>3. Len(buffer[q][Newest(q)]) \in Nat \ {0} /\ bottom[q] - top[q] <= Len(buffer[q][Newest(q)])
    BY Size DEF Fits
  <2>4. bottom[q] - top[q] < Len(buffer'[q][Newest(q)'])
    <3>1. CASE push_top(t)
      <4>1. Room(q) /\ buffer' = buffer
        BY <1>1, <1>4, <2>2, <3>1, PushTopDoes DEF dequeVars
      <4>2. Sub(bottom[q], top[q]) = bottom[q] - top[q]
        <5>1. pc[t] = "push_top"
          BY <3>1 DEF push_top, Step
        <5>2. top[q] <= bottom[q]
          BY <1>1, Size DEF Fits
        <5>3. bottom[q] <= SIZE_MAX
          BY <1>1, Ranges
        <5>4. QED
          BY <1>1, <5>2, <5>3, Minus
      <4>3. QED
        BY <1>1, <2>3, <4>1, <4>2 DEF Room, Newest
    <3>2. CASE resize(t)
      <4>1. Newest(q)' = Newest(q) + 1 /\ buffer'[q][Newest(q) + 1] = Resized(q)
        <5>1. /\ Newest(dq[t])' = Newest(dq[t]) + 1
              /\ buffer'[dq[t]][Newest(dq[t]) + 1] = Resized(dq[t])
          BY <1>1, <3>2, ResizeBuffers, Present
        <5>2. dq' = dq
          BY <3>2 DEF resize, localVars
        <5>3. QED
          BY <2>2, <5>1, <5>2 DEF Newest
      <4>2. Len(Resized(q)) = 2 * Len(buffer[q][Newest(q)])
        BY <1>1, <2>2, ResizedIs, Present
      <4>3. QED
        BY <1>1, <2>3, <4>1, <4>2
    <3>3. CASE resize_old(t)
      <4>1. buffer' = buffer /\ pc[t] = "resize_old"
        BY <1>1, <3>3, ResizeOldDoes
      <4>2. QED
        BY <1>4, <2>2, <4>1 DEF RoomOf, Newest
    <3>4. QED
      BY <2>1, <3>1, <3>2, <3>3
  <2>5. QED
    BY <1>4, <2>2, <2>4 DEF RoomOf
<1>5. QED
  BY <1>2, <1>3, <1>4

-----------------------------------------------------------------------------
(* The thieves.                                                            *)
LEMMA WithPick ==
  ASSUME Base, NEW t \in Thread, ThreadStep(t)
  PROVE  kept \subseteq kept'
BY Writers, TakeTopDoes DEF Base

(* What a thief looks at stays, in whatever array it looks, while its top  *)
(* is the top, except that a push may fill the slot just behind.           *)
LEMMA FoundStays ==
  ASSUME Base, NEW t \in Thread, ThreadStep(t), RoomOf(t), NEW s \in Worker \ {t}, ThiefOf(s),
         NEW q \in Deque, q = dq[s], Fits(q),
         pc[s] \in {"steal_array", "steal_slot", "steal_cas"}, tt[s] = top[q], tt[s] < bottom[q]
  PROVE  Found(s)' = Found(s) /\ Item(q, tt[s])' = Item(q, tt[s])
<1>1. s \in Thread \ {t} /\ TypeOK
  BY Constants DEF Base
<1>2. UNCHANGED Locals(s)
  BY <1>1, OthersStay
<1>3. PICK n \in Nat : n = tt[s] /\ n = top[q]
  BY <1>1, Ranges
<1>4. Item(q, n)' = Item(q, n)
  BY <1>1, <1>3, ItemsStay, Size
<1>5. Item(q, tt[s])' = Item(q, tt[s])
  <2>1. Item(q, tt[s])' = Item(q, n)'
    BY <1>2, <1>3 DEF Locals, Item, Slot
  <2>2. QED
    BY <1>3, <1>4, <2>1
<1>6. CASE pc[s] = "steal_array"
  BY <1>2, <1>5, <1>6 DEF Found, Locals, Item, Slot
<1>7. CASE pc[s] = "steal_slot"
  <2>1. a[s] \in 1 .. Newest(q)
    BY <1>1, <1>7 DEF Base, PointersOf
  <2>2. PICK m \in 1 .. Newest(q) : m = a[s]
    BY <2>1
  <2>3. Slot(q, m, n)' = Slot(q, m, n)
    BY <1>3, SlotsStay
  <2>4. Found(s)' = Slot(q, m, n)' /\ Found(s) = Slot(q, m, n)
    BY <1>2, <1>3, <1>7, <2>2 DEF Found, Locals, Slot
  <2>5. QED
    BY <1>5, <2>3, <2>4
<1>8. CASE pc[s] = "steal_cas"
  BY <1>2, <1>5, <1>8 DEF Found, Locals
<1>9. QED
  BY <1>6, <1>7, <1>8

LEMMA ThiefWaits ==
  ASSUME Base, NEW t \in Thread, ThreadStep(t), RoomOf(t), NEW s \in Worker \ {t}, ThiefOf(s),
         NEW q \in Deque, q = dq[s], Fits(q), Newest(q) \notin freed[q]
  PROVE  ThiefOf(s)'
<1>1. s \in Thread \ {t} /\ TypeOK /\ ret[t] \in {"taken", "stolen", "run", "wait"}
  BY Constants DEF Base, TypeOK
<1>2. UNCHANGED Locals(s)
  BY <1>1, OthersStay
<1>3. SUFFICES ASSUME pc[s] \in {"steal_array", "steal_slot", "steal_cas"}, tt[s] = top'[q]
               PROVE  ThiefOf(s)'
  BY <1>2 DEF ThiefOf, Locals
<1>4. /\ tt[s] \in Nat /\ top[q] \in Nat /\ bottom[q] \in Nat /\ Bot(q) \in Nat /\ Bot(q) <= bottom[q]
      /\ top[q] <= Bot(q) /\ Bot(q)' \in Nat /\ bottom'[q] \in Nat
  <2>1. tt[s] \in Nat
    BY <1>1, Ranges
  <2>2. top[q] \in Nat /\ bottom[q] \in Nat /\ Bot(q) \in Nat /\ Bot(q) <= bottom[q]
    BY <1>1, Size
  <2>3. Bot(q)' \in Nat /\ (bottom'[q] \in {bottom[q], bottom[q] - 1, bottom[q] + 1})
    BY <1>1, BotStep
  <2>4. bottom'[q] \in Nat
    <3>1. bottom[q] \in Nat \ {0}
      BY <1>1, Size
    <3>2. QED
      BY <2>3, <3>1
  <2>5. QED
    BY <2>1, <2>2, <2>3, <2>4 DEF Fits
<1>5. tt[s] = top[q] /\ top'[q] = top[q]
  <2>1. tt[s] <= top[q]
    BY <1>1, <1>3 DEF Base, BoundsOf, StealPC
  <2>2. QED
    BY <1>3, <1>4, <2>1, TopsStep
<1>6. /\ Found(s) \in Work
      /\ Found(s) \in kept \/ (tt[s] < Bot(q) /\ Found(s) = Item(q, tt[s]))
      /\ pc[q] = "resize" => tt[s] < bottom[q]
  BY <1>3, <1>5 DEF ThiefOf
<1>7. pc'[q] = "resize" => tt[s] < bottom'[q]
  <2>1. CASE q # t
    <3>1. UNCHANGED Locals(q)
      BY <1>1, <2>1, Constants, OthersStay
    <3>2. ASSUME pc[q] = "resize"
          PROVE  bottom'[q] = bottom[q]
      <4>1. q \in Thread /\ q \in Worker
        BY Constants
      <4>2. pc[q] \in OwnerPC /\ dq[q] = q
        BY <3>2, <4>1, OwnerIs DEF OwnerPC, PushPC
      <4>3. dq[t] = q => pc[t] \notin OwnerPC
        BY <2>1, <4>1, <4>2, Exclusive
      <4>4. QED
        BY <4>3, BottomStep DEF push_bottom, take_bottom, Step, OwnerPC, PushPC
    <3>3. QED
      BY <1>6, <3>1, <3>2 DEF Locals
  <2>2. CASE q = t /\ pc'[q] = "resize"
    <3>1. push_top(t) /\ pc[t] = "push_top"
      BY <1>1, <2>2, Flow
    <3>2. ~Room(dq[t]) /\ bottom' = bottom /\ dq[t] = q
      <4>1. q \in Worker
        BY Constants
      <4>2. pc[t] \in OwnerPC
        BY <3>1 DEF OwnerPC, PushPC
      <4>3. QED
        BY <1>1, <2>2, <3>1, <4>1, <4>2, PushTopDoes, OwnerIs DEF dequeVars
    <3>3. Sub(bottom[q], top[q]) = bottom[q] - top[q]
      BY <1>1, <1>4, Ranges, Minus
    <3>4. Len(buffer[q][Newest(q)]) \in Nat \ {0}
      BY Size
    <3>5. ~(bottom[q] - top[q] <= Len(buffer[q][Newest(q)]) - 1)
      BY <3>2, <3>3 DEF Room
    <3>6. top[q] < bottom[q]
      BY <1>4, <3>4, <3>5
    <3>7. QED
      BY <1>5, <3>2, <3>6
  <2>3. QED
    BY <2>1, <2>2
<1>8. CASE tt[s] < bottom[q]
  <2>1. Found(s)' = Found(s) /\ Item(q, tt[s])' = Item(q, tt[s])
    BY <1>3, <1>5, <1>8, FoundStays
  <2>2. Found(s) \in kept => Found(s)' \in kept'
    BY <2>1, WithPick
  <2>3. ASSUME tt[s] < Bot(q), Found(s) = Item(q, tt[s])
        PROVE  tt[s] < Bot(q)'
    <3>1. CASE Bot(q)' = Bot(q) \/ Bot(q)' = bottom[q] + 1
      BY <1>4, <2>3, <3>1
    <3>2. CASE q = dq[t] /\ take_top(t) /\ pc'[t] = "take_bottom" /\ Bot(q)' = bottom[q] - 1
      <4>1. top[q] < bottom[q] - 1
        BY <3>2, TakenItem
      <4>2. QED
        BY <1>5, <3>2, <4>1
    <3>3. QED
      BY <3>1, <3>2, BotStep
  <2>4. QED
    BY <1>2, <1>6, <1>7, <2>1, <2>2, <2>3 DEF ThiefOf, Locals
<1>9. CASE ~(tt[s] < bottom[q])
  <2>1. Found(s) \in kept /\ tt[s] = bottom[q] /\ Bot(q) = bottom[q]
    BY <1>4, <1>5, <1>6, <1>9
  <2>2. ~resize(t) \/ dq[t] # q
    <3>1. ASSUME resize(t), dq[t] = q
          PROVE  FALSE
      <4>1. q = t /\ pc[t] = "resize"
        BY <3>1, PusherIs DEF resize, Step
      <4>2. QED
        BY <1>6, <1>9, <4>1
    <3>2. QED
      BY <3>1
  <2>3. CASE push_bottom(t) /\ dq[t] = q
    <3>1. PICK n \in Nat : n = tt[s]
      BY <1>4
    <3>2. n = b[t] /\ Item(q, n)' = x[t] /\ x[t] \in Work /\ Newest(q)' = Newest(q)
      BY <2>1, <2>3, <3>1, PushedSlot
    <3>3. tt[s] < Bot(q)'
      <4>1. Bot(q)' = bottom[q] + 1
        BY <2>3, BotStep DEF push_bottom
      <4>2. QED
        BY <1>4, <2>1, <4>1
    <3>4. Item(q, tt[s])' = x[t]
      BY <1>2, <3>1, <3>2 DEF Item, Slot, Locals
    <3>5. CASE pc[s] = "steal_array"
      <4>1. Found(s)' = Item(q, tt[s])'
        BY <1>2, <3>5 DEF Found, Locals, Item, Slot
      <4>2. QED
        BY <1>2, <1>7, <3>2, <3>3, <3>4, <4>1 DEF ThiefOf, Locals
    <3>6. CASE pc[s] = "steal_slot"
      <4>1. PICK m \in 1 .. Newest(q) : m = a[s]
        BY <1>1, <3>6 DEF Base, PointersOf
      <4>2. Found(s)' = Slot(q, m, n)' /\ Found(s) = Slot(q, m, n)
        BY <1>2, <3>1, <3>6, <4>1 DEF Found, Locals, Slot
      <4>3. CASE m = Newest(q)
        <5>1. Found(s)' = Item(q, tt[s])'
          BY <1>2, <3>1, <3>2, <4>2, <4>3 DEF Item, Slot, Locals
        <5>2. QED
          BY <1>2, <1>7, <3>2, <3>3, <3>4, <5>1 DEF ThiefOf, Locals
      <4>4. CASE m # Newest(q)
        <5>1. Slot(q, m, n)' = Slot(q, m, n)
          BY <4>4, SlotsStay
        <5>2. Found(s)' \in Work /\ Found(s)' \in kept'
          BY <1>6, <2>1, <4>2, <5>1, WithPick
        <5>3. QED
          BY <1>2, <1>7, <5>2 DEF ThiefOf, Locals
      <4>5. QED
        BY <4>3, <4>4
    <3>7. CASE pc[s] = "steal_cas"
      <4>1. Found(s)' = Found(s)
        BY <1>2, <3>7 DEF Found, Locals
      <4>2. QED
        BY <1>2, <1>6, <1>7, <2>1, <4>1, WithPick DEF ThiefOf, Locals
    <3>8. QED
      BY <1>3, <3>5, <3>6, <3>7
  <2>4. CASE ~push_bottom(t) \/ dq[t] # q
    <3>1. buffer'[q] = buffer[q]
      BY <2>2, <2>4, SameBuffer
    <3>2. Found(s)' = Found(s)
      BY <1>2, <1>3, <3>1 DEF Found, Item, Slot, Newest, Locals
    <3>3. QED
      BY <1>2, <1>6, <1>7, <2>1, <3>2, WithPick DEF ThiefOf, Locals
  <2>5. QED
    BY <2>3, <2>4
<1>10. QED
  BY <1>8, <1>9

(* A thief's own steps.                                                    *)
LEMMA ThiefMoves ==
  ASSUME Base, NEW t \in Worker, ThreadStep(t), ThiefOf(t), NEW q \in Deque, q = dq[t],
         Fits(q), ClaimOf(q), pc[t] = "steal_slot" => a[t] \notin freed[q]
  PROVE  ThiefOf(t)'
<1>1. t \in Thread /\ TypeOK /\ ret[t] \in {"taken", "stolen", "run", "wait"} /\ q \in Thread
  BY Constants DEF Base, TypeOK
<1>2. SUFFICES ASSUME pc'[t] \in {"steal_array", "steal_slot", "steal_cas"}, tt'[t] = top'[dq'[t]]
               PROVE  ThiefOf(t)'
  BY DEF ThiefOf
<1>3. /\ steal_bottom(t) \/ steal_array(t) \/ steal_slot(t)
      /\ pc[t] \in StealPC
  BY <1>1, <1>2, Flow DEF StealPC
<1>4. /\ UNCHANGED dequeVars /\ dq'[t] = q /\ tt'[t] = tt[t] /\ q # t
      /\ pc[t] = "steal_bottom" => tt[t] < bottom[q]
  <2>1. q # t
    BY <1>1, <1>3, ThiefIs
  <2>2. QED
    BY <1>1, <1>2, <1>3, <2>1, StealBottomDoes, StealArrayDoes, StealSlotDoes
<1>5. UNCHANGED <<top, bottom, buffer, kept>> /\ pc'[q] = pc[q]
  BY <1>1, <1>4, OthersStay DEF dequeVars, historyVars, Locals
<1>6. tt[t] = top[q]
  BY <1>2, <1>4, <1>5
<1>7. Bot(q)' = Bot(q)
  BY <1>5 DEF Bot
<1>8. CASE steal_bottom(t)
  <2>1. pc[t] = "steal_bottom" /\ pc'[t] = "steal_array" /\ tt[t] < bottom[q]
    BY <1>1, <1>2, <1>4, <1>8, StealBottomDoes
  <2>2. top[q] \in Nat /\ bottom[q] \in Nat /\ top[q] \in top[q] .. bottom[q] - 1
    BY <1>6, <2>1, Size
  <2>3. Item(q, tt[t]) \in Work
    BY <1>6, <2>2 DEF Fits
  <2>4. Item(q, tt[t]) \in kept \/ tt[t] < Bot(q)
    <3>1. CASE pc[q] = "take_bottom"
      <4>1. b[q] + 1 = bottom[q] /\ b[q] \in Nat /\ dq[q] = q
        BY <1>1, <3>1, TakerIs, Present DEF BoundsOf, TakePC
      <4>2. x[q] = Item(q, b[q]) /\ x[q] \in kept /\ Bot(q) = b[q]
        BY <3>1, <4>1 DEF ClaimOf, Bot
      <4>3. tt[t] < b[q] \/ tt[t] = b[q]
        BY <1>6, <2>1, <2>2, <4>1
      <4>4. QED
        BY <4>2, <4>3
    <3>2. CASE pc[q] # "take_bottom"
      BY <2>1, <3>2 DEF Bot
    <3>3. QED
      BY <3>1, <3>2
  <2>5. Found(t)' = Item(q, tt[t]) /\ Item(dq[t], tt[t])' = Item(q, tt[t])
    BY <1>4, <1>5, <2>1 DEF Found, Item, Slot, Newest
  <2>6. QED
    BY <1>4, <1>5, <1>7, <2>1, <2>3, <2>4, <2>5 DEF ThiefOf
<1>9. CASE steal_array(t) \/ steal_slot(t)
  <2>1. pc[t] \in {"steal_array", "steal_slot"}
    BY <1>9 DEF steal_array, steal_slot, Step
  <2>2. /\ Found(t) \in Work
        /\ Found(t) \in kept \/ (tt[t] < Bot(q) /\ Found(t) = Item(q, tt[t]))
        /\ pc[q] = "resize" => tt[t] < bottom[q]
    BY <1>6, <2>1 DEF ThiefOf
  <2>3. Item(dq[t], tt[t])' = Item(q, tt[t])
    BY <1>4, <1>5 DEF Item, Slot, Newest
  <2>4. Found(t)' = Found(t)
    <3>1. CASE steal_array(t)
      <4>1. pc[t] = "steal_array" /\ pc'[t] = "steal_slot" /\ a'[t] = Newest(q)
        BY <1>1, <3>1, StealArrayDoes
      <4>2. Found(t)' = Item(q, tt[t]) /\ Found(t) = Item(q, tt[t])
        BY <1>4, <1>5, <4>1 DEF Found, Item, Slot, Newest
      <4>3. QED
        BY <4>2
    <3>2. CASE steal_slot(t)
      <4>1. pc[t] = "steal_slot" /\ pc'[t] = "steal_cas" /\ x'[t] \in Loads(q, a[t], tt[t])
        BY <1>1, <3>2, StealSlotDoes
      <4>2. Found(t) = Slot(q, a[t], tt[t]) /\ Found(t)' = x'[t]
        BY <4>1 DEF Found
      <4>3. Slot(q, a[t], tt[t]) # NULL
        BY <2>2, <4>2, Constants
      <4>4. QED
        BY <4>1, <4>2, <4>3 DEF Loads, Slot
    <3>3. QED
      BY <1>9, <3>1, <3>2
  <2>5. QED
    BY <1>4, <1>5, <1>7, <2>2, <2>3, <2>4 DEF ThiefOf
<1>10. QED
  BY <1>3, <1>8, <1>9

-----------------------------------------------------------------------------
(* The ways of a work: allocated, laid down in a deque, taken up from it,  *)
(* begun.  Whatever is neither, stays.                                     *)
LEMMA WorkStays ==
  ASSUME NEW w \in Work, WorkOf(w), Pending(w)' <=> Pending(w),
         \A q \in Deque : \A n \in Nat : Lies(q, n, w)' <=> Lies(q, n, w),
         \A s \in Thread : Has(s, w)' <=> Has(s, w)
  PROVE  WorkOf(w)'
BY DEF WorkOf

LEMMA WorkAllocated ==
  ASSUME NEW w \in Work, WorkOf(w), ~Pending(w), Pending(w)', NEW t \in Thread, Has(t, w)',
         \A q \in Deque : \A n \in Nat : Lies(q, n, w)' <=> Lies(q, n, w),
         \A s \in Thread \ {t} : Has(s, w)' <=> Has(s, w)
  PROVE  WorkOf(w)'
<1>1. \A q \in Deque : \A n \in Nat : ~Lies(q, n, w)'
  BY DEF WorkOf
<1>2. \A s \in Thread : Has(s, w)' => s = t
  BY DEF WorkOf
<1>3. QED
  BY <1>1, <1>2 DEF WorkOf

LEMMA WorkBegun ==
  ASSUME NEW w \in Work, WorkOf(w), ~Pending(w)', NEW t \in Thread, Has(t, w), ~Has(t, w)',
         \A q \in Deque : \A n \in Nat : Lies(q, n, w)' <=> Lies(q, n, w),
         \A s \in Thread \ {t} : Has(s, w)' <=> Has(s, w)
  PROVE  WorkOf(w)'
<1>1. \A q \in Deque : \A n \in Nat : ~Lies(q, n, w)'
  BY DEF WorkOf
<1>2. \A s \in Thread : ~Has(s, w)'
  BY DEF WorkOf
<1>3. QED
  BY <1>1, <1>2 DEF WorkOf

LEMMA WorkLaidDown ==
  ASSUME NEW w \in Work, WorkOf(w), Pending(w)' <=> Pending(w),
         NEW t \in Thread, Has(t, w), ~Has(t, w)', NEW p \in Deque, NEW m \in Nat, Lies(p, m, w)',
         \A q \in Deque : \A n \in Nat : q # p \/ n # m => (Lies(q, n, w)' <=> Lies(q, n, w)),
         \A s \in Thread \ {t} : Has(s, w)' <=> Has(s, w)
  PROVE  WorkOf(w)'
<1>1. \A q \in Deque : \A n \in Nat : Lies(q, n, w)' => q = p /\ n = m
  BY DEF WorkOf
<1>2. \A s \in Thread : ~Has(s, w)'
  BY DEF WorkOf
<1>3. Pending(w)'
  BY DEF WorkOf
<1>4. QED
  BY <1>1, <1>2, <1>3 DEF WorkOf

LEMMA WorkTakenUp ==
  ASSUME NEW w \in Work, WorkOf(w), Pending(w)' <=> Pending(w),
         NEW t \in Thread, Has(t, w)', NEW p \in Deque, NEW m \in Nat, Lies(p, m, w), ~Lies(p, m, w)',
         \A q \in Deque : \A n \in Nat : q # p \/ n # m => (Lies(q, n, w)' <=> Lies(q, n, w)),
         \A s \in Thread \ {t} : Has(s, w)' <=> Has(s, w)
  PROVE  WorkOf(w)'
<1>1. \A q \in Deque : \A n \in Nat : ~Lies(q, n, w)'
  BY DEF WorkOf
<1>2. \A s \in Thread : Has(s, w)' => s = t
  BY DEF WorkOf
<1>3. Pending(w)'
  BY DEF WorkOf
<1>4. QED
  BY <1>1, <1>2, <1>3 DEF WorkOf

LEMMA OthersHave ==
  ASSUME Base, NEW t \in Thread, ThreadStep(t), NEW w
  PROVE  \A s \in Thread \ {t} : Has(s, w)' <=> Has(s, w)
BY OthersStay DEF Base, Has, Locals

(* The steps that leave a thread what it has.                              *)
LEMMA HandStays ==
  ASSUME Base, NEW t \in Thread, ThreadStep(t), NEW w \in Work,
         ~(hina_spawn(t) \/ push_bottom(t) \/ take_top(t) \/ take_cas(t) \/ steal_cas(t) \/ do_work(t))
  PROVE  Has(t, w)' <=> Has(t, w)
<1>1. /\ TypeOK /\ ret[t] \in {"taken", "stolen", "run", "wait"} /\ EMPTY # w /\ ABORT # w
      /\ HandsOf(t)
  BY Constants DEF Base, TypeOK
<1>2. CASE push_top(t) \/ resize(t) \/ resize_old(t) \/ take_bottom(t)
  <2>1. CASE push_top(t)
    BY <1>1, <2>1, PushTopDoes DEF Has
  <2>2. CASE resize(t)
    BY <1>1, <2>2, ResizeDoes DEF Has
  <2>3. CASE resize_old(t)
    BY <1>1, <2>3, ResizeOldDoes DEF Has
  <2>4. CASE take_bottom(t)
    BY <1>1, <2>4, TakeBottomDoes DEF Has
  <2>5. QED
    BY <1>2, <2>1, <2>2, <2>3, <2>4
<1>3. CASE steal_top(t) \/ steal_bottom(t) \/ steal_array(t)
  BY <1>1, <1>3, Flow, StealTopDoes, StealBottomDoes, StealArrayDoes DEF Has
<1>4. CASE steal_slot(t)
  BY <1>1, <1>4, StealSlotDoes DEF Has, HandsOf
<1>5. CASE gc_array(t) \/ gc_handle(t) \/ gc_old(t)
  BY <1>1, <1>5, GcArrayDoes, GcHandleDoes, GcOldDoes DEF Has
<1>6. CASE gc_cas(t) \/ gc_scan(t) \/ gc_put_back(t)
  BY <1>1, <1>6, GcCasDoes, GcScanDoes, GcPutBackDoes DEF Has
<1>7. CASE work_done(t)
  BY <1>1, <1>7, WorkDoneDoes DEF Has, HandsOf
<1>8. CASE first_steal(t) \/ next_steal(t)
  BY <1>1, <1>8, StealDoes DEF Has
<1>9. CASE check_done(t)
  BY <1>1, <1>9, CheckDoneDoes DEF Has
<1>10. CASE hina_exit(t)
  BY <1>1, <1>10, ExitDoes DEF Has
<1>11. QED
  BY <1>2, <1>3, <1>4, <1>5, <1>6, <1>7, <1>8, <1>9, <1>10, Flow DEF hina_exit

(* The deques that keep what they have.                                    *)
LEMMA DequeStays ==
  ASSUME Base, NEW t \in Thread, ThreadStep(t), RoomOf(t), NEW q \in Deque, Fits(q),
         q # dq[t] \/ (top'[q] = top[q] /\ Bot(q)' = Bot(q))
  PROVE  \A n \in Nat : \A w : Lies(q, n, w)' <=> Lies(q, n, w)
<1>1. top'[q] = top[q] /\ Bot(q)' = Bot(q) /\ Bot(q) \in Nat /\ top[q] \in Nat
  BY TopsStep, BotStep, Size
<1>2. ASSUME NEW n \in Nat, NEW w
      PROVE  Lies(q, n, w)' <=> Lies(q, n, w)
  <2>1. Lies(q, n, w) => top[q] <= n /\ n < Bot(q)
    BY DEF Lies
  <2>2. QED
    BY <1>1, <2>1, LiesStep
<1>3. QED
  BY <1>2

LEMMA PendingStays ==
  ASSUME Base, NEW t \in Thread, ThreadStep(t), ~hina_spawn(t), ~do_work(t), NEW w
  PROVE  Pending(w)' <=> Pending(w)
BY Writers DEF Base, Pending

(* A step after which every work is where it was.                          *)
LEMMA AllStay ==
  ASSUME Base, NEW t \in Thread, ThreadStep(t), RoomOf(t), \A q \in Deque : Fits(q),
         ~hina_spawn(t), ~do_work(t), top' = top, \A q \in Deque : Bot(q)' = Bot(q),
         NEW w \in Work, WorkOf(w), Has(t, w)' <=> Has(t, w)
  PROVE  WorkOf(w)'
<1>1. \A q \in Deque : \A n \in Nat : Lies(q, n, w)' <=> Lies(q, n, w)
  BY DequeStays
<1>2. \A s \in Thread : Has(s, w)' <=> Has(s, w)
  BY OthersHave
<1>3. QED
  BY <1>1, <1>2, PendingStays, WorkStays

LEMMA SpawnWorks ==
  ASSUME Base, NEW t \in Thread, ThreadStep(t), hina_spawn(t), RoomOf(t), \A q \in Deque : Fits(q),
         NEW w \in Work, WorkOf(w), JobOf(w)
  PROVE  WorkOf(w)'
<1>1. /\ TypeOK /\ HandsOf(t) /\ spawned \in Nat /\ w \in Nat /\ starts[w] \in Nat
      /\ \A q \in Deque : top[q] \in Nat
  <2>1. TypeOK /\ HandsOf(t)
    BY DEF Base
  <2>2. w \in Nat /\ starts[w] \in Nat
    BY <2>1, Constants DEF TypeOK
  <2>3. QED
    BY <2>1, <2>2, Size, Ranges
<1>2. /\ pc[t] \in {"spawn", "run"} /\ pc'[t] = "push_top" /\ spawned' = spawned + 1
      /\ x'[t] = spawned + 1 /\ UNCHANGED <<dequeVars, starts>>
  BY <1>1, SpawnDoes
<1>3. \A q \in Deque : top'[q] = top[q] /\ Bot(q)' = Bot(q)
  <2>1. ~(push_bottom(t) \/ take_top(t) \/ take_cas(t) \/ steal_cas(t))
    BY <1>2 DEF push_bottom, take_top, take_cas, steal_cas, Step
  <2>2. QED
    BY <2>1, TopsStep, BotStep
<1>4. \A q \in Deque : \A n \in Nat : Lies(q, n, w)' <=> Lies(q, n, w)
  BY <1>3, DequeStays
<1>5. ~Has(t, w) /\ (Has(t, w)' <=> w = spawned + 1)
  BY <1>1, <1>2 DEF Has, HandsOf
<1>6. CASE w = spawned + 1
  <2>1. ~Pending(w) /\ starts[w] = 0
    BY <1>1, <1>6 DEF Pending, JobOf
  <2>2. Pending(w)'
    BY <1>1, <1>2, <1>6, <2>1 DEF Pending
  <2>3. QED
    BY <1>4, <1>5, <1>6, <2>1, <2>2, OthersHave, WorkAllocated
<1>7. CASE w # spawned + 1
  <2>1. Pending(w)' <=> Pending(w)
    BY <1>1, <1>2, <1>7 DEF Pending
  <2>2. \A s \in Thread : Has(s, w)' <=> Has(s, w)
    BY <1>5, <1>7, OthersHave
  <2>3. QED
    BY <1>4, <2>1, <2>2, WorkStays
<1>8. QED
  BY <1>6, <1>7

LEMMA PushWorks ==
  ASSUME Base, NEW t \in Thread, ThreadStep(t), push_bottom(t), RoomOf(t), \A q \in Deque : Fits(q),
         NEW w \in Work, WorkOf(w)
  PROVE  WorkOf(w)'
<1>1. /\ TypeOK /\ pc[t] = "push_bottom" /\ pc'[t] = "gc_array" /\ dq[t] \in Deque
      /\ ~hina_spawn(t) /\ ~do_work(t)
  BY Flow, Ranges DEF push_bottom, hina_spawn, do_work, Base
<1>2. PICK q \in Deque, n \in Nat : q = dq[t] /\ n = b[t]
  BY <1>1, Ranges
<1>3. /\ bottom[q] = n /\ Bot(q) = n /\ Bot(q)' = n + 1 /\ Item(q, n)' = x[t] /\ x[t] \in Work
      /\ top[q] <= n /\ top[q] \in Nat
  BY <1>1, <1>2, BotStep, PushedSlot, Size DEF Fits, take_top, Step
<1>4. x'[t] = EMPTY /\ top'[q] = top[q]
  <2>1. bottom[dq[t]] = b[t]
    BY <1>2, <1>3
  <2>2. QED
    BY <1>1, <2>1, PushBottomDoes
<1>5. \A p \in Deque \ {q} : \A k \in Nat : Lies(p, k, w)' <=> Lies(p, k, w)
  BY <1>2, DequeStays
<1>6. ASSUME NEW k \in Nat
      PROVE  Lies(q, k, w)' <=> Lies(q, k, w) \/ (k = n /\ w = x[t])
  <2>1. Lies(q, k, w) => top[q] <= k /\ k < n
    BY <1>3 DEF Lies
  <2>2. Lies(q, k, w)' <=> \/ Lies(q, k, w) /\ top'[q] <= k /\ k < Bot(q)'
                           \/ top'[q] <= k /\ Bot(q) <= k /\ k < Bot(q)' /\ Item(q, k)' = w
    BY LiesStep
  <2>3. CASE k = n
    BY <1>3, <1>4, <2>1, <2>2, <2>3
  <2>4. CASE k # n
    BY <1>3, <1>4, <2>1, <2>2, <2>4
  <2>5. QED
    BY <2>3, <2>4
<1>7. (Has(t, w) <=> w = x[t]) /\ ~Has(t, w)'
  BY <1>1, <1>4, Constants DEF Has
<1>8. CASE w = x[t]
  <2>1. Lies(q, n, w)'
    BY <1>6, <1>8
  <2>2. \A p \in Deque : \A k \in Nat : p # q \/ k # n => (Lies(p, k, w)' <=> Lies(p, k, w))
    BY <1>5, <1>6
  <2>3. QED
    BY <1>1, <1>7, <1>8, <2>1, <2>2, OthersHave, PendingStays, WorkLaidDown
<1>9. CASE w # x[t]
  <2>1. \A p \in Deque : \A k \in Nat : Lies(p, k, w)' <=> Lies(p, k, w)
    BY <1>5, <1>6, <1>9
  <2>2. \A s \in Thread : Has(s, w)' <=> Has(s, w)
    BY <1>7, <1>9, OthersHave
  <2>3. QED
    BY <1>1, <2>1, <2>2, PendingStays, WorkStays
<1>10. QED
  BY <1>8, <1>9

LEMMA TakeWorks ==
  ASSUME Base, NEW t \in Thread, ThreadStep(t), take_top(t), RoomOf(t), \A q \in Deque : Fits(q),
         NEW w \in Work, WorkOf(w), \A q \in Deque : Newest(q) \notin freed[q]
  PROVE  WorkOf(w)'
<1>1. /\ TypeOK /\ pc[t] = "take_top" /\ t \in Worker /\ t \in Deque /\ dq[t] = t
      /\ ~hina_spawn(t) /\ ~do_work(t) /\ x[t] \notin Work /\ top' = top /\ bottom' = bottom
  BY TakerIs, TakeTopDoes DEF take_top, Step, hina_spawn, do_work, Base, TakePC, HandsOf
<1>2. PICK q \in Deque : q = t
  BY <1>1
<1>3. \/ pc'[t] = "gc_array" /\ x'[t] = x[t]
      \/ /\ pc'[t] \in {"take_cas", "take_bottom"} /\ top[q] < bottom[q]
         /\ pc'[t] = "take_bottom" <=> top[q] < bottom[q] - 1
         /\ x'[t] \in Work /\ \A n \in Nat : n = bottom[q] - 1 => Item(q, n) = x'[t]
  BY <1>1, <1>2, TakenItem
<1>4. Bot(q) = bottom[q] /\ Bot(q)' = (IF pc'[t] = "take_bottom" THEN bottom[q] - 1 ELSE bottom[q])
  BY <1>1, <1>2 DEF Bot
<1>5. ~Has(t, w)
  BY <1>1 DEF Has
<1>6. \A p \in Deque \ {q} : Bot(p)' = Bot(p)
  BY <1>1, <1>2, BotStep DEF push_bottom
<1>7. CASE pc'[t] # "take_bottom"
  <2>1. ~Has(t, w)'
    BY <1>1, <1>3, <1>7 DEF Has
  <2>2. \A p \in Deque : Bot(p)' = Bot(p)
    BY <1>4, <1>6, <1>7
  <2>3. QED
    BY <1>1, <1>5, <2>1, <2>2, AllStay
<1>8. CASE pc'[t] = "take_bottom"
  <2>1. top[q] \in Nat /\ bottom[q] \in Nat /\ bottom[q] - 1 \in Nat
    BY Size
  <2>2. PICK n \in Nat : n = bottom[q] - 1
    BY <2>1
  <2>3. top[q] < n /\ n < Bot(q) /\ Bot(q)' = n /\ Item(q, n) = x'[t] /\ x'[t] \in Work
    BY <1>3, <1>4, <1>8, <2>1, <2>2
  <2>4. Lies(q, n, w) <=> w = x'[t]
    BY <2>1, <2>3 DEF Lies
  <2>5. Has(t, w)' <=> w = x'[t]
    BY <1>8 DEF Has
  <2>6. \A p \in Deque \ {q} : \A k \in Nat : Lies(p, k, w)' <=> Lies(p, k, w)
    BY <1>1, <1>2, DequeStays
  <2>7. ASSUME NEW k \in Nat
        PROVE  Lies(q, k, w)' <=> Lies(q, k, w) /\ k # n
    <3>1. Lies(q, k, w) => top[q] <= k /\ k < n + 1
      BY <1>4, <2>1, <2>2 DEF Lies
    <3>2. Lies(q, k, w)' <=> \/ Lies(q, k, w) /\ top'[q] <= k /\ k < Bot(q)'
                             \/ top'[q] <= k /\ Bot(q) <= k /\ k < Bot(q)' /\ Item(q, k)' = w
      BY LiesStep
    <3>3. Bot(q) = n + 1 /\ top'[q] = top[q]
      BY <1>1, <1>4, <2>1, <2>2
    <3>4. QED
      BY <2>1, <2>3, <3>1, <3>2, <3>3
  <2>8. CASE w = x'[t]
    <3>1. Lies(q, n, w) /\ ~Lies(q, n, w)' /\ Has(t, w)'
      BY <2>4, <2>5, <2>7, <2>8
    <3>2. \A p \in Deque : \A k \in Nat : p # q \/ k # n => (Lies(p, k, w)' <=> Lies(p, k, w))
      BY <2>6, <2>7
    <3>3. QED
      BY <1>1, <3>1, <3>2, OthersHave, PendingStays, WorkTakenUp
  <2>9. CASE w # x'[t]
    <3>1. \A p \in Deque : \A k \in Nat : Lies(p, k, w)' <=> Lies(p, k, w)
      BY <2>4, <2>6, <2>7, <2>9
    <3>2. \A s \in Thread : Has(s, w)' <=> Has(s, w)
      BY <1>5, <2>5, <2>9, OthersHave
    <3>3. QED
      BY <1>1, <3>1, <3>2, PendingStays, WorkStays
  <2>10. QED
    BY <2>8, <2>9
<1>9. QED
  BY <1>7, <1>8

LEMMA ClaimWorks ==
  ASSUME Base, NEW t \in Thread, ThreadStep(t), take_cas(t) \/ steal_cas(t), RoomOf(t),
         \A q \in Deque : Fits(q) /\ ClaimOf(q), t \in Worker => ThiefOf(t), ~overtaken',
         NEW w \in Work, WorkOf(w)
  PROVE  WorkOf(w)'
<1>1. /\ TypeOK /\ pc[t] \in {"take_cas", "steal_cas"} /\ pc'[t] = "gc_array" /\ dq[t] \in Deque
      /\ ~hina_spawn(t) /\ ~do_work(t) /\ ~push_bottom(t) /\ ~take_top(t)
  BY Ranges, TakeCasDoes, StealCasDoes
     DEF take_cas, steal_cas, push_bottom, take_top, Step, hina_spawn, do_work, Base
<1>2. PICK q \in Deque : q = dq[t]
  BY <1>1
<1>3. \A p \in Deque : Bot(p)' = Bot(p)
  BY <1>1, BotStep
<1>4. \A p \in Deque \ {q} : \A k \in Nat : Lies(p, k, w)' <=> Lies(p, k, w)
  BY <1>2, DequeStays
<1>5. ~Has(t, w)
  BY <1>1 DEF Has
<1>6. CASE top'[q] = top[q]
  <2>1. x'[t] \in {EMPTY, ABORT}
    <3>1. top[q] # tt[t]
      <4>1. ASSUME top[q] = tt[t]
            PROVE  top'[q] = top[q] + 1
        <5>1. top'[q] = Add(tt[t], 1)
          BY <1>1, <1>2, <4>1, TakeCasDoes, StealCasDoes
        <5>2. top[q] <= spawned + 1 /\ top[q] \in Nat /\ spawned \in Nat /\ spawned <= WORKS
          BY <1>1, Ranges DEF Base, Indexed
        <5>3. tt[t] <= spawned
          BY <1>1, <1>2, <4>1, <5>2, Present DEF BoundsOf, Indexed
        <5>4. tt[t] < SIZE_MAX /\ tt[t] \in Nat
          BY <4>1, <5>2, <5>3, Constants
        <5>5. QED
          BY <4>1, <5>1, <5>4, Plus
      <4>2. QED
        BY <1>6, <4>1, Size
    <3>2. QED
      BY <1>1, <1>2, <3>1, TakeCasDoes, StealCasDoes
  <2>2. ~Has(t, w)'
    BY <2>1, Constants DEF Has
  <2>3. \A p \in Deque : \A k \in Nat : Lies(p, k, w)' <=> Lies(p, k, w)
    BY <1>3, <1>4, <1>6, DequeStays
  <2>4. \A s \in Thread : Has(s, w)' <=> Has(s, w)
    BY <1>5, <2>2, OthersHave
  <2>5. QED
    BY <1>1, <2>3, <2>4, PendingStays, WorkStays
<1>7. CASE top'[q] # top[q]
  <2>1. /\ t \in Worker /\ top'[q] = top[q] + 1 /\ top[q] < Bot(q)
        /\ x[t] \in Work /\ x'[t] = x[t] /\ Item(q, top[q]) = x[t] /\ top[q] \in Nat
    <3>1. CASE take_cas(t)
      BY <1>2, <1>7, <3>1, TakenLast, Size
    <3>2. CASE steal_cas(t)
      <4>1. t \in Worker
        BY <3>2, ThiefIs DEF steal_cas, Step, StealPC
      <4>2. QED
        BY <1>2, <1>7, <3>2, <4>1, StolenTop, Size
    <3>3. QED
      BY <3>1, <3>2
  <2>2. PICK n \in Nat : n = top[q]
    BY <2>1
  <2>3. Lies(q, n, w) <=> w = x[t]
    BY <2>1, <2>2 DEF Lies
  <2>4. Has(t, w)' <=> w = x[t]
    BY <1>1, <2>1 DEF Has
  <2>5. ASSUME NEW k \in Nat
        PROVE  Lies(q, k, w)' <=> Lies(q, k, w) /\ k # n
    <3>1. Lies(q, k, w) => n <= k /\ k < Bot(q)
      BY <2>2 DEF Lies
    <3>2. Lies(q, k, w)' <=> \/ Lies(q, k, w) /\ top'[q] <= k /\ k < Bot(q)'
                             \/ top'[q] <= k /\ Bot(q) <= k /\ k < Bot(q)' /\ Item(q, k)' = w
      BY LiesStep
    <3>3. Bot(q)' = Bot(q) /\ top'[q] = n + 1 /\ Bot(q) \in Nat
      BY <1>3, <2>1, <2>2, Size
    <3>4. QED
      BY <3>1, <3>2, <3>3
  <2>6. CASE w = x[t]
    <3>1. Lies(q, n, w) /\ ~Lies(q, n, w)' /\ Has(t, w)'
      BY <2>3, <2>4, <2>5, <2>6
    <3>2. \A p \in Deque : \A k \in Nat : p # q \/ k # n => (Lies(p, k, w)' <=> Lies(p, k, w))
      BY <1>4, <2>5
    <3>3. QED
      BY <1>1, <3>1, <3>2, OthersHave, PendingStays, WorkTakenUp
  <2>7. CASE w # x[t]
    <3>1. \A p \in Deque : \A k \in Nat : Lies(p, k, w)' <=> Lies(p, k, w)
      BY <1>4, <2>3, <2>5, <2>7
    <3>2. \A s \in Thread : Has(s, w)' <=> Has(s, w)
      BY <1>5, <2>4, <2>7, OthersHave
    <3>3. QED
      BY <1>1, <3>1, <3>2, PendingStays, WorkStays
  <2>8. QED
    BY <2>6, <2>7
<1>8. QED
  BY <1>6, <1>7

LEMMA BeginWorks ==
  ASSUME Base, NEW t \in Thread, ThreadStep(t), do_work(t), RoomOf(t), \A q \in Deque : Fits(q),
         NEW w \in Work, WorkOf(w)
  PROVE  WorkOf(w)'
<1>1. /\ TypeOK /\ pc[t] \in {"taken", "stolen"} /\ pc'[t] = "run" /\ x[t] \in Work /\ x'[t] = EMPTY
      /\ starts'[x[t]] = starts[x[t]] + 1 /\ \A v \in Work \ {x[t]} : starts'[v] = starts[v]
      /\ spawned' = spawned /\ starts[x[t]] \in Nat
  BY DoWorkDoes DEF Base, TypeOK
<1>2. \A q \in Deque : top'[q] = top[q] /\ Bot(q)' = Bot(q)
  <2>1. ~(push_bottom(t) \/ take_top(t) \/ take_cas(t) \/ steal_cas(t))
    BY <1>1 DEF push_bottom, take_top, take_cas, steal_cas, Step
  <2>2. QED
    BY <2>1, TopsStep, BotStep
<1>3. \A q \in Deque : \A n \in Nat : Lies(q, n, w)' <=> Lies(q, n, w)
  BY <1>2, DequeStays
<1>4. (Has(t, w) <=> w = x[t]) /\ ~Has(t, w)'
  BY <1>1, Constants DEF Has
<1>5. CASE w = x[t]
  <2>1. ~Pending(w)'
    BY <1>1, <1>5 DEF Pending
  <2>2. QED
    BY <1>3, <1>4, <1>5, <2>1, OthersHave, WorkBegun
<1>6. CASE w # x[t]
  <2>1. Pending(w)' <=> Pending(w)
    BY <1>1, <1>6 DEF Pending
  <2>2. \A s \in Thread : Has(s, w)' <=> Has(s, w)
    BY <1>4, <1>6, OthersHave
  <2>3. QED
    BY <1>3, <2>1, <2>2, WorkStays
<1>7. QED
  BY <1>5, <1>6

LEMMA WorkStep ==
  ASSUME Base, NEW t \in Thread, ThreadStep(t), RoomOf(t),
         \A q \in Deque : Fits(q) /\ ClaimOf(q) /\ Newest(q) \notin freed[q],
         t \in Worker => ThiefOf(t), ~overtaken', NEW w \in Work, WorkOf(w), JobOf(w)
  PROVE  WorkOf(w)'
<1>1. CASE hina_spawn(t) \/ push_bottom(t) \/ take_top(t) \/ take_cas(t) \/ steal_cas(t) \/ do_work(t)
  BY <1>1, SpawnWorks, PushWorks, TakeWorks, ClaimWorks, BeginWorks
<1>2. CASE ~(hina_spawn(t) \/ push_bottom(t) \/ take_top(t) \/ take_cas(t) \/ steal_cas(t) \/ do_work(t))
  <2>1. top' = top
    BY <1>2, Writers DEF Base
  <2>2. \A q \in Deque : Bot(q)' = Bot(q)
    BY <1>2, BotStep
  <2>3. Has(t, w)' <=> Has(t, w)
    BY <1>2, HandStays
  <2>4. QED
    BY <1>2, <2>1, <2>2, <2>3, AllStay
<1>3. QED
  BY <1>1, <1>2

-----------------------------------------------------------------------------
(* What was begun and what has ended.                                      *)
LEMMA JobStep ==
  ASSUME Base, NEW t \in Thread, ThreadStep(t), NEW w \in Work, WorkOf(w), JobOf(w)
  PROVE  JobOf(w)'
<1>1. /\ TypeOK /\ spawned \in Nat /\ spawned' \in Nat /\ spawned <= spawned' /\ w \in Nat
      /\ starts[w] \in Nat /\ ends[w] \in Nat
  <2>1. TypeOK
    BY DEF Base
  <2>2. spawned \in Nat /\ w \in Nat /\ starts[w] \in Nat /\ ends[w] \in Nat
    BY <2>1, Constants, Ranges DEF TypeOK
  <2>3. QED
    BY <2>1, <2>2, SpawnedStep
<1>2. \A s \in Worker \ {t} : job'[s] = job[s]
  BY <1>1, Constants, OthersStay DEF Locals
<1>3. CASE ~do_work(t) /\ ~work_done(t)
  <2>1. starts'[w] = starts[w] /\ ends'[w] = ends[w]
    BY <1>1, <1>3, Writers
  <2>2. t \in Worker => job'[t] = job[t]
    <3>1. SUFFICES ASSUME t \in Worker PROVE job'[t] = job[t]
      OBVIOUS
    <3>2. CASE DequeStep(t) /\ UNCHANGED poolVars
      BY <3>2 DEF poolVars
    <3>3. CASE hina_spawn(t)
      BY <1>1, <3>3, SpawnDoes
    <3>4. CASE first_steal(t) \/ next_steal(t)
      BY <1>1, <3>4, StealDoes DEF poolVars
    <3>5. CASE check_done(t)
      BY <1>1, <3>5, CheckDoneDoes DEF poolVars
    <3>6. t # Main
      BY <3>1, Constants
    <3>7. ~do_work(t) /\ ~work_done(t)
      BY <1>3
    <3>8. QED
      BY <3>2, <3>3, <3>4, <3>5, <3>6, <3>7 DEF ThreadStep, thread
  <2>3. \A s \in Worker : job'[s] = job[s]
    BY <1>2, <2>2
  <2>4. QED
    BY <1>1, <2>1, <2>3 DEF JobOf
<1>4. CASE do_work(t)
  <2>1. /\ t \in Worker /\ pc[t] \in {"taken", "stolen"} /\ x[t] \in Work /\ job'[t] = x[t]
        /\ starts'[x[t]] = starts[x[t]] + 1 /\ \A v \in Work \ {x[t]} : starts'[v] = starts[v]
        /\ ends' = ends /\ spawned' = spawned
    <3>1. pc[t] \in {"taken", "stolen"}
      BY <1>4 DEF do_work
    <3>2. t \in Worker
      BY <3>1, Threads DEF Base, MainControl, GcPC
    <3>3. QED
      BY <1>1, <1>4, <3>2, DoWorkDoes
  <2>2. job[t] \notin Work
    BY <2>1 DEF Base, ControlOf, Running, PushPC, GcPC
  <2>3. CASE w = x[t]
    <3>1. Has(t, w)
      BY <2>1, <2>3 DEF Has
    <3>2. w <= spawned /\ starts[w] = 0 /\ ends[w] = 0
      <4>1. Pending(w)
        BY <3>1 DEF WorkOf
      <4>2. QED
        BY <1>1, <4>1 DEF Pending, JobOf
    <3>3. \A s \in Worker : job[s] # w
      BY <3>2 DEF JobOf
    <3>4. \A s \in Worker : job'[s] = w <=> s = t
      BY <1>2, <2>1, <2>3, <3>3
    <3>5. starts'[w] = 1 /\ ends'[w] = 0 /\ w <= spawned'
      BY <2>1, <2>3, <3>2
    <3>6. QED
      BY <2>1, <3>4, <3>5 DEF JobOf
  <2>4. CASE w # x[t]
    <3>1. \A s \in Worker : job'[s] = w <=> job[s] = w
      BY <1>2, <2>1, <2>2, <2>4
    <3>2. starts'[w] = starts[w] /\ ends'[w] = ends[w] /\ spawned' = spawned
      BY <2>1, <2>4
    <3>3. QED
      BY <3>1, <3>2 DEF JobOf
  <2>5. QED
    BY <2>3, <2>4
<1>5. CASE work_done(t)
  <2>1. /\ t \in Worker /\ pc[t] = "run" /\ job[t] \in Work /\ job'[t] = EMPTY
        /\ ends'[job[t]] = ends[job[t]] + 1 /\ \A v \in Work : v # job[t] => ends'[v] = ends[v]
        /\ starts' = starts /\ spawned' = spawned
    <3>1. pc[t] = "run"
      BY <1>5 DEF work_done
    <3>2. t \in Worker
      BY <3>1, Threads DEF Base, MainControl, GcPC
    <3>3. job[t] \in Work
      BY <3>1, <3>2 DEF Base, ControlOf, Running
    <3>4. QED
      BY <1>1, <1>5, <3>2, <3>3, WorkDoneDoes
  <2>2. CASE w = job[t]
    <3>1. starts[w] = 1 /\ ends[w] = 0 /\ \A s \in Worker : job[s] = w => s = t
      BY <2>1, <2>2 DEF JobOf
    <3>2. \A s \in Worker : job'[s] # w
      BY <1>2, <2>1, <3>1, Constants
    <3>3. starts'[w] = 1 /\ ends'[w] = 1 /\ w <= spawned'
      BY <2>1, <2>2, <3>1 DEF JobOf
    <3>4. QED
      BY <3>2, <3>3 DEF JobOf
  <2>3. CASE w # job[t]
    <3>1. \A s \in Worker : job'[s] = w <=> job[s] = w
      BY <1>2, <2>1, <2>3, Constants
    <3>2. starts'[w] = starts[w] /\ ends'[w] = ends[w] /\ spawned' = spawned
      BY <2>1, <2>3
    <3>3. QED
      BY <3>1, <3>2 DEF JobOf
  <2>4. QED
    BY <2>2, <2>3
<1>6. QED
  BY <1>3, <1>4, <1>5

(* The works that ended are some of those that were spawned; as long as    *)
(* one runs there are fewer.                                               *)
LEMMA EndedIs ==
  ASSUME Base, \A w \in Work : JobOf(w)
  PROVE  /\ EndedWorks \subseteq 1 .. spawned /\ IsFiniteSet(EndedWorks)
         /\ Cardinality(EndedWorks) \in Nat /\ Cardinality(EndedWorks) <= spawned
         /\ Cardinality(EndedWorks) = spawned => EndedWorks = 1 .. spawned
<1>1. TypeOK /\ spawned \in Nat /\ Work = 1 .. WORKS /\ WORKS \in Nat
  BY Ranges, Constants DEF Base
<1>2. ASSUME NEW w \in EndedWorks
      PROVE  w \in 1 .. spawned
  <2>1. w \in Work /\ ends[w] = 1 /\ starts[w] \in Nat
    BY <1>1 DEF EndedWorks, TypeOK
  <2>2. starts[w] = 1
    BY <2>1 DEF JobOf
  <2>3. w <= spawned
    BY <2>1, <2>2 DEF JobOf
  <2>4. QED
    BY <1>1, <2>1, <2>3
<1>3. IsFiniteSet(1 .. spawned) /\ Cardinality(1 .. spawned) = spawned
  BY <1>1, FS_Interval
<1>4. EndedWorks \subseteq 1 .. spawned
  BY <1>2
<1>5. /\ IsFiniteSet(EndedWorks) /\ Cardinality(EndedWorks) <= Cardinality(1 .. spawned)
      /\ Cardinality(EndedWorks) = Cardinality(1 .. spawned) => EndedWorks = 1 .. spawned
  BY <1>3, <1>4, FS_Subset
<1>6. Cardinality(EndedWorks) \in Nat
  BY <1>5, FS_CardinalityType
<1>7. QED
  BY <1>3, <1>4, <1>5, <1>6

LEMMA SomeRun ==
  ASSUME Base, \A w \in Work : JobOf(w), Counted, NEW t \in Worker, job[t] \in Work
  PROVE  active > 0 /\ active \in Nat /\ ~done
<1>1. PICK w \in Work : w = job[t]
  OBVIOUS
<1>2. starts[w] = 1 /\ ends[w] = 0 /\ w <= spawned /\ spawned \in Nat /\ w \in 1 .. spawned
  BY <1>1, Constants, Ranges DEF JobOf, Base
<1>3. w \notin EndedWorks
  BY <1>2 DEF EndedWorks
<1>4. Cardinality(EndedWorks) # spawned
  BY <1>2, <1>3, EndedIs
<1>5. active \in Nat /\ active > 0
  BY <1>2, <1>4, EndedIs DEF Counted
<1>6. QED
  BY <1>5 DEF Counted

LEMMA CountStep ==
  ASSUME Base, NEW t \in Thread, ThreadStep(t), \A w \in Work : JobOf(w), \A w \in Work : JobOf(w)',
         Counted
  PROVE  Counted'
<1>1. /\ TypeOK /\ spawned \in Nat /\ spawned <= WORKS /\ WORKS \in Nat /\ WORKS < SIZE_MAX
      /\ active \in Nat /\ active <= spawned /\ active = spawned - Cardinality(EndedWorks)
      /\ Cardinality(EndedWorks) \in Nat /\ SIZE_MAX \in Nat
  BY Ranges, Constants, EndedIs DEF Base, Counted
<1>2. CASE ~hina_spawn(t) /\ ~work_done(t) /\ ~exit_wait(t)
  <2>1. UNCHANGED <<active, spawned, ends, done>>
    BY <1>1, <1>2, Writers
  <2>2. QED
    BY <2>1 DEF Counted, EndedWorks
<1>3. CASE exit_wait(t)
  <2>1. UNCHANGED <<active, spawned, ends>> /\ active = 0
    BY <1>3 DEF exit_wait
  <2>2. QED
    BY <2>1 DEF Counted, EndedWorks
<1>4. CASE hina_spawn(t)
  <2>1. /\ pc[t] \in {"spawn", "run"} /\ spawned' = spawned + 1 /\ active' = Add(active, 1)
        /\ ends' = ends /\ done' = done
    BY <1>1, <1>4, SpawnDoes
  <2>2. active' = active + 1
    BY <1>1, <2>1, Plus
  <2>3. EndedWorks' = EndedWorks
    BY <2>1 DEF EndedWorks
  <2>4. ~done
    <3>1. CASE t = Main
      BY <2>1, <3>1 DEF Base, First, MainControl, GcPC
    <3>2. CASE t \in Worker
      <4>1. pc[t] = "run"
        BY <2>1, <3>2 DEF Base, ControlOf, PushPC, TakePC, StealPC, GcPC
      <4>2. job[t] \in Work
        BY <3>2, <4>1 DEF Base, ControlOf, Running
      <4>3. QED
        BY <3>2, <4>2, SomeRun
    <3>3. QED
      BY <3>1, <3>2, Threads
  <2>5. QED
    BY <1>1, <2>1, <2>2, <2>3, <2>4 DEF Counted
<1>5. CASE work_done(t)
  <2>1. /\ t \in Worker /\ pc[t] = "run" /\ job[t] \in Work
    <3>1. pc[t] = "run"
      BY <1>5 DEF work_done
    <3>2. t \in Worker
      BY <3>1, Threads DEF Base, MainControl, GcPC
    <3>3. QED
      BY <3>1, <3>2 DEF Base, ControlOf, Running
  <2>2. PICK w \in Work : w = job[t]
    BY <2>1
  <2>3. /\ ends'[w] = ends[w] + 1 /\ \A v \in Work : v # w => ends'[v] = ends[v]
        /\ active' = Sub(active, 1) /\ spawned' = spawned /\ done' = done
    BY <1>1, <1>5, <2>2, WorkDoneDoes
  <2>4. ends[w] = 0
    BY <2>1, <2>2 DEF JobOf
  <2>5. EndedWorks' = EndedWorks \cup {w} /\ w \notin EndedWorks
    BY <2>3, <2>4 DEF EndedWorks
  <2>6. Cardinality(EndedWorks') = Cardinality(EndedWorks) + 1
    <3>1. IsFiniteSet(EndedWorks)
      BY EndedIs
    <3>2. QED
      BY <2>5, <3>1, FS_AddElement
  <2>7. active > 0 /\ ~done
    BY <2>1, SomeRun
  <2>8. active' = active - 1
    BY <1>1, <2>3, <2>7, Minus
  <2>9. QED
    BY <1>1, <2>3, <2>6, <2>7, <2>8 DEF Counted
<1>6. QED
  BY <1>2, <1>3, <1>4, <1>5

-----------------------------------------------------------------------------
(* The works, in every step that disturbs nothing.                         *)
LEMMA InUse ==
  ASSUME Base, Storage, ~hidden, NEW t \in Thread, ThreadStep(t)
  PROVE  /\ \A q \in Deque : Newest(q) \notin freed[q]
         /\ pc[t] = "steal_slot" => a[t] \notin freed[dq[t]]
<1>1. ~Ended
  BY Moves DEF Ended
<1>2. ArraysInUse
  BY ArraysHeld
<1>3. QED
  BY <1>1, <1>2 DEF ArraysInUse

LEMMA CarriedStep ==
  ASSUME Base, Storage, Carried, NEW t \in Thread, ThreadStep(t), ~Disturbed, ~Disturbed'
  PROVE  Carried'
<1>1. /\ TypeOK /\ ~hidden /\ ~overtaken'
      /\ \A q \in Deque : Fits(q) /\ ClaimOf(q) /\ Newest(q) \notin freed[q]
      /\ \A s \in Thread : RoomOf(s) /\ dq[s] \in Deque
      /\ \A s \in Worker : ThiefOf(s) /\ s \in Thread
      /\ \A w \in Work : WorkOf(w) /\ JobOf(w)
      /\ pc[t] = "steal_slot" => a[t] \notin freed[dq[t]]
  <2>1. TypeOK /\ ~hidden /\ ~overtaken'
    BY DEF Base, Disturbed
  <2>2. /\ \A q \in Deque : Newest(q) \notin freed[q]
        /\ pc[t] = "steal_slot" => a[t] \notin freed[dq[t]]
    BY <2>1, InUse
  <2>3. \A s \in Worker : s \in Thread
    BY Constants
  <2>4. \A s \in Thread : dq[s] \in Deque
    BY <2>1, Ranges
  <2>5. QED
    BY <2>1, <2>2, <2>3, <2>4 DEF Carried
<1>2. \A q \in Deque : Fits(q)' /\ ClaimOf(q)'
  BY <1>1, FitsStep, ClaimStep
<1>3. \A s \in Thread : RoomOf(s)'
  <2>1. ASSUME NEW s \in Thread
        PROVE  RoomOf(s)'
    <3>1. PICK q \in Deque : q = dq[s]
      BY <1>1
    <3>2. QED
      BY <1>1, <3>1, RoomStep
  <2>2. QED
    BY <2>1
<1>4. \A s \in Worker : ThiefOf(s)'
  <2>1. ASSUME NEW s \in Worker
        PROVE  ThiefOf(s)'
    <3>1. PICK q \in Deque : q = dq[s]
      BY <1>1
    <3>2. CASE s = t
      BY <1>1, <3>1, <3>2, ThiefMoves
    <3>3. CASE s # t
      <4>1. s \in Worker \ {t}
        BY <3>3
      <4>2. QED
        BY <1>1, <3>1, <4>1, ThiefWaits
    <3>4. QED
      BY <3>2, <3>3
  <2>2. QED
    BY <2>1
<1>5. \A w \in Work : WorkOf(w)'
  BY <1>1, WorkStep
<1>6. \A w \in Work : JobOf(w)'
  BY <1>1, JobStep
<1>7. Counted'
  BY <1>1, <1>6, CountStep DEF Carried
<1>8. QED
  BY <1>2, <1>3, <1>4, <1>5, <1>6, <1>7 DEF Carried

LEMMA DeliveryStep ==
  ASSUME Base, Storage, Delivery, NEW t \in Thread, ThreadStep(t)
  PROVE  Delivery'
<1>1. Disturbed => Disturbed'
  <2>1. TypeOK
    BY DEF Base
  <2>2. hidden => hidden'
    BY <2>1, Writers, ResizeOldDoes
  <2>3. overtaken => overtaken'
    BY <2>1, Writers, StealCasDoes
  <2>4. QED
    BY <2>2, <2>3 DEF Disturbed
<1>2. QED
  BY <1>1, CarriedStep DEF Delivery

LEMMA DeliveryStutters ==
  ASSUME Delivery, UNCHANGED vars
  PROVE  Delivery'
<1>1. UNCHANGED <<top, bottom, buffer, kept, overtaken, hidden, dq, b, tt, x, a, pc,
                  active, done, spawned, job, starts, ends>>
  BY DEF vars, dequeVars, historyVars, localVars, poolVars
<1>2. \A q \in Deque : Newest(q)' = Newest(q) /\ Bot(q)' = Bot(q)
  BY <1>1 DEF Newest, Bot
<1>3. \A q \in Deque : \A n : Item(q, n)' = Item(q, n)
  BY <1>1, <1>2 DEF Item, Slot
<1>4. \A q \in Deque : Fits(q)' <=> Fits(q)
  BY <1>1, <1>2, <1>3 DEF Fits
<1>5. \A q \in Deque : ClaimOf(q)' <=> ClaimOf(q)
  BY <1>1 DEF ClaimOf, Item, Slot, Newest
<1>6. \A t \in Thread : RoomOf(t)' <=> RoomOf(t)
  BY <1>1 DEF RoomOf, Newest
<1>7. \A t \in Worker : ThiefOf(t)' <=> ThiefOf(t)
  BY <1>1 DEF ThiefOf, Found, Bot, Item, Slot, Newest
<1>8. ASSUME NEW w \in Work
      PROVE  (WorkOf(w)' <=> WorkOf(w)) /\ (JobOf(w)' <=> JobOf(w))
  <2>1. \A q \in Deque : \A n \in Nat : Lies(q, n, w)' <=> Lies(q, n, w)
    BY <1>1, <1>2, <1>3 DEF Lies
  <2>2. \A t \in Thread : Has(t, w)' <=> Has(t, w)
    BY <1>1 DEF Has
  <2>3. Pending(w)' <=> Pending(w)
    BY <1>1 DEF Pending
  <2>4. WorkOf(w)' <=> WorkOf(w)
    BY <2>1, <2>2, <2>3 DEF WorkOf
  <2>5. JobOf(w)' <=> JobOf(w)
    BY <1>1 DEF JobOf
  <2>6. QED
    BY <2>4, <2>5
<1>9. Counted' <=> Counted
  BY <1>1 DEF Counted, EndedWorks
<1>10. QED
  BY <1>1, <1>4, <1>5, <1>6, <1>7, <1>8, <1>9 DEF Delivery, Disturbed, Carried

LEMMA DeliveryInit ==
  ASSUME Init
  PROVE  Delivery
<1>1. /\ top = [q \in Deque |-> 1] /\ bottom = [q \in Deque |-> 1]
      /\ buffer = [q \in Deque |-> <<[n \in 1 .. SIZE_HINT |-> NULL]>>]
      /\ pc = [t \in Thread |-> IF t = Main THEN "spawn" ELSE "take_top"]
      /\ x = [t \in Thread |-> EMPTY] /\ job = [t \in Thread |-> EMPTY]
      /\ active = 0 /\ done = FALSE /\ spawned = 0
      /\ starts = [w \in Work |-> 0] /\ ends = [w \in Work |-> 0]
  BY DEF Init, DequeInit, LocalInit
<1>2. /\ Main \in Thread /\ \A t \in Worker : t \in Thread /\ t # Main
      /\ Deque \subseteq Worker /\ EMPTY \notin Work
      /\ Work = 1 .. WORKS /\ WORKS \in Nat /\ SIZE_HINT \in Nat \ {0}
  BY Constants
<1>3. ASSUME NEW q \in Deque
      PROVE  Fits(q) /\ ClaimOf(q) /\ Bot(q) = 1 /\ top[q] = 1
  <2>1. pc[q] = "take_top" /\ top[q] = 1 /\ bottom[q] = 1 /\ Bot(q) = 1
    BY <1>1, <1>2 DEF Bot
  <2>2. Newest(q) = 1 /\ buffer[q][1] = [n \in 1 .. SIZE_HINT |-> NULL]
    BY <1>1 DEF Newest
  <2>3. [n \in 1 .. SIZE_HINT |-> NULL] \in Seq({NULL}) /\ Len([n \in 1 .. SIZE_HINT |-> NULL]) = SIZE_HINT
    BY <1>2
  <2>4. Fits(q)
    BY <1>2, <2>1, <2>2, <2>3 DEF Fits
  <2>5. QED
    BY <2>1, <2>4 DEF ClaimOf
<1>4. \A t \in Thread : RoomOf(t)
  BY <1>1 DEF RoomOf
<1>5. \A t \in Worker : ThiefOf(t)
  BY <1>1, <1>2 DEF ThiefOf
<1>6. ASSUME NEW w \in Work
      PROVE  WorkOf(w) /\ JobOf(w)
  <2>1. \A q \in Deque : \A n \in Nat : ~Lies(q, n, w)
    BY <1>3 DEF Lies
  <2>2. \A t \in Thread : ~Has(t, w)
    BY <1>1, <1>2 DEF Has
  <2>3. ~Pending(w)
    BY <1>1, <1>2 DEF Pending
  <2>4. WorkOf(w)
    BY <2>1, <2>2, <2>3 DEF WorkOf
  <2>5. JobOf(w)
    BY <1>1, <1>2 DEF JobOf
  <2>6. QED
    BY <2>4, <2>5
<1>7. EndedWorks = {}
  BY <1>1 DEF EndedWorks
<1>8. Counted
  BY <1>1, <1>7, FS_EmptySet DEF Counted
<1>9. QED
  BY <1>3, <1>4, <1>5, <1>6, <1>8 DEF Delivery, Carried

LEMMA DeliveryHolds == Spec => [](Base /\ Storage /\ Delivery)
<1>1. Init => Base /\ Storage /\ Delivery
  BY BaseInit, StorageInit, DeliveryInit
<1>2. Base /\ Storage /\ Delivery /\ [Next]_vars => (Base /\ Storage /\ Delivery)'
  BY StorageKept, DeliveryStep, DeliveryStutters DEF Next, Stopped
<1>3. QED
  BY <1>1, <1>2, PTL DEF Spec

LEMMA WorksHeld ==
  ASSUME Base, Storage, Delivery
  PROVE  WorksExact
<1>1. CASE Disturbed
  BY <1>1 DEF WorksExact
<1>2. CASE ~Disturbed
  <2>1. /\ \A w \in Work : WorkOf(w) /\ JobOf(w)
        /\ Counted /\ TypeOK /\ spawned \in Nat
        /\ \A q \in Deque : Fits(q)
    BY <1>2, Ranges DEF Delivery, Carried, Base
  <2>2. \A w \in 1 .. spawned : w \in Work
    BY <2>1, Ranges, Constants
  <2>3. \A w \in Work : starts[w] \in Nat /\ ends[w] \in Nat
    BY <2>1 DEF TypeOK
  <2>4. AllWorkDone
    <3>1. SUFFICES ASSUME done
                   PROVE  /\ spawned > 0 /\ \A w \in 1 .. spawned : ends[w] > 0
                          /\ \A t \in Worker : job[t] = EMPTY
      BY DEF AllWorkDone
    <3>2. spawned > 0
      BY <2>1, <3>1 DEF Base, First
    <3>3. EndedWorks = 1 .. spawned
      BY <2>1, <3>1, EndedIs DEF Counted
    <3>4. \A w \in 1 .. spawned : ends[w] > 0
      BY <3>3 DEF EndedWorks
    <3>5. ASSUME NEW t \in Worker
          PROVE  job[t] = EMPTY
      <4>1. job[t] \notin Work
        BY <2>1, <3>1, SomeRun
      <4>2. job[t] \in Work \cup {EMPTY}
        BY <2>1, Constants DEF TypeOK
      <4>3. QED
        BY <4>1, <4>2
    <3>6. QED
      BY <3>2, <3>4, <3>5
  <2>5. ASSUME NEW w \in 1 .. spawned, starts[w] = 0
        PROVE  InHand(w) \/ \E q \in Deque : Queued(q, w)
    <3>1. Pending(w) /\ w \in Work /\ w <= spawned
      BY <2>1, <2>2, <2>5 DEF Pending
    <3>2. CASE \E t \in Thread : Has(t, w)
      BY <3>2 DEF InHand, Has
    <3>3. CASE \E q \in Deque : \E n \in Nat : Lies(q, n, w)
      <4>1. PICK q \in Deque, n \in Nat : Lies(q, n, w)
        BY <3>3
      <4>2. ~Ended
        <5>1. ASSUME Ended
              PROVE  FALSE
          <6>1. done
            BY <5>1, Constants DEF Ended, Base, First
          <6>2. ends[w] > 0 /\ ends[w] <= starts[w] /\ ends[w] \in Nat
            BY <2>1, <2>3, <2>4, <2>5, <3>1, <6>1 DEF AllWorkDone, JobOf
          <6>3. QED
            BY <2>5, <6>2
        <5>2. QED
          BY <5>1
      <4>3. Newest(q) \notin freed[q]
        BY <1>2, <4>2, ArraysHeld DEF ArraysInUse, Disturbed
      <4>4. Item(q, n) = w /\ n \in top[q] .. bottom[q] - 1
        <5>1. top[q] <= n /\ n < Bot(q) /\ Item(q, n) = w
          BY <4>1 DEF Lies
        <5>2. QED
          BY <5>1, Size
      <4>5. Loads(q, Newest(q), n) = {w}
        <5>1. w # NULL
          BY <3>1, Constants
        <5>2. QED
          BY <4>3, <4>4, <5>1 DEF Loads, Item, Slot
      <4>6. QED
        BY <4>4, <4>5 DEF Queued
    <3>4. QED
      BY <2>1, <3>1, <3>2, <3>3 DEF WorkOf
  <2>6. \A w \in Work : ends[w] <= starts[w] /\ starts[w] <= 1
    BY <2>1 DEF JobOf
  <2>7. QED
    BY <2>4, <2>5, <2>6 DEF WorksExact
<1>3. QED
  BY <1>1, <1>2

(* The pool: every work that was spawned is run once, by one thread; until *)
(* then it is in a deque or in the hands of a thread, and hina_exit sets   *)
(* done when all have ended.                                               *)
THEOREM EveryWorkOnce == Spec => []WorksExact
<1>1. Base /\ Storage /\ Delivery => WorksExact
  BY WorksHeld
<1>2. QED
  BY <1>1, DeliveryHolds, PTL
=============================================================================
