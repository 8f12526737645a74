--------------------------- MODULE WorkStealProofs ---------------------------
(***************************************************************************)
(* Proofs about the deques of WorkSteal, for any number of threads and of  *)
(* items and any size of the arrays: each item is run once, and the        *)
(* continuation after the last.                                            *)
(***************************************************************************)
EXTENDS WorkSteal, WellFoundedInduction, FiniteSetTheorems, TLAPS

(* The least of a set of numbers.                                          *)
LEMMA Least ==
  ASSUME NEW T \in SUBSET Nat, T # {}
  PROVE  \E k \in T : \A j \in T : k <= j
<1> DEFINE R == {ss \in Nat \X Nat : ss[1] < ss[2]}
<1>1. IsWellFoundedOn(R, Nat)
  BY NatLessThanWellFounded, Zenon DEF OpToRel
<1> HIDE DEF R
<1>2. PICK k \in T : \A j \in T : ~ (<<j, k>> \in R)
  BY <1>1, WFMin, Zenon
<1>3. ASSUME NEW j \in T
      PROVE  k <= j
  <2>1. k \in Nat /\ j \in Nat /\ ~ (<<j, k>> \in R)
    BY <1>2
  <2>2. ~ (j < k)
    BY <2>1 DEF R
  <2>3. QED
    BY <2>1, <2>2
<1>4. QED
  BY <1>3

(* A number below the modulus is its own remainder.                        *)
LEMMA Remainder ==
  ASSUME NEW m \in Nat, NEW n \in Nat, n < m
  PROVE  n % m = n
OBVIOUS

TOTAL == N_THREADS * NPRINTS

(* The owner has lowered bottom and may yet put it back.                   *)
Lowered == {"take_top", "take_cas", "take_restore"}
Bot(q) == IF pc[q] \in Lowered THEN bottom[q] + 1 ELSE bottom[q]

Phases ==
  /\ Starting \/ \A id \in Thread : pc[id] # "main"
  /\ Starting => /\ \A q \in Thread : top[q] = 0
                 /\ \A w \in Item : runs[w] = 0
                 /\ join_count = TOTAL /\ DONE_WORK \notin freed /\ ~done

(* The items that were pushed stay where they are: after the start the     *)
(* arrays are not written, and never was an index as large as the array.   *)
Pushed(q) == IF Starting THEN bottom[q] ELSE NPRINTS

Arrays ==
  \A q \in Thread :
    /\ Pushed(q) <= NPRINTS /\ Pushed(q) <= Len(array[q]) /\ 0 < Len(array[q])
    /\ \A n \in 0 .. Pushed(q) - 1 : array[q][n + 1] = <<q, n + 1>>

(* top passes neither bottom nor, while the owner takes, the last item.    *)
Indices ==
  ~Starting =>
    \A q \in Thread :
      /\ 1 <= Bot(q) /\ Bot(q) <= NPRINTS /\ top[q] <= Bot(q)
      /\ pc[q] \in Lowered => b[q] = bottom[q]
      /\ pc[q] = "take_cas" => t[q] = b[q] /\ b[q] <= top[q] /\ x[q] = <<q, b[q] + 1>>
      /\ pc[q] = "take_restore" => top[q] = Bot(q)

(* What a thief has read is old, but if top is still the same there is an  *)
(* item at it.                                                             *)
Thieves ==
  \A id \in Thread : pc[id] \in {"steal_bottom", "steal_cas"} =>
    /\ i[id] \in Thread \ {id} /\ t[id] <= top[i[id]]
    /\ pc[id] = "steal_cas" /\ t[id] = top[i[id]] => t[id] < Bot(i[id])

(* An item is in its deque, or one thread holds it, or it was run, once.   *)
In(w) == top[w[1]] < w[2] /\ w[2] <= Bot(w[1])

Items ==
  /\ \A id \in Thread : pc[id] = "run" => x[id] \in Item
  /\ \A w \in Item : \A p, q \in Thread : Holds(p, w) /\ Holds(q, w) => p = q
  /\ ~Starting =>
       \A w \in Item :
         /\ runs[w] \in {0, 1}
         /\ In(w) \/ (\E id \in Thread : Holds(id, w)) => runs[w] = 0
         /\ In(w) => \A id \in Thread : ~Holds(id, w)
         /\ runs[w] = 0 => In(w) \/ \E id \in Thread : Holds(id, w)

(* join_count are the items that were not run and those just run.          *)
Open == {w \in Item : runs[w] = 0}
Joining == {id \in Thread : pc[id] = "join"}
Counted == Cardinality(Open) + Cardinality(Joining) = join_count

Last ==
  /\ DONE_WORK \in freed \/ done => join_count = 0
  /\ \A id \in Thread : pc[id] = "done_task" => join_count = 0 /\ DONE_WORK \notin freed
  /\ \A p, q \in Thread : pc[p] = "done_task" /\ pc[q] = "done_task" => p = q

IInv == TypeOK /\ Phases /\ Arrays /\ Indices /\ Thieves /\ Items /\ Counted /\ Last

-----------------------------------------------------------------------------
USE WorkStealAssumption

LEMMA Sizes ==
  /\ IsFiniteSet(Thread) /\ IsFiniteSet(Item) /\ Cardinality(Item) = TOTAL /\ TOTAL \in Nat
  /\ Thread # {} /\ Item # {}
<1>1. /\ IsFiniteSet(Thread) /\ Cardinality(Thread) = N_THREADS
      /\ IsFiniteSet(1 .. NPRINTS) /\ Cardinality(1 .. NPRINTS) = NPRINTS
  BY FS_Interval DEF Thread
<1>2. IsFiniteSet(Item) /\ Cardinality(Item) = N_THREADS * NPRINTS
  BY <1>1, FS_Product DEF Item
<1>3. <<0, 1>> \in Item /\ 0 \in Thread
  BY DEF Item, Thread
<1>4. N_THREADS * NPRINTS \in Nat
  BY <1>2, FS_CardinalityType
<1>5. QED
  BY <1>1, <1>2, <1>3, <1>4 DEF TOTAL

LEMMA Initial == Init => IInv
<1> SUFFICES ASSUME Init PROVE IInv
  OBVIOUS
<1> USE DEF Init
<1>1. /\ Starting /\ \A id \in Thread : pc[id] = "main"
  BY DEF Starting
<1>2. TypeOK
  <2>1. array \in [Thread -> Seq(Item \cup {EMPTY})]
    BY DEF TypeOK
  <2>2. join_count \in 0 .. N_THREADS * NPRINTS
    BY Sizes DEF TOTAL
  <2>3. /\ top \in [Thread -> 0 .. SIZE_MAX] /\ bottom \in [Thread -> 0 .. SIZE_MAX]
        /\ b \in [Thread -> 0 .. SIZE_MAX] /\ t \in [Thread -> 0 .. SIZE_MAX]
        /\ i \in [Thread -> 0 .. N_THREADS]
    OBVIOUS
  <2>4. QED
    BY <2>1, <2>2, <2>3 DEF TypeOK
<1>3. Phases /\ Indices /\ Thieves /\ Last
  BY <1>1 DEF Phases, Indices, Thieves, Last, TOTAL
<1>4. Arrays
  BY <1>1 DEF Arrays, Pushed
<1>5. Items
  BY <1>1 DEF Items, Holds
<1>6. Counted
  <2>1. Open = Item /\ Joining = {}
    BY <1>1 DEF Open, Joining
  <2>2. QED
    BY <2>1, Sizes, FS_EmptySet DEF Counted, TOTAL
<1>7. QED
  BY <1>2, <1>3, <1>4, <1>5, <1>6 DEF IInv

-----------------------------------------------------------------------------
(* main pushes.  An array is resized when it is full and nothing was taken *)
(* from it, so the items keep their places.                                *)
LEMMA ResizedKeeps ==
  ASSUME IInv, Starting, NEW q \in Thread, ~Room(q)
  PROVE  /\ Resized(q) \in Seq(Item \cup {EMPTY})
         /\ Len(Resized(q)) = 2 * bottom[q] /\ 0 < bottom[q]
         /\ \A n \in 0 .. bottom[q] - 1 : Resized(q)[n + 1] = <<q, n + 1>>
<1> DEFINE a == array[q]
           size == 2 * Len(a)
           items == top[q] .. bottom[q] - 1
           f(s) == IF \E n \in items : n % size = s - 1
                     THEN Slot(a, CHOOSE n \in items : n % size = s - 1)
                     ELSE EMPTY
<1>1. /\ a \in Seq(Item \cup {EMPTY}) /\ Len(a) \in Nat /\ 0 < Len(a)
      /\ bottom[q] \in Nat /\ bottom[q] <= NPRINTS /\ bottom[q] <= Len(a) /\ top[q] = 0
      /\ \A n \in 0 .. bottom[q] - 1 : a[n + 1] = <<q, n + 1>>
  <2>1. a \in Seq(Item \cup {EMPTY}) /\ bottom[q] \in Nat
    BY DEF IInv, TypeOK
  <2>2. Len(a) \in Nat
    BY <2>1
  <2>3. /\ bottom[q] <= NPRINTS /\ bottom[q] <= Len(a) /\ 0 < Len(a)
        /\ \A n \in 0 .. bottom[q] - 1 : a[n + 1] = <<q, n + 1>>
    BY DEF IInv, Arrays, Pushed
  <2>4. top[q] = 0
    BY DEF IInv, Phases
  <2>5. QED
    BY <2>1, <2>2, <2>3, <2>4
<1>2. bottom[q] = Len(a)
  <2>1. Sub(bottom[q], top[q]) = bottom[q]
    <3>1. bottom[q] < SIZE_MAX + 1 /\ SIZE_MAX + 1 \in Nat /\ bottom[q] - top[q] = bottom[q]
      BY <1>1
    <3>2. QED
      BY <1>1, <3>1, Remainder DEF Sub
  <2>2. QED
    BY <1>1, <2>1 DEF Room
<1>3. size \in Nat /\ Resized(q) = [s \in 1 .. size |-> f(s)]
  BY <1>1 DEF Resized
<1>4. ASSUME NEW n \in items
      PROVE  /\ n \in Nat /\ n % size = n /\ n % Len(a) = n
             /\ Slot(a, n) = <<q, n + 1>> /\ n + 1 \in 1 .. size /\ <<q, n + 1>> \in Item
  <2>1. n \in Nat /\ n < Len(a) /\ n < size /\ n \in 0 .. bottom[q] - 1
    BY <1>1, <1>2
  <2>2. n % size = n /\ n % Len(a) = n
    BY <2>1, <1>1, <1>3, Remainder
  <2>3. Slot(a, n) = <<q, n + 1>>
    BY <2>1, <2>2, <1>1 DEF Slot
  <2>4. n + 1 \in 1 .. size /\ n + 1 \in 1 .. NPRINTS
    BY <2>1, <1>1, <1>2
  <2>5. QED
    BY <2>1, <2>2, <2>3, <2>4 DEF Item
<1> HIDE DEF a, size, items
<1>5. ASSUME NEW s \in 1 .. size
      PROVE  f(s) \in Item \cup {EMPTY}
  <2>1. CASE \E n \in items : n % size = s - 1
    <3>1. (CHOOSE n \in items : n % size = s - 1) \in items
      BY <2>1
    <3>2. QED
      BY <3>1, <2>1, <1>4
  <2>2. QED
    BY <2>1
<1>6. ASSUME NEW n \in items
      PROVE  f(n + 1) = <<q, n + 1>>
  <2>1. n % size = (n + 1) - 1
    <3>1. n \in Nat /\ n % size = n
      BY <1>4
    <3>2. QED
      BY <3>1
  <2>2. (CHOOSE m \in items : m % size = (n + 1) - 1) = n
    BY <2>1, <1>4
  <2>3. QED
    BY <2>1, <2>2, <1>4
<1> HIDE DEF f
<1>7. Resized(q) \in Seq(Item \cup {EMPTY}) /\ Len(Resized(q)) = size
  BY <1>3, <1>5
<1>8. ASSUME NEW n \in 0 .. bottom[q] - 1
      PROVE  Resized(q)[n + 1] = <<q, n + 1>>
  <2>1. n \in items
    BY <1>1, <1>8 DEF items
  <2>2. QED
    BY <2>1, <1>3, <1>4, <1>6
<1>9. QED
  BY <1>1, <1>2, <1>7, <1>8 DEF size

LEMMA Pushes ==
  ASSUME IInv, main_push
  PROVE  IInv'
<1>1. PICK q \in Thread : bottom[q] < NPRINTS /\ push(q, <<q, bottom[q] + 1>>)
  BY DEF main_push
<1> DEFINE a == IF Room(q) THEN array[q] ELSE Resized(q)
           w == <<q, bottom[q] + 1>>
<1>2. /\ Starting /\ Starting'
      /\ UNCHANGED <<top, join_count, freed, done, runs, pc, b, t, x, i>>
      /\ bottom[q] \in Nat /\ w \in Item /\ top[q] = 0
      /\ array \in [Thread -> Seq(Item \cup {EMPTY})] /\ bottom \in [Thread -> 0 .. SIZE_MAX]
  <2>1. /\ Starting /\ UNCHANGED <<top, join_count, freed, done, runs, pc, b, t, x, i>>
    BY <1>1 DEF main_push, push
  <2>2. array \in [Thread -> Seq(Item \cup {EMPTY})] /\ bottom \in [Thread -> 0 .. SIZE_MAX]
    BY DEF IInv, TypeOK
  <2>3. bottom[q] \in Nat /\ bottom[q] + 1 \in 1 .. NPRINTS
    BY <1>1, <2>2
  <2>4. Starting' /\ w \in Item /\ top[q] = 0
    BY <2>1, <2>3 DEF Starting, Item, IInv, Phases
  <2>5. QED
    BY <2>1, <2>2, <2>3, <2>4
<1>3. /\ a \in Seq(Item \cup {EMPTY}) /\ Len(a) \in Nat /\ bottom[q] < Len(a)
      /\ \A n \in 0 .. bottom[q] - 1 : a[n + 1] = <<q, n + 1>>
  <2>1. CASE Room(q)
    <3>1. Sub(bottom[q], top[q]) = bottom[q]
      <4>1. bottom[q] < SIZE_MAX + 1 /\ SIZE_MAX + 1 \in Nat /\ bottom[q] - top[q] = bottom[q]
        BY <1>1, <1>2
      <4>2. QED
        BY <1>2, <4>1, Remainder DEF Sub
    <3>2. QED
      BY <1>2, <2>1, <3>1 DEF Room, IInv, Arrays, Pushed
  <2>2. CASE ~Room(q)
    BY <1>2, <2>2, ResizedKeeps
  <2>3. QED
    BY <2>1, <2>2
<1>4. /\ bottom' = [bottom EXCEPT ![q] = bottom[q] + 1]
      /\ array' = [array EXCEPT ![q] = [a EXCEPT ![bottom[q] + 1] = w]]
  <2>1. bottom[q] + 1 < SIZE_MAX + 1 /\ bottom[q] + 1 \in Nat /\ SIZE_MAX + 1 \in Nat
    BY <1>1, <1>2
  <2>2. Add(bottom[q], 1) = bottom[q] + 1 /\ bottom[q] % Len(a) = bottom[q]
    BY <2>1, <1>2, <1>3, Remainder DEF Add
  <2>3. QED
    BY <1>1, <2>2 DEF push
<1> HIDE DEF a
<1>5. /\ array'[q] \in Seq(Item \cup {EMPTY}) /\ Len(array'[q]) = Len(a)
      /\ \A n \in 0 .. bottom[q] : array'[q][n + 1] = <<q, n + 1>>
      /\ \A p \in Thread \ {q} : array'[p] = array[p] /\ bottom'[p] = bottom[p]
      /\ bottom'[q] = bottom[q] + 1
  <2>1. array'[q] = [a EXCEPT ![bottom[q] + 1] = w]
    BY <1>2, <1>4
  <2>2. array'[q] \in Seq(Item \cup {EMPTY}) /\ Len(array'[q]) = Len(a)
    BY <2>1, <1>2, <1>3
  <2>3. ASSUME NEW n \in 0 .. bottom[q]
        PROVE  array'[q][n + 1] = <<q, n + 1>>
    BY <2>1, <1>2, <1>3
  <2>4. QED
    BY <2>2, <2>3, <1>2, <1>4
<1>6. TypeOK'
  <2>1. array' \in [Thread -> Seq(Item \cup {EMPTY})] /\ bottom' \in [Thread -> 0 .. SIZE_MAX]
    BY <1>1, <1>2, <1>4, <1>5
  <2>2. QED
    BY <2>1, <1>2 DEF IInv, TypeOK
<1>7. Arrays'
  <2> SUFFICES ASSUME NEW p \in Thread
               PROVE  /\ bottom'[p] <= NPRINTS /\ bottom'[p] <= Len(array'[p]) /\ 0 < Len(array'[p])
                      /\ \A n \in 0 .. bottom'[p] - 1 : array'[p][n + 1] = <<p, n + 1>>
    BY <1>2 DEF Arrays, Pushed
  <2>1. CASE p = q
    <3>1. bottom'[p] - 1 = bottom[q] /\ bottom'[p] <= NPRINTS /\ bottom'[p] <= Len(array'[p])
      BY <2>1, <1>1, <1>2, <1>3, <1>5
    <3>2. QED
      BY <3>1, <2>1, <1>2, <1>3, <1>5
  <2>2. CASE p # q
    <3>1. array'[p] = array[p] /\ bottom'[p] = bottom[p] /\ Pushed(p) = bottom[p]
      BY <2>2, <1>2, <1>5 DEF Pushed
    <3>2. /\ Pushed(p) <= NPRINTS /\ Pushed(p) <= Len(array[p]) /\ 0 < Len(array[p])
          /\ \A n \in 0 .. Pushed(p) - 1 : array[p][n + 1] = <<p, n + 1>>
      BY DEF IInv, Arrays
    <3>3. QED
      BY <3>1, <3>2
  <2>3. QED
    BY <2>1, <2>2
<1>8. Phases' /\ Indices' /\ Last' /\ Items'
  BY <1>2 DEF IInv, Phases, Indices, Last, Items, Holds
<1>9. Thieves' /\ Counted'
  BY <1>2 DEF IInv, Starting, Thieves, Counted, Open, Joining
<1>10. QED
  BY <1>6, <1>7, <1>8, <1>9 DEF IInv

LEMMA Starts ==
  ASSUME IInv, main_create
  PROVE  IInv'
<1>1. /\ Starting /\ ~Starting'
      /\ UNCHANGED <<top, bottom, array, join_count, freed, done, runs, b, t, x, i>>
      /\ \A id \in Thread : pc[id] = "main" /\ pc'[id] = "take"
      /\ \A q \in Thread : bottom[q] = NPRINTS
  BY Sizes DEF main_create, dequeVars, Starting
<1>2. TypeOK'
  BY <1>1 DEF IInv, TypeOK, main_create
<1>3. Phases' /\ Thieves' /\ Last'
  BY <1>1 DEF IInv, Phases, Thieves, Last
<1>4. Arrays'
  <2>1. \A q \in Thread : Pushed(q)' = Pushed(q)
    BY <1>1 DEF Pushed
  <2>2. QED
    BY <1>1, <2>1 DEF IInv, Arrays
<1>5. Indices'
  BY <1>1 DEF IInv, Phases, Indices, Bot, Lowered
<1>6. Items'
  <2>1. \A w \in Item : In(w)' /\ runs[w] = 0
    BY <1>1 DEF IInv, Phases, In, Bot, Lowered, Item
  <2>2. QED
    BY <1>1, <2>1 DEF Items, Holds
<1>7. Counted'
  <2>1. Open' = Open /\ Joining' = Joining
    BY <1>1 DEF Open, Joining
  <2>2. QED
    BY <2>1, <1>1 DEF IInv, Counted
<1>8. QED
  BY <1>2, <1>3, <1>4, <1>5, <1>6, <1>7 DEF IInv

-----------------------------------------------------------------------------
(* The threads.  What a step leaves alone:                                 *)
LEMMA Working ==
  ASSUME IInv, NEW id \in Thread, NEW from, NEW to, Step(id, from, to),
         from # "main", to # "main"
  PROVE  /\ ~Starting /\ ~Starting' /\ Phases'
         /\ pc[id] = from /\ \A s \in Thread : pc'[s] = IF s = id THEN to ELSE pc[s]
<1>1. pc[id] = from /\ \A s \in Thread : pc'[s] = IF s = id THEN to ELSE pc[s]
  BY DEF IInv, TypeOK, Step
<1>2. ~Starting /\ ~Starting'
  BY <1>1 DEF Starting
<1>3. QED
  BY <1>1, <1>2 DEF IInv, Phases

LEMMA ArraysStay ==
  ASSUME Arrays, ~Starting, ~Starting', array' = array
  PROVE  Arrays'
<1>1. \A q \in Thread : Pushed(q)' = Pushed(q)
  BY DEF Pushed
<1>2. QED
  BY <1>1 DEF Arrays

LEMMA ItemsStay ==
  ASSUME Items, ~Starting, runs' = runs,
         \A w \in Item : In(w)' <=> In(w),
         \A s \in Thread : \A w \in Item : Holds(s, w)' <=> Holds(s, w),
         \A s \in Thread : pc'[s] = "run" => x'[s] \in Item
  PROVE  Items'
BY DEF Items

LEMMA CountStays ==
  ASSUME Counted, runs' = runs, join_count' = join_count,
         \A s \in Thread : pc'[s] = "join" <=> pc[s] = "join"
  PROVE  Counted'
<1>1. Open' = Open /\ Joining' = Joining
  BY DEF Open, Joining
<1>2. QED
  BY <1>1 DEF Counted

LEMMA LastStays ==
  ASSUME Last, UNCHANGED <<freed, done, join_count>>,
         \A s \in Thread : pc'[s] = "done_task" => pc[s] = "done_task"
  PROVE  Last'
BY DEF Last

(* In the words of Items, In is about the place of an item in its deque.   *)
LEMMA Places ==
  ASSUME NEW w \in Item
  PROVE  w[1] \in Thread /\ w[2] \in 1 .. NPRINTS /\ w = <<w[1], w[2]>>
BY DEF Item

(* take lowers bottom, and puts it back unless it gets an item that no     *)
(* thief can reach.                                                        *)
LEMMA TakeSteps ==
  ASSUME IInv, NEW id \in Thread, take(id) \/ take_restore(id)
  PROVE  IInv'
<1> USE DEF IInv
<1>1. /\ bottom \in [Thread -> 0 .. SIZE_MAX] /\ b \in [Thread -> 0 .. SIZE_MAX]
      /\ t \in [Thread -> 0 .. SIZE_MAX] /\ x \in [Thread -> Item \cup {EMPTY}]
      /\ top \in [Thread -> 0 .. SIZE_MAX]
  BY DEF TypeOK
<1>2. CASE take(id)
  <2>1. /\ ~Starting /\ ~Starting' /\ Phases' /\ pc[id] = "take"
        /\ \A s \in Thread : pc'[s] = IF s = id THEN "take_top" ELSE pc[s]
    BY <1>2, Working DEF take
  <2>2. bottom[id] >= 1 /\ bottom[id] <= NPRINTS
    BY <2>1 DEF Indices, Bot, Lowered
  <2>3. Sub(bottom[id], 1) = bottom[id] - 1
    <3>1. bottom[id] - 1 \in Nat /\ bottom[id] - 1 < SIZE_MAX + 1 /\ SIZE_MAX + 1 \in Nat
      BY <1>1, <2>2
    <3>2. QED
      BY <3>1, Remainder DEF Sub
  <2>4. /\ \A s \in Thread : /\ bottom'[s] = IF s = id THEN bottom[id] - 1 ELSE bottom[s]
                             /\ b'[s] = IF s = id THEN bottom[id] - 1 ELSE b[s]
        /\ UNCHANGED <<top, array, t, x, join_count, freed, done, runs, i>>
    BY <1>1, <1>2, <2>3 DEF take, Set, schedVars
  <2>5. TypeOK'
    <3>1. bottom' \in [Thread -> 0 .. SIZE_MAX] /\ b' \in [Thread -> 0 .. SIZE_MAX]
      BY <1>1, <1>2, <2>2, <2>3 DEF take, Set
    <3>2. QED
      BY <1>2, <2>4, <3>1 DEF TypeOK, take, Step
  <2>6. \A q \in Thread : Bot(q)' = Bot(q)
    BY <1>1, <2>1, <2>4 DEF Bot, Lowered
  <2>7. Indices'
    BY <2>1, <2>4, <2>6 DEF Indices, Lowered
  <2>8. Thieves'
    BY <2>1, <2>4, <2>6 DEF Thieves
  <2>9. Items'
    <3>1. \A w \in Item : In(w)' <=> In(w)
      BY <2>4, <2>6, Places DEF In
    <3>2. QED
      BY <2>1, <2>4, <3>1, ItemsStay DEF Items, Holds
  <2>10. Arrays' /\ Counted' /\ Last'
    BY <2>1, <2>4, ArraysStay, CountStays, LastStays
  <2>11. QED
    BY <2>1, <2>5, <2>7, <2>8, <2>9, <2>10
<1>3. CASE take_restore(id)
  <2>1. /\ ~Starting /\ ~Starting' /\ Phases' /\ pc[id] = "take_restore"
        /\ \A s \in Thread : pc'[s] = IF s = id THEN AfterTake(x[id]) ELSE pc[s]
    BY <1>3, Working DEF take_restore, AfterTake
  <2>2. b[id] = bottom[id] /\ bottom[id] + 1 <= NPRINTS
    BY <2>1 DEF Indices, Bot, Lowered
  <2>3. Add(b[id], 1) = bottom[id] + 1
    <3>1. bottom[id] + 1 \in Nat /\ bottom[id] + 1 < SIZE_MAX + 1 /\ SIZE_MAX + 1 \in Nat
      BY <1>1, <2>2
    <3>2. QED
      BY <2>2, <3>1, Remainder DEF Add
  <2>4. /\ \A s \in Thread : /\ bottom'[s] = IF s = id THEN bottom[id] + 1 ELSE bottom[s]
                             /\ s # id => b'[s] = b[s] /\ t'[s] = t[s]
        /\ UNCHANGED <<top, array, x, join_count, freed, done, runs, i>>
    BY <1>1, <1>3, <2>3 DEF take_restore, Set, ForgetLocals, schedVars
  <2>5. TypeOK'
    <3>1. /\ bottom' \in [Thread -> 0 .. SIZE_MAX] /\ b' \in [Thread -> 0 .. SIZE_MAX]
          /\ t' \in [Thread -> 0 .. SIZE_MAX]
      BY <1>1, <1>3, <2>2, <2>3 DEF take_restore, ForgetLocals, Set
    <3>2. QED
      BY <1>3, <2>4, <3>1 DEF TypeOK, take_restore, Step, AfterTake
  <2>6. \A q \in Thread : Bot(q)' = Bot(q)
    BY <1>1, <2>1, <2>4 DEF Bot, Lowered, AfterTake
  <2>7. Indices'
    BY <2>1, <2>4, <2>6 DEF Indices, Lowered, AfterTake
  <2>8. Thieves'
    BY <2>1, <2>4, <2>6 DEF Thieves, AfterTake
  <2>9. Items'
    <3>1. \A w \in Item : In(w)' <=> In(w)
      BY <2>4, <2>6, Places DEF In
    <3>2. \A s \in Thread : \A w \in Item : Holds(s, w)' <=> Holds(s, w)
      BY <2>1, <2>4 DEF Holds, AfterTake
    <3>3. \A s \in Thread : pc'[s] = "run" => x'[s] \in Item
      BY <1>1, <2>1, <2>4 DEF Items, AfterTake
    <3>4. QED
      BY <2>1, <2>4, <3>1, <3>2, <3>3, ItemsStay
  <2>10. Arrays' /\ Counted' /\ Last'
    BY <2>1, <2>4, ArraysStay, CountStays, LastStays DEF AfterTake
  <2>11. QED
    BY <2>1, <2>5, <2>7, <2>8, <2>9, <2>10
<1>4. QED
  BY <1>2, <1>3

(* An item leaves its deque for the thread that takes or steals it.        *)
LEMMA ItemTaken ==
  ASSUME Items, ~Starting, runs' = runs, NEW id \in Thread, NEW w0 \in Item,
         In(w0), ~In(w0)', \A w \in Item \ {w0} : In(w)' <=> In(w),
         \A s \in Thread : \A w \in Item :
           Holds(s, w)' <=> Holds(s, w) \/ (s = id /\ w = w0),
         \A s \in Thread : pc'[s] = "run" => x'[s] \in Item
  PROVE  Items'
<1>1. runs[w0] = 0 /\ \A s \in Thread : ~Holds(s, w0)
  BY DEF Items
<1>2. \A w \in Item : \A p, q \in Thread : Holds(p, w)' /\ Holds(q, w)' => p = q
  BY <1>1 DEF Items
<1>3. ASSUME NEW w \in Item
      PROVE  /\ runs[w] \in {0, 1}
             /\ In(w)' \/ (\E s \in Thread : Holds(s, w)') => runs[w] = 0
             /\ In(w)' => \A s \in Thread : ~Holds(s, w)'
             /\ runs[w] = 0 => In(w)' \/ \E s \in Thread : Holds(s, w)'
  <2>1. CASE w = w0
    BY <1>1, <2>1
  <2>2. CASE w # w0
    BY <2>2 DEF Items
  <2>3. QED
    BY <2>1, <2>2
<1>4. QED
  BY <1>2, <1>3 DEF Items

LEMMA SlotOf ==
  ASSUME IInv, ~Starting, NEW q \in Thread, NEW n \in 0 .. NPRINTS - 1
  PROVE  Slot(array[q], n) = <<q, n + 1>> /\ <<q, n + 1>> \in Item
<1>1. /\ n < Len(array[q]) /\ Len(array[q]) \in Nat /\ n \in Nat
      /\ array[q][n + 1] = <<q, n + 1>>
  <2>1. Pushed(q) = NPRINTS
    BY DEF Pushed
  <2>2. /\ array[q] \in Seq(Item \cup {EMPTY}) /\ Pushed(q) <= Len(array[q])
        /\ \A m \in 0 .. Pushed(q) - 1 : array[q][m + 1] = <<q, m + 1>>
    BY DEF IInv, TypeOK, Arrays
  <2>3. QED
    BY <2>1, <2>2
<1>2. n % Len(array[q]) = n
  BY <1>1, Remainder
<1>3. n + 1 \in 1 .. NPRINTS
  OBVIOUS
<1>4. QED
  BY <1>1, <1>2, <1>3 DEF Slot, Item

LEMMA TakeTop ==
  ASSUME IInv, NEW id \in Thread, take_top(id)
  PROVE  IInv'
<1> USE DEF IInv
<1>1. /\ bottom \in [Thread -> 0 .. SIZE_MAX] /\ b \in [Thread -> 0 .. SIZE_MAX]
      /\ t \in [Thread -> 0 .. SIZE_MAX] /\ x \in [Thread -> Item \cup {EMPTY}]
      /\ top \in [Thread -> 0 .. SIZE_MAX] /\ pc[id] = "take_top"
  BY DEF TypeOK, take_top, Step
<1>2. /\ ~Starting /\ b[id] = bottom[id] /\ Bot(id) = b[id] + 1
      /\ b[id] + 1 <= NPRINTS /\ top[id] <= b[id] + 1
  <2>1. ~Starting
    BY <1>1 DEF Starting
  <2>2. QED
    BY <1>1, <2>1 DEF Indices, Bot, Lowered
<1>3. PICK w0 \in Item : w0 = <<id, b[id] + 1>> /\ Slot(array[id], b[id]) = w0
  <2>1. b[id] \in 0 .. NPRINTS - 1
    BY <1>1, <1>2
  <2>2. QED
    BY <2>1, <1>2, SlotOf
<1>4. /\ UNCHANGED <<top, bottom, array, join_count, freed, done, runs, i>>
      /\ \A s \in Thread : x'[s] = IF s # id THEN x[s] ELSE IF top[id] <= b[id] THEN w0 ELSE EMPTY
      /\ x' \in [Thread -> Item \cup {EMPTY}]
  BY <1>1, <1>3 DEF take_top, dequeVars, schedVars, Set
<1>5. CASE top[id] < b[id]
  <2>1. Step(id, "take_top", "run") /\ ForgetLocals(id) /\ top[id] <= b[id]
    BY <1>1, <1>5 DEF take_top
  <2>2. /\ ~Starting' /\ Phases'
        /\ \A s \in Thread : pc'[s] = IF s = id THEN "run" ELSE pc[s]
    BY <2>1, Working
  <2>3. \A s \in Thread : s # id => b'[s] = b[s] /\ t'[s] = t[s]
    BY <1>1, <2>1 DEF ForgetLocals, Set
  <2>4. TypeOK'
    <3>1. b' \in [Thread -> 0 .. SIZE_MAX] /\ t' \in [Thread -> 0 .. SIZE_MAX]
      BY <1>1, <2>1 DEF ForgetLocals, Set
    <3>2. QED
      BY <1>4, <2>1, <3>1 DEF TypeOK, Step
  <2>5. \A q \in Thread : Bot(q)' = IF q = id THEN b[id] ELSE Bot(q)
    BY <1>1, <1>2, <1>4, <2>2 DEF Bot, Lowered
  <2>6. Indices'
    <3> SUFFICES ASSUME NEW q \in Thread
                 PROVE  /\ 1 <= Bot(q)' /\ Bot(q)' <= NPRINTS /\ top[q] <= Bot(q)'
                        /\ pc'[q] \in Lowered => b'[q] = bottom[q]
                        /\ pc'[q] = "take_cas" => t'[q] = b'[q] /\ b'[q] <= top[q] /\ x'[q] = <<q, b'[q] + 1>>
                        /\ pc'[q] = "take_restore" => top[q] = Bot(q)'
      BY <1>4 DEF Indices
    <3>1. CASE q = id
      BY <3>1, <1>1, <1>2, <1>5, <2>2, <2>5 DEF Lowered
    <3>2. CASE q # id
      BY <3>2, <1>2, <1>4, <2>2, <2>3, <2>5 DEF Indices
    <3>3. QED
      BY <3>1, <3>2
  <2>7. Thieves'
    BY <1>1, <1>4, <1>5, <2>2, <2>3, <2>5 DEF Thieves
  <2>8. Items'
    <3>1. In(w0) /\ ~In(w0)'
      <4>1. w0[1] = id /\ w0[2] = b[id] + 1 /\ top[id] \in Int /\ b[id] \in Int
        BY <1>1, <1>3
      <4>2. QED
        BY <4>1, <1>2, <1>4, <1>5, <2>5 DEF In
    <3>2. ASSUME NEW w \in Item \ {w0}
          PROVE  In(w)' <=> In(w)
      <4>1. CASE w[1] = id
        <5>1. w[2] \in Int /\ w[2] # b[id] + 1
          BY <3>2, <4>1, <1>3, Places
        <5>2. QED
          BY <4>1, <5>1, <1>1, <1>2, <1>4, <2>5 DEF In
      <4>2. CASE w[1] # id
        BY <4>2, <1>4, <2>5, Places DEF In
      <4>3. QED
        BY <4>1, <4>2
    <3>3. \A s \in Thread : \A w \in Item :
            Holds(s, w)' <=> Holds(s, w) \/ (s = id /\ w = w0)
      BY <1>1, <1>4, <2>1, <2>2 DEF Holds
    <3>4. \A s \in Thread : pc'[s] = "run" => x'[s] \in Item
      BY <1>3, <1>4, <2>1, <2>2 DEF Items
    <3>5. QED
      BY <1>2, <1>3, <1>4, <3>1, <3>2, <3>3, <3>4, ItemTaken
  <2>9. Arrays' /\ Counted' /\ Last'
    BY <1>1, <1>2, <1>4, <2>2, ArraysStay, CountStays, LastStays
  <2>10. QED
    BY <2>2, <2>4, <2>6, <2>7, <2>8, <2>9
<1>6. CASE top[id] >= b[id]
  <2> DEFINE to == IF top[id] = b[id] THEN "take_cas" ELSE "take_restore"
  <2>1. /\ Step(id, "take_top", to)
        /\ \A s \in Thread : /\ b'[s] = b[s]
                            /\ t'[s] = IF s = id /\ top[id] = b[id] THEN top[id] ELSE t[s]
    BY <1>1, <1>6 DEF take_top, Set
  <2>2. /\ ~Starting' /\ Phases'
        /\ \A s \in Thread : pc'[s] = IF s = id THEN to ELSE pc[s]
    BY <2>1, Working
  <2>3. TypeOK'
    <3>1. b' \in [Thread -> 0 .. SIZE_MAX] /\ t' \in [Thread -> 0 .. SIZE_MAX]
      BY <1>1, <1>6 DEF take_top, Set
    <3>2. QED
      BY <1>4, <2>1, <3>1 DEF TypeOK, Step
  <2>4. \A q \in Thread : Bot(q)' = Bot(q)
    BY <1>1, <1>4, <2>2 DEF Bot, Lowered
  <2>5. Indices'
    <3> SUFFICES ASSUME NEW q \in Thread
                 PROVE  /\ 1 <= Bot(q) /\ Bot(q) <= NPRINTS /\ top[q] <= Bot(q)
                        /\ pc'[q] \in Lowered => b'[q] = bottom[q]
                        /\ pc'[q] = "take_cas" => t'[q] = b'[q] /\ b'[q] <= top[q] /\ x'[q] = <<q, b'[q] + 1>>
                        /\ pc'[q] = "take_restore" => top[q] = Bot(q)
      BY <1>4, <2>4 DEF Indices
    <3>1. CASE q = id
      <4>1. 1 <= Bot(q) /\ Bot(q) <= NPRINTS /\ top[q] <= Bot(q)
        BY <1>2 DEF Indices
      <4>2. pc'[q] = to /\ b'[q] = bottom[q]
        BY <3>1, <1>2, <2>1, <2>2
      <4>3. CASE top[id] = b[id]
        BY <4>1, <4>2, <4>3, <3>1, <1>1, <1>3, <1>4, <2>1
      <4>4. CASE top[id] # b[id]
        BY <4>1, <4>2, <4>4, <3>1, <1>1, <1>2, <1>6
      <4>5. QED
        BY <4>3, <4>4
    <3>2. CASE q # id
      BY <3>2, <1>2, <1>4, <2>1, <2>2 DEF Indices
    <3>3. QED
      BY <3>1, <3>2
  <2>6. Thieves'
    BY <1>1, <1>4, <2>1, <2>2, <2>4 DEF Thieves
  <2>7. Items'
    <3>1. \A w \in Item : In(w)' <=> In(w)
      BY <1>4, <2>4, Places DEF In
    <3>2. ASSUME NEW s \in Thread, NEW w \in Item
          PROVE  Holds(s, w)' <=> Holds(s, w)
      <4>1. CASE s = id
        <5>1. ~Holds(s, w) /\ (pc'[s] = "take_restore" => x'[s] = EMPTY) /\ pc'[s] # "run"
          BY <4>1, <1>1, <1>4, <1>6, <2>2 DEF Holds
        <5>2. QED
          BY <5>1 DEF Holds
      <4>2. CASE s # id
        BY <4>2, <1>4, <2>2 DEF Holds
      <4>3. QED
        BY <4>1, <4>2
    <3>3. \A s \in Thread : pc'[s] = "run" => x'[s] \in Item
      BY <1>4, <2>2 DEF Items
    <3>4. QED
      BY <1>2, <1>4, <3>1, <3>2, <3>3, ItemsStay
  <2>8. Arrays' /\ Counted' /\ Last'
    BY <1>1, <1>2, <1>4, <2>2, ArraysStay, CountStays, LastStays
  <2>9. QED
    BY <2>2, <2>3, <2>5, <2>6, <2>7, <2>8
<1>7. QED
  BY <1>1, <1>5, <1>6

LEMMA TakeCas ==
  ASSUME IInv, NEW id \in Thread, take_cas(id)
  PROVE  IInv'
<1> USE DEF IInv
<1>1. /\ bottom \in [Thread -> 0 .. SIZE_MAX] /\ b \in [Thread -> 0 .. SIZE_MAX]
      /\ x \in [Thread -> Item \cup {EMPTY}] /\ top \in [Thread -> 0 .. SIZE_MAX]
      /\ pc[id] = "take_cas"
  BY DEF TypeOK, take_cas, Step
<1>2. /\ ~Starting /\ ~Starting' /\ Phases'
      /\ \A s \in Thread : pc'[s] = IF s = id THEN "take_restore" ELSE pc[s]
  BY Working DEF take_cas
<1>3. /\ b[id] = bottom[id] /\ Bot(id) = b[id] + 1 /\ b[id] + 1 <= NPRINTS
      /\ top[id] <= b[id] + 1 /\ t[id] = b[id] /\ b[id] <= top[id] /\ x[id] = <<id, b[id] + 1>>
  BY <1>1, <1>2 DEF Indices, Bot, Lowered
<1>4. PICK w0 \in Item : w0 = <<id, b[id] + 1>> /\ x[id] = w0
  <2>1. b[id] + 1 \in 1 .. NPRINTS
    BY <1>1, <1>3
  <2>2. QED
    BY <2>1, <1>3 DEF Item
<1>5. /\ UNCHANGED <<bottom, array, b, t, join_count, freed, done, runs, i>>
      /\ \A s \in Thread : s # id => x'[s] = x[s] /\ top'[s] = top[s]
      /\ top'[id] = b[id] + 1
      /\ \/ top[id] = b[id] /\ x' = x
         \/ top[id] = b[id] + 1 /\ x'[id] = EMPTY
      /\ x' \in [Thread -> Item \cup {EMPTY}] /\ top' \in [Thread -> 0 .. SIZE_MAX]
  <2>1. UNCHANGED <<bottom, array, b, t, join_count, freed, done, runs, i>>
    BY DEF take_cas, schedVars
  <2>2. CASE top[id] = t[id]
    <3>1. Add(top[id], 1) = b[id] + 1
      <4>1. b[id] + 1 \in Nat /\ b[id] + 1 < SIZE_MAX + 1 /\ SIZE_MAX + 1 \in Nat
        BY <1>1, <1>3
      <4>2. QED
        BY <2>2, <1>3, <4>1, Remainder DEF Add
    <3>2. top' = [top EXCEPT ![id] = b[id] + 1] /\ x' = x /\ b[id] + 1 \in 0 .. SIZE_MAX
      BY <2>2, <3>1, <1>1, <1>3 DEF take_cas, Set
    <3>3. QED
      BY <1>1, <1>3, <2>1, <2>2, <3>2
  <2>3. CASE top[id] # t[id]
    <3>1. top' = top /\ x' = [x EXCEPT ![id] = EMPTY] /\ top[id] = b[id] + 1
      BY <2>3, <1>1, <1>3 DEF take_cas, Set
    <3>2. QED
      BY <1>1, <2>1, <3>1
  <2>4. QED
    BY <2>2, <2>3
<1>6. TypeOK'
  BY <1>5 DEF TypeOK, take_cas, Step
<1>7. \A q \in Thread : Bot(q)' = Bot(q)
  BY <1>1, <1>2, <1>5 DEF Bot, Lowered
<1>8. Indices'
  <2> SUFFICES ASSUME NEW q \in Thread
               PROVE  /\ 1 <= Bot(q) /\ Bot(q) <= NPRINTS /\ top'[q] <= Bot(q)
                      /\ pc'[q] \in Lowered => b[q] = bottom[q]
                      /\ pc'[q] = "take_cas" => t[q] = b[q] /\ b[q] <= top'[q] /\ x'[q] = <<q, b[q] + 1>>
                      /\ pc'[q] = "take_restore" => top'[q] = Bot(q)
    BY <1>5, <1>7 DEF Indices
  <2>1. CASE q = id
    BY <2>1, <1>1, <1>2, <1>3, <1>5
  <2>2. CASE q # id
    BY <2>2, <1>2, <1>5 DEF Indices
  <2>3. QED
    BY <2>1, <2>2
<1>9. Thieves'
  <2> SUFFICES ASSUME NEW s \in Thread, pc'[s] \in {"steal_bottom", "steal_cas"}
               PROVE  /\ i[s] \in Thread \ {s} /\ t[s] <= top'[i[s]]
                      /\ pc'[s] = "steal_cas" /\ t[s] = top'[i[s]] => t[s] < Bot(i[s])
    BY <1>5, <1>7 DEF Thieves
  <2>1. s # id /\ pc'[s] = pc[s]
    BY <1>2
  <2>2. /\ i[s] \in Thread \ {s} /\ t[s] <= top[i[s]] /\ t[s] \in Int
        /\ pc[s] = "steal_cas" /\ t[s] = top[i[s]] => t[s] < Bot(i[s])
    <3>1. t[s] \in Int
      BY DEF TypeOK
    <3>2. QED
      BY <2>1, <3>1 DEF Thieves
  <2>3. CASE top'[i[s]] = top[i[s]]
    BY <2>1, <2>2, <2>3
  <2>4. CASE top'[i[s]] # top[i[s]]
    <3>1. i[s] = id /\ top[id] = b[id] /\ top'[id] = b[id] + 1
      BY <2>2, <2>4, <1>5
    <3>2. QED
      BY <3>1, <2>2, <1>1
  <2>5. QED
    BY <2>3, <2>4
<1>10. \A s \in Thread : pc'[s] = "run" => x'[s] \in Item
  BY <1>2, <1>5 DEF Items
<1>11. Items'
  <2>1. ASSUME NEW w \in Item, w[1] # id
        PROVE  In(w)' <=> In(w)
    BY <2>1, <1>5, <1>7, Places DEF In
  <2>2. CASE top[id] = b[id] /\ x' = x
    <3>1. In(w0) /\ ~In(w0)'
      <4>1. w0[1] = id /\ w0[2] = b[id] + 1 /\ b[id] \in Int
        BY <1>1, <1>4
      <4>2. QED
        BY <4>1, <2>2, <1>3, <1>5, <1>7 DEF In
    <3>2. ASSUME NEW w \in Item \ {w0}
          PROVE  In(w)' <=> In(w)
      <4>1. CASE w[1] = id
        <5>1. w[2] \in Int /\ w[2] # b[id] + 1
          BY <3>2, <4>1, <1>4, Places
        <5>2. QED
          BY <4>1, <5>1, <1>1, <1>3, <1>5, <1>7, <2>2 DEF In
      <4>2. QED
        BY <4>1, <2>1
    <3>3. \A s \in Thread : \A w \in Item :
            Holds(s, w)' <=> Holds(s, w) \/ (s = id /\ w = w0)
      BY <1>1, <1>2, <1>4, <2>2 DEF Holds
    <3>4. QED
      BY <1>2, <1>5, <1>10, <3>1, <3>2, <3>3, ItemTaken
  <2>3. CASE top[id] = b[id] + 1 /\ x'[id] = EMPTY
    <3>1. ASSUME NEW w \in Item
          PROVE  In(w)' <=> In(w)
      BY <2>3, <1>5, <1>7, Places DEF In
    <3>2. ASSUME NEW s \in Thread, NEW w \in Item
          PROVE  Holds(s, w)' <=> Holds(s, w)
      BY <2>3, <1>1, <1>2, <1>5 DEF Holds
    <3>3. QED
      BY <1>2, <1>5, <1>10, <3>1, <3>2, ItemsStay
  <2>4. QED
    BY <1>5, <2>2, <2>3
<1>12. Arrays' /\ Counted' /\ Last'
  BY <1>1, <1>2, <1>5, ArraysStay, CountStays, LastStays
<1>13. QED
  BY <1>2, <1>6, <1>8, <1>9, <1>11, <1>12

-----------------------------------------------------------------------------
(* A thief's steps.                                                        *)
LEMMA Victims ==
  ASSUME NEW id \in Thread, i[id] \in Nat, Others(id) # {}
  PROVE  Victim(id) \in Thread \ {id}
<1>1. Others(id) \subseteq Nat
  BY DEF Others, Thread
<1>2. \E q \in Others(id) : \A p \in Others(id) : q <= p
  BY <1>1, Least
<1>3. QED
  BY <1>2 DEF Victim, Others

(* Steps of a thief that only reads.                                       *)
LEMMA Looking ==
  ASSUME IInv, NEW id \in Thread,
         NEW from \in {"steal_top", "steal_bottom", "steal_cas"},
         NEW to \in {"steal_top", "steal_bottom", "steal_cas", "take", "exit"},
         Step(id, from, to),
         UNCHANGED <<top, bottom, array, join_count, freed, done, runs, b, x>>,
         t' \in [Thread -> 0 .. SIZE_MAX], i' \in [Thread -> 0 .. N_THREADS],
         \A s \in Thread \ {id} : t'[s] = t[s] /\ i'[s] = i[s],
         to \in {"steal_bottom", "steal_cas"} =>
           /\ i'[id] \in Thread \ {id} /\ t'[id] <= top[i'[id]]
           /\ to = "steal_cas" /\ t'[id] = top[i'[id]] => t'[id] < Bot(i'[id])
  PROVE  IInv'
<1> USE DEF IInv
<1>1. /\ ~Starting /\ ~Starting' /\ Phases' /\ pc[id] = from
      /\ \A s \in Thread : pc'[s] = IF s = id THEN to ELSE pc[s]
  BY Working
<1>2. TypeOK'
  BY DEF TypeOK, Step
<1>3. \A q \in Thread : Bot(q)' = Bot(q)
  BY <1>1 DEF Bot, Lowered
<1>4. Indices'
  BY <1>1, <1>3 DEF Indices, Lowered
<1>5. Thieves'
  <2> SUFFICES ASSUME NEW s \in Thread, pc'[s] \in {"steal_bottom", "steal_cas"}
               PROVE  /\ i'[s] \in Thread \ {s} /\ t'[s] <= top[i'[s]]
                      /\ pc'[s] = "steal_cas" /\ t'[s] = top[i'[s]] => t'[s] < Bot(i'[s])
    BY <1>3 DEF Thieves
  <2>1. CASE s = id
    BY <2>1, <1>1
  <2>2. CASE s # id
    BY <2>2, <1>1 DEF Thieves
  <2>3. QED
    BY <2>1, <2>2
<1>6. Items'
  <2>1. \A w \in Item : In(w)' <=> In(w)
    BY <1>3, Places DEF In
  <2>2. \A s \in Thread : \A w \in Item : Holds(s, w)' <=> Holds(s, w)
    BY <1>1 DEF Holds
  <2>3. \A s \in Thread : pc'[s] = "run" => x'[s] \in Item
    BY <1>1 DEF Items
  <2>4. QED
    BY <1>1, <2>1, <2>2, <2>3, ItemsStay
<1>7. Arrays' /\ Counted' /\ Last'
  BY <1>1, ArraysStay, CountStays, LastStays
<1>8. QED
  BY <1>1, <1>2, <1>4, <1>5, <1>6, <1>7

LEMMA Looks ==
  ASSUME IInv, NEW id \in Thread,
         steal_top(id) \/ check_done(id) \/ steal_bottom(id)
  PROVE  IInv'
<1>1. /\ t \in [Thread -> 0 .. SIZE_MAX] /\ i \in [Thread -> 0 .. N_THREADS]
      /\ top \in [Thread -> 0 .. SIZE_MAX] /\ bottom \in [Thread -> 0 .. SIZE_MAX]
  BY DEF IInv, TypeOK
<1>2. CASE steal_top(id)
  <2>1. Victim(id) \in Thread \ {id}
    BY <1>1, <1>2, Victims DEF steal_top
  <2>2. /\ t' \in [Thread -> 0 .. SIZE_MAX] /\ i' \in [Thread -> 0 .. N_THREADS]
        /\ \A s \in Thread \ {id} : t'[s] = t[s] /\ i'[s] = i[s]
        /\ i'[id] = Victim(id) /\ t'[id] = top[Victim(id)]
    <3>1. Victim(id) \in 0 .. N_THREADS /\ top[Victim(id)] \in 0 .. SIZE_MAX
      <4>1. \A s \in Thread : s \in 0 .. N_THREADS
        BY DEF Thread
      <4>2. QED
        BY <1>1, <2>1, <4>1
    <3>2. i' = [i EXCEPT ![id] = Victim(id)] /\ t' = [t EXCEPT ![id] = top[Victim(id)]]
      BY <1>2 DEF steal_top, Set
    <3> HIDE DEF Victim
    <3>3. QED
      BY <1>1, <3>1, <3>2
  <2>3. /\ Step(id, "steal_top", "steal_bottom")
        /\ UNCHANGED <<top, bottom, array, join_count, freed, done, runs, b, x>>
    BY <1>2 DEF steal_top, dequeVars
  <2>4. t'[id] <= top[i'[id]]
    BY <1>1, <2>1, <2>2
  <2>5. QED
    BY <2>1, <2>2, <2>3, <2>4, Looking
<1>3. CASE check_done(id)
  <2>1. /\ t' = t /\ i' \in [Thread -> 0 .. N_THREADS]
        /\ \A s \in Thread \ {id} : i'[s] = i[s]
    BY <1>1, <1>3 DEF check_done, Set
  <2>2. /\ Step(id, "steal_top", IF done THEN "exit" ELSE "take")
        /\ UNCHANGED <<top, bottom, array, join_count, freed, done, runs, b, x>>
    BY <1>3 DEF check_done, dequeVars
  <2>3. (IF done THEN "exit" ELSE "take") \in {"take", "exit"}
    OBVIOUS
  <2>4. QED
    BY <1>1, <2>1, <2>2, <2>3, Looking
<1>4. CASE steal_bottom(id)
  <2>1. /\ pc[id] = "steal_bottom"
        /\ UNCHANGED <<top, bottom, array, join_count, freed, done, runs, b, x>>
    BY <1>4 DEF steal_bottom, dequeVars
  <2>2. i[id] \in Thread \ {id} /\ t[id] <= top[i[id]]
    BY <2>1 DEF IInv, Thieves
  <2>3. CASE t[id] < bottom[i[id]] /\ Step(id, "steal_bottom", "steal_cas") /\ UNCHANGED <<t, i>>
    <3>1. t[id] < Bot(i[id])
      BY <1>1, <2>2, <2>3 DEF Bot
    <3>2. QED
      BY <1>1, <2>1, <2>2, <2>3, <3>1, Looking
  <2>4. CASE /\ Step(id, "steal_bottom", "steal_top")
             /\ t' = Set(t, id, 0) /\ i' = Set(i, id, i[id] + 1)
    <3>1. i[id] + 1 \in 0 .. N_THREADS
      BY <2>2 DEF Thread
    <3>2. /\ t' \in [Thread -> 0 .. SIZE_MAX] /\ i' \in [Thread -> 0 .. N_THREADS]
          /\ \A s \in Thread \ {id} : t'[s] = t[s] /\ i'[s] = i[s]
      BY <1>1, <2>4, <3>1 DEF Set
    <3>3. QED
      BY <2>1, <2>4, <3>2, Looking
  <2>5. QED
    BY <1>4, <2>3, <2>4 DEF steal_bottom
<1>5. QED
  BY <1>2, <1>3, <1>4

LEMMA StealCas ==
  ASSUME IInv, NEW id \in Thread, steal_cas(id)
  PROVE  IInv'
<1> USE DEF IInv
<1>1. /\ bottom \in [Thread -> 0 .. SIZE_MAX] /\ t \in [Thread -> 0 .. SIZE_MAX]
      /\ x \in [Thread -> Item \cup {EMPTY}] /\ top \in [Thread -> 0 .. SIZE_MAX]
      /\ i \in [Thread -> 0 .. N_THREADS] /\ pc[id] = "steal_cas" /\ ~Starting
      /\ UNCHANGED <<bottom, array, join_count, freed, done, runs, b>>
      /\ t' = [t EXCEPT ![id] = 0]
  BY DEF TypeOK, steal_cas, Set, Starting
<1> DEFINE q == i[id]
           n == t[id]
<1>2. /\ q \in Thread \ {id} /\ n \in Nat /\ n <= top[q]
      /\ n = top[q] => n < Bot(q)
  BY <1>1 DEF Thieves
<1> HIDE DEF q, n
<1>3. CASE top[q] # n
  <2>1. Step(id, "steal_cas", "steal_top") /\ UNCHANGED <<top, x, i>>
    BY <1>1, <1>3 DEF steal_cas, q, n
  <2>2. t' \in [Thread -> 0 .. SIZE_MAX] /\ \A s \in Thread \ {id} : t'[s] = t[s]
    BY <1>1
  <2>3. QED
    BY <1>1, <2>1, <2>2, Looking
<1>4. CASE top[q] = n
  <2>1. /\ Step(id, "steal_cas", "run")
        /\ top' = [top EXCEPT ![q] = Add(n, 1)]
        /\ x' = [x EXCEPT ![id] = Slot(array[q], n)]
        /\ i' = [i EXCEPT ![id] = 0]
    BY <1>1, <1>4 DEF steal_cas, Set, q, n
  <2>2. /\ ~Starting' /\ Phases'
        /\ \A s \in Thread : pc'[s] = IF s = id THEN "run" ELSE pc[s]
    BY <2>1, Working
  <2>3. n < Bot(q) /\ Bot(q) <= NPRINTS /\ Bot(q) \in Int
    BY <1>1, <1>2, <1>4 DEF Indices, Bot
  <2>4. PICK w0 \in Item : w0 = <<q, n + 1>> /\ Slot(array[q], n) = w0
    <3>1. n \in 0 .. NPRINTS - 1
      BY <1>2, <2>3
    <3>2. QED
      BY <3>1, <1>1, <1>2, SlotOf
  <2>5. /\ top' \in [Thread -> 0 .. SIZE_MAX] /\ top'[q] = n + 1
        /\ \A s \in Thread : s # q => top'[s] = top[s]
    <3>1. n + 1 \in Nat /\ n + 1 < SIZE_MAX + 1 /\ SIZE_MAX + 1 \in Nat
      BY <1>2, <2>3
    <3>2. Add(n, 1) = n + 1
      BY <3>1, Remainder DEF Add
    <3>3. QED
      BY <1>1, <1>2, <2>1, <3>1, <3>2
  <2>6. /\ x' \in [Thread -> Item \cup {EMPTY}] /\ i' \in [Thread -> 0 .. N_THREADS]
        /\ t' \in [Thread -> 0 .. SIZE_MAX] /\ x'[id] = w0
        /\ \A s \in Thread \ {id} : x'[s] = x[s] /\ i'[s] = i[s] /\ t'[s] = t[s]
    BY <1>1, <2>1, <2>4
  <2>7. TypeOK'
    BY <1>1, <2>1, <2>5, <2>6 DEF TypeOK, Step
  <2>8. \A s \in Thread : Bot(s)' = Bot(s)
    BY <1>1, <2>2 DEF Bot, Lowered
  <2>9. Indices'
    <3> SUFFICES ASSUME NEW s \in Thread
                 PROVE  /\ 1 <= Bot(s) /\ Bot(s) <= NPRINTS /\ top'[s] <= Bot(s)
                        /\ pc'[s] \in Lowered => b[s] = bottom[s]
                        /\ pc'[s] = "take_cas" => t'[s] = b[s] /\ b[s] <= top'[s] /\ x'[s] = <<s, b[s] + 1>>
                        /\ pc'[s] = "take_restore" => top'[s] = Bot(s)
      BY <1>1, <2>8 DEF Indices
    <3>1. /\ 1 <= Bot(s) /\ Bot(s) <= NPRINTS /\ top[s] <= Bot(s)
          /\ pc[s] \in Lowered => b[s] = bottom[s]
          /\ pc[s] = "take_cas" => t[s] = b[s] /\ b[s] <= top[s] /\ x[s] = <<s, b[s] + 1>>
          /\ pc[s] = "take_restore" => top[s] = Bot(s)
      BY <1>1 DEF Indices
    <3>2. CASE s = id
      BY <3>1, <3>2, <1>2, <2>2, <2>5 DEF Lowered
    <3>3. CASE s # id /\ s # q
      BY <3>1, <3>3, <2>2, <2>5, <2>6
    <3>4. CASE s = q
      <4>1. s # id /\ pc'[s] = pc[s] /\ t'[s] = t[s] /\ x'[s] = x[s]
        BY <3>4, <1>2, <2>2, <2>6
      <4>2. top'[s] = top[s] + 1 /\ top'[s] <= Bot(s) /\ pc[s] # "take_restore"
        BY <3>1, <3>4, <1>2, <1>4, <2>3, <2>5
      <4>3. pc[s] = "take_cas" => b[s] <= top'[s]
        BY <3>1, <4>2, <1>1 DEF TypeOK
      <4>4. QED
        BY <3>1, <4>1, <4>2, <4>3
    <3>5. QED
      BY <3>2, <3>3, <3>4
  <2>10. Thieves'
    <3> SUFFICES ASSUME NEW s \in Thread, pc'[s] \in {"steal_bottom", "steal_cas"}
                 PROVE  /\ i'[s] \in Thread \ {s} /\ t'[s] <= top'[i'[s]]
                        /\ pc'[s] = "steal_cas" /\ t'[s] = top'[i'[s]] => t'[s] < Bot(i'[s])
      BY <2>8 DEF Thieves
    <3>1. s # id /\ pc'[s] = pc[s] /\ i'[s] = i[s] /\ t'[s] = t[s]
      BY <2>2, <2>6
    <3>2. /\ i[s] \in Thread \ {s} /\ t[s] <= top[i[s]] /\ t[s] \in Int
          /\ pc[s] = "steal_cas" /\ t[s] = top[i[s]] => t[s] < Bot(i[s])
      BY <3>1, <1>1 DEF Thieves
    <3>3. CASE i[s] = q
      <4>1. top'[i[s]] = n + 1 /\ t[s] <= n
        BY <3>2, <3>3, <1>4, <2>5
      <4>2. t[s] < top'[i[s]]
        BY <4>1, <3>2, <1>2
      <4>3. QED
        BY <4>2, <3>1, <3>2, <4>1, <1>2
    <3>4. CASE i[s] # q
      BY <3>1, <3>2, <3>4, <2>5
    <3>5. QED
      BY <3>3, <3>4
  <2>11. Items'
    <3>1. In(w0) /\ ~In(w0)'
      <4>1. w0[1] = q /\ w0[2] = n + 1
        BY <2>4
      <4>2. QED
        BY <4>1, <1>2, <1>4, <2>3, <2>5, <2>8 DEF In
    <3>2. ASSUME NEW w \in Item \ {w0}
          PROVE  In(w)' <=> In(w)
      <4>1. CASE w[1] = q
        <5>1. w[2] \in Int /\ w[2] # n + 1
          BY <3>2, <4>1, <2>4, Places
        <5>2. QED
          BY <4>1, <5>1, <1>2, <1>4, <2>5, <2>8 DEF In
      <4>2. CASE w[1] # q
        BY <4>2, <2>5, <2>8, Places DEF In
      <4>3. QED
        BY <4>1, <4>2
    <3>3. ASSUME NEW s \in Thread, NEW w \in Item
          PROVE  Holds(s, w)' <=> Holds(s, w) \/ (s = id /\ w = w0)
      BY <1>1, <2>2, <2>6 DEF Holds
    <3>4. \A s \in Thread : pc'[s] = "run" => x'[s] \in Item
      BY <2>2, <2>6 DEF Items
    <3>5. QED
      BY <1>1, <3>1, <3>2, <3>3, <3>4, ItemTaken
  <2>12. Arrays' /\ Counted' /\ Last'
    BY <1>1, <2>2, ArraysStay, CountStays, LastStays
  <2>13. QED
    BY <2>2, <2>7, <2>9, <2>10, <2>11, <2>12
<1>5. QED
  BY <1>3, <1>4

-----------------------------------------------------------------------------
(* An item is run and counted.                                             *)
LEMMA Numbers ==
  ASSUME IInv
  PROVE  /\ IsFiniteSet(Open) /\ IsFiniteSet(Joining)
         /\ Cardinality(Open) \in Nat /\ Cardinality(Joining) \in Nat
         /\ Open # {} \/ Joining # {} => join_count > 0
         /\ join_count = 0 => Open = {} /\ Joining = {}
<1>1. IsFiniteSet(Open) /\ IsFiniteSet(Joining)
  BY Sizes, FS_Subset DEF Open, Joining
<1>2. /\ Cardinality(Open) \in Nat /\ Cardinality(Joining) \in Nat
      /\ Cardinality(Open) = 0 <=> Open = {}
      /\ Cardinality(Joining) = 0 <=> Joining = {}
  BY <1>1, FS_CardinalityType, FS_EmptySet
<1>3. QED
  BY <1>1, <1>2 DEF IInv, Counted

(* Steps after an item was had: the deques are left alone.                 *)
LEMMA DequesStay ==
  ASSUME IInv, NEW id \in Thread,
         NEW from \in {"run", "join", "done_task"},
         NEW to \in {"join", "done_task", "take"},
         Step(id, from, to), UNCHANGED <<top, bottom, array, b, t, i>>,
         \A s \in Thread \ {id} : x'[s] = x[s]
  PROVE  /\ ~Starting /\ ~Starting' /\ Phases' /\ Arrays' /\ Indices' /\ Thieves'
         /\ pc[id] = from /\ \A s \in Thread : pc'[s] = IF s = id THEN to ELSE pc[s]
         /\ \A w \in Item : In(w)' <=> In(w)
<1>1. /\ ~Starting /\ ~Starting' /\ Phases' /\ pc[id] = from
      /\ \A s \in Thread : pc'[s] = IF s = id THEN to ELSE pc[s]
  BY Working
<1>2. \A q \in Thread : Bot(q)' = Bot(q)
  BY <1>1 DEF Bot, Lowered
<1>3. Arrays'
  BY <1>1, ArraysStay DEF IInv
<1>4. Indices'
  BY <1>1, <1>2 DEF IInv, Indices, Lowered
<1>5. Thieves'
  BY <1>1, <1>2 DEF IInv, Thieves
<1>6. \A w \in Item : In(w)' <=> In(w)
  BY <1>2, Places DEF In
<1>7. QED
  BY <1>1, <1>3, <1>4, <1>5, <1>6

LEMMA Runs ==
  ASSUME IInv, NEW id \in Thread, run(id)
  PROVE  IInv'
<1> USE DEF IInv
<1>1. pc[id] = "run" /\ ~Starting /\ runs \in [Item -> Nat] /\ x \in [Thread -> Item \cup {EMPTY}]
  BY DEF run, Step, Starting, TypeOK
<1>2. PICK w0 \in Item : w0 = x[id]
  BY <1>1 DEF Items
<1>3. /\ Step(id, "run", "join") /\ UNCHANGED <<top, bottom, array, join_count, done, b, t, i>>
      /\ runs' = [runs EXCEPT ![w0] = runs[w0] + 1] /\ x' = [x EXCEPT ![id] = EMPTY]
      /\ freed' = freed \cup {w0}
  BY <1>2 DEF run, dequeVars, Set
<1>4. /\ ~Starting' /\ Phases' /\ Arrays' /\ Indices' /\ Thieves'
      /\ \A s \in Thread : pc'[s] = IF s = id THEN "join" ELSE pc[s]
      /\ \A w \in Item : In(w)' <=> In(w)
  <2>1. \A s \in Thread \ {id} : x'[s] = x[s]
    BY <1>1, <1>3
  <2>2. QED
    BY <1>3, <2>1, DequesStay
<1>5. runs[w0] = 0 /\ ~In(w0) /\ \A s \in Thread : Holds(s, w0) <=> s = id
  <2>1. Holds(id, w0)
    BY <1>1, <1>2 DEF Holds
  <2>2. QED
    BY <2>1, <1>1 DEF Items
<1>6. TypeOK'
  <2>1. /\ runs' \in [Item -> Nat] /\ x' \in [Thread -> Item \cup {EMPTY}]
        /\ freed' \subseteq Item \cup {DONE_WORK}
    BY <1>1, <1>3 DEF TypeOK
  <2>2. QED
    BY <1>3, <2>1 DEF TypeOK, Step
<1>7. Items'
  <2>1. ASSUME NEW s \in Thread, NEW w \in Item
        PROVE  Holds(s, w)' <=> Holds(s, w) /\ s # id
    BY <1>1, <1>3, <1>4 DEF Holds
  <2>2. \A w \in Item : Holds(id, w) <=> w = w0
    BY <1>1, <1>2 DEF Holds
  <2>3. \A s \in Thread : pc'[s] = "run" => x'[s] \in Item
    BY <1>1, <1>3, <1>4 DEF Items
  <2>4. \A w \in Item : \A p, s \in Thread : Holds(p, w)' /\ Holds(s, w)' => p = s
    BY <2>1 DEF Items
  <2>5. ASSUME NEW w \in Item
        PROVE  /\ runs'[w] \in {0, 1}
               /\ In(w)' \/ (\E s \in Thread : Holds(s, w)') => runs'[w] = 0
               /\ In(w)' => \A s \in Thread : ~Holds(s, w)'
               /\ runs'[w] = 0 => In(w)' \/ \E s \in Thread : Holds(s, w)'
    <3>1. CASE w = w0
      <4>1. runs'[w] = 1 /\ ~In(w)' /\ \A s \in Thread : ~Holds(s, w)'
        BY <3>1, <2>1, <1>1, <1>3, <1>4, <1>5
      <4>2. QED
        BY <4>1
    <3>2. CASE w # w0
      <4>1. runs'[w] = runs[w] /\ (In(w)' <=> In(w)) /\ \A s \in Thread : Holds(s, w)' <=> Holds(s, w)
        BY <3>2, <2>1, <2>2, <1>1, <1>3, <1>4
      <4>2. QED
        BY <4>1, <1>1 DEF Items
    <3>3. QED
      BY <3>1, <3>2
  <2>6. QED
    BY <2>3, <2>4, <2>5 DEF Items
<1>8. Counted'
  <2>1. Open' = Open \ {w0} /\ w0 \in Open
    <3>1. \A w \in Item : runs'[w] = IF w = w0 THEN 1 ELSE runs[w]
      BY <1>1, <1>3, <1>5
    <3>2. QED
      BY <3>1, <1>5 DEF Open
  <2>2. Joining' = Joining \cup {id} /\ id \notin Joining
    BY <1>1, <1>4 DEF Joining
  <2>3. Cardinality(Open') = Cardinality(Open) - 1
    BY <2>1, Numbers, FS_RemoveElement
  <2>4. Cardinality(Joining') = Cardinality(Joining) + 1
    BY <2>2, Numbers, FS_AddElement
  <2>5. QED
    BY <2>3, <2>4, <1>3, Numbers DEF Counted
<1>9. Last'
  BY <1>1, <1>3, <1>4 DEF Last
<1>10. QED
  BY <1>4, <1>6, <1>7, <1>8, <1>9

LEMMA Joins ==
  ASSUME IInv, NEW id \in Thread, join_work(id)
  PROVE  IInv'
<1> USE DEF IInv
<1> DEFINE to == IF join_count = 1 THEN "done_task" ELSE "take"
<1>1. /\ Step(id, "join", to) /\ join_count' = join_count - 1
      /\ UNCHANGED <<top, bottom, array, freed, done, runs, b, t, x, i>>
      /\ join_count \in 0 .. TOTAL /\ TOTAL \in Nat
  BY Sizes DEF join_work, dequeVars, TypeOK, TOTAL
<1>2. /\ ~Starting' /\ Phases' /\ Arrays' /\ Indices' /\ Thieves'
      /\ pc[id] = "join" /\ \A s \in Thread : pc'[s] = IF s = id THEN to ELSE pc[s]
      /\ \A w \in Item : In(w)' <=> In(w)
  BY <1>1, DequesStay
<1>3. join_count > 0 /\ join_count' \in 0 .. TOTAL
  <2>1. Joining # {}
    BY <1>2 DEF Joining
  <2>2. QED
    BY <2>1, <1>1, Numbers
<1>4. TypeOK'
  BY <1>1, <1>3 DEF TypeOK, Step, TOTAL
<1>5. Items'
  <2>1. \A s \in Thread : \A w \in Item : Holds(s, w)' <=> Holds(s, w)
    BY <1>1, <1>2 DEF Holds
  <2>2. \A s \in Thread : pc'[s] = "run" => x'[s] \in Item
    BY <1>1, <1>2 DEF Items
  <2>3. ~Starting
    BY <1>2 DEF Starting
  <2>4. QED
    BY <1>1, <1>2, <2>1, <2>2, <2>3, ItemsStay
<1>6. Counted'
  <2>1. Open' = Open
    BY <1>1 DEF Open
  <2>2. Joining' = Joining \ {id} /\ id \in Joining
    BY <1>2 DEF Joining
  <2>3. Cardinality(Joining') = Cardinality(Joining) - 1
    BY <2>2, Numbers, FS_RemoveElement
  <2>4. QED
    BY <2>1, <2>3, <1>1, Numbers DEF Counted
<1>7. Last'
  BY <1>1, <1>2, <1>3 DEF Last
<1>8. QED
  BY <1>2, <1>4, <1>5, <1>6, <1>7

LEMMA Finishes ==
  ASSUME IInv, NEW id \in Thread, done_task(id)
  PROVE  IInv'
<1> USE DEF IInv
<1>1. /\ Step(id, "done_task", "take")
      /\ freed' = freed \cup {DONE_WORK} /\ done' = TRUE
      /\ UNCHANGED <<top, bottom, array, join_count, runs, b, t, x, i>>
  BY DEF done_task, dequeVars
<1>2. /\ ~Starting /\ ~Starting' /\ Phases' /\ Arrays' /\ Indices' /\ Thieves'
      /\ pc[id] = "done_task" /\ \A s \in Thread : pc'[s] = IF s = id THEN "take" ELSE pc[s]
      /\ \A w \in Item : In(w)' <=> In(w)
  BY <1>1, DequesStay
<1>3. TypeOK'
  BY <1>1 DEF TypeOK, Step
<1>4. Items'
  <2>1. \A s \in Thread : \A w \in Item : Holds(s, w)' <=> Holds(s, w)
    BY <1>1, <1>2 DEF Holds
  <2>2. \A s \in Thread : pc'[s] = "run" => x'[s] \in Item
    BY <1>1, <1>2 DEF Items
  <2>3. QED
    BY <1>1, <1>2, <2>1, <2>2, ItemsStay
<1>5. Counted'
  BY <1>1, <1>2, CountStays
<1>6. Last'
  BY <1>1, <1>2 DEF Last
<1>7. QED
  BY <1>2, <1>3, <1>4, <1>5, <1>6

-----------------------------------------------------------------------------
(* The inductive invariant: what the four indices of a deque say of each   *)
(* other at every access of its owner and of its thieves, where each item  *)
(* is, and what join_count counts.                                         *)
THEOREM Invariance == Spec => []IInv
<1>1. IInv /\ [Next]_vars => IInv'
  <2> SUFFICES ASSUME IInv, [Next]_vars PROVE IInv'
    OBVIOUS
  <2>1. CASE main_push \/ main_create
    BY <2>1, Pushes, Starts
  <2>2. ASSUME NEW id \in Thread, thread(id)
        PROVE  IInv'
    BY <2>2, TakeSteps, TakeTop, TakeCas, Looks, StealCas, Runs, Joins, Finishes DEF thread
  <2>3. CASE UNCHANGED vars
    <3>1. UNCHANGED <<top, bottom, array, join_count, freed, done, runs, pc, b, t, x, i>>
      BY <2>3 DEF vars, dequeVars
    <3>2. TypeOK' /\ Phases'
      BY <3>1 DEF IInv, TypeOK, Phases, Starting
    <3>3. Arrays' /\ Indices'
      BY <3>1 DEF IInv, Starting, Arrays, Pushed, Indices, Bot
    <3>4. Thieves' /\ Items' /\ Counted' /\ Last'
      BY <3>1 DEF IInv, Thieves, Bot, Items, Holds, In, Starting, Counted, Open, Joining, Last
    <3>5. QED
      BY <3>2, <3>3, <3>4 DEF IInv
  <2>4. QED
    BY <2>1, <2>2, <2>3 DEF Next
<1>2. QED
  BY <1>1, Initial, PTL DEF Spec

(* Type correctness; the indices never wrap around.                        *)
THEOREM TypesKept == Spec => []TypeOK
<1>1. IInv => TypeOK
  BY DEF IInv
<1>2. QED
  BY Invariance, <1>1, PTL

(* Whatever the owners and the thieves interleave, every item is run once, *)
(* and none is lost.                                                       *)
THEOREM ExactlyOnce == Spec => []ItemsExact
<1>1. IInv => ItemsExact
  <2> SUFFICES ASSUME IInv PROVE ItemsExact
    OBVIOUS
  <2>1. ASSUME NEW id \in Thread, pc[id] = "run"
        PROVE  x[id] \in Item /\ runs[x[id]] = 0 /\ \A p \in Thread \ {id} : ~Holds(p, x[id])
    <3>1. PICK w \in Item : w = x[id]
      BY <2>1 DEF IInv, Items
    <3>2. Holds(id, w) /\ ~Starting
      BY <2>1, <3>1 DEF Holds, Starting
    <3>3. runs[w] = 0 /\ \A p \in Thread \ {id} : ~Holds(p, w)
      BY <3>2 DEF IInv, Items
    <3>4. QED
      BY <3>1, <3>3
  <2>2. ASSUME NEW w \in Item, ~Starting, runs[w] = 0, \A id \in Thread : ~Holds(id, w)
        PROVE  InItsDeque(w)
    <3>1. PICK q \in Thread : q = w[1]
      BY Places
    <3>2. PICK n \in 0 .. NPRINTS - 1 : n = w[2] - 1 /\ w = <<q, n + 1>>
      <4>1. w[2] \in 1 .. NPRINTS /\ w = <<w[1], w[2]>>
        BY Places
      <4>2. w[2] - 1 \in 0 .. NPRINTS - 1 /\ w[2] = (w[2] - 1) + 1
        BY <4>1
      <4>3. QED
        BY <3>1, <4>1, <4>2
    <3>3. Slot(array[q], n) = w
      BY <2>2, <3>2, SlotOf
    <3>4. /\ top[q] < n + 1 /\ n + 1 <= Bot(q)
      <4>1. In(w)
        BY <2>2 DEF IInv, Items
      <4>2. w[1] = q /\ w[2] = n + 1
        BY <3>2
      <4>3. QED
        BY <4>1, <4>2 DEF In
    <3>5. /\ top[q] \in Int /\ bottom[q] \in Int
          /\ pc[q] \in Lowered => b[q] = bottom[q]
          /\ pc[q] = "take_restore" => top[q] = Bot(q)
      BY <2>2 DEF IInv, TypeOK, Indices
    <3>6. top[q] <= n
      BY <3>4, <3>5
    <3>7. n < bottom[q] \/ Taking(q, n)
      BY <3>4, <3>5, <3>6 DEF Bot, Lowered, Taking
    <3>8. QED
      BY <3>1, <3>2, <3>3, <3>6, <3>7 DEF InItsDeque
  <2>3. QED
    BY <2>1, <2>2 DEF ItemsExact
<1>2. QED
  BY Invariance, <1>1, PTL

(* The continuation is there until the last item is counted, it is         *)
(* released once, and `done' is set after all items were run.              *)
THEOREM RunsLast == Spec => []ContinuationLast
<1>1. IInv => ContinuationLast
  <2> SUFFICES ASSUME IInv PROVE ContinuationLast
    OBVIOUS
  <2>1. ASSUME NEW id \in Thread, pc[id] \in {"run", "join", "done_task"}
        PROVE  DONE_WORK \notin freed
    <3>1. CASE pc[id] = "run"
      <4>1. PICK w \in Item : Holds(id, w)
        BY <3>1 DEF IInv, Items, Holds
      <4>2. w \in Open
        BY <3>1, <4>1 DEF IInv, Items, Open, Starting
      <4>3. QED
        BY <4>2, Numbers DEF IInv, Last
    <3>2. CASE pc[id] = "join"
      <4>1. id \in Joining
        BY <3>2 DEF Joining
      <4>2. QED
        BY <4>1, Numbers DEF IInv, Last
    <3>3. CASE pc[id] = "done_task"
      BY <3>3 DEF IInv, Last
    <3>4. QED
      BY <2>1, <3>1, <3>2, <3>3
  <2>2. ASSUME done, NEW w \in Item
        PROVE  runs[w] = 1
    <3>1. ~Starting /\ join_count = 0
      BY <2>2 DEF IInv, Phases, Last
    <3>2. w \notin Open
      BY <3>1, Numbers
    <3>3. QED
      BY <3>1, <3>2 DEF Open, IInv, Items
  <2>3. QED
    BY <2>1, <2>2 DEF ContinuationLast
<1>2. QED
  BY Invariance, <1>1, PTL
=============================================================================
