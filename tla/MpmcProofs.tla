------------------------------ MODULE MpmcProofs ------------------------------
(***************************************************************************)
(* Proofs about the queue of Mpmc, for any number of producers, consumers  *)
(* and values, any size of a node and any threshold: no thread is on a     *)
(* released node, nodes are released once, no sleeper is left behind, and  *)
(* each value goes to the dequeue of its index.                            *)
(***************************************************************************)
EXTENDS Mpmc, FiniteSetTheorems, SequenceTheorems, TLAPS

(* Division with a remainder, and that it keeps the order.                 *)
LEMMA Division ==
  ASSUME NEW m \in Nat \ {0}, NEW n \in Nat
  PROVE  /\ n \div m \in Nat /\ n % m \in 0 .. m - 1
         /\ (n \div m) * m + (n % m) = n
OBVIOUS

LEMMA DivisionMonotone ==
  ASSUME NEW m \in Nat \ {0}, NEW n \in Nat, NEW k \in Nat, k <= n
  PROVE  k \div m <= n \div m
OBVIOUS

(* A thread is in the middle of an operation.                              *)
Active(t) == pc[t] \notin {"enqueue", "dequeue", "barrier"}

Enqueuing == {"enqueue", "find_cell", "put", "clear", "wake", "barrier"}
Collecting == {"gc_load", "gc_lock", "gc_scan", "gc_decide", "gc_unlock", "gc_free"}
Dequeuing == {"dequeue", "find_cell", "look", "sleep", "wait", "check", "return", "barrier"}
               \cup Collecting

(* A dequeue on its way to the cell, one that has left its futex there and *)
(* one that has got its value.                                             *)
Early(c) == pc[c] \in {"find_cell", "look", "sleep"}
Waiting(c) == pc[c] \in {"wait", "check"}
Late(c) == pc[c] \in {"return"} \cup Collecting

Threads ==
  /\ \A p \in Enqueuer : pc[p] \in Enqueuing
  /\ \A c \in Dequeuer : pc[c] \in Dequeuing
  /\ \A t \in Thread : count[t] = counts[t] <=> pc[t] = "barrier"

(* The indices that were taken are as many as the operations that began.   *)
HasBegun(w) == w[2] < count[w[1]] \/ (w[2] = count[w[1]] /\ Active(w[1]))
Begun(S) == {w \in Operations(S) : HasBegun(w)}

Tickets ==
  /\ put_index = Cardinality(Begun(Enqueuer))
  /\ pop_index = Cardinality(Begun(Dequeuer))

(* No two operations of one kind in progress have one index.               *)
Indices ==
  /\ Len(order) = put_index
  /\ \A n \in 1 .. put_index : order[n] \in Begun(Enqueuer)
  /\ \A p \in Enqueuer : Active(p) =>
       index[p] < put_index /\ order[index[p] + 1] = <<p, count[p]>>
  /\ \A c \in Dequeuer : Active(c) => index[c] < pop_index
  /\ \A c, d \in Dequeuer : Active(c) /\ Active(d) /\ index[c] = index[d] => c = d

(* A handle is at the node of the last index or, while its thread looks    *)
(* for the node of the next, before it.                                    *)
Ticket(t) == IF t \in Enqueuer THEN put_index ELSE pop_index

Walks ==
  \A t \in Thread :
    CASE pc[t] = "find_cell" -> handle[t] <= curr[t] /\ curr[t] <= index[t] \div N
      [] Active(t) /\ pc[t] # "find_cell" -> handle[t] = index[t] \div N
      [] OTHER -> handle[t] <= Ticket(t) \div N

(* What the cell of an index holds before its dequeue has come to it.      *)
Untouched(n) == n >= pop_index \/ \E c \in Dequeuer : Early(c) /\ index[c] = n

Cells ==
  /\ \A n \in 0 .. Places - 1 :
       Untouched(n) => cell[n] = IF ToCome(n) THEN NULL ELSE order[n + 1]
  /\ \A n \in 0 .. Places - 1 :
       ToCome(n) /\ n < pop_index =>
         \E c \in Dequeuer : (Early(c) \/ Waiting(c)) /\ index[c] = n

(* A dequeue that waits sees its futex, and then the value, in its cell.   *)
Waits ==
  \A c \in Dequeuer :
    /\ Early(c) => futex_addr[c] = 1
    /\ Waiting(c) /\ ToCome(index[c]) => cell[index[c]] = c /\ futex_addr[c] = 1
    /\ Waiting(c) /\ ~ToCome(index[c]) =>
         /\ cell[index[c]] = order[index[c] + 1]
         /\ \/ futex_addr[c] = 0
            \/ \E p \in Enqueuer : pc[p] = "clear" /\ cv[p] = c /\ index[p] = index[c]
    /\ Late(c) => ~ToCome(index[c]) /\ cv[c] = order[index[c] + 1]

Wakers ==
  \A p \in Enqueuer :
    /\ pc[p] = "clear" => FutexLives(p) /\ futex_addr[cv[p]] = 1
    /\ pc[p] = "wake" => cv[p] \in Dequeuer

Sleepers ==
  \A c \in Dequeuer :
    /\ waitq[c] \subseteq {c}
    /\ c \in waitq[c] =>
         /\ pc[c] = "check"
         /\ futex_addr[c] = 0 => \E p \in Enqueuer : pc[p] = "wake" /\ cv[p] = c

(* The thread that reclaims, its scan, and what is below init_node.        *)
Scanning(c) == pc[c] \in {"gc_scan", "gc_decide", "gc_unlock"}

Lock ==
  /\ \A c, d \in Dequeuer : Scanning(c) /\ Scanning(d) => c = d
  /\ init_id = -1 <=> \E c \in Dequeuer : Scanning(c)
  /\ init_id # -1 => init_id = init_node

Scan ==
  \A c \in Dequeuer :
    /\ pc[c] # "gc_scan" => i[c] = 1
    /\ pc[c] \in {"gc_scan", "gc_decide"} => init_index[c] = init_node /\ first[c] = init_node
    /\ pc[c] = "gc_scan" =>
         /\ i[c] > 1 => min_node[c] > init_index[c]
         /\ \A k \in 1 .. i[c] - 1 : min_node[c] <= handle[Handles[k]]
    /\ pc[c] = "gc_decide" /\ min_node[c] > init_index[c] =>
         \A t \in Thread : min_node[c] <= handle[t]
    /\ pc[c] = "gc_unlock" => min_node[c] = init_node
    /\ pc[c] \in {"gc_unlock", "gc_free"} => first[c] <= min_node[c]

Released ==
  /\ \A t \in Thread : init_node <= handle[t]
  /\ \A n \in Nat : n < init_node <=> n \in freed \/ \E c \in Dequeuer : n \in ToBeFreed(c)
  /\ \A c, d \in Dequeuer :
       /\ ToBeFreed(c) \cap freed = {}
       /\ c # d => ToBeFreed(c) \cap ToBeFreed(d) = {}

IInv ==
  /\ TypeOK /\ Threads /\ Tickets /\ Indices /\ Walks
  /\ Cells /\ Waits /\ Wakers /\ Sleepers /\ Lock /\ Scan /\ Released

-----------------------------------------------------------------------------
(* The constants.                                                          *)

LEMMA Constants ==
  /\ Thread = Enqueuer \cup Dequeuer /\ Enqueuer \cap Dequeuer = {} /\ Addr = Dequeuer
  /\ N \in Nat \ {0} /\ threshold \in Nat /\ counts \in [Thread -> Nat \ {0}]
BY MpmcAssumption

(* An operation is a pair of a thread and a number.                        *)
LEMMA OperationIs ==
  ASSUME NEW S \in SUBSET Thread
  PROVE  /\ \A t \in S : \A k \in 0 .. counts[t] - 1 : <<t, k>> \in Operations(S)
         /\ \A w \in Operations(S) :
              w[1] \in S /\ w[2] \in 0 .. counts[w[1]] - 1 /\ w = <<w[1], w[2]>>
BY DEF Operations

LEMMA OperationsFinite ==
  ASSUME NEW S \in SUBSET Thread, IsFiniteSet(S)
  PROVE  IsFiniteSet(Operations(S))
<1> DEFINE f == [t \in S |-> {t} \X (0 .. counts[t] - 1)]
<1> DEFINE Parts == {{t} \X (0 .. counts[t] - 1) : t \in S}
<1>1. f \in Surjection(S, Parts)
  BY DEF Surjection
<1>2. IsFiniteSet(Parts)
  BY <1>1, FS_Surjection
<1>3. ASSUME NEW T \in Parts PROVE IsFiniteSet(T)
  <2>1. PICK t \in S : T = {t} \X (0 .. counts[t] - 1)
    BY <1>3
  <2>2. counts[t] - 1 \in Int
    BY Constants
  <2>3. IsFiniteSet(0 .. counts[t] - 1)
    BY <2>2, FS_Interval
  <2>4. IsFiniteSet({t})
    BY FS_Singleton, Zenon
  <2>5. QED
    BY <2>1, <2>3, <2>4, FS_Product
<1>4. IsFiniteSet(UNION Parts)
  BY <1>2, <1>3, FS_UNION
<1>5. QED
  BY <1>4 DEF Operations

LEMMA HandlesFinite ==
  ASSUME NEW s \in Seq(Thread)
  PROVE  IsFiniteSet({s[n] : n \in DOMAIN s})
<1> DEFINE T == {s[n] : n \in DOMAIN s}
<1>1. Len(s) \in Nat /\ DOMAIN s = 1 .. Len(s) /\ s \in [1 .. Len(s) -> Thread]
  OBVIOUS
<1>2. s \in Surjection(DOMAIN s, T)
  BY <1>1 DEF Surjection
<1>3. IsFiniteSet(DOMAIN s)
  BY <1>1, FS_Interval
<1>4. IsFiniteSet(T)
  BY <1>2, <1>3, FS_Surjection
<1>5. QED
  BY <1>4

(* There are as many enqueues as dequeues, and there is a place for each.  *)
LEMMA Sizes ==
  /\ IsFiniteSet(Operations(Enqueuer)) /\ IsFiniteSet(Operations(Dequeuer))
  /\ Places \in Nat /\ Places = Cardinality(Operations(Enqueuer))
  /\ Places = Cardinality(Operations(Dequeuer))
  /\ Thread # {} => Places > 0
<1>1. IsFiniteSet(Enqueuer) /\ IsFiniteSet(Dequeuer)
  BY HandlesFinite, MpmcAssumption DEF Enqueuer, Dequeuer
<1>2. IsFiniteSet(Operations(Enqueuer)) /\ IsFiniteSet(Operations(Dequeuer))
  BY <1>1, OperationsFinite, Constants
<1>3. Places = Cardinality(Operations(Enqueuer)) /\ Places = Cardinality(Operations(Dequeuer))
  BY CountsAssumption DEF Places, Value
<1>4. Places \in Nat
  BY <1>2, <1>3, FS_CardinalityType
<1>5. ASSUME NEW t \in Thread PROVE Places > 0
  <2>1. 0 \in 0 .. counts[t] - 1
    BY Constants
  <2>2. PICK S \in {Enqueuer, Dequeuer} : t \in S
    BY Constants
  <2>3. S \in SUBSET Thread
    BY <2>2, Constants
  <2>4. <<t, 0>> \in Operations(S)
    BY <2>1, <2>2, <2>3, OperationIs
  <2>5. Operations(S) # {} /\ IsFiniteSet(Operations(S)) /\ Places = Cardinality(Operations(S))
    BY <1>2, <1>3, <2>2, <2>4
  <2>6. Places # 0
    BY <2>5, FS_EmptySet
  <2>7. QED
    BY <2>6, <1>4
<1>6. QED
  BY <1>2, <1>3, <1>4, <1>5

(* Every thread's handle is scanned.                                       *)
LEMMA Scanned ==
  /\ Len(Handles) \in Nat
  /\ \A k \in 1 .. Len(Handles) : Handles[k] \in Thread
  /\ \A t \in Thread : \E k \in 1 .. Len(Handles) : Handles[k] = t
<1> DEFINE e == enqueue_handles
           d == dequeue_handles
<1>1. /\ e \in Seq(Thread) /\ d \in Seq(Thread)
      /\ Len(e) \in Nat /\ Len(d) \in Nat
      /\ DOMAIN e = 1 .. Len(e) /\ DOMAIN d = 1 .. Len(d)
  BY MpmcAssumption
<1>2. /\ Handles \in Seq(Thread) /\ Len(Handles) = Len(d) + Len(e)
      /\ \A k \in 1 .. Len(d) : Handles[k] = d[k]
      /\ \A k \in 1 .. Len(e) : Handles[Len(d) + k] = e[k]
  BY <1>1 DEF Handles
<1>3. ASSUME NEW t \in Enqueuer PROVE \E k \in 1 .. Len(Handles) : Handles[k] = t
  <2>1. PICK k \in 1 .. Len(e) : e[k] = t
    BY <1>1 DEF Enqueuer
  <2>2. Len(d) + k \in 1 .. Len(Handles) /\ Handles[Len(d) + k] = t
    BY <1>1, <1>2, <2>1
  <2>3. QED
    BY <2>2
<1>4. ASSUME NEW t \in Dequeuer PROVE \E k \in 1 .. Len(Handles) : Handles[k] = t
  <2>1. PICK k \in 1 .. Len(d) : d[k] = t
    BY <1>1 DEF Dequeuer
  <2>2. k \in 1 .. Len(Handles) /\ Handles[k] = t
    BY <1>1, <1>2, <2>1
  <2>3. QED
    BY <2>2
<1>5. Len(Handles) \in Nat /\ \A k \in 1 .. Len(Handles) : Handles[k] \in Thread
  BY <1>2
<1>6. QED
  BY <1>3, <1>4, <1>5, Constants

(* The cell of an index is the one of that number.                         *)
LEMMA CellIs ==
  ASSUME TypeOK, NEW t \in Thread, handle[t] = index[t] \div N
  PROVE  Cell(t) = index[t]
<1>1. index[t] \in Nat /\ N \in Nat \ {0}
  BY Sizes, Constants DEF TypeOK
<1>2. (index[t] \div N) * N + (index[t] % N) = index[t]
  BY <1>1, Division
<1>3. QED
  BY <1>2 DEF Cell

-----------------------------------------------------------------------------
LEMMA Initial == Init => IInv
<1> SUFFICES ASSUME Init PROVE IInv
  OBVIOUS
<1> USE Constants, Sizes, Scanned DEF Init, FutexInit
<1>1. \A t \in Thread : 0 \in 0 .. Places - 1 /\ 1 \in 1 .. Len(Handles)
  <2>1. ASSUME NEW t \in Thread PROVE Len(Handles) >= 1
    <3>1. PICK k \in 1 .. Len(Handles) : Handles[k] = t
      OBVIOUS
    <3>2. QED
      BY <3>1
  <2>2. QED
    BY <2>1
<1>2. \A t \in Thread : pc[t] \in {"enqueue", "dequeue"} /\ ~Active(t) /\ ~Early(t)
                        /\ ~Waiting(t) /\ ~Late(t) /\ ~Scanning(t)
  BY DEF Active, Early, Waiting, Late, Scanning, Collecting
<1>3. TypeOK
  BY <1>1 DEF TypeOK
<1>4. Threads
  BY DEF Threads, Enqueuing, Dequeuing
<1>5. ASSUME NEW S \in SUBSET Thread PROVE Begun(S) = {}
  <2>1. ASSUME NEW w \in Operations(S) PROVE ~HasBegun(w)
    <3>1. PICK t \in Thread : t = w[1]
      BY OperationIs
    <3>2. w[2] \in 0 .. counts[t] - 1 /\ counts[t] \in Nat
      BY <3>1, OperationIs
    <3>3. count[t] = 0 /\ ~Active(t)
      BY <1>2
    <3>4. QED
      BY <3>1, <3>2, <3>3 DEF HasBegun
  <2>2. \A w \in Operations(S) : ~HasBegun(w)
    BY <2>1
  <2>3. QED
    BY <2>2 DEF Begun
<1>6. Tickets
  BY <1>5, FS_EmptySet DEF Tickets
<1>7. Indices
  <2>1. Len(order) = put_index /\ put_index = 0
    OBVIOUS
  <2>2. \A n \in 1 .. put_index : order[n] \in Begun(Enqueuer)
    BY <2>1
  <2>3. QED
    BY <1>2, <2>1, <2>2 DEF Indices
<1>8. Walks
  <2>1. 0 \div N \in Nat
    BY Division
  <2>2. QED
    BY <1>2, <2>1 DEF Walks, Ticket
<1>9. \A n \in 0 .. Places - 1 : ToCome(n)
  BY DEF ToCome
<1>10. Cells
  BY <1>9 DEF Cells
<1>11. Waits /\ Wakers /\ Sleepers
  BY <1>2 DEF Waits, Wakers, Sleepers
<1>12. Lock /\ Scan
  <2>1. init_id = 0 /\ init_node = 0 /\ \A c \in Dequeuer : ~Scanning(c)
    BY <1>2
  <2>2. Lock
    BY <2>1 DEF Lock
  <2>3. \A c \in Dequeuer : pc[c] = "dequeue"
    OBVIOUS
  <2>4. Scan
    BY <2>3 DEF Scan
  <2>5. QED
    BY <2>2, <2>4
<1>13. Released
  <2>1. \A c \in Dequeuer : ToBeFreed(c) = {}
    BY <1>2 DEF ToBeFreed
  <2>2. QED
    BY <2>1 DEF Released
<1>14. QED
  BY <1>3, <1>4, <1>6, <1>7, <1>8, <1>10, <1>11, <1>12, <1>13 DEF IInv

-----------------------------------------------------------------------------
(* What every step leaves alone.                                           *)

Begins(t) == (t \in Enqueuer /\ enqueue(t)) \/ (t \in Dequeuer /\ dequeue(t))

GoesOn(t) ==
  \/ next_node(t) \/ found(t)
  \/ t \in Enqueuer /\ (put(t) \/ clear(t) \/ wake(t))
  \/ /\ t \in Dequeuer
     /\ \/ look(t) \/ sleep(t) \/ wait(t) \/ check(t) \/ return(t)
        \/ gc_load(t) \/ gc_lock(t) \/ gc_scan(t) \/ gc_decide(t) \/ gc_unlock(t) \/ gc_free(t)

LEMMA TwoKinds ==
  ASSUME NEW t \in Thread, ThreadStep(t)
  PROVE  Begins(t) \/ GoesOn(t)
BY DEF ThreadStep, producer, consumer, Begins, GoesOn

LEMMA Others ==
  ASSUME TypeOK, NEW t \in Thread, ThreadStep(t), NEW s \in Thread, s # t
  PROVE  /\ pc'[s] = pc[s] /\ count'[s] = count[s] /\ index'[s] = index[s]
         /\ curr'[s] = curr[s] /\ cv'[s] = cv[s] /\ handle'[s] = handle[s]
         /\ s \in Dequeuer => /\ init_index'[s] = init_index[s] /\ first'[s] = first[s]
                              /\ min_node'[s] = min_node[s] /\ i'[s] = i[s]
<1> USE DEF TypeOK, Step, Set, indexVars, listVars, scanVars, reclaimVars, dequeueLocals
<1>1. CASE next_node(t) \/ found(t)
  BY <1>1 DEF next_node, found
<1>2. CASE enqueue(t) \/ put(t) \/ clear(t) \/ wake(t)
  BY <1>2 DEF enqueue, put, clear, wake, Over
<1>3. CASE dequeue(t) \/ look(t) \/ sleep(t) \/ wait(t) \/ check(t)
  BY <1>3 DEF dequeue, look, sleep, wait, check
<1>4. CASE return(t) \/ gc_load(t) \/ gc_lock(t) \/ gc_scan(t)
  <2>1. CASE return(t)
    BY <2>1 DEF return, Over
  <2>2. CASE gc_load(t)
    BY <2>2 DEF gc_load
  <2>3. CASE gc_lock(t)
    BY <2>3 DEF gc_lock, ForgetScan
  <2>4. CASE gc_scan(t)
    BY <2>4 DEF gc_scan
  <2>5. QED
    BY <1>4, <2>1, <2>2, <2>3, <2>4
<1>5. CASE gc_decide(t) \/ gc_unlock(t) \/ gc_free(t)
  BY <1>5 DEF gc_decide, gc_unlock, gc_free, ForgetScan
<1>6. QED
  BY <1>1, <1>2, <1>3, <1>4, <1>5 DEF ThreadStep, producer, consumer

LEMMA ThreadsKept ==
  ASSUME Threads, NEW t \in Thread,
         \A s \in Thread : s # t => pc'[s] = pc[s] /\ count'[s] = count[s],
         t \in Enqueuer => pc'[t] \in Enqueuing, t \in Dequeuer => pc'[t] \in Dequeuing,
         count'[t] = counts[t] <=> pc'[t] = "barrier"
  PROVE  Threads'
<1>1. \A s \in Thread : (count'[s] = counts[s]) <=> (pc'[s] = "barrier")
  BY DEF Threads
<1>2. \A p \in Enqueuer : pc'[p] \in Enqueuing
  BY Constants DEF Threads
<1>3. \A c \in Dequeuer : pc'[c] \in Dequeuing
  BY Constants DEF Threads
<1>4. QED
  BY <1>1, <1>2, <1>3 DEF Threads, Enqueuing, Dequeuing, Collecting

(* A step within an operation takes no index and begins nothing.           *)
LEMMA GoesOnKeeps ==
  ASSUME TypeOK, Threads, NEW t \in Thread, ThreadStep(t), GoesOn(t)
  PROVE  /\ put_index' = put_index /\ pop_index' = pop_index /\ order' = order
         /\ index' = index /\ Threads' /\ Active(t)
         /\ Active(t)' => count'[t] = count[t]
         /\ ~Active(t)' => count'[t] = count[t] + 1
<1> USE DEF Step, Set, indexVars, listVars, scanVars, reclaimVars, dequeueLocals
<1>1. \A s \in Thread : s # t => pc'[s] = pc[s] /\ count'[s] = count[s]
  BY Others
<1>2. /\ count \in [Thread -> Nat] /\ DOMAIN pc = Thread /\ counts[t] \in Nat
      /\ t \in Enqueuer <=> t \notin Dequeuer
      /\ count[t] = counts[t] <=> pc[t] = "barrier"
  BY Constants DEF TypeOK, Threads
<1>3. CASE next_node(t) \/ found(t)
  <2>1. /\ count' = count /\ pc[t] = "find_cell"
        /\ pc'[t] = "find_cell" \/ pc'[t] = (IF t \in Enqueuer THEN "put" ELSE "look")
        /\ put_index' = put_index /\ pop_index' = pop_index /\ order' = order /\ index' = index
    BY <1>2, <1>3 DEF next_node, found
  <2>2. /\ t \in Enqueuer => pc'[t] \in Enqueuing
        /\ t \in Dequeuer => pc'[t] \in Dequeuing
        /\ count'[t] = counts[t] <=> pc'[t] = "barrier"
    BY <1>2, <2>1 DEF Enqueuing, Dequeuing
  <2>3. Threads'
    BY <1>1, <2>2, ThreadsKept
  <2>4. QED
    BY <2>1, <2>3 DEF Active
<1>4. CASE t \in Enqueuer /\ (put(t) \/ clear(t) \/ wake(t))
  <2>1. /\ pc[t] \in {"put", "clear", "wake"}
        /\ \/ pc'[t] \in {"clear", "wake"} /\ count' = count
           \/ /\ pc'[t] = (IF count[t] + 1 = counts[t] THEN "barrier" ELSE "enqueue")
              /\ count' = [count EXCEPT ![t] = count[t] + 1]
    BY <1>2, <1>4 DEF put, clear, wake, Over
  <2>2. put_index' = put_index /\ pop_index' = pop_index /\ order' = order /\ index' = index
    BY <1>4 DEF put, clear, wake
  <2>3. /\ pc'[t] \in Enqueuing
        /\ count'[t] = counts[t] <=> pc'[t] = "barrier"
    BY <1>2, <2>1 DEF Enqueuing
  <2>4. Threads'
    BY <1>1, <1>2, <1>4, <2>3, ThreadsKept
  <2>5. QED
    BY <1>2, <2>1, <2>2, <2>4 DEF Active
<1>5. CASE t \in Dequeuer /\ return(t)
  <2>1. /\ pc[t] = "return"
        /\ pc'[t] = (IF count[t] + 1 = counts[t] THEN "barrier" ELSE "dequeue")
        /\ count' = [count EXCEPT ![t] = count[t] + 1]
        /\ put_index' = put_index /\ pop_index' = pop_index /\ order' = order /\ index' = index
    BY <1>2, <1>5 DEF return, Over
  <2>2. /\ pc'[t] \in Dequeuing
        /\ count'[t] = counts[t] <=> pc'[t] = "barrier"
    BY <1>2, <2>1 DEF Dequeuing
  <2>3. Threads'
    BY <1>1, <1>2, <1>5, <2>2, ThreadsKept
  <2>4. QED
    BY <1>2, <2>1, <2>3 DEF Active
<1>6. ASSUME t \in Dequeuer,
             \/ look(t) \/ sleep(t) \/ wait(t) \/ check(t) \/ gc_load(t) \/ gc_lock(t)
             \/ gc_scan(t) \/ gc_decide(t) \/ gc_unlock(t) \/ gc_free(t)
      PROVE  /\ Threads' /\ put_index' = put_index /\ pop_index' = pop_index
             /\ order' = order /\ index' = index /\ Active(t) /\ Active(t)' /\ count' = count
  <2>1. /\ pc[t] \in {"look", "sleep", "wait", "check"} \cup Collecting
        /\ pc'[t] \in {"return", "wait", "check", "sleep"} \cup Collecting /\ count' = count
        /\ put_index' = put_index /\ pop_index' = pop_index /\ order' = order /\ index' = index
    <3>1. CASE look(t) \/ sleep(t) \/ wait(t) \/ check(t)
      BY <1>2, <3>1 DEF look, sleep, wait, check, AfterOver, Collecting
    <3>2. CASE gc_load(t) \/ gc_lock(t) \/ gc_scan(t) \/ gc_decide(t) \/ gc_unlock(t) \/ gc_free(t)
      BY <1>2, <3>2 DEF gc_load, gc_lock, gc_scan, gc_decide, gc_unlock, gc_free, Collecting
    <3>3. QED
      BY <1>6, <3>1, <3>2
  <2>2. /\ pc'[t] \in Dequeuing
        /\ count'[t] = counts[t] <=> pc'[t] = "barrier"
    BY <1>2, <2>1 DEF Dequeuing, Collecting
  <2>3. Threads'
    BY <1>1, <1>2, <1>6, <2>2, ThreadsKept
  <2>4. QED
    BY <2>1, <2>3 DEF Active, Collecting
<1>7. QED
  BY <1>3, <1>4, <1>5, <1>6 DEF GoesOn

-----------------------------------------------------------------------------
(* The indices.                                                            *)

LEMMA BegunKept ==
  ASSUME TypeOK, Threads, NEW t \in Thread, ThreadStep(t), GoesOn(t), NEW S \in SUBSET Thread
  PROVE  Begun(S)' = Begun(S)
<1>1. ASSUME NEW s \in Thread, NEW k \in Nat
      PROVE  HasBegun(<<s, k>>)' <=> HasBegun(<<s, k>>)
  <2>1. count[s] \in Nat
    BY DEF TypeOK
  <2>2. CASE s = t
    BY <2>1, <2>2, GoesOnKeeps DEF HasBegun
  <2>3. CASE s # t
    <3>1. pc'[s] = pc[s] /\ count'[s] = count[s]
      BY <2>3, Others
    <3>2. QED
      BY <3>1 DEF HasBegun, Active
  <2>4. QED
    BY <2>2, <2>3
<1>2. ASSUME NEW w \in Operations(S) PROVE HasBegun(w)' <=> HasBegun(w)
  <2>1. PICK s \in Thread, k \in Nat : w = <<s, k>>
    <3>1. PICK s \in Thread : s = w[1] /\ w[2] \in 0 .. counts[s] - 1 /\ w = <<s, w[2]>>
      BY OperationIs
    <3>2. counts[s] \in Nat
      BY Constants
    <3>3. QED
      BY <3>1, <3>2
  <2>2. QED
    BY <1>1, <2>1
<1>3. QED
  BY <1>2 DEF Begun

(* An operation that begins has not begun before; so there is an index.    *)
LEMMA Beginning ==
  ASSUME TypeOK, Threads, NEW S \in SUBSET Thread, NEW t \in S, ~Active(t),
         pc[t] # "barrier", IsFiniteSet(Operations(S))
  PROVE  /\ <<t, count[t]>> \in Operations(S) /\ <<t, count[t]>> \notin Begun(S)
         /\ Cardinality(Begun(S)) < Cardinality(Operations(S))
<1>1. count[t] \in 0 .. counts[t] - 1
  BY Constants DEF TypeOK, Threads
<1>2. <<t, count[t]>> \in Operations(S)
  BY <1>1, OperationIs
<1>3. ~HasBegun(<<t, count[t]>>)
  BY <1>1 DEF HasBegun
<1>4. <<t, count[t]>> \notin Begun(S)
  BY <1>3 DEF Begun
<1>5. Begun(S) \subseteq Operations(S)
  BY DEF Begun
<1>6. /\ Cardinality(Begun(S)) <= Cardinality(Operations(S))
      /\ Cardinality(Operations(S)) = Cardinality(Begun(S)) => Operations(S) = Begun(S)
      /\ IsFiniteSet(Begun(S))
  BY <1>5, FS_Subset
<1>7. Cardinality(Begun(S)) \in Nat /\ Cardinality(Operations(S)) \in Nat
  BY <1>6, FS_CardinalityType
<1>8. Cardinality(Begun(S)) # Cardinality(Operations(S))
  BY <1>2, <1>4, <1>6
<1>9. QED
  BY <1>2, <1>4, <1>6, <1>7, <1>8

LEMMA BegunBy ==
  ASSUME TypeOK, Threads, NEW S \in SUBSET Thread, NEW t \in Thread, ~Active(t),
         pc[t] # "barrier", IsFiniteSet(Operations(S)), pc'[t] = "find_cell", count' = count,
         \A s \in Thread : s # t => pc'[s] = pc[s]
  PROVE  /\ t \in S => /\ Begun(S)' = Begun(S) \cup {<<t, count[t]>>}
                       /\ Cardinality(Begun(S)') = Cardinality(Begun(S)) + 1
         /\ t \notin S => Begun(S)' = Begun(S)
<1>1. ASSUME NEW s \in Thread, NEW k \in Nat
      PROVE  HasBegun(<<s, k>>)' <=> HasBegun(<<s, k>>) \/ <<s, k>> = <<t, count[t]>>
  <2>1. count[s] \in Nat
    BY DEF TypeOK
  <2>2. CASE s = t
    BY <2>1, <2>2 DEF HasBegun, Active
  <2>3. CASE s # t
    BY <2>1, <2>3 DEF HasBegun, Active
  <2>4. QED
    BY <2>2, <2>3
<1>2. ASSUME NEW w \in Operations(S)
      PROVE  /\ HasBegun(w)' <=> HasBegun(w) \/ w = <<t, count[t]>>
             /\ w[1] \in S
  <2>1. PICK s \in S, k \in Nat : w = <<s, k>>
    <3>1. PICK s \in S : s = w[1] /\ w[2] \in 0 .. counts[s] - 1 /\ w = <<s, w[2]>>
      BY OperationIs
    <3>2. counts[s] \in Nat
      BY Constants
    <3>3. QED
      BY <3>1, <3>2
  <2>2. QED
    BY <1>1, <2>1
<1>3. ASSUME t \notin S PROVE Begun(S)' = Begun(S)
  <2>1. \A w \in Operations(S) : w # <<t, count[t]>>
    BY <1>2, <1>3
  <2>2. QED
    BY <1>2, <2>1 DEF Begun
<1>4. ASSUME t \in S
      PROVE  /\ Begun(S)' = Begun(S) \cup {<<t, count[t]>>}
             /\ Cardinality(Begun(S)') = Cardinality(Begun(S)) + 1
  <2>1. <<t, count[t]>> \in Operations(S) /\ <<t, count[t]>> \notin Begun(S)
    BY <1>4, Beginning
  <2>2. Begun(S)' = Begun(S) \cup {<<t, count[t]>>}
    BY <1>2, <2>1 DEF Begun
  <2>3. IsFiniteSet(Begun(S))
    BY FS_Subset DEF Begun
  <2>4. QED
    BY <2>1, <2>2, <2>3, FS_AddElement
<1>5. QED
  BY <1>3, <1>4

(* Before a step: the indices are in range.                                *)
LEMMA IndexBounds ==
  ASSUME TypeOK, Threads, Tickets, NEW t \in Thread, ThreadStep(t)
  PROVE  /\ put_index \in 0 .. Places /\ pop_index \in 0 .. Places
         /\ t \in Enqueuer /\ enqueue(t) => put_index < Places
         /\ t \in Dequeuer /\ dequeue(t) => pop_index < Places
<1>1. put_index \in 0 .. Places /\ pop_index \in 0 .. Places
  BY DEF TypeOK
<1>2. ASSUME t \in Enqueuer, enqueue(t) PROVE put_index < Places
  <2>1. ~Active(t) /\ pc[t] # "barrier"
    BY <1>2 DEF enqueue, Step, Active
  <2>2. QED
    BY <1>2, <2>1, Beginning, Sizes, Constants DEF Tickets
<1>3. ASSUME t \in Dequeuer, dequeue(t) PROVE pop_index < Places
  <2>1. ~Active(t) /\ pc[t] # "barrier"
    BY <1>3 DEF dequeue, Step, Active
  <2>2. QED
    BY <1>3, <2>1, Beginning, Sizes, Constants DEF Tickets
<1>4. QED
  BY <1>1, <1>2, <1>3

LEMMA EnqueueKeeps ==
  ASSUME TypeOK, Threads, Tickets, Indices, NEW t \in Enqueuer, enqueue(t), ThreadStep(t)
  PROVE  /\ Threads' /\ Tickets' /\ Indices'
         /\ put_index' = put_index + 1 /\ pop_index' = pop_index /\ put_index < Places
         /\ order' \in Seq(Value) /\ order'[put_index + 1] = <<t, count[t]>>
         /\ \A n \in 1 .. put_index : order'[n] = order[n] /\ order[n] # <<t, count[t]>>
<1> USE DEF Step, Set, indexVars
<1>1. /\ \A s \in Thread : s # t => pc'[s] = pc[s] /\ count'[s] = count[s] /\ index'[s] = index[s]
      /\ t \in Thread /\ t \notin Dequeuer
  BY Others, Constants
<1>2. /\ pc[t] = "enqueue" /\ pc'[t] = "find_cell" /\ count' = count
      /\ put_index' = put_index + 1 /\ pop_index' = pop_index
      /\ order' = Append(order, <<t, count[t]>>) /\ index'[t] = put_index
  BY <1>1 DEF enqueue, TypeOK
<1>3. put_index \in Nat /\ put_index < Places /\ order \in Seq(Value) /\ Len(order) = put_index
  <2>1. put_index < Places
    BY <1>1, IndexBounds
  <2>2. QED
    BY <2>1, Sizes DEF TypeOK, Indices
<1>4. Threads'
  <2>1. pc'[t] \in Enqueuing /\ (count'[t] = counts[t] <=> pc'[t] = "barrier")
    BY <1>1, <1>2 DEF Enqueuing, Threads
  <2>2. QED
    BY <1>1, <2>1, ThreadsKept
<1>5. ~Active(t) /\ pc[t] # "barrier" /\ Active(t)'
  BY <1>2 DEF Active
<1>6. /\ <<t, count[t]>> \in Value /\ <<t, count[t]>> \notin Begun(Enqueuer)
      /\ Begun(Enqueuer)' = Begun(Enqueuer) \cup {<<t, count[t]>>}
      /\ Cardinality(Begun(Enqueuer)') = Cardinality(Begun(Enqueuer)) + 1
      /\ Begun(Dequeuer)' = Begun(Dequeuer)
  BY <1>1, <1>2, <1>5, Beginning, BegunBy, Sizes, Constants DEF Value
<1>7. Tickets'
  BY <1>2, <1>6 DEF Tickets
<1>8. /\ order' \in Seq(Value) /\ Len(order') = put_index + 1
      /\ \A n \in 1 .. put_index : order'[n] = order[n]
      /\ order'[put_index + 1] = <<t, count[t]>>
  BY <1>2, <1>3, <1>6, AppendProperties
<1>9. \A n \in 1 .. put_index : order[n] # <<t, count[t]>>
  BY <1>6 DEF Indices
<1>10. \A n \in 1 .. put_index' : order'[n] \in Begun(Enqueuer)'
  <2>1. ASSUME NEW n \in 1 .. put_index' PROVE order'[n] \in Begun(Enqueuer)'
    <3>1. n \in 1 .. put_index \/ n = put_index + 1
      BY <1>2, <1>3
    <3>2. QED
      BY <1>6, <1>8, <3>1 DEF Indices
  <2>2. QED
    BY <2>1
<1>11. ASSUME NEW p \in Enqueuer, Active(p)'
       PROVE  index'[p] < put_index' /\ order'[index'[p] + 1] = <<p, count'[p]>>
  <2>1. CASE p = t
    BY <1>2, <1>3, <1>8, <2>1
  <2>2. CASE p # t
    <3>1. p \in Thread /\ pc'[p] = pc[p] /\ index'[p] = index[p] /\ Active(p)
      BY <1>1, <1>11, <2>2, Constants DEF Active
    <3>2. index[p] \in Nat /\ index[p] < put_index /\ order[index[p] + 1] = <<p, count[p]>>
      BY <3>1, Sizes DEF Indices, TypeOK
    <3>3. QED
      BY <1>2, <1>3, <1>8, <3>1, <3>2
  <2>3. QED
    BY <2>1, <2>2
<1>12. \A c \in Dequeuer : Active(c)' = Active(c) /\ index'[c] = index[c]
  BY <1>1, Constants DEF Active
<1>13. Indices'
  <2>1. Len(order') = put_index'
    BY <1>2, <1>8
  <2>2. \A c \in Dequeuer : Active(c)' => index'[c] < pop_index'
    BY <1>2, <1>12 DEF Indices
  <2>3. \A c, d \in Dequeuer : Active(c)' /\ Active(d)' /\ index'[c] = index'[d] => c = d
    BY <1>12 DEF Indices
  <2>4. QED
    BY <1>10, <1>11, <2>1, <2>2, <2>3 DEF Indices
<1>14. QED
  BY <1>2, <1>3, <1>4, <1>7, <1>8, <1>9, <1>13

LEMMA DequeueKeeps ==
  ASSUME TypeOK, Threads, Tickets, Indices, NEW t \in Dequeuer, dequeue(t), ThreadStep(t)
  PROVE  /\ Threads' /\ Tickets' /\ Indices'
         /\ pop_index' = pop_index + 1 /\ put_index' = put_index /\ pop_index < Places
         /\ order' = order
<1> USE DEF Step, Set
<1>1. /\ \A s \in Thread : s # t => pc'[s] = pc[s] /\ count'[s] = count[s] /\ index'[s] = index[s]
      /\ t \in Thread /\ t \notin Enqueuer
  BY Others, Constants
<1>2. /\ pc[t] = "dequeue" /\ pc'[t] = "find_cell" /\ count' = count
      /\ pop_index' = pop_index + 1 /\ put_index' = put_index
      /\ order' = order /\ index'[t] = pop_index
  BY <1>1 DEF dequeue, TypeOK
<1>3. pop_index \in Nat /\ pop_index < Places
  <2>1. pop_index < Places
    BY <1>1, IndexBounds
  <2>2. QED
    BY <2>1, Sizes DEF TypeOK
<1>4. Threads'
  <2>1. pc'[t] \in Dequeuing /\ (count'[t] = counts[t] <=> pc'[t] = "barrier")
    BY <1>1, <1>2 DEF Dequeuing, Threads
  <2>2. QED
    BY <1>1, <2>1, ThreadsKept
<1>5. ~Active(t) /\ pc[t] # "barrier" /\ Active(t)'
  BY <1>2 DEF Active
<1>6. /\ Cardinality(Begun(Dequeuer)') = Cardinality(Begun(Dequeuer)) + 1
      /\ Begun(Enqueuer)' = Begun(Enqueuer)
  BY <1>1, <1>2, <1>5, BegunBy, Sizes, Constants
<1>7. Tickets'
  BY <1>2, <1>6 DEF Tickets
<1>8. \A p \in Enqueuer : Active(p)' = Active(p) /\ index'[p] = index[p] /\ count'[p] = count[p]
  BY <1>1, Constants DEF Active
<1>9. ASSUME NEW c \in Dequeuer, Active(c)', c # t
      PROVE  index'[c] = index[c] /\ Active(c) /\ index[c] < pop_index /\ index[c] \in Nat
  <2>1. pc'[c] = pc[c] /\ index'[c] = index[c]
    BY <1>1, <1>9, Constants
  <2>2. Active(c)
    BY <1>9, <2>1 DEF Active
  <2>3. QED
    BY <2>1, <2>2, Constants, Sizes DEF Indices, TypeOK
<1>10. Indices'
  <2>1. Len(order') = put_index' /\ \A n \in 1 .. put_index' : order'[n] \in Begun(Enqueuer)'
    BY <1>2, <1>6 DEF Indices
  <2>2. \A p \in Enqueuer : Active(p)' =>
          index'[p] < put_index' /\ order'[index'[p] + 1] = <<p, count'[p]>>
    BY <1>2, <1>8 DEF Indices
  <2>3. \A c \in Dequeuer : Active(c)' => index'[c] < pop_index'
    BY <1>2, <1>3, <1>9
  <2>4. ASSUME NEW c \in Dequeuer, NEW d \in Dequeuer,
               Active(c)', Active(d)', index'[c] = index'[d]
        PROVE  c = d
    <3>1. CASE c = t \/ d = t
      BY <1>2, <1>3, <1>9, <2>4, <3>1
    <3>2. CASE c # t /\ d # t
      BY <1>9, <2>4, <3>2 DEF Indices
    <3>3. QED
      BY <3>1, <3>2
  <2>5. QED
    BY <2>1, <2>2, <2>3, <2>4 DEF Indices
<1>11. QED
  BY <1>2, <1>3, <1>4, <1>7, <1>10

LEMMA IndicesKept ==
  ASSUME TypeOK, Threads, Tickets, Indices, NEW t \in Thread, ThreadStep(t)
  PROVE  Threads' /\ Tickets' /\ Indices'
<1>1. CASE GoesOn(t)
  <2>1. /\ put_index' = put_index /\ pop_index' = pop_index /\ order' = order /\ index' = index
        /\ Begun(Enqueuer)' = Begun(Enqueuer) /\ Begun(Dequeuer)' = Begun(Dequeuer)
    BY <1>1, GoesOnKeeps, BegunKept, Constants
  <2>2. \A s \in Thread : Active(s)' => Active(s) /\ count'[s] = count[s]
    <3>1. ASSUME NEW s \in Thread, Active(s)' PROVE Active(s) /\ count'[s] = count[s]
      <4>1. CASE s = t
        BY <1>1, <3>1, <4>1, GoesOnKeeps
      <4>2. CASE s # t
        BY <3>1, <4>2, Others DEF Active
      <4>3. QED
        BY <4>1, <4>2
    <3>2. QED
      BY <3>1
  <2>3. Tickets' /\ Indices'
    BY <2>1, <2>2, Constants DEF Tickets, Indices
  <2>4. QED
    BY <1>1, <2>3, GoesOnKeeps
<1>2. CASE Begins(t)
  BY <1>2, EnqueueKeeps, DequeueKeeps DEF Begins
<1>3. QED
  BY <1>1, <1>2, TwoKinds

-----------------------------------------------------------------------------
(* The handles.                                                            *)

LEMMA Numbers ==
  ASSUME TypeOK, NEW t \in Thread
  PROVE  /\ handle[t] \in Nat /\ curr[t] \in Nat /\ index[t] \in Nat /\ index[t] < Places
         /\ put_index \in Nat /\ pop_index \in Nat /\ Ticket(t) \in Nat /\ last \in Nat
         /\ handle[t] <= last /\ curr[t] <= last
         /\ index[t] \div N \in Nat /\ Ticket(t) \div N \in Nat
<1>1. /\ handle[t] \in Nat /\ curr[t] \in Nat /\ index[t] \in Nat /\ index[t] < Places
      /\ put_index \in Nat /\ pop_index \in Nat /\ last \in Nat
      /\ handle[t] <= last /\ curr[t] <= last
  BY Sizes DEF TypeOK
<1>2. Ticket(t) \in Nat
  BY <1>1 DEF Ticket
<1>3. QED
  BY <1>1, <1>2, Division, Constants

(* The thread-local part of Walks.                                         *)
Walk(t) ==
  /\ pc[t] = "find_cell" => handle[t] <= curr[t] /\ curr[t] <= index[t] \div N
  /\ Active(t) /\ pc[t] # "find_cell" => handle[t] = index[t] \div N
  /\ ~Active(t) => handle[t] <= Ticket(t) \div N

LEMMA WalksAre == Walks <=> \A t \in Thread : Walk(t)
BY DEF Walks, Walk, Active

LEMMA WalksArePrimed == Walks' <=> \A t \in Thread : Walk(t)'
BY DEF Walks, Walk, Active

LEMMA TicketsGrow ==
  ASSUME TypeOK, Threads, Tickets, Indices, NEW t \in Thread, ThreadStep(t), NEW s \in Thread
  PROVE  Ticket(s) <= Ticket(s)' /\ Ticket(s)' \in Nat /\ Ticket(s) \in Nat
<1>1. put_index \in Nat /\ pop_index \in Nat
  BY Numbers
<1>2. CASE GoesOn(t)
  BY <1>1, <1>2, GoesOnKeeps DEF Ticket
<1>3. CASE Begins(t)
  <2>1. put_index' \in {put_index, put_index + 1} /\ pop_index' \in {pop_index, pop_index + 1}
    BY <1>3, EnqueueKeeps, DequeueKeeps DEF Begins
  <2>2. QED
    BY <1>1, <2>1 DEF Ticket
<1>4. QED
  BY <1>2, <1>3, TwoKinds

(* Once the node is found the handle stays until the next operation.       *)
LEMMA HandleStays ==
  ASSUME TypeOK, NEW t \in Thread, ThreadStep(t), pc[t] # "find_cell"
  PROVE  handle' = handle /\ last' = last
<1> USE DEF listVars, dequeueLocals
<1>1. ~next_node(t) /\ ~found(t)
  BY DEF next_node, found, Step
<1>2. CASE enqueue(t) \/ put(t) \/ clear(t) \/ wake(t) \/ dequeue(t) \/ look(t) \/ sleep(t)
           \/ wait(t) \/ check(t) \/ return(t)
  BY <1>2 DEF enqueue, put, clear, wake, dequeue, look, sleep, wait, check, return
<1>3. CASE gc_load(t) \/ gc_lock(t) \/ gc_scan(t) \/ gc_decide(t) \/ gc_unlock(t) \/ gc_free(t)
  BY <1>3 DEF gc_load, gc_lock, gc_scan, gc_decide, gc_unlock, gc_free
<1>4. QED
  BY <1>1, <1>2, <1>3 DEF ThreadStep, producer, consumer

LEMMA OwnWalk ==
  ASSUME TypeOK, Threads, Tickets, Indices, Walks, NEW t \in Thread, ThreadStep(t)
  PROVE  Walk(t)' /\ handle'[t] >= handle[t]
<1> USE DEF Step, Set
<1>1. /\ handle[t] \in Nat /\ curr[t] \in Nat /\ index[t] \div N \in Nat /\ Ticket(t) \div N \in Nat
      /\ Ticket(t) \in Nat /\ index[t] \in Nat
  BY Numbers
<1>2. Walk(t) /\ handle \in [Thread -> Int] /\ curr \in [Thread -> Int] /\ DOMAIN pc = Thread
      /\ DOMAIN index = Thread
  BY WalksAre DEF TypeOK
<1>3. CASE next_node(t)
  <2>1. /\ pc[t] = "find_cell" /\ pc'[t] = "find_cell" /\ handle' = handle /\ index' = index
        /\ curr'[t] = curr[t] + 1 /\ curr[t] < index[t] \div N
    BY <1>2, <1>3 DEF next_node, Behind
  <2>2. QED
    BY <1>1, <1>2, <2>1 DEF Walk, Active
<1>4. CASE found(t)
  <2>1. /\ pc[t] = "find_cell" /\ pc'[t] \in {"put", "look"} /\ index' = index
        /\ handle'[t] = curr[t] /\ ~(curr[t] < index[t] \div N)
    BY <1>2, <1>4 DEF found, Behind
  <2>2. QED
    BY <1>1, <1>2, <2>1 DEF Walk, Active
<1>5. CASE t \in Enqueuer /\ enqueue(t)
  <2>1. /\ pc[t] = "enqueue" /\ pc'[t] = "find_cell" /\ handle' = handle
        /\ curr'[t] = handle[t] /\ index'[t] = Ticket(t)
    BY <1>2, <1>5 DEF enqueue, Ticket, listVars
  <2>2. QED
    BY <1>1, <1>2, <2>1 DEF Walk, Active
<1>6. CASE t \in Dequeuer /\ dequeue(t)
  <2>1. /\ pc[t] = "dequeue" /\ pc'[t] = "find_cell" /\ handle' = handle
        /\ curr'[t] = handle[t] /\ index'[t] = Ticket(t)
    BY <1>2, <1>6, Constants DEF dequeue, Ticket, listVars
  <2>2. QED
    BY <1>1, <1>2, <2>1 DEF Walk, Active
<1>7. CASE GoesOn(t) /\ ~next_node(t) /\ ~found(t)
  <2>1. pc[t] # "find_cell" /\ pc'[t] # "find_cell"
    <3>1. CASE put(t) \/ clear(t) \/ wake(t) \/ look(t) \/ sleep(t) \/ wait(t) \/ check(t) \/ return(t)
      BY <1>2, <3>1 DEF put, clear, wake, Over, look, sleep, wait, check, return, AfterOver
    <3>2. CASE gc_load(t) \/ gc_lock(t) \/ gc_scan(t) \/ gc_decide(t) \/ gc_unlock(t) \/ gc_free(t)
      BY <1>2, <3>2 DEF gc_load, gc_lock, gc_scan, gc_decide, gc_unlock, gc_free
    <3>3. QED
      BY <1>7, <3>1, <3>2 DEF GoesOn
  <2>2. /\ index' = index /\ put_index' = put_index /\ pop_index' = pop_index /\ Active(t)
        /\ handle' = handle
    BY <1>7, <2>1, GoesOnKeeps, HandleStays
  <2>3. index[t] < Ticket(t)
    BY <2>2, Constants DEF Ticket, Indices
  <2>4. index[t] \div N <= Ticket(t) \div N
    BY <1>1, <2>3, DivisionMonotone, Constants
  <2>5. Ticket(t)' = Ticket(t)
    BY <2>2 DEF Ticket
  <2>6. QED
    BY <1>1, <1>2, <2>1, <2>2, <2>4, <2>5 DEF Walk
<1>8. QED
  BY <1>3, <1>4, <1>5, <1>6, <1>7, TwoKinds DEF Begins

LEMMA WalksKept ==
  ASSUME TypeOK, Threads, Tickets, Indices, Walks, NEW t \in Thread, ThreadStep(t)
  PROVE  Walks' /\ \A s \in Thread : handle'[s] >= handle[s]
<1>1. ASSUME NEW s \in Thread, s # t PROVE Walk(s)' /\ handle'[s] >= handle[s]
  <2>1. /\ pc'[s] = pc[s] /\ index'[s] = index[s] /\ curr'[s] = curr[s] /\ handle'[s] = handle[s]
    BY <1>1, Others
  <2>2. Ticket(s) \div N <= (Ticket(s)') \div N /\ Ticket(s) \div N \in Nat
        /\ (Ticket(s)') \div N \in Nat
    BY TicketsGrow, DivisionMonotone, Division, Constants
  <2>3. Walk(s) /\ handle[s] \in Nat
    BY WalksAre, Numbers
  <2>4. QED
    BY <2>1, <2>2, <2>3 DEF Walk, Active
<1>2. QED
  BY <1>1, OwnWalk, WalksArePrimed

-----------------------------------------------------------------------------
(* The types.                                                              *)

TypeOfWords ==
  /\ waitq \in [Addr -> SUBSET Dequeuer] /\ futex_addr \in [Dequeuer -> {0, 1}]
  /\ cell \in [0 .. Places - 1 -> Value \cup Dequeuer \cup {NULL}]
  /\ cv \in [Thread -> Value \cup Dequeuer \cup {NULL}] /\ array \subseteq Value

TypeOfCounts ==
  /\ put_index \in 0 .. Places /\ pop_index \in 0 .. Places /\ order \in Seq(Value)
  /\ index \in [Thread -> 0 .. Places - 1]
  /\ count \in [Thread -> Nat] /\ \A t \in Thread : count[t] <= counts[t]

TypeOfNodes ==
  /\ last \in Nat /\ handle \in [Thread -> 0 .. last] /\ curr \in [Thread -> 0 .. last]

TypeOfScans ==
  /\ init_node \in 0 .. last /\ init_id \in -1 .. last /\ freed \subseteq 0 .. last
  /\ init_index \in [Dequeuer -> -1 .. last] /\ first \in [Dequeuer -> 0 .. last]
  /\ min_node \in [Dequeuer -> 0 .. last] /\ i \in [Dequeuer -> 1 .. Len(Handles)]

TypeOfPc ==
  pc \in [Thread -> {"enqueue", "find_cell", "put", "clear", "wake", "barrier",
                     "dequeue", "look", "sleep", "wait", "check", "return",
                     "gc_load", "gc_lock", "gc_scan", "gc_decide", "gc_unlock", "gc_free"}]

LEMMA TypesAre ==
  TypeOK <=> TypeOfWords /\ TypeOfCounts /\ TypeOfNodes /\ TypeOfScans /\ TypeOfPc
BY DEF TypeOK, TypeOfWords, TypeOfCounts, TypeOfNodes, TypeOfScans, TypeOfPc

LEMMA TypesArePrimed ==
  TypeOfWords' /\ TypeOfCounts' /\ TypeOfNodes' /\ TypeOfScans' /\ TypeOfPc' => TypeOK'
BY DEF TypeOK, TypeOfWords, TypeOfCounts, TypeOfNodes, TypeOfScans, TypeOfPc

(* The value that a dequeue returns is one.                                *)
LEMMA Returned ==
  ASSUME TypeOK, Indices, Waits, NEW c \in Dequeuer, Late(c)
  PROVE  /\ index[c] \in Nat /\ index[c] < put_index /\ index[c] < Len(order)
         /\ cv[c] = order[index[c] + 1] /\ cv[c] \in Value
<1>1. ~ToCome(index[c]) /\ cv[c] = order[index[c] + 1]
  BY DEF Waits
<1>2. index[c] \in Nat /\ put_index \in Nat
  BY Numbers, Constants
<1>3. index[c] < put_index
  BY <1>1, <1>2 DEF ToCome
<1>4. order \in Seq(Value) /\ Len(order) = put_index
  BY DEF TypeOK, Indices
<1>5. index[c] + 1 \in 1 .. Len(order)
  BY <1>2, <1>3, <1>4
<1>6. order[index[c] + 1] \in Value
  BY <1>4, <1>5, ElementOfSeq
<1>7. QED
  BY <1>1, <1>2, <1>3, <1>4, <1>6

LEMMA WordsTyped ==
  ASSUME TypeOK, Threads, Indices, Walks, Waits, NEW t \in Thread, ThreadStep(t)
  PROVE  TypeOfWords'
<1> USE DEF Step, Set, listVars, dequeueLocals
<1>1. TypeOfWords /\ Thread = Enqueuer \cup Dequeuer /\ Addr = Dequeuer
  BY TypesAre, Constants
<1>2. CASE next_node(t) \/ found(t)
  BY <1>1, <1>2 DEF TypeOfWords, next_node, found
<1>3. CASE t \in Enqueuer /\ enqueue(t)
  BY <1>1, <1>3 DEF TypeOfWords, enqueue
<1>4. CASE t \in Enqueuer /\ put(t)
  <2>1. <<t, count[t]>> \in Value
    <3>1. pc[t] = "put" /\ count[t] \in Nat /\ counts[t] \in Nat /\ count[t] <= counts[t]
      BY <1>4, Constants DEF put, TypeOK
    <3>2. count[t] \in 0 .. counts[t] - 1
      BY <3>1 DEF Threads
    <3>3. QED
      BY <1>4, <3>2, OperationIs, Constants DEF Value
  <2>2. handle[t] = index[t] \div N
    BY <1>4 DEF put, Walks, Active
  <2>3. Cell(t) \in 0 .. Places - 1
    BY <2>2, CellIs, Numbers, Sizes
  <2>4. cell' \in [0 .. Places - 1 -> Value \cup Dequeuer \cup {NULL}]
    BY <1>1, <1>4, <2>1 DEF TypeOfWords, put
  <2>5. cell[Cell(t)] \in Value \cup Dequeuer \cup {NULL}
    BY <1>1, <2>3 DEF TypeOfWords
  <2>6. cv' \in [Thread -> Value \cup Dequeuer \cup {NULL}]
    BY <1>1, <1>4, <2>5 DEF TypeOfWords, put, Over
  <2>7. UNCHANGED <<waitq, futex_addr, array>>
    BY <1>4 DEF put
  <2>8. QED
    BY <1>1, <2>4, <2>6, <2>7 DEF TypeOfWords
<1>5. CASE t \in Enqueuer /\ clear(t)
  BY <1>1, <1>5 DEF TypeOfWords, clear
<1>6. CASE t \in Enqueuer /\ wake(t)
  <2>1. waitq' \in [Addr -> SUBSET Dequeuer]
    BY <1>1, <1>6 DEF TypeOfWords, wake, FutexWake
  <2>2. QED
    BY <1>1, <1>6, <2>1 DEF TypeOfWords, wake, Over
<1>7. CASE t \in Dequeuer /\ dequeue(t)
  BY <1>1, <1>7 DEF TypeOfWords, dequeue
<1>8. CASE t \in Dequeuer /\ (look(t) \/ sleep(t) \/ check(t))
  <2>1. pc[t] \in {"look", "sleep", "check"}
    BY <1>8 DEF look, sleep, check
  <2>2. handle[t] = index[t] \div N
    BY <2>1 DEF Walks, Active
  <2>3. Cell(t) \in 0 .. Places - 1
    BY <2>2, CellIs, Numbers, Sizes
  <2>4. cell[Cell(t)] \in Value \cup Dequeuer \cup {NULL}
    BY <1>1, <2>3 DEF TypeOfWords
  <2>5. cv' \in [Thread -> Value \cup Dequeuer \cup {NULL}]
    BY <1>1, <1>8, <2>4 DEF TypeOfWords, look, sleep, check
  <2>6. cell' \in [0 .. Places - 1 -> Value \cup Dequeuer \cup {NULL}]
    BY <1>1, <1>8 DEF TypeOfWords, look, sleep, check
  <2>7. QED
    BY <1>1, <1>8, <2>5, <2>6 DEF TypeOfWords, look, sleep, check
<1>9. CASE t \in Dequeuer /\ wait(t)
  BY <1>1, <1>9 DEF TypeOfWords, wait, FutexWait
<1>10. CASE t \in Dequeuer /\ return(t)
  <2>1. cv[t] \in Value
    BY <1>10, Returned DEF return, Late
  <2>2. QED
    BY <1>1, <1>10, <2>1 DEF TypeOfWords, return, Over
<1>11. CASE gc_load(t) \/ gc_lock(t) \/ gc_scan(t) \/ gc_decide(t) \/ gc_unlock(t) \/ gc_free(t)
  <2>1. UNCHANGED <<waitq, futex_addr, cell, cv, array>>
    BY <1>11 DEF gc_load, gc_lock, gc_scan, gc_decide, gc_unlock, gc_free
  <2>2. QED
    BY <1>1, <2>1 DEF TypeOfWords
<1>12. QED
  BY <1>2, <1>3, <1>4, <1>5, <1>6, <1>7, <1>8, <1>9, <1>10, <1>11
     DEF ThreadStep, producer, consumer

LEMMA CountsTyped ==
  ASSUME TypeOK, Threads, Tickets, Indices, NEW t \in Thread, ThreadStep(t)
  PROVE  TypeOfCounts'
<1>1. TypeOfCounts /\ Places \in Nat
  BY TypesAre, Sizes
<1>2. CASE GoesOn(t)
  <2>1. put_index' = put_index /\ pop_index' = pop_index /\ order' = order /\ index' = index
        /\ Threads' /\ Active(t)
    BY <1>2, GoesOnKeeps
  <2>2. count' = count \/ count' = [count EXCEPT ![t] = count[t] + 1]
    BY <1>2 DEF GoesOn, next_node, found, put, clear, wake, look, sleep, wait, check, return,
       gc_load, gc_lock, gc_scan, gc_decide, gc_unlock, gc_free, dequeueLocals, Over, Set
  <2>3. count' \in [Thread -> Nat]
    <3>1. count \in [Thread -> Nat] /\ count[t] + 1 \in Nat
      BY <1>1 DEF TypeOfCounts
    <3>2. QED
      BY <2>2, <3>1
  <2>4. count[t] < counts[t]
    <3>1. count[t] # counts[t]
      BY <2>1 DEF Threads, Active
    <3>2. QED
      BY <1>1, <3>1, Constants DEF TypeOfCounts
  <2>5. \A s \in Thread : count'[s] <= counts[s]
    <3>1. ASSUME NEW s \in Thread PROVE count'[s] <= counts[s]
      <4>1. count[s] \in Nat /\ count[s] <= counts[s] /\ counts[s] \in Nat
        BY <1>1, Constants DEF TypeOfCounts
      <4>2. CASE s = t
        BY <1>1, <2>2, <2>4, <4>1, <4>2 DEF TypeOfCounts
      <4>3. CASE s # t
        BY <1>1, <2>2, <4>1, <4>3 DEF TypeOfCounts
      <4>4. QED
        BY <4>2, <4>3
    <3>2. QED
      BY <3>1
  <2>6. QED
    BY <1>1, <2>1, <2>3, <2>5 DEF TypeOfCounts
<1>3. CASE t \in Enqueuer /\ enqueue(t)
  <2>1. /\ put_index' = put_index + 1 /\ pop_index' = pop_index /\ put_index < Places
        /\ order' \in Seq(Value)
    BY <1>3, EnqueueKeeps
  <2>2. count' = count /\ index' = [index EXCEPT ![t] = put_index]
    BY <1>3 DEF enqueue, Set
  <2>3. QED
    BY <1>1, <2>1, <2>2 DEF TypeOfCounts
<1>4. CASE t \in Dequeuer /\ dequeue(t)
  <2>1. /\ pop_index' = pop_index + 1 /\ put_index' = put_index /\ pop_index < Places
        /\ order' = order
    BY <1>4, DequeueKeeps
  <2>2. count' = count /\ index' = [index EXCEPT ![t] = pop_index]
    BY <1>4 DEF dequeue, Set
  <2>3. QED
    BY <1>1, <2>1, <2>2 DEF TypeOfCounts
<1>5. QED
  BY <1>2, <1>3, <1>4, TwoKinds DEF Begins

LEMMA NodesTyped ==
  ASSUME TypeOK, NEW t \in Thread, ThreadStep(t)
  PROVE  TypeOfNodes' /\ last' >= last /\ last' \in Nat /\ last \in Nat
<1> USE DEF Step, Set, listVars
<1>1. TypeOfNodes /\ handle[t] \in 0 .. last /\ curr[t] \in 0 .. last
  BY TypesAre DEF TypeOfNodes
<1>2. CASE next_node(t)
  <2>1. /\ curr' = [curr EXCEPT ![t] = curr[t] + 1] /\ handle' = handle
        /\ last' = IF curr[t] = last THEN last + 1 ELSE last
    BY <1>2 DEF next_node
  <2>2. last' \in Nat /\ last' >= last /\ curr[t] + 1 \in 0 .. last'
    BY <1>1, <2>1 DEF TypeOfNodes
  <2>3. \A n \in 0 .. last : n \in 0 .. last'
    BY <1>1, <2>2 DEF TypeOfNodes
  <2>4. QED
    BY <1>1, <2>1, <2>2, <2>3 DEF TypeOfNodes
<1>3. CASE found(t)
  BY <1>1, <1>3 DEF TypeOfNodes, found
<1>4. CASE ~next_node(t) /\ ~found(t)
  <2>1. handle' = handle /\ last' = last /\ (curr' = curr \/ curr' = [curr EXCEPT ![t] = handle[t]])
    <3>1. CASE enqueue(t) \/ put(t) \/ clear(t) \/ wake(t) \/ dequeue(t) \/ look(t) \/ sleep(t)
               \/ wait(t) \/ check(t) \/ return(t)
      BY <3>1 DEF enqueue, put, clear, wake, dequeue, look, sleep, wait, check, return
    <3>2. CASE gc_load(t) \/ gc_lock(t) \/ gc_scan(t) \/ gc_decide(t) \/ gc_unlock(t) \/ gc_free(t)
      BY <3>2 DEF gc_load, gc_lock, gc_scan, gc_decide, gc_unlock, gc_free, dequeueLocals
    <3>3. QED
      BY <1>4, <3>1, <3>2 DEF ThreadStep, producer, consumer
  <2>2. QED
    BY <1>1, <2>1 DEF TypeOfNodes
<1>5. QED
  BY <1>2, <1>3, <1>4

(* The least node that a scan has seen after one handle more.              *)
LeastSeen(t) ==
  IF i[t] = 1 THEN handle[Handles[i[t]]] ELSE Min2(handle[Handles[i[t]]], min_node[t])

LEMMA LeastSeenTyped ==
  ASSUME TypeOK, NEW t \in Dequeuer
  PROVE  LeastSeen(t) \in 0 .. last /\ i[t] \in 1 .. Len(Handles)
<1>1. i[t] \in 1 .. Len(Handles) /\ min_node[t] \in 0 .. last
  BY DEF TypeOK
<1>2. PICK s \in Thread : s = Handles[i[t]]
  BY <1>1, Scanned
<1>3. handle[s] \in 0 .. last
  BY DEF TypeOK
<1>4. QED
  BY <1>1, <1>2, <1>3 DEF LeastSeen, Min2

LEMMA ScansTyped ==
  ASSUME TypeOK, Scan, NEW t \in Thread, ThreadStep(t)
  PROVE  TypeOfScans'
<1> USE DEF Step, Set, reclaimVars, scanVars
<1>1. TypeOfScans /\ last \in Nat /\ last' \in Nat /\ last <= last'
  BY TypesAre, NodesTyped
<1>2. \A n \in Int : (n \in 0 .. last => n \in 0 .. last') /\ (n \in -1 .. last => n \in -1 .. last')
  BY <1>1
<1>3. ASSUME UNCHANGED <<reclaimVars, scanVars>> PROVE TypeOfScans'
  BY <1>1, <1>2, <1>3 DEF TypeOfScans
<1>4. CASE next_node(t) \/ found(t) \/ enqueue(t) \/ put(t) \/ clear(t) \/ wake(t)
  BY <1>3, <1>4 DEF next_node, found, enqueue, put, clear, wake
<1>5. CASE dequeue(t) \/ look(t) \/ sleep(t) \/ wait(t) \/ check(t) \/ return(t)
  BY <1>3, <1>5 DEF dequeue, look, sleep, wait, check, return
<1>6. ASSUME t \in Dequeuer, last' = last,
             gc_load(t) \/ gc_lock(t) \/ gc_decide(t) \/ gc_unlock(t) \/ gc_free(t)
      PROVE  TypeOfScans'
  <2>1. 1 \in 1 .. Len(Handles) /\ 0 \in 0 .. last /\ 0 \in -1 .. last /\ -1 \in -1 .. last
    BY <1>1, <1>6, LeastSeenTyped
  <2>2. /\ init_index[t] \in -1 .. last /\ first[t] \in 0 .. last /\ min_node[t] \in 0 .. last
        /\ init_node \in 0 .. last /\ init_id \in -1 .. last /\ freed \subseteq 0 .. last
    BY <1>1, <1>6 DEF TypeOfScans
  <2>3. first[t] .. (min_node[t] - 1) \subseteq 0 .. last
    BY <1>1, <2>2
  <2>4. ForgetScan(t) =>
           /\ init_index' \in [Dequeuer -> -1 .. last] /\ first' \in [Dequeuer -> 0 .. last]
           /\ min_node' \in [Dequeuer -> 0 .. last] /\ i' \in [Dequeuer -> 1 .. Len(Handles)]
    <3>1. ASSUME ForgetScan(t)
          PROVE  init_index' \in [Dequeuer -> -1 .. last] /\ first' \in [Dequeuer -> 0 .. last]
      BY <1>1, <2>1, <3>1 DEF TypeOfScans, ForgetScan
    <3>2. ASSUME ForgetScan(t)
          PROVE  min_node' \in [Dequeuer -> 0 .. last] /\ i' \in [Dequeuer -> 1 .. Len(Handles)]
      BY <1>1, <2>1, <3>2 DEF TypeOfScans, ForgetScan
    <3>3. QED
      BY <3>1, <3>2
  <2>5. CASE gc_load(t)
    BY <1>1, <1>6, <2>1, <2>2, <2>5 DEF TypeOfScans, gc_load
  <2>6. CASE gc_lock(t)
    <3>1. /\ init_id' \in -1 .. last /\ init_node' = init_node /\ freed' = freed
          /\ \/ UNCHANGED <<init_index, min_node, i>> /\ first' = [first EXCEPT ![t] = init_node]
             \/ ForgetScan(t)
      BY <2>1, <2>2, <2>6 DEF gc_lock
    <3>2. /\ init_index' \in [Dequeuer -> -1 .. last] /\ first' \in [Dequeuer -> 0 .. last]
          /\ min_node' \in [Dequeuer -> 0 .. last] /\ i' \in [Dequeuer -> 1 .. Len(Handles)]
      BY <1>1, <2>2, <2>4, <3>1 DEF TypeOfScans
    <3>3. QED
      BY <1>6, <2>2, <3>1, <3>2 DEF TypeOfScans
  <2>7. CASE gc_decide(t)
    <3>1. /\ init_id' \in -1 .. last /\ init_node' \in 0 .. last /\ freed' = freed
          /\ \/ UNCHANGED <<init_index, first, min_node, i>>
             \/ ForgetScan(t)
      BY <2>1, <2>2, <2>7 DEF gc_decide
    <3>2. /\ init_index' \in [Dequeuer -> -1 .. last] /\ first' \in [Dequeuer -> 0 .. last]
          /\ min_node' \in [Dequeuer -> 0 .. last] /\ i' \in [Dequeuer -> 1 .. Len(Handles)]
      BY <1>1, <2>2, <2>4, <3>1 DEF TypeOfScans
    <3>3. QED
      BY <1>6, <2>2, <3>1, <3>2 DEF TypeOfScans
  <2>8. CASE gc_unlock(t)
    BY <1>1, <1>6, <2>1, <2>2, <2>8 DEF TypeOfScans, gc_unlock
  <2>9. CASE gc_free(t)
    BY <1>1, <1>6, <2>1, <2>2, <2>3, <2>9 DEF TypeOfScans, gc_free, ForgetScan
  <2>10. QED
    BY <1>6, <2>5, <2>6, <2>9, <2>7, <2>8
<1>7. CASE t \in Dequeuer /\ gc_scan(t)
  <2>1. /\ LeastSeen(t) \in 0 .. last /\ i[t] \in 1 .. Len(Handles) /\ Len(Handles) \in Nat
        /\ last' = last
    BY <1>7, LeastSeenTyped, Scanned DEF gc_scan, dequeueLocals, listVars
  <2>2. /\ min_node' = [min_node EXCEPT ![t] = LeastSeen(t)]
        /\ i' = [i EXCEPT ![t] =
                   IF LeastSeen(t) <= init_index[t] \/ i[t] = Len(Handles) THEN 1 ELSE i[t] + 1]
        /\ UNCHANGED <<reclaimVars, init_index, first>>
    BY <1>7 DEF gc_scan, LeastSeen
  <2>3. i' \in [Dequeuer -> 1 .. Len(Handles)]
    <3> DEFINE n == IF LeastSeen(t) <= init_index[t] \/ i[t] = Len(Handles) THEN 1 ELSE i[t] + 1
    <3>1. n \in 1 .. Len(Handles) /\ i' = [i EXCEPT ![t] = n]
      BY <2>1, <2>2
    <3> HIDE DEF n
    <3>2. i \in [Dequeuer -> 1 .. Len(Handles)]
      BY <1>1 DEF TypeOfScans
    <3>3. QED
      BY <3>1, <3>2, Zenon
  <2>4. min_node' \in [Dequeuer -> 0 .. last]
    BY <1>1, <2>1, <2>2 DEF TypeOfScans
  <2>5. QED
    BY <1>1, <2>1, <2>2, <2>3, <2>4 DEF TypeOfScans
<1>8. CASE t \in Dequeuer /\ (gc_load(t) \/ gc_lock(t) \/ gc_decide(t) \/ gc_unlock(t) \/ gc_free(t))
  <2>1. last' = last
    BY <1>8 DEF gc_load, gc_lock, gc_decide, gc_unlock, gc_free, dequeueLocals, listVars
  <2>2. QED
    BY <1>6, <1>8, <2>1
<1>9. QED
  BY <1>4, <1>5, <1>7, <1>8 DEF ThreadStep, producer, consumer

LEMMA PcTyped ==
  ASSUME TypeOK, NEW t \in Thread, Threads', pc' = [pc EXCEPT ![t] = pc'[t]]
  PROVE  TypeOfPc'
<1>1. TypeOfPc
  BY TypesAre
<1>2. pc'[t] \in Enqueuing \cup Dequeuing
  BY Constants DEF Threads
<1>3. QED
  BY <1>1, <1>2 DEF TypeOfPc, Enqueuing, Dequeuing, Collecting

LEMMA PcMoves ==
  ASSUME TypeOK, NEW t \in Thread, ThreadStep(t)
  PROVE  pc' = [pc EXCEPT ![t] = pc'[t]]
<1> USE DEF TypeOK, Step, Set
<1>1. CASE next_node(t) \/ found(t)
  BY <1>1 DEF next_node, found
<1>2. CASE enqueue(t) \/ put(t) \/ clear(t) \/ wake(t)
  BY <1>2 DEF enqueue, put, clear, wake, Over
<1>3. CASE dequeue(t) \/ look(t) \/ sleep(t) \/ wait(t) \/ check(t)
  BY <1>3 DEF dequeue, look, sleep, wait, check
<1>4. CASE return(t) \/ gc_load(t) \/ gc_lock(t) \/ gc_scan(t)
  BY <1>4 DEF return, Over, gc_load, gc_lock, gc_scan
<1>5. CASE gc_decide(t) \/ gc_unlock(t) \/ gc_free(t)
  BY <1>5 DEF gc_decide, gc_unlock, gc_free
<1>6. QED
  BY <1>1, <1>2, <1>3, <1>4, <1>5 DEF ThreadStep, producer, consumer

LEMMA TypesKept ==
  ASSUME IInv, NEW t \in Thread, ThreadStep(t)
  PROVE  TypeOK'
<1>1. TypeOK /\ Threads /\ Tickets /\ Indices /\ Walks /\ Waits /\ Scan
  BY DEF IInv
<1>2. Threads'
  BY <1>1, IndicesKept
<1>3. TypeOfWords' /\ TypeOfCounts' /\ TypeOfNodes' /\ TypeOfScans' /\ TypeOfPc'
  BY <1>1, <1>2, WordsTyped, CountsTyped, NodesTyped, ScansTyped, PcTyped, PcMoves
<1>4. QED
  BY <1>3, TypesArePrimed

-----------------------------------------------------------------------------
(* The reclamation.                                                        *)

Reclaiming == {"gc_scan", "gc_decide", "gc_unlock", "gc_free"}

(* A step of none of the reclaiming threads does not disturb them.         *)
LEMMA ReclaimingKept ==
  ASSUME Lock, Scan, Released, UNCHANGED reclaimVars,
         \A s \in Thread : handle[s] \in Nat /\ handle'[s] \in Nat /\ handle'[s] >= handle[s],
         init_node \in Nat,
         \A c \in Dequeuer :
           \/ pc[c] \notin Reclaiming /\ pc'[c] \notin Reclaiming /\ i'[c] \in {1, i[c]}
           \/ /\ pc'[c] = pc[c] /\ init_index'[c] = init_index[c] /\ first'[c] = first[c]
              /\ min_node'[c] = min_node[c] /\ i'[c] = i[c],
         \A c \in Dequeuer : min_node[c] \in Nat /\ i[c] \in Nat /\ i[c] <= Len(Handles)
  PROVE  Lock' /\ Scan' /\ Released'
<1> USE DEF reclaimVars
<1>1. \A c \in Dequeuer : Scanning(c)' = Scanning(c) /\ ToBeFreed(c)' = ToBeFreed(c)
  BY DEF Scanning, ToBeFreed, Reclaiming
<1>2. Lock'
  BY <1>1 DEF Lock
<1>3. Released'
  BY <1>1 DEF Released
<1>4. ASSUME NEW c \in Dequeuer, pc'[c] \in Reclaiming
      PROVE  /\ pc'[c] \in {"gc_scan", "gc_decide"} =>
                  init_index'[c] = init_node' /\ first'[c] = init_node'
             /\ pc'[c] = "gc_scan" =>
                  /\ i'[c] > 1 => min_node'[c] > init_index'[c]
                  /\ \A k \in 1 .. i'[c] - 1 : min_node'[c] <= handle'[Handles[k]]
             /\ pc'[c] = "gc_decide" /\ min_node'[c] > init_index'[c] =>
                  \A s \in Thread : min_node'[c] <= handle'[s]
             /\ pc'[c] = "gc_unlock" => min_node'[c] = init_node'
             /\ pc'[c] \in {"gc_unlock", "gc_free"} => first'[c] <= min_node'[c]
  <2>1. /\ pc'[c] = pc[c] /\ init_index'[c] = init_index[c] /\ first'[c] = first[c]
        /\ min_node'[c] = min_node[c] /\ i'[c] = i[c] /\ min_node[c] \in Nat
        /\ i[c] \in Nat /\ i[c] <= Len(Handles)
    BY <1>4
  <2>2. ASSUME NEW s \in Thread, min_node[c] <= handle[s] PROVE min_node'[c] <= handle'[s]
    BY <2>1, <2>2
  <2>3. ASSUME pc[c] = "gc_scan", NEW k \in 1 .. i[c] - 1
        PROVE  min_node'[c] <= handle'[Handles[k]]
    <3>1. k \in 1 .. Len(Handles)
      BY <2>1, <2>3, Scanned
    <3>2. Handles[k] \in Thread /\ min_node[c] <= handle[Handles[k]]
      BY <2>3, <3>1, Scanned DEF Scan
    <3>3. QED
      BY <2>2, <3>2
  <2>4. QED
    BY <2>1, <2>2, <2>3 DEF Scan
<1>5. ASSUME NEW c \in Dequeuer, pc'[c] # "gc_scan" PROVE i'[c] = 1
  BY <1>5 DEF Scan, Reclaiming
<1>6. Scan'
  BY <1>4, <1>5 DEF Scan, Reclaiming
<1>7. QED
  BY <1>2, <1>3, <1>6

LEMMA ReclaimTypes ==
  ASSUME TypeOK
  PROVE  /\ init_node \in Nat /\ init_id \in Int /\ \A s \in Thread : handle[s] \in Nat
         /\ \A c \in Dequeuer :
              /\ min_node[c] \in Nat /\ i[c] \in Nat /\ 1 <= i[c] /\ i[c] <= Len(Handles)
              /\ init_index[c] \in Int /\ first[c] \in Nat
BY Scanned DEF TypeOK

LEMMA OtherStepsReclaim ==
  ASSUME IInv, NEW t \in Thread, ThreadStep(t),
         UNCHANGED reclaimVars,
         t \in Dequeuer =>
           pc[t] \notin Reclaiming /\ pc'[t] \notin Reclaiming /\ i'[t] \in {1, i[t]}
  PROVE  Lock' /\ Scan' /\ Released'
<1>1. TypeOK /\ Threads /\ Tickets /\ Indices /\ Walks /\ Lock /\ Scan /\ Released
  BY DEF IInv
<1>2. \A c \in Dequeuer :
           \/ pc[c] \notin Reclaiming /\ pc'[c] \notin Reclaiming /\ i'[c] \in {1, i[c]}
           \/ /\ pc'[c] = pc[c] /\ init_index'[c] = init_index[c] /\ first'[c] = first[c]
              /\ min_node'[c] = min_node[c] /\ i'[c] = i[c]
  BY <1>1, Others, Constants
<1>3. \A s \in Thread : handle[s] \in Nat /\ handle'[s] \in Nat /\ handle'[s] >= handle[s]
  <2>1. \A s \in Thread : handle[s] \in Nat /\ handle'[s] >= handle[s]
    BY <1>1, WalksKept, ReclaimTypes
  <2>2. TypeOfNodes'
    BY <1>1, NodesTyped
  <2>3. \A s \in Thread : handle'[s] \in Nat
    BY <2>2 DEF TypeOfNodes
  <2>4. QED
    BY <2>1, <2>3
<1>4. QED
  BY <1>1, <1>2, <1>3, ReclaimingKept, ReclaimTypes

(* The thread that has locked scans from the first handle on.              *)
LEMMA GcLockReclaims ==
  ASSUME IInv, NEW t \in Dequeuer, gc_lock(t), ThreadStep(t)
  PROVE  Lock' /\ Scan' /\ Released'
<1> USE DEF Step, Set
<1>1. TypeOK /\ Lock /\ Scan /\ Released /\ t \in Thread
  BY Constants DEF IInv
<1>2. DOMAIN pc = Thread /\ DOMAIN first = Dequeuer /\ DOMAIN i = Dequeuer
  BY DEF TypeOK, IInv
<1>3. pc[t] = "gc_lock" /\ i[t] = 1
  BY <1>1 DEF gc_lock, Scan
<1>4. CASE ~(handle[t] - init_index[t] >= threshold /\ init_index[t] >= 0 /\ init_id = init_index[t])
  <2>1. /\ UNCHANGED reclaimVars /\ pc'[t] = "return" /\ i'[t] = 1
    BY <1>1, <1>2, <1>4 DEF gc_lock, ForgetScan, reclaimVars
  <2>2. QED
    BY <1>1, <1>3, <2>1, OtherStepsReclaim DEF Reclaiming
<1>5. CASE handle[t] - init_index[t] >= threshold /\ init_index[t] >= 0 /\ init_id = init_index[t]
  <2>1. /\ init_id' = -1 /\ first'[t] = init_node /\ pc'[t] = "gc_scan"
        /\ init_node' = init_node /\ freed' = freed /\ handle' = handle
        /\ init_index' = init_index /\ min_node' = min_node /\ i' = i
    BY <1>1, <1>2, <1>5 DEF gc_lock, dequeueLocals, listVars
  <2>2. init_id # -1 /\ init_node = init_index[t] /\ \A c \in Dequeuer : ~Scanning(c)
    BY <1>1, <1>5, ReclaimTypes DEF Lock
  <2>3. \A c \in Dequeuer : c # t => pc'[c] = pc[c] /\ first'[c] = first[c]
    BY <1>1, Others, Constants
  <2>4. \A c \in Dequeuer : Scanning(c)' <=> c = t
    BY <2>1, <2>2, <2>3 DEF Scanning
  <2>5. Lock'
    BY <2>1, <2>4 DEF Lock
  <2>6. \A c \in Dequeuer : ToBeFreed(c)' = ToBeFreed(c)
    BY <1>3, <2>1, <2>3 DEF ToBeFreed
  <2>7. Released'
    BY <1>1, <2>1, <2>6 DEF Released
  <2>8. ASSUME NEW c \in Dequeuer, c # t
        PROVE  pc'[c] \notin {"gc_scan", "gc_decide", "gc_unlock"} /\ pc'[c] = pc[c]
               /\ first'[c] = first[c]
    BY <2>2, <2>3, <2>8 DEF Scanning
  <2>9. Scan'
    BY <1>1, <1>3, <2>1, <2>2, <2>8 DEF Scan
  <2>10. QED
    BY <2>5, <2>7, <2>9
<1>6. QED
  BY <1>4, <1>5

(* The others that are past the scan are only those about to free.         *)
LEMMA OneScans ==
  ASSUME IInv, NEW t \in Dequeuer, ThreadStep(t), Scanning(t), NEW c \in Dequeuer, c # t
  PROVE  /\ ~Scanning(c) /\ pc'[c] = pc[c] /\ init_index'[c] = init_index[c]
         /\ first'[c] = first[c] /\ min_node'[c] = min_node[c] /\ i'[c] = i[c]
         /\ ~Scanning(c)' /\ ToBeFreed(c)' = ToBeFreed(c)
<1>1. ~Scanning(c)
  BY DEF IInv, Lock
<1>2. /\ pc'[c] = pc[c] /\ init_index'[c] = init_index[c]
      /\ first'[c] = first[c] /\ min_node'[c] = min_node[c] /\ i'[c] = i[c]
  BY Others, Constants DEF IInv
<1>3. QED
  BY <1>1, <1>2 DEF Scanning, ToBeFreed

LEMMA GcScanReclaims ==
  ASSUME IInv, NEW t \in Dequeuer, gc_scan(t), ThreadStep(t)
  PROVE  Lock' /\ Scan' /\ Released'
<1> USE DEF Step, Set
<1>1. TypeOK /\ Lock /\ Scan /\ Released /\ t \in Thread
  BY Constants DEF IInv
<1>2. DOMAIN pc = Thread /\ DOMAIN min_node = Dequeuer /\ DOMAIN i = Dequeuer
  BY DEF TypeOK, IInv
<1> DEFINE over == LeastSeen(t) <= init_index[t] \/ i[t] = Len(Handles)
<1>3. /\ pc[t] = "gc_scan" /\ pc'[t] = (IF over THEN "gc_decide" ELSE "gc_scan")
      /\ min_node'[t] = LeastSeen(t) /\ i'[t] = (IF over THEN 1 ELSE i[t] + 1)
      /\ UNCHANGED <<reclaimVars, init_index, first, handle>>
  BY <1>1, <1>2 DEF gc_scan, LeastSeen, dequeueLocals, listVars
<1>4. /\ init_index[t] = init_node /\ first[t] = init_node
      /\ i[t] > 1 => min_node[t] > init_index[t]
      /\ \A k \in 1 .. i[t] - 1 : min_node[t] <= handle[Handles[k]]
  BY <1>1, <1>3 DEF Scan
<1>5. /\ i[t] \in Nat /\ 1 <= i[t] /\ i[t] <= Len(Handles) /\ Len(Handles) \in Nat
      /\ LeastSeen(t) \in Nat /\ min_node[t] \in Nat /\ init_index[t] \in Int
  BY <1>1, ReclaimTypes, LeastSeenTyped, Scanned
<1>6. \A k \in 1 .. i[t] : LeastSeen(t) <= handle[Handles[k]]
  <2>1. ASSUME NEW k \in 1 .. i[t] PROVE LeastSeen(t) <= handle[Handles[k]]
    <3>1. PICK s \in Thread : s = Handles[k]
      BY <1>5, Scanned
    <3>2. PICK r \in Thread : r = Handles[i[t]]
      BY <1>5, Scanned
    <3>3. handle[s] \in Nat /\ handle[r] \in Nat
      BY <1>1, ReclaimTypes
    <3>4. LeastSeen(t) = IF i[t] = 1 THEN handle[r] ELSE Min2(handle[r], min_node[t])
      BY <3>2 DEF LeastSeen
    <3>5. CASE k = i[t]
      BY <1>5, <3>1, <3>2, <3>3, <3>4, <3>5 DEF Min2
    <3>6. CASE k # i[t]
      <4>1. k \in 1 .. i[t] - 1 /\ i[t] # 1
        BY <1>5, <3>6
      <4>2. min_node[t] <= handle[s]
        BY <1>4, <3>1, <4>1
      <4>3. QED
        BY <1>5, <3>1, <3>3, <3>4, <4>1, <4>2 DEF Min2
    <3>7. QED
      BY <3>5, <3>6
  <2>2. QED
    BY <2>1
<1>7. Scanning(t) /\ Scanning(t)' /\ ToBeFreed(t) = {} /\ ToBeFreed(t)' = {}
  BY <1>3 DEF Scanning, ToBeFreed
<1>8. \A c \in Dequeuer : Scanning(c)' = Scanning(c) /\ ToBeFreed(c)' = ToBeFreed(c)
  <2>1. ASSUME NEW c \in Dequeuer, c # t
        PROVE  Scanning(c)' = Scanning(c) /\ ToBeFreed(c)' = ToBeFreed(c)
    <3>1. ~Scanning(c) /\ ~Scanning(c)' /\ ToBeFreed(c)' = ToBeFreed(c)
      BY <1>7, <2>1, OneScans
    <3>2. QED
      BY <3>1 DEF Scanning
  <2>2. Scanning(t)' = Scanning(t) /\ ToBeFreed(t)' = ToBeFreed(t)
    BY <1>3, <1>7 DEF Scanning
  <2>3. QED
    BY <2>1, <2>2
<1>9. Lock' /\ Released'
  BY <1>1, <1>3, <1>8 DEF Lock, Released, reclaimVars
<1>10. ASSUME NEW c \in Dequeuer, c # t
       PROVE  /\ pc'[c] = pc[c] /\ pc[c] \notin {"gc_scan", "gc_decide", "gc_unlock"}
              /\ first'[c] = first[c] /\ min_node'[c] = min_node[c] /\ i'[c] = i[c]
  BY <1>7, <1>10, OneScans DEF Scanning
<1>11. CASE over
  <2>1. pc'[t] = "gc_decide" /\ i'[t] = 1
    BY <1>3, <1>11
  <2>2. ASSUME min_node'[t] > init_index'[t], NEW s \in Thread PROVE min_node'[t] <= handle'[s]
    <3>1. i[t] = Len(Handles)
      BY <1>3, <1>5, <1>11, <2>2
    <3>2. PICK k \in 1 .. Len(Handles) : Handles[k] = s
      BY Scanned
    <3>3. QED
      BY <1>3, <1>6, <3>1, <3>2
  <2>3. init_index'[t] = init_node' /\ first'[t] = init_node'
    BY <1>3, <1>4 DEF reclaimVars
  <2>4. Scan'
    BY <1>1, <1>10, <2>1, <2>2, <2>3 DEF Scan
  <2>5. QED
    BY <1>9, <2>4
<1>12. CASE ~over
  <2>1. pc'[t] = "gc_scan" /\ i'[t] = i[t] + 1 /\ min_node'[t] > init_index'[t]
    BY <1>3, <1>5, <1>12
  <2>2. \A k \in 1 .. i'[t] - 1 : min_node'[t] <= handle'[Handles[k]]
    BY <1>3, <1>5, <1>6, <2>1
  <2>3. init_index'[t] = init_node' /\ first'[t] = init_node'
    BY <1>3, <1>4 DEF reclaimVars
  <2>4. Scan'
    BY <1>1, <1>10, <2>1, <2>2, <2>3 DEF Scan
  <2>5. QED
    BY <1>9, <2>4
<1>13. QED
  BY <1>11, <1>12

LEMMA GcDecideReclaims ==
  ASSUME IInv, NEW t \in Dequeuer, gc_decide(t), ThreadStep(t)
  PROVE  Lock' /\ Scan' /\ Released'
<1> USE DEF Step, Set
<1>1. TypeOK /\ Lock /\ Scan /\ Released /\ t \in Thread
  BY Constants DEF IInv
<1>2. DOMAIN pc = Thread /\ DOMAIN i = Dequeuer
  BY DEF TypeOK, IInv
<1>3. pc[t] = "gc_decide" /\ Scanning(t) /\ i[t] = 1 /\ handle' = handle /\ freed' = freed
  BY <1>1 DEF gc_decide, Scanning, dequeueLocals, listVars, Scan
<1>4. /\ init_index[t] = init_node /\ first[t] = init_node /\ init_node \in Nat
      /\ min_node[t] \in Nat
  BY <1>1, <1>3, ReclaimTypes DEF Scan
<1>5. ASSUME NEW c \in Dequeuer, c # t
      PROVE  /\ pc'[c] = pc[c] /\ pc[c] \notin {"gc_scan", "gc_decide", "gc_unlock"}
             /\ first'[c] = first[c] /\ min_node'[c] = min_node[c] /\ i'[c] = i[c]
             /\ ToBeFreed(c)' = ToBeFreed(c) /\ ~Scanning(c)'
  BY <1>3, <1>5, OneScans DEF Scanning
<1>6. ToBeFreed(t) = {}
  BY <1>3 DEF ToBeFreed
<1>7. CASE min_node[t] <= init_index[t]
  <2>1. /\ pc'[t] = "return" /\ init_id' = init_index[t] /\ i'[t] = 1
        /\ init_node' = init_node
    BY <1>1, <1>2, <1>4, <1>7 DEF gc_decide, ForgetScan
  <2>2. ~Scanning(t)' /\ ToBeFreed(t)' = {}
    BY <2>1 DEF Scanning, ToBeFreed
  <2>3. Lock'
    BY <1>4, <1>5, <2>1, <2>2 DEF Lock
  <2>4. \A c \in Dequeuer : ToBeFreed(c)' = ToBeFreed(c)
    BY <1>5, <1>6, <2>2
  <2>5. Released'
    BY <1>1, <1>3, <2>1, <2>4 DEF Released
  <2>6. Scan'
    BY <1>1, <1>5, <2>1 DEF Scan
  <2>7. QED
    BY <2>3, <2>5, <2>6
<1>8. CASE min_node[t] > init_index[t]
  <2>1. /\ pc'[t] = "gc_unlock" /\ init_node' = min_node[t] /\ init_id' = init_id
        /\ i' = i /\ min_node' = min_node /\ first' = first
    BY <1>1, <1>2, <1>4, <1>8 DEF gc_decide, scanVars
  <2>2. Scanning(t)' /\ ToBeFreed(t)' = init_node .. min_node[t] - 1
    BY <1>4, <2>1 DEF Scanning, ToBeFreed
  <2>3. init_id = -1
    BY <1>1, <1>3 DEF Lock
  <2>4. Lock'
    BY <1>5, <2>1, <2>2, <2>3 DEF Lock
  <2>5. \A s \in Thread : init_node' <= handle'[s]
    BY <1>1, <1>3, <1>8, <2>1 DEF Scan
  <2>6. ASSUME NEW c \in Dequeuer
        PROVE  /\ ToBeFreed(c) \cap ToBeFreed(t)' = {}
               /\ freed \cap ToBeFreed(t)' = {}
    <3>1. \A n \in Nat : n < init_node <=> n \in freed \/ \E d \in Dequeuer : n \in ToBeFreed(d)
      BY <1>1 DEF Released
    <3>2. \A n \in ToBeFreed(t)' : n \in Nat /\ n >= init_node
      BY <1>4, <2>2
    <3>3. QED
      BY <1>4, <3>1, <3>2
  <2>7. ASSUME NEW n \in Nat
        PROVE  n < init_node' <=> n \in freed' \/ \E c \in Dequeuer : n \in ToBeFreed(c)'
    <3>1. n < init_node <=> n \in freed \/ \E c \in Dequeuer : n \in ToBeFreed(c)
      BY <1>1 DEF Released
    <3>2. n < init_node' <=> n < init_node \/ n \in ToBeFreed(t)'
      BY <1>4, <1>8, <2>1, <2>2
    <3>3. (\E c \in Dequeuer : n \in ToBeFreed(c)')
             <=> n \in ToBeFreed(t)' \/ \E c \in Dequeuer : n \in ToBeFreed(c)
      BY <1>5, <1>6
    <3>4. QED
      BY <1>3, <3>1, <3>2, <3>3
  <2>8. ASSUME NEW c \in Dequeuer
        PROVE  ToBeFreed(c)' \cap freed' = {}
    BY <1>1, <1>3, <1>5, <2>6 DEF Released
  <2>9. ASSUME NEW c \in Dequeuer, NEW d \in Dequeuer, c # d
        PROVE  ToBeFreed(c)' \cap ToBeFreed(d)' = {}
    <3>1. CASE c = t
      BY <1>5, <2>6, <2>9, <3>1
    <3>2. CASE d = t
      BY <1>5, <2>6, <2>9, <3>2
    <3>3. CASE c # t /\ d # t
      <4>1. ToBeFreed(c) \cap ToBeFreed(d) = {}
        BY <1>1, <2>9 DEF Released
      <4>2. QED
        BY <1>5, <3>3, <4>1
    <3>4. QED
      BY <3>1, <3>2, <3>3
  <2>10. Released'
    BY <2>5, <2>7, <2>8, <2>9 DEF Released
  <2>11. first'[t] <= min_node'[t] /\ i'[t] = 1 /\ min_node'[t] = init_node'
    BY <1>3, <1>4, <1>8, <2>1
  <2>12. Scan'
    BY <1>1, <1>5, <2>1, <2>11 DEF Scan
  <2>13. QED
    BY <2>4, <2>10, <2>12
<1>9. min_node[t] <= init_index[t] \/ min_node[t] > init_index[t]
  BY <1>4
<1>10. QED
  BY <1>7, <1>8, <1>9

LEMMA GcUnlockReclaims ==
  ASSUME IInv, NEW t \in Dequeuer, gc_unlock(t), ThreadStep(t)
  PROVE  Lock' /\ Scan' /\ Released'
<1> USE DEF Step, Set
<1>1. TypeOK /\ Lock /\ Scan /\ Released /\ t \in Thread
  BY Constants DEF IInv
<1>2. DOMAIN pc = Thread
  BY DEF TypeOK, IInv
<1>3. /\ pc[t] = "gc_unlock" /\ pc'[t] = "gc_free" /\ Scanning(t) /\ init_id' = min_node[t]
      /\ UNCHANGED <<handle, freed, init_node, scanVars>>
  BY <1>1, <1>2 DEF gc_unlock, Scanning, dequeueLocals, listVars, Scan
<1>4. min_node[t] = init_node /\ i[t] = 1 /\ init_node \in Nat /\ first[t] <= min_node[t]
  BY <1>1, <1>3, ReclaimTypes DEF Scan
<1>5. ASSUME NEW c \in Dequeuer, c # t
      PROVE  /\ pc'[c] = pc[c] /\ pc[c] \notin {"gc_scan", "gc_decide", "gc_unlock"}
             /\ first'[c] = first[c] /\ min_node'[c] = min_node[c] /\ i'[c] = i[c]
             /\ ToBeFreed(c)' = ToBeFreed(c) /\ ~Scanning(c)'
  BY <1>3, <1>5, OneScans DEF Scanning
<1>6. ToBeFreed(t)' = ToBeFreed(t) /\ ~Scanning(t)'
  BY <1>3 DEF ToBeFreed, scanVars, Scanning
<1>7. Lock'
  BY <1>3, <1>4, <1>5, <1>6 DEF Lock
<1>8. \A c \in Dequeuer : ToBeFreed(c)' = ToBeFreed(c)
  BY <1>5, <1>6
<1>9. Released'
  BY <1>1, <1>3, <1>8 DEF Released
<1>10. i'[t] = 1 /\ first'[t] <= min_node'[t]
  BY <1>3, <1>4 DEF scanVars
<1>11. Scan'
  BY <1>1, <1>3, <1>5, <1>10 DEF Scan
<1>12. QED
  BY <1>7, <1>9, <1>11

LEMMA GcFreeReclaims ==
  ASSUME IInv, NEW t \in Dequeuer, gc_free(t), ThreadStep(t)
  PROVE  Lock' /\ Scan' /\ Released'
<1> USE DEF Step, Set
<1>1. TypeOK /\ Lock /\ Scan /\ Released /\ t \in Thread
  BY Constants DEF IInv
<1>2. DOMAIN pc = Thread /\ DOMAIN i = Dequeuer
  BY DEF TypeOK, IInv
<1>3. /\ pc[t] = "gc_free" /\ pc'[t] = "return" /\ freed' = freed \cup ToBeFreed(t)
      /\ i'[t] = 1 /\ UNCHANGED <<handle, init_node, init_id>>
  BY <1>1, <1>2 DEF gc_free, ToBeFreed, ForgetScan, dequeueLocals, listVars
<1>4. ToBeFreed(t)' = {} /\ ~Scanning(t) /\ ~Scanning(t)'
  BY <1>3 DEF ToBeFreed, Scanning
<1>5. ASSUME NEW c \in Dequeuer, c # t
      PROVE  /\ pc'[c] = pc[c] /\ first'[c] = first[c] /\ min_node'[c] = min_node[c]
             /\ i'[c] = i[c] /\ init_index'[c] = init_index[c]
             /\ ToBeFreed(c)' = ToBeFreed(c) /\ Scanning(c)' = Scanning(c)
  <2>1. /\ pc'[c] = pc[c] /\ first'[c] = first[c] /\ min_node'[c] = min_node[c]
        /\ i'[c] = i[c] /\ init_index'[c] = init_index[c]
    BY <1>1, <1>5, Others, Constants
  <2>2. QED
    BY <2>1 DEF ToBeFreed, Scanning
<1>6. Lock'
  BY <1>1, <1>3, <1>4, <1>5 DEF Lock
<1>7. \A n : n \in freed' \/ (\E c \in Dequeuer : n \in ToBeFreed(c)')
               <=> n \in freed \/ \E c \in Dequeuer : n \in ToBeFreed(c)
  BY <1>3, <1>4, <1>5
<1>8. ASSUME NEW c \in Dequeuer
      PROVE  ToBeFreed(c)' \cap freed' = {}
  <2>1. CASE c = t
    BY <1>4, <2>1
  <2>2. CASE c # t
    <3>1. ToBeFreed(c) \cap freed = {} /\ ToBeFreed(c) \cap ToBeFreed(t) = {}
      BY <1>1, <2>2 DEF Released
    <3>2. QED
      BY <1>3, <1>5, <2>2, <3>1
  <2>3. QED
    BY <2>1, <2>2
<1>9. ASSUME NEW c \in Dequeuer, NEW d \in Dequeuer, c # d
      PROVE  ToBeFreed(c)' \cap ToBeFreed(d)' = {}
  <2>1. CASE c = t \/ d = t
    BY <1>4, <2>1
  <2>2. CASE c # t /\ d # t
    <3>1. ToBeFreed(c) \cap ToBeFreed(d) = {}
      BY <1>1, <1>9 DEF Released
    <3>2. QED
      BY <1>5, <2>2, <3>1
  <2>3. QED
    BY <2>1, <2>2
<1>10. Released'
  BY <1>1, <1>3, <1>7, <1>8, <1>9 DEF Released
<1>11. Scan'
  BY <1>1, <1>3, <1>5 DEF Scan
<1>12. QED
  BY <1>6, <1>10, <1>11

LEMMA ReclaimKept ==
  ASSUME IInv, NEW t \in Thread, ThreadStep(t)
  PROVE  Lock' /\ Scan' /\ Released'
<1> USE DEF Step, Set
<1>1. TypeOK /\ Threads /\ Scan
  BY DEF IInv
<1>2. DOMAIN pc = Thread /\ DOMAIN i = Dequeuer
  BY DEF TypeOK, IInv
<1>3. CASE next_node(t) \/ found(t)
  BY <1>2, <1>3, OtherStepsReclaim DEF next_node, found, reclaimVars, scanVars, Reclaiming
<1>4. CASE t \in Enqueuer /\ producer(t)
  <2>1. UNCHANGED reclaimVars
    BY <1>4 DEF producer, enqueue, put, clear, wake
  <2>2. t \notin Dequeuer
    BY <1>4, Constants
  <2>3. QED
    BY <2>1, <2>2, OtherStepsReclaim
<1>5. CASE dequeue(t) \/ look(t) \/ sleep(t) \/ wait(t) \/ check(t) \/ return(t)
  <2>1. /\ UNCHANGED <<reclaimVars, scanVars>>
        /\ pc[t] \in {"dequeue", "look", "sleep", "wait", "check", "return"}
        /\ pc'[t] \in {"find_cell", "gc_load", "return", "sleep", "wait", "check", "barrier", "dequeue"}
    BY <1>2, <1>5 DEF dequeue, look, sleep, wait, check, return, AfterOver, Over
  <2>2. QED
    BY <2>1, OtherStepsReclaim DEF scanVars, Reclaiming
<1>6. CASE t \in Dequeuer /\ gc_load(t)
  BY <1>2, <1>6, OtherStepsReclaim DEF gc_load, Reclaiming
<1>7. CASE t \in Dequeuer /\ (gc_lock(t) \/ gc_scan(t) \/ gc_decide(t) \/ gc_unlock(t) \/ gc_free(t))
  BY <1>7, GcLockReclaims, GcScanReclaims, GcDecideReclaims, GcUnlockReclaims, GcFreeReclaims
<1>8. QED
  BY <1>3, <1>4, <1>5, <1>6, <1>7 DEF ThreadStep, consumer

-----------------------------------------------------------------------------
(* The cells.                                                              *)

LEMMA OneEnqueuer ==
  ASSUME Indices, NEW p \in Enqueuer, NEW q \in Enqueuer, Active(p), Active(q),
         index[p] = index[q]
  PROVE  p = q
<1>1. order[index[p] + 1] = <<p, count[p]>> /\ order[index[q] + 1] = <<q, count[q]>>
  BY DEF Indices
<1>2. QED
  BY <1>1

LEMMA ComingIs ==
  ASSUME NEW p \in Enqueuer, pc[p] \in {"find_cell", "put"}
  PROVE  Active(p)
BY DEF Active

(* An index waits for its enqueue until the enqueue's exchange.            *)
LEMMA ToComeKept ==
  ASSUME TypeOK, Threads, Tickets, Indices, NEW t \in Thread, ThreadStep(t), ~put(t),
         NEW n \in Nat
  PROVE  ToCome(n)' <=> ToCome(n)
<1> USE DEF Step, Set
<1>1. /\ DOMAIN pc = Thread /\ DOMAIN index = Thread /\ put_index \in Nat
      /\ t \in Enqueuer <=> t \notin Dequeuer
  BY Constants, Sizes DEF TypeOK
<1>2. \A s \in Thread : s # t => pc'[s] = pc[s] /\ index'[s] = index[s]
  BY Others
<1>3. CASE t \in Enqueuer /\ enqueue(t)
  <2>1. /\ put_index' = put_index + 1 /\ index'[t] = put_index
        /\ pc[t] = "enqueue" /\ pc'[t] = "find_cell"
    BY <1>1, <1>3 DEF enqueue
  <2>2. CASE n = put_index
    BY <1>1, <1>3, <2>1, <2>2 DEF ToCome
  <2>3. CASE n # put_index
    <3>1. n >= put_index + 1 <=> n >= put_index
      BY <1>1, <2>3
    <3>2. ASSUME NEW p \in Enqueuer
          PROVE  index'[p] = n /\ pc'[p] \in {"find_cell", "put"}
                   <=> index[p] = n /\ pc[p] \in {"find_cell", "put"}
      BY <1>2, <2>1, <2>3, Constants
    <3>3. QED
      BY <2>1, <3>1, <3>2 DEF ToCome
  <2>4. QED
    BY <2>2, <2>3
<1>4. ASSUME put_index' = put_index,
             t \in Enqueuer =>
               /\ index' = index
               /\ pc'[t] \in {"find_cell", "put"} <=> pc[t] \in {"find_cell", "put"}
      PROVE  ToCome(n)' <=> ToCome(n)
  <2>1. ASSUME NEW p \in Enqueuer
        PROVE  index'[p] = n /\ pc'[p] \in {"find_cell", "put"}
                 <=> index[p] = n /\ pc[p] \in {"find_cell", "put"}
    BY <1>2, <1>4, Constants
  <2>2. QED
    BY <1>4, <2>1 DEF ToCome
<1>5. CASE next_node(t) \/ found(t)
  BY <1>1, <1>4, <1>5 DEF next_node, found, indexVars
<1>6. CASE t \in Enqueuer /\ (clear(t) \/ wake(t))
  BY <1>1, <1>4, <1>6 DEF clear, wake, Over, indexVars
<1>7. CASE t \in Dequeuer /\ ~next_node(t) /\ ~found(t)
  <2>1. put_index' = put_index
    <3>1. CASE GoesOn(t)
      BY <3>1, GoesOnKeeps
    <3>2. CASE Begins(t)
      BY <1>7, <3>2, DequeueKeeps, Constants DEF Begins
    <3>3. QED
      BY <3>1, <3>2, TwoKinds
  <2>2. QED
    BY <1>1, <1>4, <1>7, <2>1
<1>8. QED
  BY <1>1, <1>3, <1>5, <1>6, <1>7 DEF ThreadStep, producer

LEMMA ToComePut ==
  ASSUME TypeOK, Threads, Indices, NEW t \in Enqueuer, ThreadStep(t), put(t), NEW n \in Nat
  PROVE  /\ ToCome(index[t])
         /\ ToCome(n)' <=> ToCome(n) /\ n # index[t]
<1> USE DEF Step, Set
<1>1. /\ DOMAIN pc = Thread /\ put_index \in Nat /\ t \in Thread /\ index[t] \in Nat
  BY Constants, Sizes DEF TypeOK
<1>2. \A s \in Thread : s # t => pc'[s] = pc[s]
  BY <1>1, Others
<1>3. /\ pc[t] = "put" /\ pc'[t] \notin {"find_cell", "put"} /\ put_index' = put_index
      /\ index' = index
  BY <1>1 DEF put, Over, indexVars
<1>4. Active(t) /\ index[t] < put_index
  BY <1>3 DEF Active, Indices
<1>5. ToCome(index[t])
  BY <1>3 DEF ToCome
<1>6. ASSUME NEW p \in Enqueuer
      PROVE  index'[p] = n /\ pc'[p] \in {"find_cell", "put"}
               <=> index[p] = n /\ pc[p] \in {"find_cell", "put"} /\ n # index[t]
  <2>1. CASE p = t
    BY <1>3, <2>1
  <2>2. CASE p # t
    <3>1. index[p] = index[t] => pc[p] \notin {"find_cell", "put"}
      BY <1>4, <2>2, OneEnqueuer, ComingIs
    <3>2. QED
      BY <1>2, <1>3, <2>2, <3>1, Constants
  <2>3. QED
    BY <2>1, <2>2
<1>7. n >= put_index => n # index[t]
  BY <1>1, <1>4
<1>8. QED
  BY <1>3, <1>5, <1>6, <1>7 DEF ToCome

(* Steps towards the cell, or away from it with the value.                 *)
LEMMA CellsFrame ==
  ASSUME Cells, Waits, Wakers, Sleepers, TypeOK,
         UNCHANGED <<cell, pop_index, futex_addr, waitq>>,
         \A n \in Nat : (ToCome(n)' <=> ToCome(n)) /\ (~ToCome(n) => order'[n + 1] = order[n + 1]),
         \A c \in Dequeuer :
           /\ index'[c] = index[c]
           /\ Early(c)' = Early(c) /\ Waiting(c)' = Waiting(c) /\ Late(c)' = Late(c)
           /\ pc'[c] = "check" <=> pc[c] = "check"
           /\ cv'[c] = cv[c],
         \A p \in Enqueuer :
           /\ pc'[p] = "clear" <=> pc[p] = "clear"
           /\ pc[p] = "clear" => index'[p] = index[p]
           /\ pc'[p] = "wake" <=> pc[p] = "wake"
           /\ cv'[p] = cv[p]
  PROVE  Cells' /\ Waits' /\ Wakers' /\ Sleepers'
<1>1. ASSUME NEW c \in Dequeuer
      PROVE  /\ ToCome(index[c])' <=> ToCome(index[c])
             /\ ~ToCome(index[c]) => order'[index[c] + 1] = order[index[c] + 1]
  <2>1. PICK n \in Nat : n = index[c] /\ n = index'[c]
    BY Numbers, Constants
  <2>2. (ToCome(n)' <=> ToCome(n)) /\ (~ToCome(n) => order'[n + 1] = order[n + 1])
    OBVIOUS
  <2>3. ToCome(index[c])' <=> ToCome(n)'
    BY <2>1 DEF ToCome
  <2>4. QED
    BY <2>1, <2>2, <2>3
<1>2. \A n \in 0 .. Places - 1 : Untouched(n)' <=> Untouched(n)
  BY DEF Untouched
<1>3. \A n \in 0 .. Places - 1 :
        (ToCome(n)' <=> ToCome(n)) /\ (~ToCome(n) => order'[n + 1] = order[n + 1])
  BY Sizes
<1>4. Cells'
  BY <1>2, <1>3 DEF Cells
<1>5. Waits'
  BY <1>1 DEF Waits
<1>6. ASSUME NEW p \in Enqueuer, pc'[p] = "clear"
      PROVE  FutexLives(p)' /\ futex_addr'[cv'[p]] = 1
  <2>1. /\ FutexLives(p) /\ futex_addr[cv[p]] = 1 /\ cv[p] \in Dequeuer /\ cv'[p] = cv[p]
        /\ index[cv[p]] = index[p] /\ Waiting(cv[p])
    BY <1>6 DEF Wakers, FutexLives, Waiting
  <2>2. PICK c \in Dequeuer : c = cv[p]
    BY <2>1
  <2>3. pc'[c] \in {"wait", "check"} /\ index'[c] = index[c] /\ index'[p] = index[p]
    BY <1>6, <2>1, <2>2 DEF Waiting
  <2>4. QED
    BY <2>1, <2>2, <2>3 DEF FutexLives
<1>7. Wakers'
  BY <1>6 DEF Wakers
<1>8. Sleepers'
  BY DEF Sleepers
<1>9. QED
  BY <1>4, <1>5, <1>7, <1>8

CellsPart == Cells /\ Waits /\ Wakers /\ Sleepers

LEMMA FindAndCollectCells ==
  ASSUME IInv, NEW t \in Thread, ThreadStep(t),
         \/ next_node(t) \/ found(t)
         \/ /\ t \in Dequeuer
            /\ \/ gc_load(t) \/ gc_lock(t) \/ gc_scan(t)
               \/ gc_decide(t) \/ gc_unlock(t) \/ gc_free(t)
  PROVE  CellsPart'
<1> USE DEF Step, Set
<1>1. TypeOK /\ Threads /\ Tickets /\ Indices /\ Cells /\ Waits /\ Wakers /\ Sleepers
  BY DEF IInv
<1>2. DOMAIN pc = Thread /\ (t \in Enqueuer <=> t \notin Dequeuer)
  BY <1>1, Constants DEF TypeOK
<1>3. UNCHANGED <<cell, pop_index, put_index, order, index, futex_addr, waitq, cv>> /\ ~put(t)
  BY DEF next_node, found, gc_load, gc_lock, gc_scan, gc_decide, gc_unlock, gc_free, put,
         dequeueLocals, listVars, indexVars
<1>4. \A n \in Nat : ToCome(n)' <=> ToCome(n)
  BY <1>1, <1>3, ToComeKept
<1>5. \/ pc[t] = "find_cell" /\ pc'[t] \in {"find_cell", IF t \in Enqueuer THEN "put" ELSE "look"}
      \/ t \in Dequeuer /\ pc[t] \in Collecting /\ pc'[t] \in {"return"} \cup Collecting
  <2>1. CASE next_node(t) \/ found(t)
    BY <1>2, <2>1 DEF next_node, found
  <2>2. CASE t \in Dequeuer /\ (gc_load(t) \/ gc_lock(t) \/ gc_scan(t)
               \/ gc_decide(t) \/ gc_unlock(t) \/ gc_free(t))
    BY <1>2, <2>2 DEF gc_load, gc_lock, gc_scan, gc_decide, gc_unlock, gc_free, Collecting
  <2>3. QED
    BY <2>1, <2>2
<1>6. \A s \in Thread : s # t => pc'[s] = pc[s]
  BY <1>1, Others
<1>7. ASSUME NEW c \in Dequeuer
      PROVE  /\ Early(c)' = Early(c) /\ Waiting(c)' = Waiting(c) /\ Late(c)' = Late(c)
             /\ pc'[c] = "check" <=> pc[c] = "check"
  <2>1. CASE c = t
    BY <1>2, <1>5, <2>1 DEF Early, Waiting, Late, Collecting
  <2>2. CASE c # t
    <3>1. pc'[c] = pc[c]
      BY <1>6, <2>2, Constants
    <3>2. QED
      BY <3>1 DEF Early, Waiting, Late
  <2>3. QED
    BY <2>1, <2>2
<1>8. ASSUME NEW p \in Enqueuer
      PROVE  /\ pc'[p] = "clear" <=> pc[p] = "clear"
             /\ pc'[p] = "wake" <=> pc[p] = "wake"
  BY <1>2, <1>5, <1>6, Constants
<1>9. QED
  BY <1>1, <1>3, <1>4, <1>7, <1>8, CellsFrame DEF CellsPart

LEMMA EnqueueCells ==
  ASSUME IInv, NEW t \in Enqueuer, enqueue(t), ThreadStep(t)
  PROVE  CellsPart'
<1> USE DEF Step, Set
<1>1. TypeOK /\ Threads /\ Tickets /\ Indices /\ Cells /\ Waits /\ Wakers /\ Sleepers
  BY DEF IInv
<1>2. DOMAIN pc = Thread /\ t \in Thread /\ t \notin Dequeuer /\ put_index \in Nat
  BY <1>1, Constants, Sizes DEF TypeOK
<1>3. /\ UNCHANGED <<cell, pop_index, futex_addr, waitq, cv>> /\ ~put(t)
      /\ pc[t] = "enqueue" /\ pc'[t] = "find_cell"
  BY <1>2 DEF enqueue, put, listVars
<1>4. \A n \in Nat : ToCome(n)' <=> ToCome(n)
  BY <1>1, <1>2, <1>3, ToComeKept
<1>5. ASSUME NEW n \in Nat, ~ToCome(n) PROVE order'[n + 1] = order[n + 1]
  <2>1. n + 1 \in 1 .. put_index
    BY <1>2, <1>5 DEF ToCome
  <2>2. QED
    BY <1>1, <2>1, EnqueueKeeps
<1>6. \A s \in Thread : s # t => pc'[s] = pc[s] /\ index'[s] = index[s]
  BY <1>1, <1>2, Others
<1>7. ASSUME NEW c \in Dequeuer
      PROVE  /\ Early(c)' = Early(c) /\ Waiting(c)' = Waiting(c) /\ Late(c)' = Late(c)
             /\ pc'[c] = "check" <=> pc[c] = "check"
             /\ index'[c] = index[c]
  <2>1. pc'[c] = pc[c] /\ index'[c] = index[c]
    BY <1>2, <1>6, Constants
  <2>2. QED
    BY <2>1 DEF Early, Waiting, Late
<1>8. ASSUME NEW p \in Enqueuer
      PROVE  /\ pc'[p] = "clear" <=> pc[p] = "clear"
             /\ pc'[p] = "wake" <=> pc[p] = "wake"
             /\ pc[p] = "clear" => index'[p] = index[p]
  BY <1>3, <1>6, Constants
<1>9. QED
  BY <1>1, <1>3, <1>4, <1>5, <1>7, <1>8, CellsFrame DEF CellsPart

(* The other threads of a step are where they were.                        *)
LEMMA OtherPhases ==
  ASSUME TypeOK, NEW t \in Thread, ThreadStep(t), NEW s \in Thread, s # t
  PROVE  /\ Early(s)' = Early(s) /\ Waiting(s)' = Waiting(s) /\ Late(s)' = Late(s)
         /\ pc'[s] = pc[s] /\ cv'[s] = cv[s] /\ index'[s] = index[s]
<1>1. pc'[s] = pc[s] /\ cv'[s] = cv[s] /\ index'[s] = index[s]
  BY Others
<1>2. QED
  BY <1>1 DEF Early, Waiting, Late

(* A step that moves no enqueuer leaves those that hold a futex alone.     *)
LEMMA WakersKept ==
  ASSUME Wakers,
         \A p \in Enqueuer : pc'[p] = pc[p] /\ cv'[p] = cv[p] /\ index'[p] = index[p],
         \A p \in Enqueuer : pc[p] = "clear" =>
           /\ pc'[cv[p]] \in {"wait", "check"} /\ index'[cv[p]] = index[cv[p]]
           /\ futex_addr'[cv[p]] = futex_addr[cv[p]]
  PROVE  Wakers'
BY DEF Wakers, FutexLives

LEMMA DequeueCells ==
  ASSUME IInv, NEW t \in Dequeuer, dequeue(t), ThreadStep(t)
  PROVE  CellsPart'
<1> USE DEF Step, Set
<1>1. TypeOK /\ Threads /\ Tickets /\ Indices /\ Cells /\ Waits /\ Wakers /\ Sleepers
  BY DEF IInv
<1>2. /\ DOMAIN pc = Thread /\ t \in Thread /\ t \notin Enqueuer /\ pop_index \in Nat
      /\ DOMAIN index = Thread /\ DOMAIN futex_addr = Dequeuer
  BY <1>1, Constants, Sizes DEF TypeOK
<1>3. /\ UNCHANGED <<cell, put_index, order, waitq, cv>> /\ ~put(t)
      /\ pc[t] = "dequeue" /\ pc'[t] = "find_cell" /\ index'[t] = pop_index
      /\ pop_index' = pop_index + 1 /\ futex_addr' = [futex_addr EXCEPT ![t] = 1]
  BY <1>2 DEF dequeue, put, listVars
<1>4. \A n \in Nat : ToCome(n)' <=> ToCome(n)
  BY <1>1, <1>2, <1>3, ToComeKept
<1>5. /\ ~Early(t) /\ ~Waiting(t) /\ ~Late(t) /\ Early(t)' /\ ~Waiting(t)' /\ ~Late(t)'
  BY <1>3 DEF Early, Waiting, Late, Collecting
<1>6. ASSUME NEW s \in Thread, s # t
      PROVE  /\ Early(s)' = Early(s) /\ Waiting(s)' = Waiting(s) /\ Late(s)' = Late(s)
             /\ pc'[s] = pc[s] /\ index'[s] = index[s]
  BY <1>1, <1>2, <1>6, OtherPhases
<1>7. Cells'
  <2>1. ASSUME NEW n \in 0 .. Places - 1 PROVE Untouched(n)' <=> Untouched(n)
    <3>1. CASE n = pop_index
      BY <1>2, <1>3, <1>5, <3>1 DEF Untouched
    <3>2. CASE n # pop_index
      <4>1. n >= pop_index + 1 <=> n >= pop_index
        BY <1>2, <3>2, Sizes
      <4>2. \A c \in Dequeuer : Early(c)' /\ index'[c] = n <=> Early(c) /\ index[c] = n
        BY <1>3, <1>5, <1>6, <3>2, Constants
      <4>3. QED
        BY <1>3, <4>1, <4>2 DEF Untouched
    <3>3. QED
      BY <3>1, <3>2
  <2>2. ASSUME NEW n \in 0 .. Places - 1, ToCome(n)', n < pop_index'
        PROVE  \E c \in Dequeuer : (Early(c)' \/ Waiting(c)') /\ index'[c] = n
    <3>1. CASE n = pop_index
      BY <1>3, <1>5, <3>1
    <3>2. CASE n # pop_index
      <4>1. n < pop_index /\ ToCome(n)
        BY <1>2, <1>3, <1>4, <2>2, <3>2, Sizes
      <4>2. PICK c \in Dequeuer : (Early(c) \/ Waiting(c)) /\ index[c] = n
        BY <1>1, <4>1 DEF Cells
      <4>3. QED
        BY <1>5, <1>6, <4>2, Constants
    <3>3. QED
      BY <3>1, <3>2
  <2>3. \A n \in 0 .. Places - 1 : ToCome(n)' <=> ToCome(n)
    BY <1>4, Sizes
  <2>4. QED
    BY <1>1, <1>3, <2>1, <2>2, <2>3 DEF Cells
<1>8. Waits'
  <2>1. ASSUME NEW c \in Dequeuer, c # t
        PROVE  /\ Early(c)' = Early(c) /\ Waiting(c)' = Waiting(c) /\ Late(c)' = Late(c)
               /\ index'[c] = index[c] /\ futex_addr'[c] = futex_addr[c]
               /\ ToCome(index[c])' <=> ToCome(index[c])
    <3>1. PICK n \in Nat : n = index[c]
      BY <1>1, Numbers, Constants
    <3>2. index'[c] = index[c]
      BY <1>6, <2>1, Constants
    <3>3. ToCome(index[c])' <=> ToCome(n)'
      BY <3>1, <3>2 DEF ToCome
    <3>4. QED
      BY <1>2, <1>3, <1>4, <1>6, <2>1, <3>1, <3>2, <3>3, Constants
  <2>2. \A p \in Enqueuer : pc'[p] = pc[p] /\ index'[p] = index[p]
    BY <1>2, <1>6, Constants
  <2>3. futex_addr'[t] = 1
    BY <1>2, <1>3
  <2>4. QED
    BY <1>1, <1>3, <1>5, <2>1, <2>2, <2>3 DEF Waits
<1>9. Wakers'
  <2>1. \A p \in Enqueuer : pc'[p] = pc[p] /\ cv'[p] = cv[p] /\ index'[p] = index[p]
    BY <1>2, <1>3, <1>6, Constants
  <2>2. ASSUME NEW p \in Enqueuer, pc[p] = "clear"
        PROVE  /\ pc'[cv[p]] \in {"wait", "check"} /\ index'[cv[p]] = index[cv[p]]
               /\ futex_addr'[cv[p]] = futex_addr[cv[p]]
    <3>1. PICK c \in Dequeuer : c = cv[p] /\ pc[c] \in {"wait", "check"}
      BY <1>1, <2>2 DEF Wakers, FutexLives
    <3>2. QED
      BY <1>2, <1>3, <1>6, <3>1, Constants
  <2>3. QED
    BY <1>1, <2>1, <2>2, WakersKept
<1>10. Sleepers'
  <2>1. \A p \in Enqueuer : pc'[p] = pc[p]
    BY <1>2, <1>6, Constants
  <2>2. \A c \in Dequeuer : c \in waitq[c] => c # t
    BY <1>1, <1>3 DEF Sleepers
  <2>3. \A c \in Dequeuer : c # t => pc'[c] = pc[c] /\ futex_addr'[c] = futex_addr[c]
    BY <1>2, <1>3, <1>6, Constants
  <2>4. QED
    BY <1>1, <1>3, <2>1, <2>2, <2>3 DEF Sleepers
<1>11. QED
  BY <1>7, <1>8, <1>9, <1>10 DEF CellsPart

(* An exchange of an enqueue: either nobody has been at the cell, or the   *)
(* dequeue of the index has left its futex there.                          *)
LEMMA PutFinds ==
  ASSUME IInv, NEW t \in Enqueuer, put(t), ThreadStep(t)
  PROVE  /\ Cell(t) = index[t] /\ index[t] \in 0 .. Places - 1 /\ index[t] < put_index
         /\ order[index[t] + 1] = <<t, count[t]>>
         /\ cell[index[t]] = NULL =>
              \A c \in Dequeuer : Waiting(c) => index[c] # index[t]
         /\ cell[index[t]] # NULL =>
              /\ cell[index[t]] \in Dequeuer /\ Waiting(cell[index[t]])
              /\ index[cell[index[t]]] = index[t] /\ futex_addr[cell[index[t]]] = 1
         /\ \A c \in Dequeuer : Waiting(c) /\ index[c] = index[t] => cell[index[t]] = c
<1>1. TypeOK /\ Threads /\ Indices /\ Walks /\ Cells /\ Waits /\ t \in Thread
  BY Constants DEF IInv
<1>2. pc[t] = "put" /\ Active(t)
  BY DEF put, Step, Active
<1>3. handle[t] = index[t] \div N
  BY <1>1, <1>2 DEF Walks
<1>4. PICK n \in Nat : n = index[t] /\ n \in 0 .. Places - 1
  BY <1>1, Numbers, Sizes
<1>5. Cell(t) = n /\ ToCome(n)
  BY <1>1, <1>3, <1>4, CellIs, ToComePut
<1>6. n < put_index /\ order[n + 1] = <<t, count[t]>>
  BY <1>1, <1>2, <1>4 DEF Indices
<1>7. \A c \in Dequeuer : Waiting(c) /\ index[c] = n => cell[n] = c /\ futex_addr[c] = 1
  BY <1>1, <1>5 DEF Waits
<1>8. cell[n] = NULL => \A c \in Dequeuer : Waiting(c) => index[c] # n
  BY <1>7, CellAssumption
<1>9. ASSUME cell[n] # NULL
      PROVE  cell[n] \in Dequeuer /\ Waiting(cell[n]) /\ index[cell[n]] = n
             /\ futex_addr[cell[n]] = 1
  <2>1. ~Untouched(n)
    BY <1>1, <1>4, <1>5, <1>9 DEF Cells
  <2>2. n < pop_index
    BY <2>1, <1>1, <1>4, Numbers DEF Untouched
  <2>3. PICK c \in Dequeuer : (Early(c) \/ Waiting(c)) /\ index[c] = n
    BY <1>1, <1>4, <1>5, <2>2 DEF Cells
  <2>4. Waiting(c)
    BY <2>1, <2>3 DEF Untouched
  <2>5. QED
    BY <1>7, <2>3, <2>4
<1>10. QED
  BY <1>4, <1>5, <1>6, <1>7, <1>8, <1>9

LEMMA PutCells ==
  ASSUME IInv, NEW t \in Enqueuer, put(t), ThreadStep(t)
  PROVE  CellsPart'
<1> USE DEF Step, Set
<1>1. TypeOK /\ Threads /\ Tickets /\ Indices /\ Cells /\ Waits /\ Wakers /\ Sleepers
  BY DEF IInv
<1>2. /\ DOMAIN pc = Thread /\ t \in Thread /\ t \notin Dequeuer /\ put_index \in Nat
      /\ DOMAIN cell = 0 .. Places - 1 /\ DOMAIN cv = Thread
  BY <1>1, Constants, Sizes DEF TypeOK
<1>3. PICK n \in 0 .. Places - 1 :
        /\ n = index[t] /\ Cell(t) = n /\ order[n + 1] = <<t, count[t]>>
        /\ cell[n] = NULL => \A c \in Dequeuer : Waiting(c) => index[c] # n
        /\ cell[n] # NULL => /\ cell[n] \in Dequeuer /\ Waiting(cell[n])
                             /\ index[cell[n]] = n /\ futex_addr[cell[n]] = 1
        /\ \A c \in Dequeuer : Waiting(c) /\ index[c] = n => cell[n] = c
  BY PutFinds
<1>4. /\ UNCHANGED <<waitq, futex_addr, put_index, pop_index, order, index>>
      /\ cell' = [cell EXCEPT ![n] = order[n + 1]] /\ pc[t] = "put"
      /\ cell[n] = NULL => pc'[t] \in {"barrier", "enqueue"}
      /\ cell[n] # NULL => pc'[t] = "clear" /\ cv'[t] = cell[n]
  BY <1>2, <1>3 DEF put, Over, indexVars
<1>5. \A k \in 0 .. Places - 1 : ToCome(k)' <=> ToCome(k) /\ k # n
  BY <1>1, <1>3, ToComePut, Sizes
<1>6. ASSUME NEW s \in Thread, s # t
      PROVE  /\ Early(s)' = Early(s) /\ Waiting(s)' = Waiting(s) /\ Late(s)' = Late(s)
             /\ pc'[s] = pc[s] /\ cv'[s] = cv[s]
  BY <1>1, <1>2, <1>6, OtherPhases
<1>7. \A c \in Dequeuer : c \in Thread /\ c # t
  BY <1>2, Constants
<1>8. Cells'
  <2>1. \A k \in 0 .. Places - 1 : Untouched(k)' <=> Untouched(k)
    BY <1>4, <1>6, <1>7 DEF Untouched
  <2>2. ASSUME NEW k \in 0 .. Places - 1, Untouched(k)'
        PROVE  cell'[k] = IF ToCome(k)' THEN NULL ELSE order'[k + 1]
    <3>1. CASE k = n
      BY <1>2, <1>4, <1>5, <3>1
    <3>2. CASE k # n
      BY <1>1, <1>2, <1>4, <1>5, <2>1, <2>2, <3>2 DEF Cells
    <3>3. QED
      BY <3>1, <3>2
  <2>3. ASSUME NEW k \in 0 .. Places - 1, ToCome(k)', k < pop_index'
        PROVE  \E c \in Dequeuer : (Early(c)' \/ Waiting(c)') /\ index'[c] = k
    <3>1. PICK c \in Dequeuer : (Early(c) \/ Waiting(c)) /\ index[c] = k
      BY <1>1, <1>4, <1>5, <2>3 DEF Cells
    <3>2. QED
      BY <1>4, <1>6, <1>7, <3>1
  <2>4. QED
    BY <2>2, <2>3 DEF Cells
<1>9. Waits'
  <2>1. ASSUME NEW c \in Dequeuer
        PROVE  /\ Early(c)' => futex_addr'[c] = 1
               /\ Waiting(c)' /\ ToCome(index[c])' => cell'[index'[c]] = c /\ futex_addr'[c] = 1
               /\ Waiting(c)' /\ ~ToCome(index[c])' =>
                    /\ cell'[index'[c]] = order'[index'[c] + 1]
                    /\ \/ futex_addr'[c] = 0
                       \/ \E p \in Enqueuer :
                            pc'[p] = "clear" /\ cv'[p] = c /\ index'[p] = index'[c]
               /\ Late(c)' => ~ToCome(index[c])' /\ cv'[c] = order'[index'[c] + 1]
    <3>1. PICK k \in 0 .. Places - 1 : k = index[c] /\ k = index'[c]
      BY <1>1, <1>4, <1>7, Numbers, Sizes
    <3>2. /\ Early(c)' = Early(c) /\ Waiting(c)' = Waiting(c) /\ Late(c)' = Late(c)
          /\ cv'[c] = cv[c]
      BY <1>6, <1>7
    <3>3. /\ Early(c) => futex_addr[c] = 1
          /\ Waiting(c) /\ ToCome(k) => cell[k] = c /\ futex_addr[c] = 1
          /\ Waiting(c) /\ ~ToCome(k) =>
               /\ cell[k] = order[k + 1]
               /\ \/ futex_addr[c] = 0
                  \/ \E p \in Enqueuer : pc[p] = "clear" /\ cv[p] = c /\ index[p] = k
          /\ Late(c) => ~ToCome(k) /\ cv[c] = order[k + 1]
      <4>1. /\ Early(c) => futex_addr[c] = 1
            /\ Waiting(c) /\ ToCome(index[c]) => cell[index[c]] = c /\ futex_addr[c] = 1
            /\ Waiting(c) /\ ~ToCome(index[c]) =>
                 /\ cell[index[c]] = order[index[c] + 1]
                 /\ \/ futex_addr[c] = 0
                    \/ \E p \in Enqueuer : pc[p] = "clear" /\ cv[p] = c /\ index[p] = index[c]
            /\ Late(c) => ~ToCome(index[c]) /\ cv[c] = order[index[c] + 1]
        BY <1>1 DEF Waits
      <4>2. ToCome(index[c]) <=> ToCome(k)
        BY <3>1
      <4>3. QED
        BY <3>1, <4>1, <4>2
    <3>4. ToCome(index[c])' <=> ToCome(k) /\ k # n
      <4>1. ToCome(index[c])' <=> ToCome(k)'
        BY <3>1 DEF ToCome
      <4>2. QED
        BY <1>5, <4>1
    <3>5. CASE k = n
      <4>1. Waiting(c) => pc'[t] = "clear" /\ cv'[t] = c /\ index'[t] = k
        BY <1>3, <1>4, <3>1, <3>5
      <4>2. cell'[k] = order'[k + 1]
        BY <1>2, <1>4, <3>5
      <4>3. QED
        BY <1>4, <3>1, <3>2, <3>3, <3>4, <3>5, <4>1, <4>2
    <3>6. CASE k # n
      <4>1. cell'[k] = cell[k]
        BY <1>2, <1>4, <3>6
      <4>2. ASSUME NEW p \in Enqueuer, pc[p] = "clear" /\ cv[p] = c /\ index[p] = k
            PROVE  pc'[p] = "clear" /\ cv'[p] = c /\ index'[p] = k
        BY <1>4, <1>6, <4>2, Constants
      <4>3. QED
        BY <1>4, <3>1, <3>2, <3>3, <3>4, <3>6, <4>1, <4>2
    <3>7. QED
      BY <3>5, <3>6
  <2>2. QED
    BY <1>4, <2>1 DEF Waits
<1>10. Wakers'
  <2>1. ASSUME NEW p \in Enqueuer, pc'[p] = "clear" PROVE FutexLives(p)' /\ futex_addr'[cv'[p]] = 1
    <3>1. PICK c \in Dequeuer : /\ cv'[p] = c /\ Waiting(c) /\ index[c] = index[p]
                                /\ futex_addr[c] = 1
      <4>1. CASE p = t
        BY <1>3, <1>4, <2>1, <4>1
      <4>2. CASE p # t
        BY <1>1, <1>6, <2>1, <4>2, Constants DEF Wakers, FutexLives, Waiting
      <4>3. QED
        BY <4>1, <4>2
    <3>2. Waiting(c)'
      BY <1>6, <1>7, <3>1
    <3>3. QED
      BY <1>4, <3>1, <3>2 DEF FutexLives, Waiting
  <2>2. ASSUME NEW p \in Enqueuer, pc'[p] = "wake" PROVE cv'[p] \in Dequeuer
    BY <1>1, <1>4, <1>6, <2>2, Constants DEF Wakers
  <2>3. QED
    BY <2>1, <2>2 DEF Wakers
<1>11. Sleepers'
  <2>1. \A p \in Enqueuer : pc[p] = "wake" => pc'[p] = "wake" /\ cv'[p] = cv[p]
    BY <1>4, <1>6, Constants
  <2>2. \A c \in Dequeuer : pc'[c] = pc[c]
    BY <1>6, <1>7
  <2>3. QED
    BY <1>1, <1>4, <2>1, <2>2 DEF Sleepers
<1>12. QED
  BY <1>8, <1>9, <1>10, <1>11 DEF CellsPart

(* An enqueuer at clear holds the futex of the dequeue of its index, whose *)
(* value has come.                                                         *)
LEMMA ClearFinds ==
  ASSUME IInv, NEW t \in Enqueuer, pc[t] = "clear"
  PROVE  /\ cv[t] \in Dequeuer /\ Waiting(cv[t]) /\ index[cv[t]] = index[t]
         /\ ~ToCome(index[t])
         /\ \A p \in Enqueuer : pc[p] = "clear" /\ index[p] = index[t] => p = t
<1>1. cv[t] \in Dequeuer /\ Waiting(cv[t]) /\ index[cv[t]] = index[t]
  BY DEF IInv, Wakers, FutexLives, Waiting
<1>2. Active(t) /\ index[t] < put_index /\ Indices
  BY DEF Active, IInv, Indices
<1>3. \A p \in Enqueuer : Active(p) /\ index[p] = index[t] => p = t
  BY <1>2, OneEnqueuer
<1>4. \A p \in Enqueuer : pc[p] \in {"find_cell", "put", "clear"} => Active(p)
  BY DEF Active
<1>5. put_index \in Nat /\ index[t] \in Nat
  BY Numbers, Constants DEF IInv
<1>6. ~ToCome(index[t])
  BY <1>2, <1>3, <1>4, <1>5 DEF ToCome
<1>7. QED
  BY <1>1, <1>3, <1>4, <1>6

LEMMA ClearCells ==
  ASSUME IInv, NEW t \in Enqueuer, clear(t), ThreadStep(t)
  PROVE  CellsPart'
<1> USE DEF Step, Set
<1>1. TypeOK /\ Threads /\ Tickets /\ Indices /\ Cells /\ Waits /\ Wakers /\ Sleepers
  BY DEF IInv
<1>2. /\ DOMAIN pc = Thread /\ t \in Thread /\ t \notin Dequeuer
      /\ DOMAIN futex_addr = Dequeuer
  BY <1>1, Constants DEF TypeOK
<1>3. PICK c0 \in Dequeuer :
        /\ c0 = cv[t] /\ Waiting(c0) /\ index[c0] = index[t] /\ ~ToCome(index[c0])
        /\ \A p \in Enqueuer : pc[p] = "clear" /\ index[p] = index[t] => p = t
  BY ClearFinds DEF clear
<1>4. /\ UNCHANGED <<waitq, cell, put_index, pop_index, order, index, cv>> /\ ~put(t)
      /\ futex_addr' = [futex_addr EXCEPT ![c0] = 0]
      /\ pc[t] = "clear" /\ pc'[t] = "wake"
  BY <1>2, <1>3 DEF clear, put, listVars, indexVars
<1>5. \A n \in Nat : ToCome(n)' <=> ToCome(n)
  BY <1>1, <1>2, <1>4, ToComeKept
<1>6. ASSUME NEW s \in Thread, s # t
      PROVE  /\ Early(s)' = Early(s) /\ Waiting(s)' = Waiting(s) /\ Late(s)' = Late(s)
             /\ pc'[s] = pc[s]
  BY <1>1, <1>2, <1>6, OtherPhases
<1>7. \A c \in Dequeuer : c \in Thread /\ c # t
  BY <1>2, Constants
<1>8. Cells'
  <2>1. \A k \in 0 .. Places - 1 : Untouched(k)' <=> Untouched(k)
    BY <1>4, <1>6, <1>7 DEF Untouched
  <2>2. \A k \in 0 .. Places - 1 : ToCome(k)' <=> ToCome(k)
    BY <1>5, Sizes
  <2>3. QED
    BY <1>1, <1>4, <1>6, <1>7, <2>1, <2>2 DEF Cells
<1>9. Waits'
  <2>1. ASSUME NEW c \in Dequeuer
        PROVE  ToCome(index[c])' <=> ToCome(index[c])
    <3>1. PICK k \in Nat : k = index[c] /\ k = index'[c]
      BY <1>1, <1>4, <1>7, Numbers
    <3>2. ToCome(index[c])' <=> ToCome(k)'
      BY <3>1 DEF ToCome
    <3>3. QED
      BY <1>5, <3>1, <3>2
  <2>2. /\ ~Early(c0) /\ ~Late(c0) /\ ~ToCome(index[c0])
        /\ cell[index[c0]] = order[index[c0] + 1] /\ futex_addr'[c0] = 0
    BY <1>1, <1>2, <1>3, <1>4 DEF Waits, Early, Waiting, Late, Collecting
  <2>3. ASSUME NEW c \in Dequeuer, c # c0
        PROVE  /\ futex_addr'[c] = futex_addr[c]
               /\ \A p \in Enqueuer : pc[p] = "clear" /\ cv[p] = c => pc'[p] = "clear"
    BY <1>2, <1>3, <1>4, <1>6, <2>3, Constants
  <2>4. \A c \in Dequeuer :
          Early(c)' = Early(c) /\ Waiting(c)' = Waiting(c) /\ Late(c)' = Late(c)
    BY <1>6, <1>7
  <2>5. ASSUME NEW c \in Dequeuer
        PROVE  /\ Early(c)' => futex_addr'[c] = 1
               /\ Waiting(c)' /\ ToCome(index[c])' => cell'[index'[c]] = c /\ futex_addr'[c] = 1
               /\ Waiting(c)' /\ ~ToCome(index[c])' =>
                    /\ cell'[index'[c]] = order'[index'[c] + 1]
                    /\ \/ futex_addr'[c] = 0
                       \/ \E p \in Enqueuer :
                            pc'[p] = "clear" /\ cv'[p] = c /\ index'[p] = index'[c]
               /\ Late(c)' => ~ToCome(index[c])' /\ cv'[c] = order'[index'[c] + 1]
    <3>1. CASE c = c0
      BY <1>4, <2>1, <2>2, <2>4, <3>1
    <3>2. CASE c # c0
      BY <1>1, <1>4, <2>1, <2>3, <2>4, <3>2 DEF Waits
    <3>3. QED
      BY <3>1, <3>2
  <2>6. QED
    BY <1>4, <2>5 DEF Waits
<1>10. Wakers'
  <2>1. ASSUME NEW p \in Enqueuer, pc'[p] = "clear" PROVE FutexLives(p)' /\ futex_addr'[cv'[p]] = 1
    <3>1. p # t /\ pc[p] = "clear"
      BY <1>4, <1>6, <2>1, Constants
    <3>2. PICK c \in Dequeuer : /\ cv[p] = c /\ Waiting(c) /\ index[c] = index[p]
                                /\ futex_addr[c] = 1
      BY <1>1, <3>1 DEF Wakers, FutexLives, Waiting
    <3>3. c # c0
      BY <1>3, <3>1, <3>2
    <3>4. Waiting(c)' /\ futex_addr'[c] = 1
      BY <1>2, <1>4, <1>6, <1>7, <3>2, <3>3
    <3>5. QED
      BY <1>4, <3>2, <3>4 DEF FutexLives, Waiting
  <2>2. ASSUME NEW p \in Enqueuer, pc'[p] = "wake" PROVE cv'[p] \in Dequeuer
    BY <1>1, <1>3, <1>4, <1>6, <2>2, Constants DEF Wakers
  <2>3. QED
    BY <2>1, <2>2 DEF Wakers
<1>11. Sleepers'
  <2>1. \A p \in Enqueuer : pc[p] = "wake" => pc'[p] = "wake" /\ cv'[p] = cv[p]
    BY <1>4, <1>6, Constants
  <2>2. \A c \in Dequeuer : pc'[c] = pc[c]
    BY <1>6, <1>7
  <2>3. \A c \in Dequeuer : c # c0 => futex_addr'[c] = futex_addr[c]
    BY <1>2, <1>4
  <2>4. pc'[t] = "wake" /\ cv'[t] = c0
    BY <1>3, <1>4
  <2>5. QED
    BY <1>1, <1>4, <2>1, <2>2, <2>3, <2>4 DEF Sleepers
<1>12. QED
  BY <1>8, <1>9, <1>10, <1>11 DEF CellsPart

LEMMA WakeCells ==
  ASSUME IInv, NEW t \in Enqueuer, wake(t), ThreadStep(t)
  PROVE  CellsPart'
<1> USE DEF Step, Set
<1>1. TypeOK /\ Threads /\ Tickets /\ Indices /\ Cells /\ Waits /\ Wakers /\ Sleepers
  BY DEF IInv
<1>2. /\ DOMAIN pc = Thread /\ t \in Thread /\ t \notin Dequeuer
      /\ DOMAIN waitq = Dequeuer
  BY <1>1, Constants DEF TypeOK
<1>3. pc[t] = "wake" /\ cv[t] \in Dequeuer /\ ~put(t) /\ pc'[t] \in {"enqueue", "barrier"}
  BY <1>1, <1>2 DEF Wakers, wake, put, Over
<1>4. UNCHANGED <<futex_addr, cell, put_index, pop_index, order, index>>
  BY DEF wake, listVars, indexVars
<1>5. \A n \in Nat : ToCome(n)' <=> ToCome(n)
  BY <1>1, <1>2, <1>3, ToComeKept
<1>6. ASSUME NEW s \in Thread, s # t
      PROVE  /\ Early(s)' = Early(s) /\ Waiting(s)' = Waiting(s) /\ Late(s)' = Late(s)
             /\ pc'[s] = pc[s] /\ cv'[s] = cv[s]
  BY <1>1, <1>2, <1>6, OtherPhases
<1>7. \A c \in Dequeuer : c \in Thread /\ c # t
  BY <1>2, Constants
<1>8. \A p \in Enqueuer : pc[p] # "wake" => pc'[p] = pc[p] /\ cv'[p] = cv[p]
  BY <1>3, <1>6, Constants
<1>9. \A p \in Enqueuer : pc'[p] \in {"clear", "wake"} => pc'[p] = pc[p] /\ cv'[p] = cv[p] /\ p # t
  BY <1>3, <1>6, Constants
<1>10. Cells'
  <2>1. \A k \in 0 .. Places - 1 : Untouched(k)' <=> Untouched(k)
    BY <1>4, <1>6, <1>7 DEF Untouched
  <2>2. \A k \in 0 .. Places - 1 : ToCome(k)' <=> ToCome(k)
    BY <1>5, Sizes
  <2>3. QED
    BY <1>1, <1>4, <1>6, <1>7, <2>1, <2>2 DEF Cells
<1>11. Waits'
  <2>1. ASSUME NEW c \in Dequeuer
        PROVE  ToCome(index[c])' <=> ToCome(index[c])
    <3>1. PICK k \in Nat : k = index[c] /\ k = index'[c]
      BY <1>1, <1>4, <1>7, Numbers
    <3>2. ToCome(index[c])' <=> ToCome(k)'
      BY <3>1 DEF ToCome
    <3>3. QED
      BY <1>5, <3>1, <3>2
  <2>2. \A c \in Dequeuer : /\ Early(c)' = Early(c) /\ Waiting(c)' = Waiting(c)
                            /\ Late(c)' = Late(c) /\ cv'[c] = cv[c]
    BY <1>6, <1>7
  <2>3. QED
    BY <1>1, <1>4, <1>8, <2>1, <2>2 DEF Waits
<1>12. Wakers'
  <2>1. ASSUME NEW p \in Enqueuer, pc'[p] = "clear" PROVE FutexLives(p)' /\ futex_addr'[cv'[p]] = 1
    <3>1. pc[p] = "clear" /\ cv'[p] = cv[p]
      BY <1>9, <2>1
    <3>2. PICK c \in Dequeuer : /\ cv[p] = c /\ Waiting(c) /\ index[c] = index[p]
                                /\ futex_addr[c] = 1
      BY <1>1, <3>1 DEF Wakers, FutexLives, Waiting
    <3>3. Waiting(c)'
      BY <1>6, <1>7, <3>2
    <3>4. QED
      BY <1>4, <3>1, <3>2, <3>3 DEF FutexLives, Waiting
  <2>2. ASSUME NEW p \in Enqueuer, pc'[p] = "wake" PROVE cv'[p] \in Dequeuer
    BY <1>1, <1>9, <2>2 DEF Wakers
  <2>3. QED
    BY <2>1, <2>2 DEF Wakers
<1>13. Sleepers'
  <2>1. PICK c0 \in Dequeuer : c0 = cv[t]
    BY <1>3
  <2>2. /\ c0 \notin waitq'[c0]
        /\ \A c \in Dequeuer : waitq'[c] \subseteq waitq[c]
    <3>1. waitq[c0] \subseteq {c0}
      BY <1>1 DEF Sleepers
    <3>2. CASE waitq[c0] = {} /\ waitq' = waitq
      BY <3>2
    <3>3. CASE \E w \in waitq[c0] : waitq' = [waitq EXCEPT ![c0] = waitq[c0] \ {w}]
      BY <1>2, <3>1, <3>3
    <3>4. FutexWake(c0)
      BY <2>1 DEF wake
    <3>5. QED
      BY <3>2, <3>3, <3>4 DEF FutexWake
  <2>3. ASSUME NEW c \in Dequeuer, c \in waitq'[c]
        PROVE  /\ pc'[c] = "check"
               /\ futex_addr'[c] = 0 => \E p \in Enqueuer : pc'[p] = "wake" /\ cv'[p] = c
    <3>1. c \in waitq[c] /\ c # c0
      BY <2>2, <2>3
    <3>2. pc[c] = "check" /\ pc'[c] = "check"
      BY <1>1, <1>6, <1>7, <3>1 DEF Sleepers
    <3>3. ASSUME futex_addr'[c] = 0 PROVE \E p \in Enqueuer : pc'[p] = "wake" /\ cv'[p] = c
      <4>1. PICK p \in Enqueuer : pc[p] = "wake" /\ cv[p] = c
        BY <1>1, <1>4, <3>1, <3>3 DEF Sleepers
      <4>2. p # t
        BY <2>1, <3>1, <4>1
      <4>3. QED
        BY <1>6, <4>1, <4>2, Constants
    <3>4. QED
      BY <3>2, <3>3
  <2>4. \A c \in Dequeuer : waitq'[c] \subseteq {c}
    BY <1>1, <2>2 DEF Sleepers
  <2>5. QED
    BY <2>3, <2>4 DEF Sleepers
<1>14. QED
  BY <1>10, <1>11, <1>12, <1>13 DEF CellsPart

(* The steps of a dequeue from its cell on: what the thread itself has to  *)
(* show for all to be in order.                                            *)
Consumes(t) == look(t) \/ sleep(t) \/ wait(t) \/ check(t) \/ return(t)

LEMMA ConsumesKeeps ==
  ASSUME IInv, NEW t \in Dequeuer, Consumes(t), ThreadStep(t)
  PROVE  /\ UNCHANGED <<put_index, pop_index, order, index>> /\ Active(t)
         /\ index[t] \in 0 .. Places - 1 /\ index[t] < pop_index /\ t \notin waitq[t]
         /\ pc[t] # "find_cell" /\ Cell(t) = index[t]
         /\ \A n \in Nat : ToCome(n)' <=> ToCome(n)
         /\ \A c \in Dequeuer : ToCome(index[c])' <=> ToCome(index[c])
         /\ \A p \in Enqueuer : pc'[p] = pc[p] /\ cv'[p] = cv[p]
         /\ \A c \in Dequeuer : c # t =>
              /\ Early(c)' = Early(c) /\ Waiting(c)' = Waiting(c) /\ Late(c)' = Late(c)
              /\ pc'[c] = pc[c] /\ cv'[c] = cv[c]
<1>1. TypeOK /\ Threads /\ Tickets /\ Indices /\ Walks /\ t \in Thread /\ t \notin Enqueuer
  BY Constants DEF IInv
<1>2. ~put(t) /\ pc[t] \in {"look", "sleep", "wait", "check", "return"} /\ GoesOn(t)
  BY DEF Consumes, look, sleep, wait, check, return, put, Step, GoesOn
<1>3. UNCHANGED <<put_index, pop_index, order, index>> /\ Active(t)
  BY <1>1, <1>2, GoesOnKeeps
<1>4. \A n \in Nat : ToCome(n)' <=> ToCome(n)
  BY <1>1, <1>2, ToComeKept
<1>5. ASSUME NEW c \in Dequeuer PROVE ToCome(index[c])' <=> ToCome(index[c])
  <2>1. PICK k \in Nat : k = index[c] /\ k = index'[c]
    BY <1>1, <1>3, Numbers, Constants
  <2>2. ToCome(index[c])' <=> ToCome(k)'
    BY <2>1 DEF ToCome
  <2>3. QED
    BY <1>4, <2>1, <2>2
<1>6. handle[t] = index[t] \div N
  BY <1>1, <1>2 DEF Walks, Active
<1>7. Cell(t) = index[t]
  BY <1>1, <1>6, CellIs
<1>8. index[t] \in 0 .. Places - 1 /\ index[t] < pop_index
  BY <1>1, <1>3, Numbers, Sizes DEF Indices
<1>9. \A p \in Enqueuer : pc'[p] = pc[p] /\ cv'[p] = cv[p]
  BY <1>1, OtherPhases, Constants
<1>10. t \notin waitq[t]
  BY Constants DEF ThreadStep, Asleep
<1>11. \A c \in Dequeuer : c # t =>
         /\ Early(c)' = Early(c) /\ Waiting(c)' = Waiting(c) /\ Late(c)' = Late(c)
         /\ pc'[c] = pc[c] /\ cv'[c] = cv[c]
  BY <1>1, OtherPhases, Constants
<1>12. QED
  BY <1>2, <1>3, <1>4, <1>5, <1>7, <1>8, <1>9, <1>10, <1>11

LEMMA ConsumerCells ==
  ASSUME IInv, NEW t \in Dequeuer, Consumes(t), ThreadStep(t),
         NEW n, n = index[t],
         \A k \in 0 .. Places - 1 : k # n => cell'[k] = cell[k],
         Early(t)' => Early(t) /\ cell'[n] = cell[n],
         Waiting(t)' => Early(t) \/ Waiting(t),
         ToCome(n) /\ (Early(t) \/ Waiting(t)) => Early(t)' \/ Waiting(t)',
         Early(t)' => futex_addr'[t] = 1,
         Waiting(t)' /\ ToCome(n) => cell'[n] = t /\ futex_addr'[t] = 1,
         Waiting(t)' /\ ~ToCome(n) =>
           /\ cell'[n] = order[n + 1]
           /\ \/ futex_addr'[t] = 0
              \/ \E p \in Enqueuer : pc[p] = "clear" /\ cv[p] = t /\ index[p] = n,
         Late(t)' => ~ToCome(n) /\ cv'[t] = order[n + 1],
         \A c \in Dequeuer : c # t => futex_addr'[c] = futex_addr[c] /\ waitq'[c] = waitq[c],
         \A p \in Enqueuer : pc[p] = "clear" /\ cv[p] = t =>
           Waiting(t)' /\ futex_addr'[t] = futex_addr[t],
         waitq'[t] \subseteq {t},
         t \in waitq'[t] => pc'[t] = "check" /\ futex_addr'[t] = 1
  PROVE  CellsPart'
<1>1. Indices /\ Cells /\ Waits /\ Wakers /\ Sleepers /\ TypeOK
  BY DEF IInv
<1>2. /\ UNCHANGED <<put_index, pop_index, order, index>> /\ Active(t)
      /\ n \in 0 .. Places - 1 /\ n < pop_index
      /\ \A p \in Enqueuer : pc'[p] = pc[p] /\ cv'[p] = cv[p]
      /\ \A c \in Dequeuer : c # t =>
           /\ Early(c)' = Early(c) /\ Waiting(c)' = Waiting(c) /\ Late(c)' = Late(c)
           /\ pc'[c] = pc[c] /\ cv'[c] = cv[c]
      /\ \A c \in Dequeuer : ToCome(index[c])' <=> ToCome(index[c])
  BY ConsumesKeeps
<1>3. \A k \in 0 .. Places - 1 : ToCome(k)' <=> ToCome(k)
  BY ConsumesKeeps, Sizes
<1>4. ASSUME NEW c \in Dequeuer, c # t, Active(c) PROVE index[c] # n
  BY <1>1, <1>2, <1>4 DEF Indices
<1>5. \A c \in Dequeuer : Early(c) \/ Waiting(c) \/ Late(c) => Active(c)
  BY DEF Early, Waiting, Late, Active, Collecting
<1>6. Cells'
  <2>1. ASSUME NEW k \in 0 .. Places - 1, Untouched(k)'
        PROVE  Untouched(k) /\ cell'[k] = cell[k]
    <3>1. CASE k = n
      <4>1. PICK c \in Dequeuer : Early(c)' /\ index[c] = n
        <5>1. pop_index \in Nat
          BY <1>1, Numbers, Constants
        <5>2. ~(n >= pop_index')
          BY <1>2, <5>1, Sizes
        <5>3. QED
          BY <1>2, <2>1, <3>1, <5>2 DEF Untouched
      <4>2. c = t
        BY <1>2, <1>4, <1>5, <4>1
      <4>3. QED
        BY <3>1, <4>2, <4>1 DEF Untouched
    <3>2. CASE k # n
      BY <1>2, <2>1, <3>2 DEF Untouched
    <3>3. QED
      BY <3>1, <3>2
  <2>2. ASSUME NEW k \in 0 .. Places - 1, ToCome(k)', k < pop_index'
        PROVE  \E c \in Dequeuer : (Early(c)' \/ Waiting(c)') /\ index'[c] = k
    <3>1. PICK c \in Dequeuer : (Early(c) \/ Waiting(c)) /\ index[c] = k
      BY <1>1, <1>2, <1>3, <2>2 DEF Cells
    <3>2. CASE c = t
      BY <1>2, <1>3, <2>2, <3>1, <3>2
    <3>3. CASE c # t
      BY <1>2, <3>1, <3>3
    <3>4. QED
      BY <3>2, <3>3
  <2>3. QED
    BY <1>1, <1>2, <1>3, <2>1, <2>2 DEF Cells
<1>7. Waits'
  <2>1. ASSUME NEW c \in Dequeuer
        PROVE  /\ Early(c)' => futex_addr'[c] = 1
               /\ Waiting(c)' /\ ToCome(index[c]) => cell'[index[c]] = c /\ futex_addr'[c] = 1
               /\ Waiting(c)' /\ ~ToCome(index[c]) =>
                    /\ cell'[index[c]] = order[index[c] + 1]
                    /\ \/ futex_addr'[c] = 0
                       \/ \E p \in Enqueuer :
                            pc[p] = "clear" /\ cv[p] = c /\ index[p] = index[c]
               /\ Late(c)' => ~ToCome(index[c]) /\ cv'[c] = order[index[c] + 1]
    <3>1. CASE c = t
      BY <3>1
    <3>2. CASE c # t
      <4>1. /\ Early(c)' = Early(c) /\ Waiting(c)' = Waiting(c) /\ Late(c)' = Late(c)
            /\ cv'[c] = cv[c] /\ futex_addr'[c] = futex_addr[c]
        BY <1>2, <3>2
      <4>2. Waiting(c) => cell'[index[c]] = cell[index[c]]
        <5>1. ASSUME Waiting(c) PROVE cell'[index[c]] = cell[index[c]]
          <6>1. PICK k \in 0 .. Places - 1 : k = index[c]
            BY <1>1, Numbers, Sizes, Constants
          <6>2. k # n
            BY <1>4, <1>5, <3>2, <5>1, <6>1
          <6>3. QED
            BY <6>1, <6>2
        <5>2. QED
          BY <5>1
      <4>3. QED
        BY <1>1, <4>1, <4>2 DEF Waits
    <3>3. QED
      BY <3>1, <3>2
  <2>2. QED
    BY <1>2, <2>1 DEF Waits
<1>8. Wakers'
  <2>1. ASSUME NEW p \in Enqueuer, pc[p] = "clear"
        PROVE  /\ pc'[cv[p]] \in {"wait", "check"} /\ index'[cv[p]] = index[cv[p]]
               /\ futex_addr'[cv[p]] = futex_addr[cv[p]]
    <3>1. PICK c \in Dequeuer : c = cv[p] /\ Waiting(c)
      BY <1>1, <2>1 DEF Wakers, FutexLives, Waiting
    <3>2. Waiting(c)' /\ futex_addr'[c] = futex_addr[c]
      BY <1>2, <2>1, <3>1
    <3>3. QED
      BY <1>2, <3>1, <3>2 DEF Waiting
  <2>2. \A p \in Enqueuer : pc'[p] = pc[p] /\ cv'[p] = cv[p] /\ index'[p] = index[p]
    BY <1>2
  <2>3. QED
    BY <1>1, <2>1, <2>2, WakersKept
<1>9. Sleepers'
  <2>1. ASSUME NEW c \in Dequeuer
        PROVE  /\ waitq'[c] \subseteq {c}
               /\ c \in waitq'[c] =>
                    /\ pc'[c] = "check"
                    /\ futex_addr'[c] = 0 => \E p \in Enqueuer : pc'[p] = "wake" /\ cv'[p] = c
    <3>1. CASE c = t
      BY <3>1
    <3>2. CASE c # t
      BY <1>1, <1>2, <3>2 DEF Sleepers
    <3>3. QED
      BY <3>1, <3>2
  <2>2. QED
    BY <2>1 DEF Sleepers
<1>10. QED
  BY <1>6, <1>7, <1>8, <1>9 DEF CellsPart

LEMMA LookCells ==
  ASSUME IInv, NEW t \in Dequeuer, look(t), ThreadStep(t)
  PROVE  CellsPart'
<1> USE DEF Step, Set
<1>1. TypeOK /\ Cells /\ Waits /\ Wakers /\ Sleepers /\ Consumes(t)
  BY DEF IInv, Consumes
<1>2. PICK n \in 0 .. Places - 1 : n = index[t] /\ Cell(t) = n /\ t \notin waitq[t]
  BY <1>1, ConsumesKeeps
<1>3. DOMAIN pc = Thread /\ DOMAIN cv = Thread /\ t \in Thread
  BY <1>1, Constants DEF TypeOK
<1>4. /\ UNCHANGED <<cell, futex_addr, waitq>> /\ pc[t] = "look" /\ cv'[t] = cell[n]
      /\ pc'[t] = IF cell[n] = NULL THEN "sleep" ELSE AfterOver(t)
  BY <1>2, <1>3 DEF look, listVars
<1>5. Early(t) /\ ~Waiting(t) /\ ~Late(t) /\ Untouched(n)
  BY <1>2, <1>4 DEF Early, Waiting, Late, Collecting, Untouched
<1>6. cell[n] = IF ToCome(n) THEN NULL ELSE order[n + 1]
  BY <1>1, <1>5 DEF Cells
<1>7. ~Waiting(t)' /\ (Early(t)' <=> cell[n] = NULL)
      /\ (Late(t)' => cell[n] # NULL)
  BY <1>4 DEF Early, Waiting, Late, AfterOver, Collecting
<1>8. \A p \in Enqueuer : ~(pc[p] = "clear" /\ cv[p] = t)
  BY <1>1, <1>5 DEF Wakers, FutexLives, Waiting
<1>9. futex_addr[t] = 1
  BY <1>1, <1>5 DEF Waits
<1>10. ToCome(n) => cell[n] = NULL
  BY <1>6
<1>11. Late(t)' => ~ToCome(n) /\ cv'[t] = order[n + 1]
  BY <1>4, <1>6, <1>7
<1>12. waitq'[t] \subseteq {t} /\ t \notin waitq'[t]
  BY <1>1, <1>2, <1>4 DEF Sleepers
<1>13. QED
  BY <1>1, <1>2, <1>4, <1>5, <1>7, <1>8, <1>9, <1>10, <1>11, <1>12, ConsumerCells

(* An enqueued value is not NULL.                                          *)
LEMMA Values ==
  ASSUME TypeOK, Indices, NEW n \in Nat, ~ToCome(n)
  PROVE  order[n + 1] \in Value /\ order[n + 1] # NULL
<1>1. put_index \in Nat /\ order \in Seq(Value) /\ Len(order) = put_index
  BY Sizes DEF TypeOK, Indices
<1>2. n + 1 \in 1 .. Len(order)
  BY <1>1 DEF ToCome
<1>3. QED
  BY <1>1, <1>2, ElementOfSeq, CellAssumption

LEMMA SleepCells ==
  ASSUME IInv, NEW t \in Dequeuer, sleep(t), ThreadStep(t)
  PROVE  CellsPart'
<1> USE DEF Step, Set
<1>1. TypeOK /\ Indices /\ Cells /\ Waits /\ Wakers /\ Sleepers /\ Consumes(t)
  BY DEF IInv, Consumes
<1>2. PICK n \in 0 .. Places - 1 : n = index[t] /\ Cell(t) = n /\ t \notin waitq[t]
  BY <1>1, ConsumesKeeps
<1>3. DOMAIN pc = Thread /\ DOMAIN cv = Thread /\ t \in Thread /\ DOMAIN cell = 0 .. Places - 1
  BY <1>1, Constants DEF TypeOK
<1>4. /\ UNCHANGED <<futex_addr, waitq>> /\ pc[t] = "sleep" /\ cv'[t] = cell[n]
      /\ cell' = [cell EXCEPT ![n] = t]
      /\ pc'[t] = IF cell[n] = NULL THEN "wait" ELSE AfterOver(t)
  BY <1>2, <1>3 DEF sleep
<1>5. Early(t) /\ ~Waiting(t) /\ ~Late(t) /\ Untouched(n)
  BY <1>2, <1>4 DEF Early, Waiting, Late, Collecting, Untouched
<1>6. cell[n] = IF ToCome(n) THEN NULL ELSE order[n + 1]
  BY <1>1, <1>5 DEF Cells
<1>7. ToCome(n) <=> cell[n] = NULL
  BY <1>1, <1>6, Values, Sizes
<1>8. ~Early(t)' /\ (Waiting(t)' <=> cell[n] = NULL)
      /\ (Late(t)' => cell[n] # NULL)
  BY <1>4 DEF Early, Waiting, Late, AfterOver, Collecting
<1>9. \A p \in Enqueuer : ~(pc[p] = "clear" /\ cv[p] = t)
  BY <1>1, <1>5 DEF Wakers, FutexLives, Waiting
<1>10. futex_addr[t] = 1 /\ cell'[n] = t /\ \A k \in 0 .. Places - 1 : k # n => cell'[k] = cell[k]
  BY <1>1, <1>3, <1>4, <1>5 DEF Waits
<1>11. Late(t)' => ~ToCome(n) /\ cv'[t] = order[n + 1]
  BY <1>4, <1>6, <1>7, <1>8
<1>12. waitq'[t] \subseteq {t} /\ t \notin waitq'[t]
  BY <1>1, <1>2, <1>4 DEF Sleepers
<1>13. QED
  BY <1>1, <1>2, <1>4, <1>5, <1>7, <1>8, <1>9, <1>10, <1>11, <1>12, ConsumerCells

LEMMA WaitCells ==
  ASSUME IInv, NEW t \in Dequeuer, wait(t), ThreadStep(t)
  PROVE  CellsPart'
<1> USE DEF Step, Set
<1>1. TypeOK /\ Indices /\ Cells /\ Waits /\ Wakers /\ Sleepers /\ Consumes(t)
  BY DEF IInv, Consumes
<1>2. PICK n \in 0 .. Places - 1 : n = index[t] /\ t \notin waitq[t]
  BY <1>1, ConsumesKeeps
<1>3. DOMAIN pc = Thread /\ DOMAIN waitq = Dequeuer /\ t \in Thread
  BY <1>1, Constants DEF TypeOK
<1>4. /\ UNCHANGED <<futex_addr, cell, cv>> /\ pc[t] = "wait" /\ pc'[t] = "check"
      /\ waitq' = [waitq EXCEPT ![t] = IF futex_addr[t] = 1 THEN waitq[t] \cup {t} ELSE waitq[t]]
  BY <1>3 DEF wait, FutexWait, listVars
<1>5. ~Early(t) /\ Waiting(t) /\ ~Early(t)' /\ Waiting(t)' /\ ~Late(t)'
  BY <1>4 DEF Early, Waiting, Late, Collecting
<1>6. /\ \A c \in Dequeuer : c # t => waitq'[c] = waitq[c]
      /\ waitq'[t] \subseteq {t} /\ (t \in waitq'[t] => futex_addr[t] = 1)
  BY <1>1, <1>2, <1>3, <1>4 DEF Sleepers
<1>7. /\ ToCome(n) => cell[n] = t /\ futex_addr[t] = 1
      /\ ~ToCome(n) =>
           /\ cell[n] = order[n + 1]
           /\ \/ futex_addr[t] = 0
              \/ \E p \in Enqueuer : pc[p] = "clear" /\ cv[p] = t /\ index[p] = n
  BY <1>1, <1>2, <1>5 DEF Waits
<1>8. QED
  BY <1>1, <1>2, <1>4, <1>5, <1>6, <1>7, ConsumerCells

LEMMA CheckCells ==
  ASSUME IInv, NEW t \in Dequeuer, check(t), ThreadStep(t)
  PROVE  CellsPart'
<1> USE DEF Step, Set
<1>1. TypeOK /\ Indices /\ Cells /\ Waits /\ Wakers /\ Sleepers /\ Consumes(t)
  BY DEF IInv, Consumes
<1>2. PICK n \in 0 .. Places - 1 : n = index[t] /\ Cell(t) = n /\ t \notin waitq[t]
  BY <1>1, ConsumesKeeps
<1>3. DOMAIN pc = Thread /\ DOMAIN cv = Thread /\ t \in Thread
  BY <1>1, Constants DEF TypeOK
<1>4. UNCHANGED <<futex_addr, cell, waitq>> /\ pc[t] = "check"
  BY DEF check, listVars
<1>5. ~Early(t) /\ Waiting(t)
  BY <1>4 DEF Early, Waiting
<1>6. /\ ToCome(n) => cell[n] = t /\ futex_addr[t] = 1
      /\ ~ToCome(n) =>
           /\ cell[n] = order[n + 1]
           /\ \/ futex_addr[t] = 0
              \/ \E p \in Enqueuer : pc[p] = "clear" /\ cv[p] = t /\ index[p] = n
  BY <1>1, <1>2, <1>5 DEF Waits
<1>7. waitq'[t] \subseteq {t} /\ t \notin waitq'[t]
  BY <1>1, <1>2, <1>4 DEF Sleepers
<1>8. CASE futex_addr[t] = 1 /\ pc'[t] = "wait"
  <2>1. ~Early(t)' /\ Waiting(t)' /\ ~Late(t)'
    BY <1>8 DEF Early, Waiting, Late, Collecting
  <2>2. QED
    BY <1>1, <1>2, <1>4, <1>5, <1>6, <1>7, <2>1, ConsumerCells
<1>9. CASE futex_addr[t] = 0 /\ pc'[t] = AfterOver(t) /\ cv'[t] = cell[n]
  <2>1. ~Early(t)' /\ ~Waiting(t)'
    BY <1>9 DEF Early, Waiting, Late, Collecting, AfterOver
  <2>2. ~ToCome(n) /\ cv'[t] = order[n + 1]
    BY <1>6, <1>9
  <2>3. \A p \in Enqueuer : ~(pc[p] = "clear" /\ cv[p] = t)
    BY <1>1, <1>9 DEF Wakers
  <2>4. QED
    BY <1>1, <1>2, <1>4, <1>5, <1>7, <2>1, <2>2, <2>3, ConsumerCells
<1>10. QED
  BY <1>2, <1>3, <1>8, <1>9 DEF check

LEMMA ReturnCells ==
  ASSUME IInv, NEW t \in Dequeuer, return(t), ThreadStep(t)
  PROVE  CellsPart'
<1> USE DEF Step, Set
<1>1. TypeOK /\ Indices /\ Cells /\ Waits /\ Wakers /\ Sleepers /\ Consumes(t)
  BY DEF IInv, Consumes
<1>2. PICK n \in 0 .. Places - 1 : n = index[t] /\ t \notin waitq[t]
  BY <1>1, ConsumesKeeps
<1>3. DOMAIN pc = Thread /\ DOMAIN futex_addr = Dequeuer /\ t \in Thread
  BY <1>1, Constants DEF TypeOK
<1>4. /\ UNCHANGED <<cell, waitq>> /\ pc[t] = "return" /\ pc'[t] \in {"barrier", "dequeue"}
      /\ futex_addr' = [futex_addr EXCEPT ![t] = 0]
  BY <1>3 DEF return, Over, listVars
<1>5. ~Early(t) /\ ~Waiting(t) /\ ~Early(t)' /\ ~Waiting(t)' /\ ~Late(t)'
  BY <1>4 DEF Early, Waiting, Late, Collecting
<1>6. waitq'[t] \subseteq {t} /\ t \notin waitq'[t]
  BY <1>1, <1>2, <1>4 DEF Sleepers
<1>7. \A p \in Enqueuer : ~(pc[p] = "clear" /\ cv[p] = t)
  BY <1>1, <1>5 DEF Wakers, FutexLives, Waiting
<1>8. \A c \in Dequeuer : c # t => futex_addr'[c] = futex_addr[c] /\ waitq'[c] = waitq[c]
  BY <1>3, <1>4
<1>9. QED
  BY <1>1, <1>2, <1>4, <1>5, <1>6, <1>7, <1>8, ConsumerCells

LEMMA CellsKept ==
  ASSUME IInv, NEW t \in Thread, ThreadStep(t)
  PROVE  CellsPart'
<1>1. CASE next_node(t) \/ found(t)
  BY <1>1, FindAndCollectCells
<1>2. CASE t \in Enqueuer /\ producer(t)
  BY <1>2, EnqueueCells, PutCells, ClearCells, WakeCells DEF producer
<1>3. CASE t \in Dequeuer /\ (dequeue(t) \/ look(t) \/ sleep(t) \/ wait(t) \/ check(t) \/ return(t))
  BY <1>3, DequeueCells, LookCells, SleepCells, WaitCells, CheckCells, ReturnCells
<1>4. CASE t \in Dequeuer /\ (gc_load(t) \/ gc_lock(t) \/ gc_scan(t)
                                \/ gc_decide(t) \/ gc_unlock(t) \/ gc_free(t))
  BY <1>4, FindAndCollectCells
<1>5. QED
  BY <1>1, <1>2, <1>3, <1>4 DEF ThreadStep, consumer

LEMMA ThreadStepKeeps ==
  ASSUME IInv, NEW t \in Thread, ThreadStep(t)
  PROVE  IInv'
<1>1. Threads' /\ Tickets' /\ Indices'
  BY IndicesKept DEF IInv
<1>2. Walks'
  BY WalksKept DEF IInv
<1>3. TypeOK' /\ CellsPart' /\ Lock' /\ Scan' /\ Released'
  BY TypesKept, CellsKept, ReclaimKept
<1>4. QED
  BY <1>1, <1>2, <1>3 DEF IInv, CellsPart

(* A return of FUTEX_WAIT without a wake only takes a sleeper off.         *)
LEMMA SurpriseKeeps ==
  ASSUME IInv, Surprise
  PROVE  IInv'
<1> USE DEF listVars, reclaimVars, scanVars, indexVars
<1>1. PICK c \in Dequeuer : c \in waitq[c] /\ waitq' = [waitq EXCEPT ![c] = waitq[c] \ {c}]
  BY DEF Surprise, FutexSpurious
<1>2. UNCHANGED <<futex_addr, listVars, reclaimVars, scanVars, indexVars, pc, count,
                  index, curr, cv, array>>
  BY DEF Surprise
<1>3. TypeOK'
  BY <1>1, <1>2, Constants DEF IInv, TypeOK
<1>4. /\ \A d \in Dequeuer : waitq'[d] \subseteq waitq[d]
  <2>1. waitq \in [Dequeuer -> SUBSET Dequeuer]
    BY Constants DEF IInv, TypeOK
  <2>2. QED
    BY <1>1, <2>1
<1>5. Threads' /\ Tickets' /\ Indices' /\ Walks'
  BY <1>2 DEF IInv, Threads, Tickets, Begun, HasBegun, Active, Indices, Walks, Ticket
<1>6. Cells' /\ Waits' /\ Wakers'
  BY <1>2 DEF IInv, Cells, Waits, Wakers, Untouched, ToCome, Early, Waiting, Late, FutexLives
<1>7. Sleepers'
  BY <1>2, <1>4 DEF IInv, Sleepers
<1>8. Lock' /\ Scan' /\ Released'
  BY <1>2 DEF IInv, Lock, Scan, Released, Scanning, ToBeFreed
<1>9. QED
  BY <1>3, <1>5, <1>6, <1>7, <1>8 DEF IInv

LEMMA StutterKeeps ==
  ASSUME IInv, UNCHANGED vars
  PROVE  IInv'
<1> USE DEF listVars, reclaimVars, scanVars, indexVars, vars
<1>1. TypeOK'
  BY DEF IInv, TypeOK
<1>2. Threads' /\ Tickets' /\ Indices' /\ Walks'
  BY DEF IInv, Threads, Tickets, Begun, HasBegun, Active, Indices, Walks, Ticket
<1>3. Cells' /\ Waits' /\ Wakers' /\ Sleepers'
  BY DEF IInv, Cells, Waits, Wakers, Sleepers, Untouched, ToCome, Early, Waiting, Late, FutexLives
<1>4. Lock' /\ Scan' /\ Released'
  BY DEF IInv, Lock, Scan, Released, Scanning, ToBeFreed
<1>5. QED
  BY <1>1, <1>2, <1>3, <1>4 DEF IInv

LEMMA StepKeeps == IInv /\ [Next]_vars => IInv'
<1> SUFFICES ASSUME IInv, [Next]_vars PROVE IInv'
  OBVIOUS
<1>1. CASE \E t \in Thread : ThreadStep(t)
  BY <1>1, ThreadStepKeeps
<1>2. CASE Surprise
  BY <1>2, SurpriseKeeps
<1>3. CASE Terminating \/ UNCHANGED vars
  BY <1>3, StutterKeeps DEF Terminating
<1>4. QED
  BY <1>1, <1>2, <1>3 DEF Next

(* The invariant holds of every behaviour of the queue.                    *)
LEMMA Invariant == Spec => []IInv
<1>1. Init => IInv
  BY Initial
<1>2. IInv /\ [Next]_vars => IInv'
  BY StepKeeps
<1>3. QED
  BY <1>1, <1>2, PTL DEF Spec

-----------------------------------------------------------------------------
(* The variables of the queue and of its threads keep their types; above   *)
(* all, the indices of mpmc_enqueue and mpmc_dequeue stay below the number *)
(* of the operations.                                                      *)
THEOREM TypeCorrect == Spec => []TypeOK
<1>1. IInv => TypeOK
  BY DEF IInv
<1>2. QED
  BY <1>1, Invariant, PTL

(* mpmc_dequeue's reclamation releases no node that a handle is on or that *)
(* a thread in mpmc_find_cell goes through, though it reads the handles    *)
(* one by one while their threads move on.                                 *)
THEOREM NoNodeInUseReleased == Spec => []NodesInUse
<1>1. IInv => NodesInUse
  <2> SUFFICES ASSUME IInv PROVE NodesInUse
    OBVIOUS
  <2>1. TypeOK /\ Walks /\ Released
    BY DEF IInv
  <2>2. init_node \in Nat /\ \A t \in Thread : handle[t] \in Nat /\ curr[t] \in Nat
    BY <2>1, Numbers, ReclaimTypes
  <2>3. \A n \in Nat : n \in freed => n < init_node
    BY <2>1 DEF Released
  <2>4. init_node \notin freed
    BY <2>2, <2>3
  <2>5. ASSUME NEW t \in Thread
        PROVE  handle[t] \notin freed /\ (pc[t] = "find_cell" => curr[t] \notin freed)
    <3>1. init_node <= handle[t]
      BY <2>1 DEF Released
    <3>2. pc[t] = "find_cell" => handle[t] <= curr[t]
      BY <2>1 DEF Walks
    <3>3. QED
      BY <2>2, <2>3, <3>1, <3>2
  <2>6. QED
    BY <2>4, <2>5 DEF NodesInUse
<1>2. QED
  BY <1>1, Invariant, PTL

(* Every node before init_node is released once, by one of the threads     *)
(* that have moved init_node, and init_id keeps all but one thread out.    *)
THEOREM NodesReleasedOnce == Spec => []ReclaimedOnce
<1>1. IInv => ReclaimedOnce
  <2> SUFFICES ASSUME IInv PROVE ReclaimedOnce
    OBVIOUS
  <2>1. TypeOK /\ Lock /\ Released
    BY DEF IInv
  <2>2. init_node \in Nat /\ last \in Nat /\ freed \subseteq Nat
    BY <2>1, ReclaimTypes DEF TypeOK
  <2>3. \A c \in Dequeuer : ToBeFreed(c) \subseteq Nat
    <3>1. \A c \in Dequeuer : first[c] \in Nat /\ min_node[c] \in Nat
      BY <2>1, ReclaimTypes
    <3>2. QED
      BY <3>1 DEF ToBeFreed
  <2>4. \A n \in Nat : n < init_node <=> n \in freed \/ \E c \in Dequeuer : n \in ToBeFreed(c)
    BY <2>1 DEF Released
  <2>5. 0 .. init_node - 1 = freed \cup UNION {ToBeFreed(c) : c \in Dequeuer}
    <3>1. ASSUME NEW n
          PROVE  n \in 0 .. init_node - 1
                   <=> n \in freed \/ \E c \in Dequeuer : n \in ToBeFreed(c)
      <4>1. n \in freed \/ (\E c \in Dequeuer : n \in ToBeFreed(c)) => n \in Nat
        BY <2>2, <2>3
      <4>2. n \in 0 .. init_node - 1 <=> n \in Nat /\ n < init_node
        BY <2>2
      <4>3. QED
        BY <2>4, <4>1, <4>2
    <3>2. QED
      BY <3>1
  <2> DEFINE scanning == {c \in Dequeuer : pc[c] \in {"gc_scan", "gc_decide", "gc_unlock"}}
  <2>6. Cardinality(scanning) = (IF init_id = -1 THEN 1 ELSE 0)
    <3>1. CASE init_id = -1
      <4>1. PICK c \in Dequeuer : Scanning(c)
        BY <2>1, <3>1 DEF Lock
      <4>2. scanning = {c}
        BY <2>1, <4>1 DEF Lock, Scanning
      <4>3. QED
        BY <3>1, <4>2, FS_Singleton
    <3>2. CASE init_id # -1
      <4>1. scanning = {}
        BY <2>1, <3>2 DEF Lock, Scanning
      <4>2. QED
        BY <3>2, <4>1, FS_EmptySet
    <3>3. QED
      BY <3>1, <3>2
  <2>7. QED
    BY <2>1, <2>5, <2>6 DEF ReclaimedOnce, Released
<1>2. QED
  BY <1>1, Invariant, PTL

(* A dequeuer that is asleep in FUTEX_WAIT will be found by the exchange   *)
(* of its enqueuer, or an enqueuer is about to clear or to wake its futex. *)
THEOREM NoSleeperLeft == Spec => []SleeperWoken
<1>1. IInv => SleeperWoken
  <2> SUFFICES ASSUME IInv, NEW c \in Dequeuer, c \in waitq[c]
               PROVE  \/ futex_addr[c] = 1 /\ cell[Cell(c)] = c /\ ToCome(index[c])
                      \/ \E p \in Enqueuer :
                           cv[p] = c /\ pc[p] = (IF futex_addr[c] = 1 THEN "clear" ELSE "wake")
    BY DEF SleeperWoken
  <2>1. TypeOK /\ Walks /\ Waits /\ Sleepers /\ c \in Thread
    BY Constants DEF IInv
  <2>2. pc[c] = "check"
    BY <2>1 DEF Sleepers
  <2>3. Waiting(c) /\ handle[c] = index[c] \div N
    BY <2>1, <2>2 DEF Waiting, Walks, Active
  <2>4. Cell(c) = index[c]
    BY <2>1, <2>3, CellIs
  <2>5. CASE ToCome(index[c])
    BY <2>1, <2>3, <2>4, <2>5 DEF Waits
  <2>6. CASE ~ToCome(index[c]) /\ futex_addr[c] = 1
    BY <2>1, <2>3, <2>6 DEF Waits
  <2>7. CASE futex_addr[c] = 0
    BY <2>1, <2>7 DEF Sleepers
  <2>8. futex_addr[c] \in {0, 1}
    BY <2>1 DEF TypeOK
  <2>9. QED
    BY <2>5, <2>6, <2>7, <2>8
<1>2. QED
  BY <1>1, Invariant, PTL

(* The store of 0 in mpmc_enqueue goes to the frame of a dequeue that has  *)
(* not returned, and it is the dequeue of the enqueue's own index.         *)
THEOREM FutexClearedInTime == Spec => []ClearInTime
<1>1. IInv => ClearInTime
  BY DEF IInv, Wakers, ClearInTime
<1>2. QED
  BY <1>1, Invariant, PTL

-----------------------------------------------------------------------------
(* The queue.                                                              *)

place == [c \in Dequeuer |-> IF InDequeue(c) THEN index[c] ELSE NULL]

LEMMA PlaceKept ==
  ASSUME TypeOK, Threads, NEW t \in Thread, ThreadStep(t), GoesOn(t), ~(t \in Dequeuer /\ return(t))
  PROVE  place' = place
<1>1. index' = index
  BY GoesOnKeeps
<1>2. ASSUME NEW c \in Dequeuer PROVE InDequeue(c)' = InDequeue(c)
  <2>1. CASE c = t
    <3>1. /\ next_node(t) \/ found(t) \/ look(t) \/ sleep(t) \/ wait(t) \/ check(t) \/ gc_load(t)
             \/ gc_lock(t) \/ gc_scan(t) \/ gc_decide(t) \/ gc_unlock(t) \/ gc_free(t)
          /\ DOMAIN pc = Thread
      BY <2>1, Constants DEF GoesOn, TypeOK
    <3>2. CASE next_node(t) \/ found(t) \/ look(t) \/ sleep(t) \/ wait(t) \/ check(t)
      BY <2>1, <3>1, <3>2 DEF next_node, found, look, sleep, wait, check, Step, InDequeue, AfterOver
    <3>3. CASE gc_load(t) \/ gc_lock(t) \/ gc_scan(t) \/ gc_decide(t) \/ gc_unlock(t) \/ gc_free(t)
      BY <2>1, <3>1, <3>3
         DEF gc_load, gc_lock, gc_scan, gc_decide, gc_unlock, gc_free, Step, InDequeue
    <3>4. QED
      BY <3>1, <3>2, <3>3
  <2>2. CASE c # t
    BY <2>2, Others, Constants DEF InDequeue
  <2>3. QED
    BY <2>1, <2>2
<1>3. QED
  BY <1>1, <1>2 DEF place

LEMMA EnqueueImplements ==
  ASSUME IInv, NEW t \in Enqueuer, enqueue(t), ThreadStep(t)
  PROVE  Q!Next
<1>1. TypeOK /\ Threads /\ Tickets /\ Indices /\ t \in Thread /\ t \notin Dequeuer
  BY Constants DEF IInv
<1>2. /\ order' = Append(order, <<t, count[t]>>) /\ pop_index' = pop_index /\ array' = array
      /\ pc[t] = "enqueue"
  BY DEF enqueue, Step
<1>3. <<t, count[t]>> \in Value
  BY <1>1, <1>2, Beginning, Sizes, Constants DEF Active, Value
<1>4. \A n \in DOMAIN order : order[n] # <<t, count[t]>>
  <2>1. DOMAIN order = 1 .. put_index
    BY <1>1 DEF TypeOK, Indices
  <2>2. QED
    BY <1>1, <2>1, EnqueueKeeps
<1>5. place' = place
  BY <1>1, Others, Constants DEF place, InDequeue
<1>6. Q!Enqueue(<<t, count[t]>>)
  BY <1>2, <1>4, <1>5 DEF Q!Enqueue, place
<1>7. QED
  BY <1>3, <1>6 DEF Q!Next

LEMMA DequeueImplements ==
  ASSUME IInv, NEW t \in Dequeuer, dequeue(t), ThreadStep(t)
  PROVE  Q!Next
<1>1. TypeOK /\ Threads /\ Tickets /\ Indices /\ t \in Thread
  BY Constants DEF IInv
<1>2. /\ order' = order /\ pop_index' = pop_index + 1 /\ array' = array
      /\ pc[t] = "dequeue" /\ pc'[t] = "find_cell" /\ index'[t] = pop_index
  BY <1>1 DEF dequeue, Step, Set, TypeOK
<1>3. \A c \in Dequeuer : c # t => pc'[c] = pc[c] /\ index'[c] = index[c]
  BY <1>1, Others, Constants
<1>4. place[t] = NULL
  BY <1>2 DEF place, InDequeue
<1>5. place' = [place EXCEPT ![t] = pop_index]
  BY <1>2, <1>3 DEF place, InDequeue
<1>6. Q!Join(t)
  BY <1>2, <1>4, <1>5 DEF Q!Join, place
<1>7. QED
  BY <1>6 DEF Q!Next

LEMMA ReturnImplements ==
  ASSUME IInv, NEW t \in Dequeuer, return(t), ThreadStep(t)
  PROVE  Q!Next
<1>1. TypeOK /\ Threads /\ Indices /\ Waits /\ t \in Thread
  BY Constants DEF IInv
<1>2. /\ pc[t] = "return" /\ pc'[t] \in {"barrier", "dequeue"} /\ array' = array \cup {cv[t]}
      /\ Late(t) /\ InDequeue(t)
  BY <1>1 DEF return, Over, Set, TypeOK, Late, InDequeue
<1>3. order' = order /\ pop_index' = pop_index /\ index' = index
  BY DEF return, indexVars
<1>4. index[t] \in Nat /\ index[t] < Len(order) /\ cv[t] = order[index[t] + 1]
  BY <1>1, <1>2, Returned
<1>5. place[t] = index[t] /\ place[t] # NULL
  BY <1>2, <1>4, CellAssumption DEF place
<1>6. \A c \in Dequeuer : c # t => pc'[c] = pc[c]
  BY <1>1, Others, Constants
<1>7. place' = [place EXCEPT ![t] = NULL]
  BY <1>2, <1>3, <1>6 DEF place, InDequeue
<1>8. Q!Return(t)
  BY <1>2, <1>3, <1>4, <1>5, <1>7 DEF Q!Return, place
<1>9. QED
  BY <1>8 DEF Q!Next

LEMMA OtherImplements ==
  ASSUME IInv, NEW t \in Thread, ThreadStep(t), GoesOn(t), ~(t \in Dequeuer /\ return(t))
  PROVE  UNCHANGED <<order, pop_index, place, array>>
<1>1. order' = order /\ pop_index' = pop_index /\ place' = place
  BY GoesOnKeeps, PlaceKept DEF IInv
<1>2. array' = array
  BY DEF GoesOn, next_node, found, put, clear, wake, look, sleep, wait, check,
         gc_load, gc_lock, gc_scan, gc_decide, gc_unlock, gc_free, dequeueLocals
<1>3. QED
  BY <1>1, <1>2

(* mpmc_enqueue and mpmc_dequeue implement the queue: a value has its      *)
(* place from the moment its enqueue takes an index, and each dequeue      *)
(* returns the value of the place that it took.                            *)
THEOREM MpmcImplementsQueue == Spec => ImplementsQueue
<1>1. Init => Q!Init
  <2> SUFFICES ASSUME Init PROVE Q!Init
    OBVIOUS
  <2>1. \A c \in Dequeuer : ~InDequeue(c)
    BY Constants DEF Init, InDequeue
  <2>2. QED
    BY <2>1 DEF Init, Q!Init
<1>2. IInv /\ [Next]_vars => [Q!Next]_(Q!queueVars)
  <2> SUFFICES ASSUME IInv, [Next]_vars PROVE [Q!Next]_(Q!queueVars)
    OBVIOUS
  <2>1. ASSUME NEW t \in Thread, ThreadStep(t) PROVE [Q!Next]_(Q!queueVars)
    <3>1. CASE Begins(t) \/ (t \in Dequeuer /\ return(t))
      BY <2>1, <3>1, EnqueueImplements, DequeueImplements, ReturnImplements DEF Begins
    <3>2. CASE GoesOn(t) /\ ~(t \in Dequeuer /\ return(t))
      BY <2>1, <3>2, OtherImplements DEF Q!queueVars, place
    <3>3. QED
      BY <2>1, <3>1, <3>2, TwoKinds
  <2>2. ASSUME UNCHANGED <<order, pop_index, pc, index, array>> PROVE [Q!Next]_(Q!queueVars)
    BY <2>2 DEF Q!queueVars, InDequeue
  <2>3. CASE Surprise
    BY <2>2, <2>3 DEF Surprise, indexVars
  <2>4. CASE Terminating \/ UNCHANGED vars
    BY <2>2, <2>4 DEF Terminating, vars, indexVars
  <2>5. QED
    BY <2>1, <2>3, <2>4 DEF Next
<1>3. QED
  BY <1>1, <1>2, Invariant, PTL DEF Spec, ImplementsQueue, Q!Spec
=============================================================================
