-------------------------------- MODULE Mpmc ---------------------------------
(***************************************************************************)
(* The blocking queue of hw3/mpmc.c and the producers and consumers of its *)
(* main: cells on a list of nodes, an index that each enqueue and each     *)
(* dequeue takes of its own, a handle per thread on the node it last used, *)
(* and the reclamation of the nodes that all handles have left.            *)
(*                                                                         *)
(* One action is one access to memory that other threads use, with the     *)
(* thread-local code up to the next one.  A node is its id: which thread's *)
(* spare became node n does not matter, for whoever fails to append it     *)
(* goes on to the node that was appended and keeps its spare.  All threads *)
(* have registered: mpmc_queue_register ends in a barrier, and its handles *)
(* do not change after.  One round of main is modelled.                    *)
(***************************************************************************)
EXTENDS Futex, Integers, Sequences

CONSTANTS enqueue_handles, dequeue_handles,  \* the threads, in the order of their handles
          N,          \* the cells of a node
          threshold,  \* how far a dequeue is ahead when it reclaims
          counts,     \* counts[t]: COUNTS_PER_THREAD, or less for a thread that lags
          NULL

Enqueuer == {enqueue_handles[n] : n \in DOMAIN enqueue_handles}
Dequeuer == {dequeue_handles[n] : n \in DOMAIN dequeue_handles}
Handles == dequeue_handles \o enqueue_handles   \* in the order they are scanned

ASSUME MpmcAssumption ==
  /\ enqueue_handles \in Seq(Thread) /\ dequeue_handles \in Seq(Thread)
  /\ Thread = Enqueuer \cup Dequeuer /\ Enqueuer \cap Dequeuer = {}
  /\ Len(Handles) = Cardinality(Thread)
  /\ Addr = Dequeuer      \* the futex of a dequeuer is on its stack
  /\ N \in Nat \ {0} /\ threshold \in Nat /\ counts \in [Thread -> Nat \ {0}]

(* The operations of the threads of S.                                     *)
Operations(S) == UNION {{t} \X (0 .. counts[t] - 1) : t \in S}

Value == Operations(Enqueuer)
Places == Cardinality(Value)

(* There is a dequeue for every value.                                     *)
ASSUME CountsAssumption == Places = Cardinality(Operations(Dequeuer))

(* The content of a cell tells a value (a small number from 1 on), the     *)
(* address of a futex and NULL apart.                                      *)
ASSUME CellAssumption ==
  /\ NULL \notin Value /\ NULL \notin Dequeuer /\ NULL \notin Nat
  /\ Value \cap Dequeuer = {}

VARIABLES
  put_index, pop_index,  \* the next index of an enqueue, and of a dequeue
  last,        \* the last node of the list
  cell,        \* cell[i]: the cell of index i
  handle,      \* handle[t]: the node th->push of an enqueuer, th->pop of a dequeuer
  init_node,   \* the first node that was not reclaimed
  init_id,     \* its id, or -1 while a thread reclaims
  freed,       \* the nodes that were released (history)
  futex_addr,  \* futex_addr[c]: the word dequeuer c sleeps on
  pc,          \* pc[t]: the access t is about to make
  count,       \* count[t]: the operations t has finished
  index,       \* index[t]: the index t has taken
  curr,        \* curr[t]: the node mpmc_find_cell is at
  cv,          \* cv[t]: the content of the cell
  init_index, first, min_node, i,  \* the locals of the reclamation
  array,       \* the values the consumers have ticked off
  order        \* the values in the order of their indices (history)

listVars == <<last, cell, handle>>
reclaimVars == <<init_node, init_id, freed>>
scanVars == <<init_index, first, min_node, i>>
indexVars == <<put_index, pop_index, order>>
vars == <<waitq, futex_addr, listVars, reclaimVars, scanVars, indexVars, pc, count,
          index, curr, cv, array>>

Step(t, from, to) == pc[t] = from /\ pc' = [pc EXCEPT ![t] = to]
Set(v, t, value) == [v EXCEPT ![t] = value]
Min2(m, n) == IF m <= n THEN m ELSE n

Init ==
  /\ FutexInit
  /\ put_index = 0 /\ pop_index = 0 /\ order = <<>>
  /\ last = 0 /\ cell = [n \in 0 .. Places - 1 |-> NULL]
  /\ handle = [t \in Thread |-> 0]
  /\ init_node = 0 /\ init_id = 0 /\ freed = {}
  /\ futex_addr = [c \in Dequeuer |-> 0]
  /\ pc = [t \in Thread |-> IF t \in Enqueuer THEN "enqueue" ELSE "dequeue"]
  /\ count = [t \in Thread |-> 0]
  /\ index = [t \in Thread |-> 0] /\ curr = [t \in Thread |-> 0]
  /\ cv = [t \in Thread |-> NULL]
  /\ init_index = [c \in Dequeuer |-> 0] /\ first = [c \in Dequeuer |-> 0]
  /\ min_node = [c \in Dequeuer |-> 0] /\ i = [c \in Dequeuer |-> 1]
  /\ array = {}

-----------------------------------------------------------------------------
(* mpmc_find_cell: from the handle's node to the node of the index.        *)
Behind(t) == curr[t] < index[t] \div N

(* Mutant: the new node is not appended to the list.                       *)
next_node_unlinked(t) ==
  /\ pc[t] = "find_cell" /\ Behind(t)
  /\ curr' = Set(curr, t, curr[t] + 1)
  /\ UNCHANGED last
  /\ UNCHANGED <<waitq, futex_addr, cell, handle, reclaimVars, scanVars, indexVars,
                 pc, count, index, cv, array>>

next_node(t) ==
  /\ pc[t] = "find_cell" /\ Behind(t)
  /\ curr' = Set(curr, t, curr[t] + 1)
  /\ last' = IF curr[t] = last THEN last + 1 ELSE last
  /\ UNCHANGED <<waitq, futex_addr, cell, handle, reclaimVars, scanVars, indexVars,
                 pc, count, index, cv, array>>

found(t) ==
  /\ Step(t, "find_cell", IF t \in Enqueuer THEN "put" ELSE "look")
  /\ ~Behind(t)
  /\ handle' = Set(handle, t, curr[t])
  /\ curr' = Set(curr, t, 0)
  /\ UNCHANGED <<waitq, futex_addr, last, cell, reclaimVars, scanVars, indexVars,
                 count, index, cv, array>>

Cell(t) == handle[t] * N + (index[t] % N)

-----------------------------------------------------------------------------
(* mpmc_enqueue, called by producer.                                       *)

enqueue(t) ==
  /\ Step(t, "enqueue", "find_cell")
  /\ index' = Set(index, t, put_index)
  /\ put_index' = put_index + 1
  /\ order' = Append(order, <<t, count[t]>>)
  /\ curr' = Set(curr, t, handle[t])
  /\ UNCHANGED <<waitq, futex_addr, listVars, reclaimVars, scanVars, pop_index,
                 count, cv, array>>

(* The operation is over: the next one, or the barrier.                    *)
Over(t, again) ==
  /\ count' = Set(count, t, count[t] + 1)
  /\ pc' = Set(pc, t, IF count[t] + 1 = counts[t] THEN "barrier" ELSE again)
  /\ cv' = Set(cv, t, NULL)

put(t) ==
  /\ pc[t] = "put"
  /\ cell' = Set(cell, Cell(t), <<t, count[t]>>)
  /\ \/ cell[Cell(t)] = NULL /\ Over(t, "enqueue")
     \/ /\ cell[Cell(t)] # NULL
        /\ Step(t, "put", "clear")
        /\ cv' = Set(cv, t, cell[Cell(t)])
        /\ UNCHANGED count
  /\ UNCHANGED <<waitq, futex_addr, last, handle, reclaimVars, scanVars, indexVars,
                 index, curr, array>>

clear(t) ==
  /\ Step(t, "clear", "wake")
  /\ futex_addr' = Set(futex_addr, cv[t], 0)
  /\ UNCHANGED <<waitq, listVars, reclaimVars, scanVars, indexVars, count, index,
                 curr, cv, array>>

(* Mutant: the sleeper is not woken.                                       *)
wake_missing(t) ==
  /\ pc[t] = "wake"
  /\ UNCHANGED waitq
  /\ Over(t, "enqueue")
  /\ UNCHANGED <<futex_addr, listVars, reclaimVars, scanVars, indexVars, index,
                 curr, array>>

wake(t) ==
  /\ pc[t] = "wake"
  /\ FutexWake(cv[t])
  /\ Over(t, "enqueue")
  /\ UNCHANGED <<futex_addr, listVars, reclaimVars, scanVars, indexVars, index,
                 curr, array>>

-----------------------------------------------------------------------------
(* mpmc_dequeue, called by consumer.                                       *)

dequeue(t) ==
  /\ Step(t, "dequeue", "find_cell")
  /\ futex_addr' = Set(futex_addr, t, 1)
  /\ index' = Set(index, t, pop_index)
  /\ pop_index' = pop_index + 1
  /\ curr' = Set(curr, t, handle[t])
  /\ UNCHANGED <<waitq, listVars, reclaimVars, scanVars, put_index, order, count,
                 cv, array>>

(* What over: goes on to with the value.                                   *)
AfterOver(t) == IF index[t] % N = N - 1 THEN "gc_load" ELSE "return"

(* One of the spins; 2^20 of them may find nothing.                        *)
look(t) ==
  /\ cv' = Set(cv, t, cell[Cell(t)])
  /\ Step(t, "look", IF cell[Cell(t)] = NULL THEN "sleep" ELSE AfterOver(t))
  /\ UNCHANGED <<waitq, futex_addr, listVars, reclaimVars, scanVars, indexVars, count,
                 index, curr, array>>

(* Mutant: a store in place of the exchange.                               *)
sleep_stores(t) ==
  /\ cell' = Set(cell, Cell(t), t)
  /\ UNCHANGED cv
  /\ Step(t, "sleep", "wait")
  /\ UNCHANGED <<waitq, futex_addr, last, handle, reclaimVars, scanVars, indexVars,
                 count, index, curr, array>>

(* The exchange that leaves the futex in the cell.                         *)
sleep(t) ==
  /\ cell' = Set(cell, Cell(t), t)
  /\ cv' = Set(cv, t, cell[Cell(t)])
  /\ Step(t, "sleep", IF cell[Cell(t)] = NULL THEN "wait" ELSE AfterOver(t))
  /\ UNCHANGED <<waitq, futex_addr, last, handle, reclaimVars, scanVars, indexVars,
                 count, index, curr, array>>

wait(t) ==
  /\ Step(t, "wait", "check")
  /\ FutexWait(t, t, futex_addr[t] = 1)
  /\ UNCHANGED <<futex_addr, listVars, reclaimVars, scanVars, indexVars, count, index,
                 curr, cv, array>>

(* Mutant: FUTEX_WAIT is not repeated.                                     *)
check_once(t) ==
  /\ \/ /\ futex_addr[t] = 1
        /\ Step(t, "check", AfterOver(t))
        /\ cv' = Set(cv, t, cell[Cell(t)])
     \/ /\ futex_addr[t] = 0
        /\ Step(t, "check", AfterOver(t))
        /\ cv' = Set(cv, t, cell[Cell(t)])
  /\ UNCHANGED <<waitq, futex_addr, listVars, reclaimVars, scanVars, indexVars, count,
                 index, curr, array>>

check(t) ==
  /\ \/ /\ futex_addr[t] = 1
        /\ Step(t, "check", "wait")
        /\ UNCHANGED cv
     \/ /\ futex_addr[t] = 0
        /\ Step(t, "check", AfterOver(t))
        /\ cv' = Set(cv, t, cell[Cell(t)])
  /\ UNCHANGED <<waitq, futex_addr, listVars, reclaimVars, scanVars, indexVars, count,
                 index, curr, array>>

(* The consumer ticks the value off; the futex is gone with the frame.     *)
return(t) ==
  /\ pc[t] = "return"
  /\ array' = array \cup {cv[t]}
  /\ Over(t, "dequeue")
  /\ futex_addr' = Set(futex_addr, t, 0)
  /\ UNCHANGED <<waitq, listVars, reclaimVars, scanVars, indexVars, index,
                 curr>>

-----------------------------------------------------------------------------
(* The reclamation, by the dequeuer of a node's last cell.                 *)
dequeueLocals == <<waitq, futex_addr, listVars, indexVars, count, index, curr, cv, array>>

ForgetScan(t) ==
  /\ init_index' = Set(init_index, t, 0) /\ first' = Set(first, t, 0)
  /\ min_node' = Set(min_node, t, 0) /\ i' = Set(i, t, 1)

gc_load(t) ==
  /\ Step(t, "gc_load", "gc_lock")
  /\ init_index' = Set(init_index, t, init_id)
  /\ UNCHANGED <<dequeueLocals, reclaimVars, first, min_node, i>>

(* Mutant: an init_id of -1 is not seen as a lock.                         *)
gc_lock_ignored(t) ==
  LET worth == handle[t] - init_index[t] >= threshold /\ init_id = init_index[t]
  IN  /\ \/ /\ worth
            /\ Step(t, "gc_lock", "gc_scan")
            /\ init_id' = -1
            /\ first' = Set(first, t, init_node)
            /\ UNCHANGED <<init_index, min_node, i>>
         \/ /\ ~worth
            /\ Step(t, "gc_lock", "return")
            /\ ForgetScan(t)
            /\ UNCHANGED init_id
      /\ UNCHANGED <<dequeueLocals, init_node, freed>>

(* -1 in init_id keeps the other dequeuers out.                            *)
gc_lock(t) ==
  LET worth == handle[t] - init_index[t] >= threshold /\ init_index[t] >= 0
                 /\ init_id = init_index[t]
  IN  /\ \/ /\ worth
            /\ Step(t, "gc_lock", "gc_scan")
            /\ init_id' = -1
            /\ first' = Set(first, t, init_node)
            /\ UNCHANGED <<init_index, min_node, i>>
         \/ /\ ~worth
            /\ Step(t, "gc_lock", "return")
            /\ ForgetScan(t)
            /\ UNCHANGED init_id
      /\ UNCHANGED <<dequeueLocals, init_node, freed>>

(* Mutant: the handles of the enqueuers are not looked at.                 *)
gc_scan_dequeuers(t) ==
  LET node == handle[Handles[i[t]]]
      least == IF i[t] = 1 THEN node ELSE Min2(node, min_node[t])
      over == least <= init_index[t] \/ i[t] = Len(dequeue_handles)
  IN  /\ Step(t, "gc_scan", IF over THEN "gc_decide" ELSE "gc_scan")
      /\ min_node' = Set(min_node, t, least)
      /\ i' = Set(i, t, IF over THEN 1 ELSE i[t] + 1)
      /\ UNCHANGED <<dequeueLocals, reclaimVars, init_index, first>>

(* One handle; the scan is over early when nothing can be reclaimed.       *)
gc_scan(t) ==
  LET node == handle[Handles[i[t]]]
      least == IF i[t] = 1 THEN node ELSE Min2(node, min_node[t])
      over == least <= init_index[t] \/ i[t] = Len(Handles)
  IN  /\ Step(t, "gc_scan", IF over THEN "gc_decide" ELSE "gc_scan")
      /\ min_node' = Set(min_node, t, least)
      /\ i' = Set(i, t, IF over THEN 1 ELSE i[t] + 1)
      /\ UNCHANGED <<dequeueLocals, reclaimVars, init_index, first>>

gc_decide(t) ==
  /\ \/ /\ min_node[t] <= init_index[t]
        /\ Step(t, "gc_decide", "return")
        /\ init_id' = init_index[t]
        /\ ForgetScan(t)
        /\ UNCHANGED init_node
     \/ /\ min_node[t] > init_index[t]
        /\ Step(t, "gc_decide", "gc_unlock")
        /\ init_node' = min_node[t]
        /\ UNCHANGED <<init_id, scanVars>>
  /\ UNCHANGED <<dequeueLocals, freed>>

gc_unlock(t) ==
  /\ Step(t, "gc_unlock", "gc_free")
  /\ init_id' = min_node[t]
  /\ UNCHANGED <<dequeueLocals, scanVars, init_node, freed>>

(* The nodes before min_node; nobody changes their next pointers.          *)
gc_free(t) ==
  /\ Step(t, "gc_free", "return")
  /\ freed' = freed \cup (first[t] .. min_node[t] - 1)
  /\ ForgetScan(t)
  /\ UNCHANGED <<dequeueLocals, init_node, init_id>>

-----------------------------------------------------------------------------
producer(t) == enqueue(t) \/ put(t) \/ clear(t) \/ wake(t)

consumer(t) ==
  \/ dequeue(t) \/ look(t) \/ sleep(t) \/ wait(t) \/ check(t) \/ return(t)
  \/ gc_load(t) \/ gc_lock(t) \/ gc_scan(t) \/ gc_decide(t) \/ gc_unlock(t) \/ gc_free(t)

ThreadStep(t) ==
  /\ ~Asleep(t)
  /\ \/ next_node(t) \/ found(t)
     \/ t \in Enqueuer /\ producer(t)
     \/ t \in Dequeuer /\ consumer(t)

(* FUTEX_WAIT may return without a wake.                                   *)
Surprise ==
  /\ \E c \in Dequeuer : FutexSpurious(c, c)
  /\ UNCHANGED <<futex_addr, listVars, reclaimVars, scanVars, indexVars, pc, count,
                 index, curr, cv, array>>

Ended == \A t \in Thread : pc[t] = "barrier"
Terminating == Ended /\ UNCHANGED vars

Next == (\E t \in Thread : ThreadStep(t)) \/ Surprise \/ Terminating

(* Every thread that can run is scheduled; a surprise need never happen.   *)
Spec == Init /\ [][Next]_vars /\ \A t \in Thread : WF_vars(ThreadStep(t))

-----------------------------------------------------------------------------
(* The type invariant.                                                     *)
TypeOK ==
  /\ waitq \in [Addr -> SUBSET Dequeuer] /\ futex_addr \in [Dequeuer -> {0, 1}]
  /\ put_index \in 0 .. Places /\ pop_index \in 0 .. Places /\ order \in Seq(Value)
  /\ last \in Nat /\ cell \in [0 .. Places - 1 -> Value \cup Dequeuer \cup {NULL}]
  /\ handle \in [Thread -> 0 .. last] /\ curr \in [Thread -> 0 .. last]
  /\ init_node \in 0 .. last /\ init_id \in -1 .. last /\ freed \subseteq 0 .. last
  /\ pc \in [Thread -> {"enqueue", "find_cell", "put", "clear", "wake", "barrier",
                        "dequeue", "look", "sleep", "wait", "check", "return",
                        "gc_load", "gc_lock", "gc_scan", "gc_decide", "gc_unlock", "gc_free"}]
  /\ count \in [Thread -> Nat] /\ \A t \in Thread : count[t] <= counts[t]
  /\ index \in [Thread -> 0 .. Places - 1]
  /\ cv \in [Thread -> Value \cup Dequeuer \cup {NULL}]
  /\ init_index \in [Dequeuer -> -1 .. last] /\ first \in [Dequeuer -> 0 .. last]
  /\ min_node \in [Dequeuer -> 0 .. last] /\ i \in [Dequeuer -> 1 .. Len(Handles)]
  /\ array \subseteq Value

(* "So it is safe to recycle the memory [init_node, min_node)": no thread  *)
(* is on a node that was released, nor does the queue begin at one.  The   *)
(* scan reads the handles one by one while their threads move on.          *)
NodesInUse ==
  /\ init_node \notin freed
  /\ \A t \in Thread :
       handle[t] \notin freed /\ (pc[t] = "find_cell" => curr[t] \notin freed)

(* The nodes before init_node were released, once, or are just about to be *)
(* by one of the threads that have left the scan; one thread at a time     *)
(* scans and moves init_node, while init_id is -1.                         *)
ToBeFreed(c) == IF pc[c] \in {"gc_unlock", "gc_free"} THEN first[c] .. min_node[c] - 1 ELSE {}

ReclaimedOnce ==
  /\ 0 .. init_node - 1 = freed \cup UNION {ToBeFreed(c) : c \in Dequeuer}
  /\ \A c, d \in Dequeuer :
       /\ ToBeFreed(c) \cap freed = {}
       /\ c # d => ToBeFreed(c) \cap ToBeFreed(d) = {}
  /\ LET scanning == {c \in Dequeuer : pc[c] \in {"gc_scan", "gc_decide", "gc_unlock"}}
     IN  Cardinality(scanning) = (IF init_id = -1 THEN 1 ELSE 0)

(* A dequeuer that sleeps on its futex has left it in its cell, where the  *)
(* enqueuer of that index is still to come, or the enqueuer is about to    *)
(* clear it or to wake it.                                                 *)
ToCome(n) ==
  n >= put_index \/ \E p \in Enqueuer : index[p] = n /\ pc[p] \in {"find_cell", "put"}

SleeperWoken ==
  \A c \in Dequeuer : c \in waitq[c] =>
    \/ futex_addr[c] = 1 /\ cell[Cell(c)] = c /\ ToCome(index[c])
    \/ \E p \in Enqueuer :
         cv[p] = c /\ pc[p] = (IF futex_addr[c] = 1 THEN "clear" ELSE "wake")

(* The dequeue whose futex an enqueuer has found has not returned when the *)
(* enqueuer writes to the futex.  (It may have when the enqueuer wakes it: *)
(* that wake finds nobody, or a later dequeue that goes back to sleep.)    *)
FutexLives(p) ==
  /\ cv[p] \in Dequeuer
  /\ pc[cv[p]] \in {"wait", "check"} /\ index[cv[p]] = index[p]

ClearInTime == \A p \in Enqueuer : pc[p] = "clear" => FutexLives(p)

-----------------------------------------------------------------------------
(* Each value is enqueued once and goes to the dequeue of the same index,  *)
(* in the order in which the indices were taken.                           *)
InDequeue(c) == pc[c] \notin {"dequeue", "barrier"}

Q == INSTANCE Queue WITH line <- pop_index,
                         place <- [c \in Dequeuer |-> IF InDequeue(c) THEN index[c] ELSE NULL]

ImplementsQueue == Q!Spec

(* Every thread gets to the end of the round, and main can then verify     *)
(* that every value was received.                                          *)
Termination == <>[](Ended /\ array = Value)
=============================================================================
