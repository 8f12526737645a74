# Verification of linux-summer-2023

The repository is a collection of small concurrent programs and data
structures in C: a futex-based mutex and condition variable with their test
programs (`hw2`), work-stealing schedulers and a blocking queue (`hw3`), a
multithreaded quicksort and balanced trees (`hw1`).  This directory holds TLA+
models of them, the TLC configurations that check the models, and proofs that
TLAPS checks.  `PROJECT.json` relates each definition to the lines it models
and lists the hazards the properties are for.

## The system

| component | state | operations | hard behaviour |
|---|---|---|---|
| futex (`hw2/futex.h`, the kernel) | queues of sleeping threads per address | wait, wake, requeue, PI lock/unlock | compare-and-sleep is atomic; FUTEX_WAIT may return spuriously |
| mutex (`hw2/mutex.h`) | one atomic word, the protocol | trylock, lock, unlock, for `PRIO_NONE` and `PRIO_INHERIT` | the word must remember that there are sleepers although every unlock clears it; user-space and kernel paths race on a PI word |
| pi-test (`hw2/pi-test`) | one mutex | threads of three priorities lock and unlock | priority inversion |
| condition variable (`hw2/cond.h`) | `seq` | wait, signal, broadcast | seq is read before the unlock; broadcast moves waiters to another queue, whose mutex word does not know them |
| clock and graph (`hw2/example/main.c`) | ticks, running, `ready` of each node | clock_wait/tick/stop, node_wait/signal | predicates change under the mutex, signals come after it; one-bit `ready` |
| perf-test (`hw2/perf-test`) | a ring of mutexes, `ready_count`, a start mutex per thread | line up, lock the next, unlock the previous | deadlock if there is no free mutex; the start |
| spin lock (`hw2/spinlock.h`) | one flag | unused except `spin_hint` | |
| work stealing (`hw3/work-steal.c`) | per thread a Chase-Lev deque: top, bottom, array | push, take, steal, join_work | owner and thieves race for the last item; reference count of the continuation |
| deque (`hw3/work-steal-qsort/src/deque.c`) | as above, with `old_array` and a handle per thread | take, push, steal, resize, gc | no published claim in take; release of old arrays |
| hina (`.../src/hina.c`) | deques, `active`, `done` | init, spawn, run, exit | main shares tid 0 with worker 0; counting active work |
| work-stealing quicksort (`.../src/main.c`) | the array | qsort_algo partitions, spawns parts | workload of hina; the partition |
| MPMC queue (`hw3/mpmc.c`) | list of nodes of cells, two tickets, a handle per thread | enqueue, dequeue | sleeping dequeuers; release of nodes |
| multithreaded quicksort (`hw1/qsort-mt.c`) | pool of threads with a state each, `idlethreads`; the array | qsort_mt, allocate_thread, qsort_thread, qsort_algo | state shared under two mutexes; detecting the end; the partition |
| S-Tree (`hw1/treeint/s_tree.c`) | nodes with parent pointers and hints | insert, find, remove, destroy | pointers rewritten one after the other; stale hints |
| red-black tree (`hw1/treeint/rbtree.c`) | nodes with parent pointers and colours | insert, find, remove, destroy | rebalancing in loops that rely on what the last round left |
| treeint (`hw1/treeint/treeint.c`) | the tree that was asked for | calls of a tree through a table of operations | |

The components interact through calls only, except that the mutex and the
condition variable share the kernel's queues (a requeued waiter sleeps on the
mutex's word) and that hina's main thread acts on worker 0's deque.

What makes them correct: exclusion, no lost wake-up, priority order, and that
calls return (mutex); no missed or overwritten signal (condition variable and
graph); every item run exactly once, termination exactly after the last
(schedulers); values neither lost nor duplicated, no use of released memory
(queue, deque); sorted output and exactly one termination (quicksort); order,
balance and pointer consistency (trees); that the ring always moves (perf-test).

## Modules

| module | models | role |
|---|---|---|
| `Futex` | `hw2/futex.h` and the kernel behind it | queues; the operators other modules' actions are built from |
| `Mutex` | `hw2/mutex.h` | one action per atomic access or system call |
| `MutexClient` | `hw2/pi-test/main.c` | threads that call lock, trylock, unlock; the specification checked and proved about |
| `Lock` | – | the abstract lock that `MutexClient` implements |
| `MutexProofs` | – | the theorems about it |
| `Cond` | `hw2/cond.h` | one action per access; extends `Mutex` |
| `ClockGraph` | `hw2/example/main.c` | the program on top of `Cond` and `Mutex` |
| `ClockGraphProofs` | – | the theorems about it |
| `Graph` | – | the abstract program, each operation atomic |
| `PerfRing` | `hw2/perf-test/main.c` | one contention test, on mutexes that do what `Lock` says |
| `PerfRingProofs` | – | the theorems about it |
| `WorkSteal` | `hw3/work-steal.c` | the whole program |
| `WorkStealProofs` | – | the theorems about it |
| `Deque` | `deque.c` of work-steal-qsort | one action per access; extended by `Hina` |
| `Hina` | `hina.c`, with the spawning of `main.c` | the pool on top of `Deque` |
| `HinaProofs` | – | the theorems about the pool and the deques under it |
| `Mpmc` | `hw3/mpmc.c` | one round of producers and consumers over the queue |
| `MpmcProofs` | – | the theorems about it, the refinement of `Queue` among them |
| `Queue` | – | the abstract queue of places that `Mpmc` implements |
| `QsortMt` | `hw1/qsort-mt.c` | the pool of threads and how it shares the array |
| `QsortMtProofs` | – | the theorems about it |
| `Partition` | `qsort_algo` and its helpers, the same text in both quicksorts | what becomes of the values, as operators |
| `STree` | `hw1/treeint/s_tree.c`, `treeint_st.c` | the tree behind its interface |
| `RbTree` | `hw1/treeint/rbtree.c`, `treeint_rb.c` | the other tree |
| `TreeInt` | `hw1/treeint/treeint.c` | calls on either tree, through one interface |
| `KeySet` | – | the abstract set that both trees implement |
| `TreeIntProofs` | – | the theorems about both trees |
| `MCMutex`, `MCClockGraph`, `MCHina`, `MCMpmc`, `MCTreeInt` | – | the constants of the runs |
| `MCQsortMt` | – | `QsortMt` together with `Partition` |

**State and actions.**  A thread's `pc` names the function and the access it is
about to make (`lock_xchg` is the exchange at `mutex.h:79`); an action is that
access together with the thread-local code up to the next one.  A mutex word is
the set of the fields set in the int: `{MUTEX_LOCKED, MUTEX_SLEEPING}`, or the
owner's tid and `FUTEX_WAITERS`.  `waitq[a]` is the kernel's queue at address
`a`; a thread in a queue takes no step.  `holder`, `runs` and `freed` are
history variables that no guard reads.  In `Cond`, `cseq[c]` is
the word `seq` of condition variable `c`, counted modulo `SEQ_MOD`; `seq[t]`,
`cnd[t]` and `cret[t]` are the locals of the call `t` is in (the value read, the
argument, the return address), cleared when the call needs them no more.  In
`WorkSteal` an owner alone writes its `bottom`, and nobody writes an array once
the threads run, so reading those is merged with the access that follows; the
same holds in `Deque` of take and push, which run under the deque's own tid.
`Deque` keeps every array a deque ever had in `buffer[q]`; a pointer is its
number, `freed[q]` are the released ones, and a load from a released array, or
from a slot not stored to since malloc, finds anything.  `overtaken` and
`hidden` are history variables that record the two races described below.
In `Hina` a work is a number, the list of works is their count, and what a work
does is to spawn others, at any time and in any number up to `WORKS`.
In `Mpmc` a node is its id, and cell `n` of the list is the cell of index `n`;
the spare node that a thread keeps for the next append is private and left out.
Every thread has registered when it starts: registration ends in a barrier.
`counts` bounds the operations of each thread and lets one lag behind.
`futex_addr[c]` is the word in the frame of `mpmc_dequeue`; it is gone when the
dequeue returns.  `Queue` gives every enqueue and dequeue its place when it
begins, as the two fetch-and-adds do.  In `QsortMt` a part of the array is an
interval of positions; where the values split a part is left open, so that
everything said holds for any values.  `todo[t]` is the recursion of thread
`t`, `sorted` the positions whose element is final.  That one round of the code
does to the values no more than this is said in `Partition`, whose pointers are
indices and whose loops are recursive operators.  In `STree` and `RbTree` a
node is its key, and an action one round of a loop or recursion, so that the tree
is looked at between any two rounds.  The left and the right form of a function,
or of a branch, are one definition with the side as a parameter.  `TreeInt`
instantiates both trees over the same variables, of which a behaviour uses one
tree's.  `PerfRing` takes `Lock` for the mutexes of the ring, as `MutexClient`
implements it; `line` are the threads whose `start_mutex` main holds.

**Memory model.**  Atomic accesses are sequentially consistent.  The relaxed
and acquire/release orders and the fences of the sources are therefore not
examined: what is shown is that the algorithms are right, not that the chosen
orders suffice.  A weak compare-exchange is taken not to fail spuriously, as on x86.

## Runs

| run | instance | checks |
|---|---|---|
| `mutex` | 3 threads of 3 priorities, 2 calls each, one mutex of either protocol, one trylock before the slow path | `TypeOK`, `MutualExclusion`, `NoLostWakeup`, `NoPriorityBypass`, `ImplementsLock`, `Termination` |
| `clock_graph` | 2 nodes and main, one spurious return | `RequeuedNotLost`, `NoMissedSignal`, `ImplementsGraph`, `Termination` |
| `perf_ring` | the program's own 4 threads, 5 mutexes and 50 rounds | `TypeOK`, `NoOvertaking`, `OneMoves`, `NoDeadlock`, `Termination` |
| `work_steal` | 3 threads, 3 items each, arrays of 2 slots, indices modulo 8 | `TypeOK`, `ItemsExact`, `ContinuationLast`, `Termination` |
| `hina` | 2 workers and main, 4 works, deques that start with 1 slot | `TypeOK`, `WorksExact`, `ArraysInUse`, `ReleasedOnce` |
| `hina_ends` | 3 works | `Termination` |
| `hina_exit` | 3 works | `AllWorkDone`, violated |
| `hina_resize` | 4 works | `ResizeAssertion`, violated |
| `mpmc` | 2 producers and 2 consumers, 3 values, 1 cell per node, reclamation from one node on | `TypeOK`, `NodesInUse`, `ReclaimedOnce`, `SleeperWoken`, `ClearInTime`, `ImplementsQueue`, `Termination` |
| `qsort_mt` | 3 threads, 10 elements, parts under 4 are not split, forks above 1; all arrays of up to 8 numbers | `TypeOK`, `PartsExact`, `EndedSorted`, `DestroyedUnused`, `SortSound`, `Termination` |
| `treeint` | 10 keys inserted in order and removed in any; any sequence of calls on 5 keys (S-Tree) or 7 (red-black tree) | `TreeOK`, `RedBlack`, `ImplementsKeySet` |
| `stree_balance` | 6 keys, any sequence of calls | `Balanced`, violated |

**What the violations show.**  `hina_exit`: `deque_take` reads `bottom` and
`top` and stores the lowered `bottom` last, without having published it (the
Chase-Lev algorithm, and `hw3/work-steal.c`, store it first).  A thief that
steals twice in between gets the item that the owner returns.  The work is run
and destroyed twice, `active` is counted down twice, and `hina_exit` sets
`done` while a work is running.  `hina_resize`: a handle moves to the current
array only when its thread takes or steals from that deque.  While one thread
stays on the first array, `old_array` cannot be emptied, and the second resize
fails its assertion.  `stree_balance`: a rotation updates the hint of the node that goes down, not of
the one that goes up, so the hints above are computed from a depth that is too
small and the update ends early.  Inserting 1, n, n - 1, ..., 2 gives a path of
n nodes whose hints are 0 or 1.  `s_tree.c` calls the S-Tree self-balancing and
names no bound; `Balanced` asks for that of a red-black tree, but a list would
break any.  That hints also go stale after a removal is not what the run shows:
stale hints harm neither pointers nor answers, and no property is about the
balance that they alone cost.

No run is about the wake at `mpmc.c:202`, which may come after the dequeuer has
returned and then uses the address of a frame that is gone: when the enqueuer
stores 0 before the dequeuer has reached FUTEX_WAIT, that call returns at once.
`ClearInTime` shows that the store itself is always in time, and
`ImplementsQueue` and `Termination` that the late wake, at most a spurious one
for a later dequeue, does no harm.

With four works TLC also shows a further way in which arrays go wrong: while a
`deque_gc` scans the handles, `old_array` is NULL, and a resize in that moment
passes the assertion although the array is still needed; the array it replaces
is then released under a thief whose handle is on the older one, or forgotten
when `deque_gc` puts its own back.  `hidden` records that such a resize took
place.  After it `ArraysInUse` and `ReleasedOnce` say nothing, so they say that
nothing else goes wrong with the arrays, the overtaken take included: in
particular the handles do protect an array that a thief reads, as long as the
assertion sees the array before it.  `WorksExact` excuses the states after
either race (`Disturbed`): a thief that reads a released array may find
anything.

**Why the bounds are enough.**  *mutex*: three threads give an owner, a sleeper
and a third that barges in; the second call of each lets a word be taken again
after it was released with sleepers; a higher number of trylocks only repeats
the first.  *clock_graph*: two nodes give a node that waits for its parent and
one that waits for the clock, and broadcasts that requeue more than one waiter;
`SEQ_MOD` exceeds the number of signals, so the wrap of `seq` is left out.  *work_steal*: an owner with two thieves race for the
last item; the array of two slots is resized when the third item is pushed.
*hina*: an owner and a thief are enough for every race of the deque, and the
thief steals several times within one take; with one slot at the start, two
items on a deque resize it and three do so twice, which the first work spawns
when there are four; more resizes repeat the second.  The states after a hidden
resize, which every property but `TypeOK` excuses, are not explored further
(`NothingHidden`); that `TypeOK` holds there as well is proved.  *hina_ends*: liveness is checked on the smaller instance with one
resize of each deque and no such limit.  *mpmc*: with one cell per node every
dequeue tries to reclaim and the two lag by a node each, which is all that the
scan can tell apart; three values let a second dequeuer reclaim while the first
still releases, and one thread of each kind lag.  *qsort_mt*: a part of ten
splits twice, so that a thread that was given a part gives some of it away
again; three threads give a giver, a receiver and one on its way to the wait.
With `FEW = 4` the shortest part that is split has both sides or one.
`SortSound` takes all arrays of up to 8 numbers of 0 .. 3, which are half of
the words, as `rand()` gives half of the unsigned numbers: with the thresholds
4 and 7 in place of 7 and 40 each way to choose the pivot is taken, the blocks
of elements equal to it are empty, shorter or longer than what they change
places with, and the insertion sort is given up at any place.  *treeint*: in
sequence ten keys give a red-black tree of four levels, and rotations, flips
and replacements that happen below the root as well as at it;
any calls on seven keys, and on five in the S-Tree, whose hints multiply the
states, give trees in which the replacement of a removed node is its child, or
deeper, with and without a child of its own, and hints too low and too high for
the depth.  Six keys are the least at which `Balanced` fails.  *perf_ring*: the
constants are the program's.

**Fairness.**  The threads are preemptively scheduled, and a spinning thread
does not keep others from running.  `mutex`, `work_steal`, `hina_ends`, `mpmc`,
`perf_ring` and `qsort_mt` assume weak fairness of each thread's steps; a thread asleep in
the kernel is not enabled.
`clock_graph` needs less: only that some thread that can run does.
In `treeint` a call that has begun goes on; that there are calls is not assumed.
The pthread mutexes of `PerfRing` and `QsortMt`, and the mutexes of the ring, are
assumed to go to somebody who keeps asking for one that stays free, no more.
Spurious returns are never assumed to happen.

## Proofs

Each `...Proofs` module proves `Spec => []IInv` (its theorem `Invariance`) for
an inductive invariant `IInv` (in `HinaProofs` one in three layers, in
`TreeIntProofs` `TreeIntInv`, by the lemma `TreeIntAlways`), and the properties
from it.  Nothing is assumed
but the assumptions about the constants (`FutexAssumption`, `MutexAssumption`,
`CondAssumption`, `GraphAssumption`, `PerfRingAssumption`,
`WorkStealAssumption`, `QsortMtAssumption`, `MpmcAssumption`, `CountsAssumption`,
`CellAssumption`, `DequeAssumption`, `HinaAssumption`, `TreeIntAssumption`), which
TLC evaluates in the runs.

| module | theorem | statement |
|---|---|---|
| `MutexProofs` | `TypeCorrect`, `Exclusion`, `WakeupsKept` | `TypeOK`, `MutualExclusion`, `NoLostWakeup` are invariants |
| | `PriorityOrder` | `NoPriorityBypass` |
| | `LockRefinement` | every behaviour implements `Lock` |
| `ClockGraphProofs` | `RequeuedKept` | `RequeuedNotLost` is an invariant |
| | `Exclusion` | no two threads are under the mutex of one object |
| | `SignalsKept` | `NoMissedSignal` is an invariant while no `seq` wraps around |
| | `Refinement` | every behaviour implements `Graph` |
| `PerfRingProofs` | `TypesKept`, `NobodyOvertakes`, `OnlyOneMoves` | `TypeOK`, `NoOvertaking`, `OneMoves` are invariants |
| | `AlwaysProgress` | `NoDeadlock` is an invariant |
| `WorkStealProofs` | `TypesKept`, `ExactlyOnce`, `RunsLast` | `TypeOK`, `ItemsExact`, `ContinuationLast` are invariants |
| `MpmcProofs` | `TypeCorrect`, `NoNodeInUseReleased`, `NodesReleasedOnce`, `NoSleeperLeft`, `FutexClearedInTime` | `TypeOK`, `NodesInUse`, `ReclaimedOnce`, `SleeperWoken`, `ClearInTime` are invariants |
| | `MpmcImplementsQueue` | every behaviour implements `Queue` |
| `HinaProofs` | `TypesKept`, `NeverFreedTwice`, `NothingReleasedIsRead` | `TypeOK`, `ReleasedOnce`, `ArraysInUse` are invariants |
| | `EveryWorkOnce` | `WorksExact` is an invariant |
| `QsortMtProofs` | `TypesKept`, `PartsKept`, `EndsSorted`, `DestroyedLast` | `TypeOK`, `PartsExact`, `EndedSorted`, `DestroyedUnused` are invariants |
| `TreeIntProofs` | `TreesHold`, `RedBlackHolds` | `TreeOK`, `RedBlack` are invariants |
| | `CallsOfASet` | every behaviour implements `KeySet`, but for its fairness |

**Mutex**: any sets of threads and mutexes, any protocols and priorities, any
number of spins.  `MutualExclusion` is not inductive: that `holder[m]` has one
element follows only from what the word says of it.  `IInv` is the conjunction
of the type invariant and

* `WordOK`: what each value of a word says about `holder`: a default word has
  MUTEX_LOCKED exactly while somebody owns the mutex, a PI word carries the
  tid of its owner;
* `OwnersOK`: the threads inside the critical section or in unlock are those
  in `holder`;
* `SleepersOK`: a thread sleeps on the mutex of its current call, in the
  code that put it to sleep, and on one queue only;
* `ThreadOK`: `pc` agrees with the protocol of the mutex the thread works on;
* `NoLostWakeup`: a sleeper is known to the word or to an awake thread that
  will wake it or announce it.

There is one lemma per action, each showing the conjuncts the action can
disturb, and the refinement is proved from the same invariant.

**Clock and graph**: any number of nodes, of spins and of spurious returns.
`ThreadOK` says in which calls, with which arguments and return addresses, a
thread can be; `Owners` and `Words` relate a mutex's word to the threads that
are under it; `Sleepers` that a thread in a queue waits for that mutex or
condition variable and for nothing else.  With these `RequeuedNotLost` is
inductive: a broadcast puts waiters into the queue of a mutex whose word does
not say so, but the one that it wakes is on its way to AAAA, and whoever wakes
a thread from a mutex leaves another such.  `Exclusion` is what allows
`ClockGraph` to take all that the program does under one mutex as one step.
For `NoMissedSignal` the waiters that do not sleep yet count as well
(`NoneMissed`): one that has read `seq` waits for what is not so yet, or `seq`
is larger by now, or a thread is about to increment it.  "Larger" is where the
theorem needs its hypothesis `NoWrap`: 2^32 signals between the load and the
system call bring `seq` back to the same number.

`Refinement` needs no such hypothesis, as a wait checks its condition again.
Every step is a step of `Graph` or changes nothing that `Graph` sees (lemma
`SeenOrNot`; `Placed` relates the places of a thread to its variables), but that
`Graph` lets a node signal only when the last signal was taken, and `node_signal`
does not look.  This follows from the arithmetic of a binary counter, which
`Counted` keeps as books: how often node `n` has ticked the clock (`T[n]`) and
signalled (`S[n]`), in turns, and what all nodes from `n` on have added to the
clock (`sum[n]`).  The first node for which the sums would come out wrong gives a
contradiction (lemmas `Below`, `Above`).  A node that acted while its own signal
is not taken would therefore have waited for a tick that the clock has not
reached (`Ahead`).  After `clock_stop` the sums are void; then the nodes that
wait for a tick only exit (`Unread`).

**Ring**: any number of threads, with one mutex more, and any number of
rounds.  `Rounds` and `Places` say how far apart two threads can be and in which
order, `Holds` and `Single` who holds which mutex, and that nobody else does;
`LastRound`, `Line` and `Count` are about the two ends (`ready_count` is the
number of threads past the barrier).  That somebody can move then takes one
more argument: if all waited, the last thread of those in the first one's round
(lemma `Least` finds it) would wait for the mutex that is left over.

**Work stealing**: any number of threads and items and any first size of the
arrays.  The heart is `Indices`: `top[q] <= Bot(q)`, where `Bot(q)` is `bottom`
as if an owner that has lowered it had put it back already, and what an owner
knows in each of the places where it has; `Thieves`: if `top` is still what a
thief has read there is an item at it.  From these, `Items` says of each item
that it is in its deque, held by one thread, or was run, and only one of these.
`Counted` says that `join_count` is the number of items not run and of threads
that have run one and not counted it yet; `Last`, that nobody can count when
the continuation is released.  `Indices` also shows that neither index wraps.

**Queue**: any numbers of producers and consumers, any `counts` that put as
many values as they take, any number of cells per node and any threshold of the
reclamation.  `Tickets` says that the operations begun are as many as the index
that hands out the places, and `Indices` that no two operations in progress have
the same one; so the indices are bounded by the number of operations, and the
list never grows past it (`TypeOK`).  Four parts say what happens at one place:
`Cells`, what the cell of an index holds before, while and after its dequeue is
at it; `Waits`, what the word in the dequeue's frame then says; `Wakers`, which
enqueuers are still about to clear or wake it; `Sleepers`, which dequeuer is in
the kernel's queue.  The exchange of the value and the exchange of the futex are
the two steps that can meet at a place, and each finds what the other left.  For
the reclamation, `Walks` says that a handle only grows and is never past the
place its thread works at, `Lock` that at most one thread is between the
exchange of `init_id` and its return, `Scan` that the least node it found so far
is not past any handle it has seen, and `Released` that all that is freed, or is
to be freed by the threads that have left the lock, are disjoint runs of nodes
before `init_node`.  The refinement maps the abstract places to the operations in
the order of their tickets, and each step to the step of `Queue` by that thread
or to none.

**Deque and hina**: any number of workers and of works, any first size of the
arrays, any work that spawns any other at any time.  The only assumption that is
not about the shape of the constants is that there are fewer works than
`SIZE_MAX`: only so do the indices, which count the works pushed, not wrap.  The
invariant has three layers, and each needs those before.

* `Base` holds in every state, after the two races too.  It says in which
  operation, on which deque and with which return address a thread can be
  (`MainControl`, `ControlOf`), that the workers find nothing before the main
  thread has pushed (`First`; the main thread shares the deque of worker 0, so
  without this there would be two owners), that no index passes the number of
  works spawned (`Indexed`, `BoundsOf`), and which array a pointer points to
  (`PointersOf`).  `TypeOK` is part of it and needs all of it: that `bottom` is
  never lowered below 1 follows from what a take has compared with `top`.
* `Storage` holds while no resize was hidden.  `Current` is the array in use,
  from the moment that the one before it is in `old_array`.  `ArraysOf`: all
  arrays but that one and the current one are released, and the one before it
  is in `old_array` or in the hands of one thread in `deque_gc`, not both.
  `SeenOf`: the handle of another thread is on one of these two; if it is on
  the older one, that one is in `old_array` or is yet to be compared with
  the handle.  `SeenBy`: no thread reads an array older than its handle.
  Neither `ArraysInUse` nor `ReleasedOnce` is inductive, because neither says
  anything of the handles.
* `Delivery` holds while neither race has happened.  `Fits`: from `top` to
  `bottom` there are works, in the slots of the current array, no more than it
  has.  `ClaimOf` and `ThiefOf`: what a take or a steal has read and has not
  claimed yet is still the work at that index, unless the other side has
  claimed it.  `WorkOf`: a work that was spawned and not begun lies at one place
  of one deque, or one thread has it, and no other work does.  `JobOf` and
  `Counted`: it is run by one thread, once, and `active` is the number of works
  that have not ended; so when `hina_exit` sees 0 all have ended.

An action's lemma (`...Does`) says once what it changes, and `Flow` which
actions lead from which place to which; the steps of the layers are proved from
these.

**Pool of the quicksort**: any number of threads, any array, any way the values
may split a part, and any thread creation that fails.  `Locks` says what the
state of a thread is while another holds its mutex on the way from
`allocate_thread`, the window in which `st` and the part disagree.  `Sorting`:
`idlethreads` is the number of the threads that can still be chosen (`Free`).
`Covered` and `Once`: each position that is not final is in one part of one
thread.  So when `idlethreads` reaches the number of threads nobody has a part
left, and everything is sorted; `Ending` describes the end from there on, and
`Created` and `NoPool` what the main thread sees of it.

**Trees**: any number of keys and any sequence of calls.  A tree is described
by the span of each node, the set of the nodes at and under it (`Spans`): the
root's is the set of all nodes, and a child's is what lies on that side of the
node.  So order, and that there is no cycle and no second way to a node, are one
fact about each node, and what a loop does to the pointers is shown for spans
once, whatever the spans are: a leaf is attached, a node and its child change
places (`Turned`, for every rotation of both trees), a node that has at most one
child is cut out (`CutOut`), and its neighbour in the order takes a node's place
(`Supplanted`, `Renamed`).  The other half of a tree is `Parents`.  At the end
`Subtree`, as the models compute it, is shown to be the span (`SubtreeIs`).

`StInv` and `RbInv` are the inductive invariants of the two trees and `OneTree`
is that of the benchmark; the spans, and the heights below, are bound by an
existential quantifier, as no variable holds them.  Besides the tree they say
what the loops have found: `OnWay`, that the way down of a search has passed
nothing that could have hidden the key, so that at its end the key is not there;
`OnEdge`, that the way to the replacement of a removed node runs along the edge
of its subtree, so that nothing lies between the two in the order.

The colours are described by a height of each node (`Balance`): a child's is the
node's without the node itself if it is black, and `Lack` is the one place of
which the loop of `____rb_erase_color` says that a black node is missing.
`Reds` says that no red node but the one that `__rb_insert` is at has a red
parent.  Each case of both loops is then an equation between heights, and a
rotation is right for every tree around it.  `RedBlack` speaks of paths instead;
`RbPath` counts the black nodes of a path, by going down along it, and finds
that they are the height of the root, less one on the paths through that place.

For `CallsOfASet`, `Answers` says which step of a call changes the set or reads
it: the one that links the new node, that unlinks the old one, or that ends the
search.  All others leave the members as they are.  What the proof does not claim is any
bound on the hints of the S-Tree, by which it decides only whether to rotate.

**Model-checked only**: liveness, which is out of the prover's reach (that of
`KeySet` too: that every call returns); `SortSound`, as the partition is written
with recursive operators.

## Not modelled

* **Memory orders**: see above.
* **Registration of the MPMC queue** (`mpmc_queue_register`): it is complete
  before any operation, by the barriers of `main`, so it is the initial state.
* **Comparison by strings, command lines and sizes**: `string_compare` of the
  quicksort; its option of 0 threads, with which `qsort_mt` hands the array to
  the first thread of an empty pool; the tree size 1 with a seed other than
  0 of the tree benchmark, with which `rand_key` divides by 0; a block of 2^31 bytes of equal elements.
* **`thread_mid` and `thread_stop` of pi-test**: a thread that spins on a flag,
  which otherwise decides only whether `h` is printed; neither touches the mutex.
* **A condition variable with a PI mutex**, which no program uses; the wrap of
  `seq` (the hypothesis of `SignalsKept`).
* **Failures** of thread creation outside `qsort_mt`, of pthread calls and of malloc.
* `align_up.c` (three formulas), `list.h` (the kernel's list macros), the
  functions of the spin lock that nobody calls, build files, hooks and plotting
  scripts, timing.
