------------------------------ MODULE WorkSteal ------------------------------
(***************************************************************************)
(* The work-stealing scheduler hw3/work-steal.c: one Chase-Lev deque per   *)
(* thread, filled by main before the threads start; a thread takes from    *)
(* the bottom of its own deque and, when that is empty, steals from the    *)
(* top of the others'.  Each item counts the continuation's join_count     *)
(* down; the one that counts it to 0 runs the continuation, which sets     *)
(* `done'.                                                                 *)
(*                                                                         *)
(* One action is one access to memory that another thread may be writing.  *)
(* An owner alone writes its bottom, and nobody writes an array once the   *)
(* threads run, so reading those is part of the action that uses the value.*)
(***************************************************************************)
EXTENDS Integers, Sequences, FiniteSets

CONSTANTS EMPTY,      \* the pointer that is no item
          DONE_WORK,  \* the continuation of all the items
          N_THREADS,  \* the number of worker threads
          NPRINTS,    \* the items main pushes on each deque
          SIZE_HINT,  \* the size init gives an array
          SIZE_MAX    \* bound: size_t is counted modulo SIZE_MAX + 1

Thread == 0 .. N_THREADS - 1
Item == Thread \X (1 .. NPRINTS)

ASSUME WorkStealAssumption ==
  /\ N_THREADS \in Nat \ {0} /\ NPRINTS \in Nat \ {0} /\ SIZE_HINT \in Nat \ {0}
  /\ SIZE_MAX \in Nat /\ SIZE_MAX > 2 * NPRINTS
  /\ EMPTY \notin Item /\ DONE_WORK \notin Item

VARIABLES
  top, bottom,  \* top[q], bottom[q]: the atomic indices of deque q
  array,        \* array[q]: its current array, a sequence of slots
  join_count,   \* done_work->join_count
  freed,        \* the items, and DONE_WORK, whose memory was released
  done,         \* the flag that ends the threads
  runs,         \* runs[w]: how often item w was run (history)
  pc,           \* pc[t]: the access t is about to make
  b,            \* b[t], t[t], x[t]: the locals of take and steal
  t,
  x,
  i             \* i[t]: the loop counter of thread, the deque it steals from

dequeVars == <<top, bottom, array>>
vars == <<dequeVars, join_count, freed, done, runs, pc, b, t, x, i>>

Sub(m, n) == (m - n) % (SIZE_MAX + 1)   \* arithmetic of size_t
Add(m, n) == (m + n) % (SIZE_MAX + 1)
Slot(a, n) == a[(n % Len(a)) + 1]

(* main, up to pthread_create: the deques and the counter of done_work.    *)
Init ==
  /\ top = [q \in Thread |-> 0] /\ bottom = [q \in Thread |-> 0]
  /\ array = [q \in Thread |-> [n \in 1 .. SIZE_HINT |-> EMPTY]]
  /\ join_count = N_THREADS * NPRINTS
  /\ freed = {} /\ done = FALSE
  /\ runs = [w \in Item |-> 0]
  /\ pc = [id \in Thread |-> "main"]
  /\ b = [id \in Thread |-> 0] /\ t = [id \in Thread |-> 0]
  /\ x = [id \in Thread |-> EMPTY]
  /\ i = [id \in Thread |-> 0]

(* resize: twice the slots; the items keep their index modulo the size.    *)
Resized(q) ==
  LET size == 2 * Len(array[q])
      items == top[q] .. bottom[q] - 1
  IN  [s \in 1 .. size |->
        IF \E n \in items : n % size = s - 1
          THEN Slot(array[q], CHOOSE n \in items : n % size = s - 1)
          ELSE EMPTY]

(* There is a free slot: push does not resize.                             *)
Room(q) == Sub(bottom[q], top[q]) <= Len(array[q]) - 1

(* push, called by main while no thread runs.                              *)
push(q, w) ==
  LET a == IF Room(q) THEN array[q] ELSE Resized(q)
  IN  /\ array' = [array EXCEPT ![q] = [a EXCEPT ![(bottom[q] % Len(a)) + 1] = w]]
      /\ bottom' = [bottom EXCEPT ![q] = Add(@, 1)]
      /\ UNCHANGED top

Starting == \A id \in Thread : pc[id] = "main"

(* The loop of main: the items in order; after the last, the threads.      *)
main_push ==
  /\ Starting
  /\ \E q \in Thread :
       /\ \A p \in Thread : p < q => bottom[p] = NPRINTS
       /\ bottom[q] < NPRINTS
       /\ push(q, <<q, bottom[q] + 1>>)
  /\ UNCHANGED <<join_count, freed, done, runs, pc, b, t, x, i>>

main_create ==
  /\ Starting
  /\ \A q \in Thread : bottom[q] = NPRINTS
  /\ pc' = [id \in Thread |-> "take"]
  /\ UNCHANGED <<dequeVars, join_count, freed, done, runs, b, t, x, i>>

-----------------------------------------------------------------------------
Step(id, from, to) == pc[id] = from /\ pc' = [pc EXCEPT ![id] = to]

Set(v, id, value) == [v EXCEPT ![id] = value]

schedVars == <<join_count, freed, done, runs, i>>

(* The local variables are dead once take or steal has returned.           *)
ForgetLocals(id) == b' = Set(b, id, 0) /\ t' = Set(t, id, 0)

(* thread, after take returned: run the item, or look at the others.       *)
AfterTake(work) == IF work = EMPTY THEN "steal_top" ELSE "run"

take(id) ==
  /\ Step(id, "take", "take_top")
  /\ b' = Set(b, id, Sub(bottom[id], 1))
  /\ bottom' = Set(bottom, id, b'[id])
  /\ UNCHANGED <<top, array, t, x, schedVars>>

(* Mutant: the last item is taken without the compare-exchange (AAAA).     *)
take_top_unguarded(id) ==
  /\ pc[id] = "take_top"
  /\ IF top[id] <= b[id]
       THEN /\ x' = Set(x, id, Slot(array[id], b[id]))
            /\ Step(id, "take_top", "run")
            /\ ForgetLocals(id)
       ELSE /\ x' = Set(x, id, EMPTY)
            /\ Step(id, "take_top", "take_restore")
            /\ UNCHANGED <<b, t>>
  /\ UNCHANGED <<dequeVars, schedVars>>

take_top(id) ==
  /\ x' = Set(x, id, IF top[id] <= b[id] THEN Slot(array[id], b[id]) ELSE EMPTY)
  /\ \/ /\ top[id] < b[id]
        /\ Step(id, "take_top", "run")
        /\ ForgetLocals(id)
     \/ /\ top[id] = b[id]
        /\ Step(id, "take_top", "take_cas")
        /\ t' = Set(t, id, top[id])
        /\ UNCHANGED b
     \/ /\ top[id] > b[id]
        /\ Step(id, "take_top", "take_restore")
        /\ UNCHANGED <<b, t>>
  /\ UNCHANGED <<dequeVars, schedVars>>

(* AAAA                                                                    *)
take_cas(id) ==
  /\ Step(id, "take_cas", "take_restore")
  /\ \/ /\ top[id] = t[id]
        /\ top' = Set(top, id, Add(top[id], 1))
        /\ UNCHANGED x
     \/ /\ top[id] # t[id]
        /\ x' = Set(x, id, EMPTY)
        /\ UNCHANGED top
  /\ UNCHANGED <<bottom, array, b, t, schedVars>>

(* Mutant: bottom is not put back (BBBB and CCCC).                         *)
take_restore_missing(id) ==
  /\ Step(id, "take_restore", AfterTake(x[id]))
  /\ ForgetLocals(id)
  /\ UNCHANGED <<dequeVars, x, schedVars>>

(* BBBB and CCCC                                                           *)
take_restore(id) ==
  /\ Step(id, "take_restore", AfterTake(x[id]))
  /\ bottom' = Set(bottom, id, Add(b[id], 1))
  /\ ForgetLocals(id)
  /\ UNCHANGED <<top, array, x, schedVars>>

-----------------------------------------------------------------------------
(* The loop over the other threads' deques.                                *)

Others(id) == {q \in Thread : q >= i[id] /\ q # id}
Victim(id) == CHOOSE q \in Others(id) : \A p \in Others(id) : q <= p

steal_top(id) ==
  /\ Others(id) # {}
  /\ Step(id, "steal_top", "steal_bottom")
  /\ i' = Set(i, id, Victim(id))
  /\ t' = Set(t, id, top[Victim(id)])
  /\ UNCHANGED <<dequeVars, join_count, freed, done, runs, b, x>>

(* Nobody had an item: the threads end when the continuation was run.      *)
check_done(id) ==
  /\ Others(id) = {}
  /\ Step(id, "steal_top", IF done THEN "exit" ELSE "take")
  /\ i' = Set(i, id, 0)
  /\ UNCHANGED <<dequeVars, join_count, freed, done, runs, b, t, x>>

steal_bottom(id) ==
  /\ pc[id] = "steal_bottom"
  /\ \/ /\ t[id] < bottom[i[id]]
        /\ Step(id, "steal_bottom", "steal_cas")
        /\ UNCHANGED <<t, i>>
     \/ /\ t[id] >= bottom[i[id]]
        /\ Step(id, "steal_bottom", "steal_top")
        /\ t' = Set(t, id, 0)
        /\ i' = Set(i, id, i[id] + 1)
  /\ UNCHANGED <<dequeVars, join_count, freed, done, runs, b, x>>

(* EEEE: a thief that lost the race (ABORT) tries the same deque again.    *)
steal_cas(id) ==
  /\ pc[id] = "steal_cas"
  /\ \/ /\ top[i[id]] = t[id]
        /\ top' = Set(top, i[id], Add(t[id], 1))
        /\ x' = Set(x, id, Slot(array[i[id]], t[id]))
        /\ Step(id, "steal_cas", "run")
        /\ i' = Set(i, id, 0)
     \/ /\ top[i[id]] # t[id]
        /\ Step(id, "steal_cas", "steal_top")
        /\ UNCHANGED <<top, x, i>>
  /\ t' = Set(t, id, 0)
  /\ UNCHANGED <<bottom, array, join_count, freed, done, runs, b>>

-----------------------------------------------------------------------------
(* print_task: the item is run and released, then join_work.               *)
run(id) ==
  /\ Step(id, "run", "join")
  /\ runs' = IF x[id] \in Item THEN Set(runs, x[id], runs[x[id]] + 1) ELSE runs
  /\ freed' = freed \cup {x[id]}
  /\ x' = Set(x, id, EMPTY)
  /\ UNCHANGED <<dequeVars, join_count, done, b, t, i>>

(* Mutant: the continuation is thought ready one item early.               *)
join_work_early(id) ==
  /\ Step(id, "join", IF join_count <= 2 THEN "done_task" ELSE "take")
  /\ join_count' = join_count - 1
  /\ UNCHANGED <<dequeVars, freed, done, runs, b, t, x, i>>

(* Mutant: nobody finds the counter at 1.                                  *)
join_work_never(id) ==
  /\ Step(id, "join", IF join_count = 0 THEN "done_task" ELSE "take")
  /\ join_count' = join_count - 1
  /\ UNCHANGED <<dequeVars, freed, done, runs, b, t, x, i>>

join_work(id) ==
  /\ Step(id, "join", IF join_count = 1 THEN "done_task" ELSE "take")
  /\ join_count' = join_count - 1
  /\ UNCHANGED <<dequeVars, freed, done, runs, b, t, x, i>>

done_task(id) ==
  /\ Step(id, "done_task", "take")
  /\ freed' = freed \cup {DONE_WORK}
  /\ done' = TRUE
  /\ UNCHANGED <<dequeVars, join_count, runs, b, t, x, i>>

thread(id) ==
  \/ take(id) \/ take_top(id) \/ take_cas(id) \/ take_restore(id)
  \/ steal_top(id) \/ check_done(id) \/ steal_bottom(id) \/ steal_cas(id)
  \/ run(id) \/ join_work(id) \/ done_task(id)

AllDone == \A id \in Thread : pc[id] = "exit"

Next == main_push \/ main_create \/ (\E id \in Thread : thread(id))
        \/ (AllDone /\ UNCHANGED vars)

(* Every thread that can run is scheduled again and again.                 *)
Spec == /\ Init /\ [][Next]_vars
        /\ WF_vars(main_push \/ main_create)
        /\ \A id \in Thread : WF_vars(thread(id))

-----------------------------------------------------------------------------
(* The type invariant.                                                     *)
TypeOK ==
  /\ top \in [Thread -> 0 .. SIZE_MAX] /\ bottom \in [Thread -> 0 .. SIZE_MAX]
  /\ array \in [Thread -> Seq(Item \cup {EMPTY})]
  /\ join_count \in 0 .. N_THREADS * NPRINTS
  /\ freed \subseteq Item \cup {DONE_WORK} /\ done \in BOOLEAN
  /\ runs \in [Item -> Nat]
  /\ pc \in [Thread -> {"main", "take", "take_top", "take_cas", "take_restore",
                       "steal_top", "steal_bottom", "steal_cas", "run", "join",
                       "done_task", "exit"}]
  /\ b \in [Thread -> 0 .. SIZE_MAX] /\ t \in [Thread -> 0 .. SIZE_MAX]
  /\ x \in [Thread -> Item \cup {EMPTY}]
  /\ i \in [Thread -> 0 .. N_THREADS]

Holds(id, w) == x[id] = w /\ pc[id] \in {"run", "take_restore"}

(***************************************************************************)
(* Every item is run exactly once.  What take or steal returned is an      *)
(* item, that was not run or released, and that no other thread holds (the *)
(* race of the owner and of thieves for the last item of a deque); and an  *)
(* item that was not run yet is in its deque, below bottom and not below   *)
(* top, or the owner is about to take it from there, or a thread holds it, *)
(* after main's pushes and their resizes.                                  *)
(***************************************************************************)
Taking(q, n) == pc[q] \in {"take_top", "take_cas"} /\ b[q] = n

InItsDeque(w) ==
  LET q == w[1]
      n == w[2] - 1
  IN  Slot(array[q], n) = w /\ top[q] <= n /\ (n < bottom[q] \/ Taking(q, n))

ItemsExact ==
  /\ \A id \in Thread : pc[id] = "run" =>
       /\ x[id] \in Item /\ runs[x[id]] = 0
       /\ \A p \in Thread \ {id} : ~Holds(p, x[id])
  /\ \A w \in Item : (~Starting /\ runs[w] = 0) =>
       InItsDeque(w) \/ \E id \in Thread : Holds(id, w)

(* The last item's thread alone runs done_task: join_work never counts     *)
(* down a continuation that was released, and the flag is set when every   *)
(* item was run.                                                           *)
ContinuationLast ==
  /\ \A id \in Thread : pc[id] \in {"run", "join", "done_task"} => DONE_WORK \notin freed
  /\ done => \A w \in Item : runs[w] = 1

(* The program ends: every item is run and every thread finds out.         *)
Termination == <>(AllDone /\ \A w \in Item : runs[w] = 1)
=============================================================================
