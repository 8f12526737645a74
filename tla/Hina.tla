-------------------------------- MODULE Hina --------------------------------
(***************************************************************************)
(* The thread pool hw3/work-steal-qsort/src/hina.c and the program on top  *)
(* of it, src/main.c: worker t runs works from its own deque or from the   *)
(* others'; the main thread spawns the first work and waits in hina_exit   *)
(* until `active' says that there is none left.  The main thread has tid 0 *)
(* like worker 0, so its push goes to that worker's deque.                 *)
(*                                                                         *)
(* A work of the program sorts one part of the array and spawns the parts  *)
(* it finds too long; which, is a matter of the numbers: here a work may   *)
(* spawn whenever it runs, while there are less than WORKS of them.        *)
(***************************************************************************)
EXTENDS Deque

CONSTANTS Main,   \* the main thread
          WORKS   \* bound: the works of a behaviour

Worker == Thread \ {Main}   \* worker t has tid t

ASSUME HinaAssumption ==
  /\ Thread = Deque \cup {Main} /\ Main \notin Deque
  /\ Tid = [t \in Thread |-> IF t = Main THEN 0 ELSE t]
  /\ WORKS \in Nat \ {0} /\ Work = 1 .. WORKS
  /\ WORKS < SIZE_MAX   \* a work takes up memory, which size_t measures

VARIABLES
  active,   \* hina.active
  done,     \* hina.done
  spawned,  \* hina.list: the works 1 .. spawned were allocated
  job,      \* job[t]: the work t runs
  starts,   \* starts[w]: how often work w was begun (history)
  ends      \* ends[w]: how often it was finished (history)

poolVars == <<active, done, spawned, job, starts, ends>>
vars == <<dequeVars, localVars, pc, poolVars>>

(* hina_init and hina_run: every worker begins with a take.                *)
Init ==
  /\ DequeInit /\ LocalInit
  /\ pc = [t \in Thread |-> IF t = Main THEN "spawn" ELSE "take_top"]
  /\ ret = [t \in Thread |-> IF t = Main THEN "wait" ELSE "taken"]
  /\ active = 0 /\ done = FALSE /\ spawned = 0
  /\ job = [t \in Thread |-> EMPTY]
  /\ starts = [w \in Work |-> 0] /\ ends = [w \in Work |-> 0]

-----------------------------------------------------------------------------
(* hina_spawn, called by qsort_spawn: the list and active, then the push.  *)
hina_spawn(t) ==
  /\ pc[t] \in {"spawn", "run"} /\ spawned < WORKS
  /\ spawned' = spawned + 1
  /\ active' = Add(active, 1)
  /\ deque_push(t, Tid[t], spawned', IF t = Main THEN "wait" ELSE "run")
  /\ UNCHANGED <<done, job, starts, ends>>

(* thread, with an item from take or steal: do_work begins.                *)
do_work(t) ==
  /\ pc[t] \in {"taken", "stolen"} /\ x[t] \in Work
  /\ pc' = Set(pc, t, "run")
  /\ job' = Set(job, t, x[t])
  /\ starts' = Set(starts, x[t], starts[x[t]] + 1)
  /\ x' = Set(x, t, EMPTY)
  /\ UNCHANGED <<dequeVars, dq, ret, b, tt, a, old_a, i, active, done, spawned, ends>>

(* do_work ends: the destructor and active; the next take.                 *)
work_done(t) ==
  /\ pc[t] = "run"
  /\ ends' = Set(ends, job[t], ends[job[t]] + 1)
  /\ active' = Sub(active, 1)
  /\ job' = Set(job, t, EMPTY)
  /\ deque_take(t, t, "taken")
  /\ UNCHANGED <<done, spawned, starts>>

-----------------------------------------------------------------------------
(* The loop over the other deques, from deque n on.                        *)
Victims(t, n) == {q \in Deque : q >= n /\ q # t}

StealFrom(t, n) ==
  /\ Victims(t, n) # {}
  /\ deque_steal(t, CHOOSE q \in Victims(t, n) : \A p \in Victims(t, n) : q <= p, "stolen")
  /\ UNCHANGED poolVars

first_steal(t) == pc[t] = "taken" /\ x[t] = EMPTY /\ StealFrom(t, 0)

next_steal(t) ==
  /\ pc[t] = "stolen"
  /\ \/ x[t] = ABORT /\ StealFrom(t, dq[t])
     \/ x[t] = EMPTY /\ StealFrom(t, dq[t] + 1)

(* Mutant: a thread that finds nothing ends without a look at done.        *)
check_done_missing(t) ==
  /\ \/ pc[t] = "taken" /\ x[t] = EMPTY /\ Victims(t, 0) = {}
     \/ pc[t] = "stolen" /\ x[t] = EMPTY /\ Victims(t, dq[t] + 1) = {}
  /\ pc' = Set(pc, t, "exit")
  /\ UNCHANGED <<dequeVars, localVars, poolVars>>

(* Nothing was found: the thread ends if hina_exit said so.                *)
check_done(t) ==
  /\ \/ pc[t] = "taken" /\ x[t] = EMPTY /\ Victims(t, 0) = {}
     \/ pc[t] = "stolen" /\ x[t] = EMPTY /\ Victims(t, dq[t] + 1) = {}
  /\ \/ ~done /\ deque_take(t, t, "taken")
     \/ /\ done
        /\ pc' = Set(pc, t, "exit")
        /\ UNCHANGED <<dequeVars, localVars>>
  /\ UNCHANGED poolVars

thread(t) ==
  \/ do_work(t) \/ hina_spawn(t) \/ work_done(t)
  \/ first_steal(t) \/ next_steal(t) \/ check_done(t)

-----------------------------------------------------------------------------
(* hina_exit: it waits for active, sets done and joins the threads; then   *)
(* the arrays that are left are released.                                  *)
exit_wait(t) ==
  /\ Step(t, "wait", "join")
  /\ active = 0
  /\ done' = TRUE
  /\ UNCHANGED <<dequeVars, localVars, active, spawned, job, starts, ends>>

exit_join(t) ==
  /\ Step(t, "join", "exit")
  /\ \A s \in Worker : pc[s] = "exit"
  /\ freed' = [q \in Deque |-> freed[q] \cup {Newest(q)} \cup ({old_array[q]} \ {NULL})]
  /\ UNCHANGED <<top, bottom, buffer, old_array, handle, failed, historyVars, localVars, poolVars>>

hina_exit(t) == exit_wait(t) \/ exit_join(t)

ThreadStep(t) ==
  \/ DequeStep(t) /\ UNCHANGED poolVars
  \/ t \in Worker /\ thread(t)
  \/ t = Main /\ (hina_spawn(t) \/ hina_exit(t))

Ended == \A t \in Thread : pc[t] = "exit"

Stopped == (failed \/ Ended) /\ UNCHANGED vars

Next == (~failed /\ \E t \in Thread : ThreadStep(t)) \/ Stopped

(* Every thread that can run is scheduled again and again.                 *)
Spec == /\ Init /\ [][Next]_vars
        /\ \A t \in Thread : WF_vars(~failed /\ ThreadStep(t))

-----------------------------------------------------------------------------
(* The type invariant.                                                     *)
TypeOK ==
  /\ top \in [Deque -> 1 .. SIZE_MAX] /\ bottom \in [Deque -> 1 .. SIZE_MAX]
  /\ buffer \in [Deque -> Seq(Seq(Work \cup {NULL}))]
  /\ old_array \in [Deque -> Nat \cup {NULL}]
  /\ handle \in [Deque -> [Deque -> Nat]] /\ freed \in [Deque -> SUBSET Nat]
  /\ \A q \in Deque :
       /\ old_array[q] \in 1 .. Newest(q) \cup {NULL}
       /\ \A k \in Deque : handle[q][k] \in 1 .. Newest(q)
       /\ freed[q] \subseteq 1 .. Newest(q)
  /\ failed \in BOOLEAN /\ overtaken \in BOOLEAN /\ hidden \in BOOLEAN
  /\ kept \subseteq Work \cup {EMPTY}
  /\ pc \in [Thread -> DequePC \cup {"spawn", "wait", "join", "taken", "stolen",
                                     "run", "exit", "aborted"}]
  /\ dq \in [Thread -> Deque]
  /\ ret \in [Thread -> {"taken", "stolen", "run", "wait"}]
  /\ b \in [Thread -> 0 .. SIZE_MAX] /\ tt \in [Thread -> 0 .. SIZE_MAX]
  /\ x \in [Thread -> Work \cup {EMPTY, ABORT}]
  /\ a \in [Thread -> Nat] /\ old_a \in [Thread -> Nat]
  /\ i \in [Thread -> Deque]
  /\ active \in 0 .. SIZE_MAX /\ done \in BOOLEAN /\ spawned \in 0 .. WORKS
  /\ job \in [Thread -> Work \cup {EMPTY}]
  /\ starts \in [Work -> Nat] /\ ends \in [Work -> Nat]

(***************************************************************************)
(* Two things go wrong in this program, and the runs hina_exit and         *)
(* hina_resize show what comes of them.  A take claims nothing before it   *)
(* has looked at top, so a thief may get the item it returns; and while    *)
(* deque_gc scans the handles old_array is NULL, which a resize takes for  *)
(* a sign that the last replaced array was released.  The next properties  *)
(* say that nothing else goes wrong: the works suffer from either, the     *)
(* arrays from the second alone.                                           *)
(***************************************************************************)
Disturbed == overtaken \/ hidden

(* A work that was spawned and not begun is in a deque, between top and    *)
(* bottom in the current array, or a thread has it in its hands.           *)
Queued(q, w) ==
  \E n \in top[q] .. bottom[q] - 1 : Loads(q, Newest(q), n) = {w}

InHand(w) == \E t \in Thread : x[t] = w

(* hina_exit, "busy waiting until there're no active job": when done is    *)
(* set every work has ended, and no thread runs one.                       *)
AllWorkDone ==
  done => /\ spawned > 0 /\ \A w \in 1 .. spawned : ends[w] > 0
          /\ \A t \in Worker : job[t] = EMPTY

(* Every work is run once, by one thread, none is lost, and hina_exit      *)
(* waits for all.                                                          *)
WorksExact ==
  \/ Disturbed
  \/ /\ \A w \in Work : ends[w] <= starts[w] /\ starts[w] <= 1
     /\ \A w \in 1 .. spawned :
          starts[w] = 0 => InHand(w) \/ \E q \in Deque : Queued(q, w)
     /\ AllWorkDone

-----------------------------------------------------------------------------
(* No operation looks into an array that was released: neither the current *)
(* one, nor the one a slow thief still has a pointer to.  The thief's      *)
(* handle, set at the end of an earlier operation, may be on an older      *)
(* array: that one then stays in old_array, and keeps the next resize from *)
(* putting the thief's there.                                              *)
ArraysInUse ==
  \/ hidden
  \/ /\ \A t \in Thread : pc[t] = "steal_slot" => a[t] \notin freed[dq[t]]
     /\ ~Ended => \A q \in Deque : Newest(q) \notin freed[q]

(* The compare-exchange of deque_gc: "so we won't double freeing           *)
(* incorrectly".  An array belongs to old_array, or to the one thread that *)
(* scans the handles for it, until it is released; and every array is      *)
(* released by the end of hina_exit.                                       *)
ReleasedOnce ==
  hidden \/
    /\ \A q \in Deque : \A t \in InGc(q) :
         /\ old_a[t] \notin freed[q]
         /\ old_array[q] # old_a[t]
         /\ \A s \in InGc(q) \ {t} : old_a[s] # old_a[t]
    /\ Ended => \A q \in Deque : freed[q] = 1 .. Newest(q)

(* deque_resize finds the last replaced array released.                    *)
ResizeAssertion == ~failed

(* hina_exit returns, and with it the program ends.                        *)
Termination == (<>(Disturbed \/ failed)) \/ <>Ended
=============================================================================
