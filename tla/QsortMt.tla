------------------------------- MODULE QsortMt -------------------------------
(***************************************************************************)
(* qsort_mt of hw1/qsort-mt.c: a pool of threads that sort parts of one    *)
(* array.  A thread that has split its part gives the left side to an idle *)
(* thread, if both sides are long and there is one; the last thread to     *)
(* become idle ends the others.                                            *)
(*                                                                         *)
(* A part is a pair <<lo, hi>>: the positions lo .. hi - 1.  The values    *)
(* are left open: a part may be split anywhere, or be in order when it has *)
(* been looked at.  Module Partition says what one round does to the       *)
(* values, and that it is no more than this.                               *)
(* One action is one step between two uses of a mutex or of a variable     *)
(* that another thread may be writing.  mtx_st of a thread is held across  *)
(* actions by allocate_thread only, from the choice of the thread until    *)
(* its part is set.                                                        *)
(***************************************************************************)
EXTENDS Integers, Sequences

CONSTANTS maxthreads,
          ELEMS,      \* the length n of the array
          forkelem,
          FEW,        \* parts shorter than this are sorted by insertion
          NULL

ASSUME QsortMtAssumption ==
  /\ maxthreads \in Nat \ {0} /\ ELEMS \in Nat \ {0} /\ forkelem \in Nat
  /\ FEW \in Nat \ {0, 1}
  /\ NULL \notin Nat

Pool == 0 .. maxthreads - 1
Position == 0 .. ELEMS - 1
All == <<0, ELEMS>>

VARIABLES
  main,         \* where qsort_mt is
  islot,        \* the threads that were created: 0 .. islot - 1
  slot,         \* the thread main stops or joins next
  bailout,
  destroyed,    \* the threads whose mtx_st and cond_st main has destroyed (history)
  st, part,     \* st[t], and a and n of thread t
  mtx_st,       \* mtx_st[t]: the thread that holds it, or NULL
  waiting,      \* the threads that wait on their cond_st
  mtx_al,       \* the thread that holds it, or NULL
  idlethreads,
  pc,           \* pc[t]: what thread t does next
  todo,         \* todo[t]: the parts t has yet to sort, by recursion
  left,         \* left[t]: the left side that t would give away
  to,           \* to[t]: the thread that t works on (qs2)
  sorted        \* the positions whose element is final (history)

mainVars == <<main, islot, slot, bailout, destroyed>>
poolVars == <<st, part, mtx_st, waiting, mtx_al, idlethreads>>
localVars == <<todo, left, to>>
vars == <<mainVars, poolVars, localVars, pc, sorted>>

Step(t, from, next) == pc[t] = from /\ pc' = [pc EXCEPT ![t] = next]
Set(v, t, value) == [v EXCEPT ![t] = value]
Positions(p) == p[1] .. p[2] - 1
Size(p) == p[2] - p[1]
Signal(t) == waiting' = waiting \ {t}

Init ==
  /\ main = (IF ELEMS < forkelem THEN "qsort" ELSE "create")
  /\ islot = 0 /\ slot = 0 /\ bailout = TRUE /\ destroyed = {}
  /\ st = [t \in Pool |-> "idle"] /\ part = [t \in Pool |-> <<0, 0>>]
  /\ mtx_st = [t \in Pool |-> NULL] /\ waiting = {}
  /\ mtx_al = NULL /\ idlethreads = 0
  /\ pc = [t \in Pool |-> "none"]
  /\ todo = [t \in Pool |-> <<>>] /\ left = [t \in Pool |-> <<0, 0>>]
  /\ to = [t \in Pool |-> 0]
  /\ sorted = {}

-----------------------------------------------------------------------------
(* qsort_mt.  The resources of a thread can be had ...                     *)
create ==
  /\ main = "create" /\ islot < maxthreads
  /\ Step(islot, "none", "again")
  /\ islot' = islot + 1
  /\ UNCHANGED <<main, slot, bailout, destroyed, poolVars, localVars, sorted>>

(* ... or cannot: f3, with bailout set.                                    *)
create_fails ==
  /\ main = "create" /\ islot < maxthreads
  /\ main' = "stop"
  /\ UNCHANGED <<islot, slot, bailout, destroyed, poolVars, localVars, pc, sorted>>

(* Mutant: the first thread is not counted as busy.                        *)
hand_out_uncounted ==
  /\ main = "create" /\ islot = maxthreads
  /\ mtx_st[0] = NULL
  /\ main' = "stop" /\ bailout' = FALSE
  /\ part' = Set(part, 0, All)
  /\ st' = Set(st, 0, "work")
  /\ idlethreads' = maxthreads
  /\ Signal(0)
  /\ UNCHANGED <<islot, slot, destroyed, mtx_st, mtx_al, localVars, pc, sorted>>

hand_out ==
  /\ main = "create" /\ islot = maxthreads
  /\ mtx_st[0] = NULL
  /\ main' = "stop" /\ bailout' = FALSE
  /\ part' = Set(part, 0, All)
  /\ st' = Set(st, 0, "work")
  /\ idlethreads' = maxthreads - 1
  /\ Signal(0)
  /\ UNCHANGED <<islot, slot, destroyed, mtx_st, mtx_al, localVars, pc, sorted>>

(* The loop at f3: with bailout the next thread is told to end ...         *)
stop ==
  /\ main = "stop" /\ slot < islot
  /\ main' = "join"
  /\ \/ /\ bailout /\ mtx_st[slot] = NULL
        /\ st' = Set(st, slot, "term")
        /\ Signal(slot)
     \/ ~bailout /\ UNCHANGED <<st, waiting>>
  /\ UNCHANGED <<islot, slot, bailout, destroyed, part, mtx_st, mtx_al, idlethreads,
                 localVars, pc, sorted>>

(* Mutant: the thread is not waited for.                                   *)
join_early ==
  /\ main = "join"
  /\ main' = "stop" /\ slot' = slot + 1
  /\ destroyed' = destroyed \cup {slot}
  /\ UNCHANGED <<islot, bailout, poolVars, localVars, pc, sorted>>

(* ... and joined, and its mutex and condition variable are destroyed.     *)
join ==
  /\ main = "join" /\ pc[slot] = "exit"
  /\ main' = "stop" /\ slot' = slot + 1
  /\ destroyed' = destroyed \cup {slot}
  /\ UNCHANGED <<islot, bailout, poolVars, localVars, pc, sorted>>

joined ==
  /\ main = "stop" /\ slot = islot
  /\ main' = IF bailout THEN "qsort" ELSE "return"
  /\ UNCHANGED <<islot, slot, bailout, destroyed, poolVars, localVars, pc, sorted>>

(* f1: the library's qsort.                                                *)
qsort ==
  /\ main = "qsort"
  /\ main' = "return"
  /\ sorted' = Position
  /\ UNCHANGED <<islot, slot, bailout, destroyed, poolVars, localVars, pc>>

qsort_mt == create \/ create_fails \/ hand_out \/ stop \/ join \/ joined \/ qsort

-----------------------------------------------------------------------------
(* qsort_thread: it waits while it is idle ...                             *)
await(t) ==
  /\ pc[t] = "again" /\ t \notin waiting /\ mtx_st[t] = NULL
  /\ \/ /\ st[t] = "idle"
        /\ waiting' = waiting \cup {t}
        /\ UNCHANGED pc
     \/ /\ st[t] # "idle"
        /\ Step(t, "again", "awake")
        /\ UNCHANGED waiting
  /\ UNCHANGED <<mainVars, st, part, mtx_st, mtx_al, idlethreads, localVars, sorted>>

(* ... and looks again, without the mutex, at what it is to do; if it is   *)
(* idle the assertion fails.                                               *)
awake(t) ==
  /\ Step(t, "awake", [term |-> "exit", work |-> "algo", idle |-> "failed"][st[t]])
  /\ todo' = IF st[t] = "work" THEN Set(todo, t, <<part[t]>>) ELSE todo
  /\ UNCHANGED <<mainVars, poolVars, left, to, sorted>>

-----------------------------------------------------------------------------
(* qsort_algo: the next part is sorted at once ...                         *)
insertion_sort(t) ==
  /\ pc[t] = "algo" /\ todo[t] # <<>>
  /\ sorted' = sorted \cup Positions(Head(todo[t]))
  /\ todo' = Set(todo, t, Tail(todo[t]))
  /\ UNCHANGED <<mainVars, poolVars, left, to, pc>>

(* ... or split: into nl smaller elements, those equal to the pivot, which *)
(* are final, and nr greater ones.  The right side is next after the left. *)
Empty(p) == Size(p) = 0
Pushed(p, s) == IF Empty(p) THEN s ELSE <<p>> \o s

(* The call for the left side passes it in a and n of the thread itself.   *)
recurse(t, l, rest) ==
  /\ todo' = Set(todo, t, Pushed(l, rest))
  /\ part' = IF Empty(l) THEN part ELSE Set(part, t, l)

split(t) ==
  /\ pc[t] = "algo" /\ todo[t] # <<>>
  /\ LET p == Head(todo[t])
     IN  /\ Size(p) >= FEW
         /\ \E nl, nr \in 0 .. Size(p) - 1 :
              /\ nl + nr < Size(p)
              /\ LET l == <<p[1], p[1] + nl>>
                     r == <<p[2] - nr, p[2]>>
                     rest == Pushed(r, Tail(todo[t]))
                 IN  /\ sorted' = sorted \cup (l[2] .. r[1] - 1)
                     /\ \/ /\ nl > forkelem /\ nr > forkelem
                           /\ Step(t, "algo", "allocate")
                           /\ left' = Set(left, t, l)
                           /\ todo' = Set(todo, t, rest)
                           /\ UNCHANGED part
                        \/ /\ ~(nl > forkelem /\ nr > forkelem)
                           /\ recurse(t, l, rest)
                           /\ UNCHANGED <<pc, left>>
  /\ UNCHANGED <<mainVars, st, mtx_st, waiting, mtx_al, idlethreads, to>>

(* allocate_thread: the first idle thread under mtx_al, ...                *)
Idle == {s \in Pool : st[s] = "idle"}

(* Mutant: the thread is still counted as idle.                            *)
allocate_uncounted(t) ==
  /\ pc[t] = "allocate" /\ mtx_al = NULL
  /\ \/ /\ Idle # {}
        /\ to' = Set(to, t, CHOOSE s \in Idle : \A r \in Idle : s <= r)
        /\ mtx_al' = t
        /\ Step(t, "allocate", "allocate_st")
        /\ UNCHANGED <<idlethreads, part, todo, left>>
     \/ /\ Idle = {}
        /\ Step(t, "allocate", "algo")
        /\ recurse(t, left[t], todo[t])
        /\ left' = Set(left, t, <<0, 0>>)
        /\ UNCHANGED <<mtx_al, idlethreads, to>>
  /\ UNCHANGED <<mainVars, st, mtx_st, waiting, sorted>>

allocate(t) ==
  /\ pc[t] = "allocate" /\ mtx_al = NULL
  /\ \/ /\ Idle # {}
        /\ to' = Set(to, t, CHOOSE s \in Idle : \A r \in Idle : s <= r)
        /\ idlethreads' = idlethreads - 1
        /\ mtx_al' = t
        /\ Step(t, "allocate", "allocate_st")
        /\ UNCHANGED <<part, todo, left>>
     \/ /\ Idle = {}
        /\ Step(t, "allocate", "algo")
        /\ recurse(t, left[t], todo[t])
        /\ left' = Set(left, t, <<0, 0>>)
        /\ UNCHANGED <<mtx_al, idlethreads, to>>
  /\ UNCHANGED <<mainVars, st, mtx_st, waiting, sorted>>

(* Mutant: its mutex is not kept.                                          *)
allocate_st_unlocked(t) ==
  /\ Step(t, "allocate_st", "give")
  /\ mtx_st[to[t]] = NULL
  /\ st' = Set(st, to[t], "work")
  /\ mtx_al' = NULL
  /\ UNCHANGED <<mainVars, part, mtx_st, waiting, idlethreads, localVars, sorted>>

(* ... whose own mutex stays locked ...                                    *)
allocate_st(t) ==
  /\ Step(t, "allocate_st", "give")
  /\ mtx_st[to[t]] = NULL
  /\ mtx_st' = Set(mtx_st, to[t], t)
  /\ st' = Set(st, to[t], "work")
  /\ mtx_al' = NULL
  /\ UNCHANGED <<mainVars, part, waiting, idlethreads, localVars, sorted>>

(* ... until it has its part.                                              *)
give(t) ==
  /\ Step(t, "give", "algo")
  /\ part' = Set(part, to[t], left[t])
  /\ Signal(to[t])
  /\ mtx_st' = Set(mtx_st, to[t], NULL)
  /\ left' = Set(left, t, <<0, 0>>) /\ to' = Set(to, t, 0)
  /\ UNCHANGED <<mainVars, st, mtx_al, idlethreads, todo, sorted>>

-----------------------------------------------------------------------------
(* qsort_thread, when its part is sorted: idle again, or the last one.     *)
finish(t) ==
  /\ pc[t] = "algo" /\ todo[t] = <<>> /\ mtx_al = NULL
  /\ st' = Set(st, t, "idle")
  /\ idlethreads' = idlethreads + 1
  /\ \/ /\ idlethreads' = maxthreads
        /\ mtx_al' = t
        /\ Step(t, "algo", "terminate")
     \/ /\ idlethreads' # maxthreads
        /\ Step(t, "algo", "again")
        /\ UNCHANGED mtx_al
  /\ UNCHANGED <<mainVars, part, mtx_st, waiting, localVars, sorted>>

(* Mutant: the last thread is left out.                                    *)
terminate_one_short(t) ==
  /\ pc[t] = "terminate"
  /\ \/ /\ to[t] \in 0 .. maxthreads - 2 /\ to[t] # t /\ mtx_st[to[t]] = NULL
        /\ st' = Set(st, to[t], "term")
        /\ Signal(to[t])
        /\ to' = Set(to, t, to[t] + 1)
        /\ UNCHANGED <<pc, mtx_al>>
     \/ /\ to[t] = t
        /\ to' = Set(to, t, t + 1)
        /\ UNCHANGED <<pc, st, waiting, mtx_al>>
     \/ /\ to[t] >= maxthreads - 1 /\ to[t] # t
        /\ Step(t, "terminate", "exit")
        /\ mtx_al' = NULL
        /\ to' = Set(to, t, 0)
        /\ UNCHANGED <<st, waiting>>
  /\ UNCHANGED <<mainVars, part, mtx_st, idlethreads, todo, left, sorted>>

(* The loop that ends the others, one by one.                              *)
terminate(t) ==
  /\ pc[t] = "terminate"
  /\ \/ /\ to[t] \in Pool \ {t} /\ mtx_st[to[t]] = NULL
        /\ st' = Set(st, to[t], "term")
        /\ Signal(to[t])
        /\ to' = Set(to, t, to[t] + 1)
        /\ UNCHANGED <<pc, mtx_al>>
     \/ /\ to[t] = t
        /\ to' = Set(to, t, t + 1)
        /\ UNCHANGED <<pc, st, waiting, mtx_al>>
     \/ /\ to[t] = maxthreads
        /\ Step(t, "terminate", "exit")
        /\ mtx_al' = NULL
        /\ to' = Set(to, t, 0)
        /\ UNCHANGED <<st, waiting>>
  /\ UNCHANGED <<mainVars, part, mtx_st, idlethreads, todo, left, sorted>>

qsort_thread(t) ==
  \/ await(t) \/ awake(t) \/ insertion_sort(t) \/ split(t)
  \/ allocate(t) \/ allocate_st(t) \/ give(t) \/ finish(t) \/ terminate(t)

(* pthread_cond_wait may return without a signal.                          *)
Surprise ==
  /\ \E t \in waiting : Signal(t)
  /\ UNCHANGED <<mainVars, st, part, mtx_st, mtx_al, idlethreads, localVars, pc, sorted>>

Terminating == main = "return" /\ UNCHANGED vars

Next == qsort_mt \/ (\E t \in Pool : qsort_thread(t)) \/ Surprise \/ Terminating

(* Every thread that can run is scheduled; a surprise need never happen.   *)
Spec == Init /\ [][Next]_vars /\ WF_vars(qsort_mt)
             /\ \A t \in Pool : WF_vars(qsort_thread(t))

-----------------------------------------------------------------------------
(* The type invariant.                                                     *)
Part == {p \in (0 .. ELEMS) \X (0 .. ELEMS) : p[1] <= p[2]}

TypeOK ==
  /\ main \in {"create", "stop", "join", "qsort", "return"}
  /\ islot \in 0 .. maxthreads /\ slot \in 0 .. maxthreads
  /\ bailout \in BOOLEAN /\ destroyed \subseteq Pool
  /\ st \in [Pool -> {"idle", "work", "term"}] /\ part \in [Pool -> Part]
  /\ mtx_st \in [Pool -> Pool \cup {NULL}] /\ mtx_al \in Pool \cup {NULL}
  /\ waiting \subseteq Pool /\ idlethreads \in 0 .. maxthreads
  /\ pc \in [Pool -> {"none", "again", "awake", "algo", "allocate", "allocate_st", "give",
                      "terminate", "exit", "failed"}]
  /\ todo \in [Pool -> Seq(Part)] /\ left \in [Pool -> Part]
  /\ to \in [Pool -> 0 .. maxthreads]
  /\ sorted \subseteq Position

(* The parts that a thread works on, by a number each: those of todo, the  *)
(* one it would give away (0), and one that it was given and has not begun *)
(* (-1).                                                                   *)
Given(t) == st[t] = "work" /\ pc[t] \in {"again", "awake"} /\ mtx_st[t] = NULL

Slots(t) ==
  DOMAIN todo[t] \cup (IF pc[t] \in {"allocate", "allocate_st", "give"} THEN {0} ELSE {})
                 \cup (IF Given(t) THEN {-1} ELSE {})

PartIn(t, m) == IF m > 0 THEN todo[t][m] ELSE IF m = 0 THEN left[t] ELSE part[t]

(* A position that is not final is in one part, of one thread, unless the  *)
(* pool could not be had; and one that is final is in none.                *)
PartsExact ==
  /\ ~bailout => \A p \in Position \ sorted :
                    \E t \in Pool : \E m \in Slots(t) : p \in Positions(PartIn(t, m))
  /\ \A t, s \in Pool : \A m \in Slots(t), n \in Slots(s) :
       /\ Positions(PartIn(t, m)) \cap sorted = {}
       /\ <<t, m>> # <<s, n>> => Positions(PartIn(t, m)) \cap Positions(PartIn(s, n)) = {}

(* Threads are told to end, and qsort_mt returns, when everything is       *)
(* sorted, or because the pool could not be had.                           *)
EndedSorted ==
  /\ \A t \in Pool : st[t] = "term" => bailout \/ sorted = Position
  /\ main = "return" => sorted = Position

(* A mutex and condition variable that main has destroyed belong to a      *)
(* thread that has ended and that no other thread is about to work on.     *)
DestroyedUnused ==
  \A t \in destroyed :
    /\ pc[t] = "exit" /\ t \notin waiting /\ mtx_st[t] = NULL
    /\ \A s \in Pool :
         /\ pc[s] \in {"allocate_st", "give"} => to[s] # t
         /\ pc[s] = "terminate" /\ t # s => to[s] > t

(* qsort_mt returns with the array sorted: no signal is lost, and no       *)
(* thread fails at "assert(qs->st == ts_work)" and has no further step.    *)
Termination == <>(main = "return" /\ sorted = Position)

=============================================================================
