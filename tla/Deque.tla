-------------------------------- MODULE Deque --------------------------------
(***************************************************************************)
(* The deques of hw3/work-steal-qsort/src/deque.c: take and push by the    *)
(* threads with the deque's own tid, steal by the others, resize by push,  *)
(* and deque_gc, which ends every operation and releases the array that    *)
(* the last resize replaced once no handle is on it any more.              *)
(*                                                                         *)
(* One action is one access to memory that another thread may be writing,  *)
(* with the thread-local code up to the next one.  A deque's bottom, its   *)
(* current array and the slots are only written under its own tid, so take *)
(* and push read them together with top; the slot push fills is not read   *)
(* before bottom has moved past it, so both are one action.                *)
(***************************************************************************)
EXTENDS Integers, Sequences, FiniteSets

CONSTANTS Thread,      \* the threads
          Tid,         \* Tid[t]: the thread-local tid of t
          Work,        \* the work items
          EMPTY, ABORT,\* what take and steal return when they have no item
          NULL,        \* the null pointer
          NR_THREADS,  \* the number of deques, and of handles of each
          SIZE_HINT,   \* the size deque_init gives an array
          SIZE_MAX     \* bound: size_t is counted modulo SIZE_MAX + 1

Deque == 0 .. NR_THREADS - 1

ASSUME DequeAssumption ==
  /\ NR_THREADS \in Nat \ {0} /\ SIZE_HINT \in Nat \ {0} /\ SIZE_MAX \in Nat \ {0}
  /\ Tid \in [Thread -> Deque]
  /\ {EMPTY, ABORT} \cap Work = {} /\ EMPTY # ABORT
  /\ NULL \notin Nat \cup Work

VARIABLES
  top,        \* top[q], bottom[q]: the atomic indices of deque q
  bottom,
  buffer,     \* buffer[q]: the arrays q ever had, oldest first; q->array is
              \* the last, and array number n is a pointer in the others
  old_array,  \* old_array[q]: the replaced array that is to be released
  handle,     \* handle[q][i]: the array thread number i was last seen on
  freed,      \* freed[q]: the arrays that were released (history)
  pc,         \* pc[t]: the access t is about to make
  dq,         \* dq[t]: the deque argument of t's current call
  ret,        \* ret[t]: where that call returns to
  b, tt, x,   \* the locals b, t and x (in push: w) of take, push and steal
  a,          \* a[t]: the array t works on
  old_a, i,   \* the locals of deque_gc
  failed,     \* the assertion of deque_resize has failed: the process is gone
  kept,       \* the items a take has picked that left more behind (history)
  overtaken,  \* a thief got one of those (history)
  hidden      \* an array was replaced while deque_gc held the one before (history)

historyVars == <<kept, overtaken, hidden>>
dequeVars == <<top, bottom, buffer, old_array, handle, freed, failed, historyVars>>
localVars == <<dq, ret, b, tt, x, a, old_a, i>>

DequePC == {"push_top", "resize", "resize_old", "push_bottom", "take_top",
  "take_cas", "take_bottom", "steal_top", "steal_bottom", "steal_array",
  "steal_slot", "steal_cas", "gc_array", "gc_handle", "gc_old", "gc_cas",
  "gc_scan", "gc_put_back"}

Sub(m, n) == (m - n) % (SIZE_MAX + 1)   \* arithmetic of size_t
Add(m, n) == (m + n) % (SIZE_MAX + 1)

Step(t, from, to) == pc[t] = from /\ pc' = [pc EXCEPT ![t] = to]
Set(v, t, value) == [v EXCEPT ![t] = value]

Newest(q) == Len(buffer[q])
Place(array, n) == (n % Len(array)) + 1

(* What a load of slot n finds: anything, in released memory or in a slot  *)
(* that was not stored to since malloc.                                    *)
Loads(q, array, n) ==
  LET slot == buffer[q][array][Place(buffer[q][array], n)]
  IN  IF array \in freed[q] \/ slot = NULL THEN Work \cup {EMPTY} ELSE {slot}

DequeInit ==
  /\ top = [q \in Deque |-> 1] /\ bottom = [q \in Deque |-> 1]
  /\ buffer = [q \in Deque |-> <<[n \in 1 .. SIZE_HINT |-> NULL]>>]
  /\ old_array = [q \in Deque |-> NULL]
  /\ handle = [q \in Deque |-> [n \in Deque |-> 1]]
  /\ freed = [q \in Deque |-> {}]
  /\ failed = FALSE /\ kept = {} /\ overtaken = FALSE /\ hidden = FALSE

LocalInit ==
  /\ dq = Tid
  /\ b = [t \in Thread |-> 0] /\ tt = [t \in Thread |-> 0]
  /\ x = [t \in Thread |-> EMPTY]
  /\ a = [t \in Thread |-> 0]
  /\ old_a = [t \in Thread |-> 0] /\ i = [t \in Thread |-> 0]

(* A call: deque q, and the label it returns to.                           *)
DequeCall(t, q, entry, r) ==
  /\ pc' = Set(pc, t, entry)
  /\ dq' = Set(dq, t, q)
  /\ ret' = Set(ret, t, r)
  /\ UNCHANGED <<dequeVars, b, tt, a, old_a, i>>

deque_push(t, q, w, r) == DequeCall(t, q, "push_top", r) /\ x' = Set(x, t, w)
deque_take(t, q, r) == DequeCall(t, q, "take_top", r) /\ x' = Set(x, t, EMPTY)
deque_steal(t, q, r) == DequeCall(t, q, "steal_top", r) /\ x' = Set(x, t, EMPTY)

(* Every operation ends in deque_gc; its own locals are dead then.         *)
ForgetLocals(t) == b' = Set(b, t, 0) /\ tt' = Set(tt, t, 0) /\ a' = Set(a, t, 0)

-----------------------------------------------------------------------------
(* deque_push and deque_resize                                             *)

Room(q) == Sub(bottom[q], top[q]) <= Len(buffer[q][Newest(q)]) - 1

push_top(t) ==
  LET q == dq[t]
  IN  /\ Step(t, "push_top", IF Room(q) THEN "push_bottom" ELSE "resize")
      /\ b' = Set(b, t, bottom[q])
      /\ a' = Set(a, t, Newest(q))
      /\ UNCHANGED <<dequeVars, dq, ret, tt, x, old_a, i>>

(* The threads that have emptied old_array and scan the handles.           *)
InGc(q) == {t \in Thread : dq[t] = q /\ pc[t] \in {"gc_scan", "gc_put_back"}}

(* Twice the slots; the items keep their index modulo the size.            *)
Resized(q) ==
  LET last == buffer[q][Newest(q)]
      size == 2 * Len(last)
      items == top[q] .. bottom[q] - 1
  IN  [s \in 1 .. size |->
        IF \E n \in items : n % size = s - 1
          THEN last[Place(last, CHOOSE n \in items : n % size = s - 1)]
          ELSE NULL]

resize(t) ==
  /\ Step(t, "resize", "resize_old")
  /\ buffer' = [buffer EXCEPT ![dq[t]] = Append(@, Resized(dq[t]))]
  /\ UNCHANGED <<top, bottom, old_array, handle, freed, failed, historyVars, localVars>>

(* The assertion: old_array is NULL, and becomes the replaced array.  It   *)
(* may be NULL because a deque_gc has emptied it and is not through yet.   *)
resize_old(t) ==
  LET q == dq[t]
  IN  /\ \/ /\ old_array[q] = NULL
            /\ Step(t, "resize_old", "push_bottom")
            /\ old_array' = Set(old_array, q, a[t])
            /\ a' = Set(a, t, Newest(q))
            /\ hidden' = (hidden \/ InGc(q) # {})
            /\ UNCHANGED failed
         \/ /\ old_array[q] # NULL
            /\ Step(t, "resize_old", "aborted")
            /\ failed' = TRUE
            /\ UNCHANGED <<old_array, a, hidden>>
      /\ UNCHANGED <<top, bottom, buffer, handle, freed, kept, overtaken,
                     dq, ret, b, tt, x, old_a, i>>

(* The slot, and the compare-exchange of bottom.                           *)
push_bottom(t) ==
  LET q == dq[t]
  IN  /\ pc[t] = "push_bottom"
      /\ buffer' = [buffer EXCEPT ![q][a[t]][Place(buffer[q][a[t]], b[t])] = x[t]]
      /\ \/ /\ bottom[q] = b[t]
            /\ bottom' = Set(bottom, q, Add(b[t], 1))
            /\ Step(t, "push_bottom", "gc_array")
            /\ x' = Set(x, t, EMPTY)
         \/ /\ bottom[q] # b[t]
            /\ Step(t, "push_bottom", "push_top")
            /\ UNCHANGED <<bottom, x>>
      /\ ForgetLocals(t)
      /\ UNCHANGED <<top, old_array, handle, freed, failed, historyVars, dq, ret, old_a, i>>

-----------------------------------------------------------------------------
(* deque_take                                                              *)

take_top(t) ==
  LET q == dq[t]
      last == Sub(bottom[q], 1)
  IN  /\ pc[t] = "take_top"
      /\ \/ /\ top[q] <= last
            /\ \E v \in Loads(q, Newest(q), last) :
                 /\ x' = Set(x, t, v)
                 /\ kept' = IF top[q] < last THEN kept \cup {v} ELSE kept
            /\ Step(t, "take_top", IF top[q] < last THEN "take_bottom" ELSE "take_cas")
            /\ b' = Set(b, t, last)
            /\ tt' = Set(tt, t, top[q])
         \/ /\ top[q] > last
            /\ Step(t, "take_top", "gc_array")
            /\ UNCHANGED <<x, b, tt, kept>>
      /\ UNCHANGED <<top, bottom, buffer, old_array, handle, freed, failed, overtaken, hidden,
                     dq, ret, a, old_a, i>>

(* Mutant: the item is returned although the race was lost.              *)
take_cas_unguarded(t) ==
  LET q == dq[t]
  IN  /\ Step(t, "take_cas", "gc_array")
      /\ \/ /\ top[q] = tt[t]
            /\ top' = Set(top, q, Add(tt[t], 1))
            /\ UNCHANGED x
         \/ /\ top[q] # tt[t]
            /\ UNCHANGED <<top, x>>
      /\ ForgetLocals(t)
      /\ UNCHANGED <<bottom, buffer, old_array, handle, freed, failed, historyVars, dq, ret, old_a, i>>

(* The last item: the race with the thieves.                               *)
take_cas(t) ==
  LET q == dq[t]
  IN  /\ Step(t, "take_cas", "gc_array")
      /\ \/ /\ top[q] = tt[t]
            /\ top' = Set(top, q, Add(tt[t], 1))
            /\ UNCHANGED x
         \/ /\ top[q] # tt[t]
            /\ x' = Set(x, t, EMPTY)
            /\ UNCHANGED top
      /\ ForgetLocals(t)
      /\ UNCHANGED <<bottom, buffer, old_array, handle, freed, failed, historyVars, dq, ret, old_a, i>>

(* Not the last one, or so top said: bottom is lowered without a look.     *)
take_bottom(t) ==
  /\ Step(t, "take_bottom", "gc_array")
  /\ bottom' = Set(bottom, dq[t], b[t])
  /\ ForgetLocals(t)
  /\ UNCHANGED <<top, buffer, old_array, handle, freed, failed, historyVars, dq, ret, x, old_a, i>>

-----------------------------------------------------------------------------
(* deque_steal                                                             *)

steal_top(t) ==
  /\ Step(t, "steal_top", "steal_bottom")
  /\ tt' = Set(tt, t, top[dq[t]])
  /\ UNCHANGED <<dequeVars, dq, ret, b, x, a, old_a, i>>

steal_bottom(t) ==
  /\ pc[t] = "steal_bottom"
  /\ \/ /\ tt[t] < bottom[dq[t]]
        /\ Step(t, "steal_bottom", "steal_array")
        /\ UNCHANGED <<b, tt, a>>
     \/ /\ tt[t] >= bottom[dq[t]]
        /\ Step(t, "steal_bottom", "gc_array")
        /\ ForgetLocals(t)
  /\ UNCHANGED <<dequeVars, dq, ret, x, old_a, i>>

steal_array(t) ==
  /\ Step(t, "steal_array", "steal_slot")
  /\ a' = Set(a, t, Newest(dq[t]))
  /\ UNCHANGED <<dequeVars, dq, ret, b, tt, x, old_a, i>>

steal_slot(t) ==
  /\ Step(t, "steal_slot", "steal_cas")
  /\ \E v \in Loads(dq[t], a[t], tt[t]) : x' = Set(x, t, v)
  /\ UNCHANGED <<dequeVars, dq, ret, b, tt, a, old_a, i>>

steal_cas(t) ==
  LET q == dq[t]
  IN  /\ Step(t, "steal_cas", "gc_array")
      /\ \/ /\ top[q] = tt[t]
            /\ top' = Set(top, q, Add(tt[t], 1))
            /\ overtaken' = (overtaken \/ x[t] \in kept)
            /\ UNCHANGED x
         \/ /\ top[q] # tt[t]
            /\ x' = Set(x, t, ABORT)
            /\ UNCHANGED <<top, overtaken>>
      /\ ForgetLocals(t)
      /\ UNCHANGED <<bottom, buffer, old_array, handle, freed, failed, kept, hidden,
                     dq, ret, old_a, i>>

-----------------------------------------------------------------------------
(* deque_gc                                                                *)

GcEnds(t) == old_a' = Set(old_a, t, 0) /\ i' = Set(i, t, 0)

gc_array(t) ==
  /\ Step(t, "gc_array", "gc_handle")
  /\ a' = Set(a, t, Newest(dq[t]))
  /\ UNCHANGED <<dequeVars, dq, ret, b, tt, x, old_a, i>>

gc_handle(t) ==
  /\ Step(t, "gc_handle", "gc_old")
  /\ handle' = [handle EXCEPT ![dq[t]][Tid[t]] = a[t]]
  /\ a' = Set(a, t, 0)
  /\ UNCHANGED <<top, bottom, buffer, old_array, freed, failed, historyVars,
                 dq, ret, b, tt, x, old_a, i>>

gc_old(t) ==
  /\ pc[t] = "gc_old"
  /\ \/ /\ old_array[dq[t]] = NULL
        /\ Step(t, "gc_old", ret[t])
        /\ UNCHANGED old_a
     \/ /\ old_array[dq[t]] # NULL
        /\ Step(t, "gc_old", "gc_cas")
        /\ old_a' = Set(old_a, t, old_array[dq[t]])
  /\ UNCHANGED <<dequeVars, dq, ret, b, tt, x, a, i>>

(* Mutant: who finds old_array changed goes on with its own pointer.     *)
gc_cas_unguarded(t) ==
  LET q == dq[t]
  IN  /\ pc[t] = "gc_cas"
      /\ \/ /\ old_array[q] = old_a[t]
            /\ old_array' = Set(old_array, q, NULL)
            /\ Step(t, "gc_cas", "gc_scan")
            /\ UNCHANGED <<old_a, i>>
         \/ /\ old_array[q] # old_a[t]
            /\ Step(t, "gc_cas", "gc_scan")
            /\ UNCHANGED <<old_array, old_a, i>>
      /\ UNCHANGED <<top, bottom, buffer, handle, freed, failed, historyVars,
                     dq, ret, b, tt, x, a>>

(* The thread that empties old_array is the one that may release it.       *)
gc_cas(t) ==
  LET q == dq[t]
  IN  /\ pc[t] = "gc_cas"
      /\ \/ /\ old_array[q] = old_a[t]
            /\ old_array' = Set(old_array, q, NULL)
            /\ Step(t, "gc_cas", "gc_scan")
            /\ UNCHANGED <<old_a, i>>
         \/ /\ old_array[q] # old_a[t]
            /\ Step(t, "gc_cas", ret[t])
            /\ GcEnds(t)
            /\ UNCHANGED old_array
      /\ UNCHANGED <<top, bottom, buffer, handle, freed, failed, historyVars,
                     dq, ret, b, tt, x, a>>

(* Mutant: the handles are not compared.                                 *)
gc_scan_blind(t) ==
  LET q == dq[t]
  IN  /\ pc[t] = "gc_scan"
      /\ \/ /\ i[t] + 1 < NR_THREADS
            /\ i' = Set(i, t, i[t] + 1)
            /\ UNCHANGED <<pc, freed, old_a>>
         \/ /\ i[t] + 1 = NR_THREADS
            /\ freed' = Set(freed, q, freed[q] \cup {old_a[t]})
            /\ Step(t, "gc_scan", ret[t])
            /\ GcEnds(t)
      /\ UNCHANGED <<top, bottom, buffer, old_array, handle, failed, historyVars,
                     dq, ret, b, tt, x, a>>

(* Mutant: one handle more than there are.                               *)
gc_scan_too_far(t) ==
  LET q == dq[t]
  IN  /\ pc[t] = "gc_scan"
      /\ \/ /\ handle[q][i[t]] = old_a[t]
            /\ Step(t, "gc_scan", "gc_put_back")
            /\ UNCHANGED <<freed, old_a, i>>
         \/ /\ handle[q][i[t]] # old_a[t] /\ i[t] + 1 <= NR_THREADS
            /\ i' = Set(i, t, i[t] + 1)
            /\ UNCHANGED <<pc, freed, old_a>>
         \/ /\ handle[q][i[t]] # old_a[t] /\ i[t] = NR_THREADS
            /\ freed' = Set(freed, q, freed[q] \cup {old_a[t]})
            /\ Step(t, "gc_scan", ret[t])
            /\ GcEnds(t)
      /\ UNCHANGED <<top, bottom, buffer, old_array, handle, failed, historyVars,
                     dq, ret, b, tt, x, a>>

(* One look at a handle; after the last the array is released.             *)
gc_scan(t) ==
  LET q == dq[t]
  IN  /\ pc[t] = "gc_scan"
      /\ \/ /\ handle[q][i[t]] = old_a[t]
            /\ Step(t, "gc_scan", "gc_put_back")
            /\ UNCHANGED <<freed, old_a, i>>
         \/ /\ handle[q][i[t]] # old_a[t] /\ i[t] + 1 < NR_THREADS
            /\ i' = Set(i, t, i[t] + 1)
            /\ UNCHANGED <<pc, freed, old_a>>
         \/ /\ handle[q][i[t]] # old_a[t] /\ i[t] + 1 = NR_THREADS
            /\ freed' = Set(freed, q, freed[q] \cup {old_a[t]})
            /\ Step(t, "gc_scan", ret[t])
            /\ GcEnds(t)
      /\ UNCHANGED <<top, bottom, buffer, old_array, handle, failed, historyVars,
                     dq, ret, b, tt, x, a>>

gc_put_back(t) ==
  /\ Step(t, "gc_put_back", ret[t])
  /\ old_array' = Set(old_array, dq[t], old_a[t])
  /\ GcEnds(t)
  /\ UNCHANGED <<top, bottom, buffer, handle, freed, failed, historyVars,
                 dq, ret, b, tt, x, a>>

DequeStep(t) ==
  \/ push_top(t) \/ resize(t) \/ resize_old(t) \/ push_bottom(t)
  \/ take_top(t) \/ take_cas(t) \/ take_bottom(t)
  \/ steal_top(t) \/ steal_bottom(t) \/ steal_array(t) \/ steal_slot(t) \/ steal_cas(t)
  \/ gc_array(t) \/ gc_handle(t) \/ gc_old(t) \/ gc_cas(t) \/ gc_scan(t) \/ gc_put_back(t)
=============================================================================
