----------------------------- MODULE MCQsortMt ------------------------------
(***************************************************************************)
(* The pool of QsortMt, and of Partition what QsortMt takes from it: the   *)
(* rounds of qsort_algo and their result, for small arrays.                *)
(***************************************************************************)
EXTENDS QsortMt, FiniteSets

CONSTANTS MANY, WORD,
          LEN  \* bound: the arrays have up to LEN elements

ASSUME PartitionAssumption ==
  /\ MANY \in Nat /\ FEW <= MANY
  /\ WORD \in Nat /\ WORD % 2 = 0 /\ LEN \in Nat

P == INSTANCE Partition

(* The values.  An array is as main fills it, with rand() % nelem, before  *)
(* it calls qsort_mt: what follows is asked in the first state, so that    *)
(* TLC goes through the arrays once.                                       *)
Filled == main = "create" /\ islot = 0

(* One round of qsort_algo leaves the same elements, and either all of     *)
(* them in order, or nl of them smaller than the pivot, then those equal   *)
(* to it, at least one, then nr greater ones - also when insertion sort    *)
(* was given up in the middle of moving an element.  So a part is sorted   *)
(* at once or split as above, and all the rounds together sort: in the     *)
(* order of the numbers, as main's -v wants it, although num_compare is    *)
(* wrong about numbers more than half a word apart.                        *)
SortSound ==
  Filled =>
    /\ \A n \in FEW .. LEN : \A a \in P!Arrays(n) : P!Partitioned(a, n)
    /\ \A n \in 1 .. LEN : \A a \in P!Arrays(n) : P!Sorted(a, n)
=============================================================================
