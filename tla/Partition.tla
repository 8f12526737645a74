------------------------------ MODULE Partition ------------------------------
(***************************************************************************)
(* Bentley and McIlroy's quicksort as qsort_algo has it, with the same     *)
(* text in work-steal-qsort/src/main.c and in hw1/qsort-mt.c: what becomes *)
(* of the values.  Who sorts which part is the subject of QsortMt and of   *)
(* Hina.                                                                   *)
(*                                                                         *)
(* An array of n elements is a function on 0 .. n - 1; the pointers into   *)
(* it are indices.                                                         *)
(***************************************************************************)
EXTENDS Integers, FiniteSets

CONSTANTS FEW,      \* parts shorter than this (7) are sorted by insertion
          MANY,     \* longer than this (40): the pivot is a median of nine
          WORD      \* ELEM_T holds 0 .. WORD - 1 (2^32)

(* The difference of two unsigned numbers, returned as an int.             *)
num_compare(x, y) ==
  LET d == (x - y) % WORD
  IN  IF d < WORD \div 2 THEN d ELSE d - WORD

CMP(a, i, j) == num_compare(a[i], a[j])

swap(a, i, j) == [a EXCEPT ![i] = a[j], ![j] = a[i]]

(* The n elements at i change places with those at j.                      *)
vecswap(a, i, j, n) ==
  [k \in DOMAIN a |->
    CASE k \in i .. i + n - 1 -> a[k - i + j]
      [] k \in j .. j + n - 1 -> a[k - j + i]
      [] OTHER -> a[k]]

Least(i, j) == IF i < j THEN i ELSE j

med3(a, i, j, k) ==
  IF CMP(a, i, j) < 0
  THEN IF CMP(a, j, k) < 0 THEN j ELSE IF CMP(a, i, k) < 0 THEN k ELSE i
  ELSE IF CMP(a, j, k) > 0 THEN j ELSE IF CMP(a, i, k) < 0 THEN i ELSE k

(* Where the pivot is found.                                               *)
pivot(a, n) ==
  LET m == n \div 2
      d == n \div 8
  IN  CASE n <= FEW -> m
        [] n > FEW /\ n <= MANY -> med3(a, 0, m, n - 1)
        [] n > MANY -> med3(a, med3(a, 0, d, 2 * d), med3(a, m - d, m, m + d),
                               med3(a, n - 1 - 2 * d, n - 1 - d, n - 1))

-----------------------------------------------------------------------------
RECURSIVE insertion(_, _, _, _, _, _)

(* Mutant: an insertion sort that was given up is taken for finished.      *)
insertion_ended(a, n, pm, pl, swaps, r) ==
  CASE pm >= n -> [a |-> a, sorted |-> TRUE]
    [] pm < n /\ pl > 0 /\ CMP(a, pl - 1, pl) > 0 ->
         IF swaps = r
         THEN [a |-> swap(a, pl, pl - 1), sorted |-> TRUE]
         ELSE insertion(swap(a, pl, pl - 1), n, pm, pl - 1, swaps + 1, r)
    [] OTHER -> insertion(a, n, pm + 1, pm + 1, swaps, r)

(* Insertion sort from element pm, which has come down to pl; it is given  *)
(* up when it has made more than r swaps, if r is not negative.            *)
insertion(a, n, pm, pl, swaps, r) ==
  CASE pm >= n -> [a |-> a, sorted |-> TRUE]
    [] pm < n /\ pl > 0 /\ CMP(a, pl - 1, pl) > 0 ->
         IF swaps = r
         THEN [a |-> swap(a, pl, pl - 1), sorted |-> FALSE]
         ELSE insertion(swap(a, pl, pl - 1), n, pm, pl - 1, swaps + 1, r)
    [] OTHER -> insertion(a, n, pm + 1, pm + 1, swaps, r)

(* The two inner loops: elements equal to the pivot, a[0], are collected   *)
(* at the ends, below pa and above pd; pb and pc stop at an element that   *)
(* belongs to the other side.                                              *)
RECURSIVE scan_up(_), scan_down(_), scan(_), cross(_)

scan_up(s) ==
  IF s.pb <= s.pc /\ CMP(s.a, s.pb, 0) <= 0
  THEN scan_up(IF CMP(s.a, s.pb, 0) = 0
               THEN [s EXCEPT !.a = swap(s.a, s.pa, s.pb), !.swapped = TRUE,
                              !.pa = @ + 1, !.pb = @ + 1]
               ELSE [s EXCEPT !.pb = @ + 1])
  ELSE s

scan_down(s) ==
  IF s.pb <= s.pc /\ CMP(s.a, s.pc, 0) >= 0
  THEN scan_down(IF CMP(s.a, s.pc, 0) = 0
                 THEN [s EXCEPT !.a = swap(s.a, s.pc, s.pd), !.swapped = TRUE,
                                !.pc = @ - 1, !.pd = @ - 1]
                 ELSE [s EXCEPT !.pc = @ - 1])
  ELSE s

cross(s) ==
  IF s.pb > s.pc
  THEN s
  ELSE scan([s EXCEPT !.a = swap(s.a, s.pb, s.pc), !.swapped = TRUE,
                      !.pb = @ + 1, !.pc = @ - 1])

scan(s) == cross(scan_down(scan_up(s)))

(* The elements equal to the pivot are brought from the ends to the        *)
(* middle, nl smaller ones to its left and nr greater ones to its right.   *)
middle(s, n) ==
  LET low == Least(s.pa, s.pb - s.pa)
      high == Least(s.pd - s.pc, n - s.pd - 1)
  IN  [s EXCEPT !.a = vecswap(vecswap(s.a, 0, s.pb - low, low), s.pb, n - high, high)]

(* An array that needed no swap is probably in order: insertion sort is    *)
(* tried, and given up ("nevermind") if that was wrong.                    *)
ended(s, i) ==
  [a |-> i.a, sorted |-> i.sorted, nl |-> s.pb - s.pa, nr |-> s.pd - s.pc]

settle(s, n) ==
  ended(s, IF s.swapped
           THEN [a |-> s.a, sorted |-> FALSE]
           ELSE insertion(s.a, n, 1, 1, 0, 1 + n \div 4))

(* One round of qsort_algo.                                                *)
partition(a, n) ==
  settle(middle(scan([a |-> swap(a, 0, pivot(a, n)), swapped |-> FALSE,
                      pa |-> 1, pb |-> 1, pc |-> n - 1, pd |-> n - 1]), n), n)

(* The n elements from lo on.                                              *)
Slice(a, lo, n) == [k \in 0 .. n - 1 |-> a[lo + k]]

RECURSIVE qsort_algo(_, _), sides(_, _)

(* The array when its sides have become l and r.                           *)
whole(p, n, l, r) ==
  [k \in 0 .. n - 1 |-> CASE k < p.nl -> l[k]
                          [] k >= n - p.nr -> r[k - (n - p.nr)]
                          [] OTHER -> p.a[k]]

(* Each side is sorted in the same way, whoever does it.                   *)
sides(p, n) ==
  IF p.sorted
  THEN p.a
  ELSE whole(p, n, qsort_algo(Slice(p.a, 0, p.nl), p.nl),
                   qsort_algo(Slice(p.a, n - p.nr, p.nr), p.nr))

qsort_algo(a, n) ==
  IF n < FEW THEN insertion(a, n, 1, 1, 0, -1).a ELSE sides(partition(a, n), n)

-----------------------------------------------------------------------------
(* main fills the array with rand() % nelem, where RAND_MAX = 2^31 - 1.    *)
Value == 0 .. WORD \div 2 - 1

Arrays(n) == [0 .. n - 1 -> Value]

SameElements(a, c) ==
  \A v \in Value : Cardinality({k \in DOMAIN a : a[k] = v})
                     = Cardinality({k \in DOMAIN c : c[k] = v})

Ordered(a) == \A k, m \in DOMAIN a : k < m => a[k] <= a[m]

Round(a, n, v, p) ==
  /\ SameElements(p.a, a)
  /\ \/ p.sorted /\ Ordered(p.a)
     \/ /\ ~p.sorted /\ p.nl >= 0 /\ p.nr >= 0 /\ p.nl + p.nr < n
        /\ \A k \in 0 .. p.nl - 1 : p.a[k] < v
        /\ \A k \in p.nl .. n - p.nr - 1 : p.a[k] = v
        /\ \A k \in n - p.nr .. n - 1 : p.a[k] > v

Partitioned(a, n) == Round(a, n, a[pivot(a, n)], partition(a, n))

SortOf(a, s) == SameElements(s, a) /\ Ordered(s)

Sorted(a, n) == SortOf(a, qsort_algo(a, n))
=============================================================================
