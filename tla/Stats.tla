------------------------------- MODULE Stats -------------------------------
(***************************************************************************)
(* The order statistics the program computes from measured times: the      *)
(* median that decides who is a straggler (src/mr/coordinator.go) and the  *)
(* summaries of the reports (src/bench/stats.go, src/chaos/analysis.go).   *)
(* Times are whole milliseconds; ratios are in thousandths, the precision  *)
(* to which the program rounds what it writes.                             *)
(***************************************************************************)
EXTENDS SequencesExt, Integers

(* TaskMetrics.Duration of an attempt. *)
Duration(m) == m.end - m.start

(* A sample is a function: its values by what they were measured of, tasks, *)
(* trials or positions in a list.                                          *)
Count(s) == Cardinality(DOMAIN s)

Below(s, x) == {i \in DOMAIN s : s[i] < x}
UpTo(s, x) == {i \in DOMAIN s : s[i] <= x}

(* The values in ascending order: the k-th is the one that fewer than k are *)
(* below and no fewer than k are below or equal to.                         *)
Sorted(s) ==
    [k \in 1 .. Count(s) |->
        CHOOSE x \in Range(s) : Cardinality(Below(s, x)) < k /\ k <= Cardinality(UpTo(s, x))]

(* A stable sort by key: the positions of a list in the order of their keys, *)
(* those with equal keys in the order they had.                              *)
Place(keys, i) ==
    Cardinality({j \in DOMAIN keys : keys[j] < keys[i] \/ (keys[j] = keys[i] /\ j <= i)})

StableOrder(keys) == [k \in DOMAIN keys |-> CHOOSE i \in DOMAIN keys : Place(keys, i) = k]

(* sorted[len/2]: the upper one of the two middle values of an even sample. *)
UpperMedian(s) == Sorted(s)[Count(s) \div 2 + 1]

(* medianOf, doubled so that it is whole: the mean of the middle values. *)
TwiceMedian(s) ==
    LET n == Count(s)  mid == n \div 2 IN
    CASE n = 0 -> 0
      [] n # 0 /\ n % 2 = 1 -> 2 * Sorted(s)[mid + 1]
      [] OTHER -> Sorted(s)[mid] + Sorted(s)[mid + 1]

Clamp(x, lo, hi) == IF x < lo THEN lo ELSE IF x > hi THEN hi ELSE x

(* The nearest rank of the p-th percentile of n values: ceil(p n / 100). *)
Rank(n, p) == Clamp((p * n + 99) \div 100, 1, n)

Percentile(s, p) == IF DOMAIN s = {} THEN 0 ELSE Sorted(s)[Rank(Count(s), p)]

Lowest(s) == IF DOMAIN s = {} THEN 0 ELSE Min(Range(s))
Highest(s) == IF DOMAIN s = {} THEN 0 ELSE Max(Range(s))

(* a / b in thousandths, halves rounded up; b is positive. *)
Thousandths(a, b) == (2000 * a + b) \div (2 * b)
=============================================================================
