---------------------------- MODULE RobustStats ----------------------------
(***************************************************************************)
(* The robust statistics of grid.cpp: the median the clip uses (mean of    *)
(* the two middle elements for an even count), the median absolute         *)
(* deviation, and the two-sided test |amp - med| > thresh * mad.           *)
(*                                                                         *)
(* A set of amplitudes is a function from a finite index set to Nat.       *)
(* Halves and quarters are kept exact by scaling: Median2 is twice the     *)
(* median, Mad4 four times the median absolute deviation.                  *)
(***************************************************************************)
EXTENDS Integers, FiniteSets, Sequences

Abs(x) == IF x < 0 THEN -x ELSE x

\* The element std::nth_element leaves at position k, counted from 0.
OrderStat(f, k) ==
  LET I == DOMAIN f
  IN  CHOOSE v \in {f[i] : i \in I} :
        /\ Cardinality({i \in I : f[i] < v}) <= k
        /\ Cardinality({i \in I : f[i] <= v}) > k

\* Twice median_inplace(f): x[n/2] plus, for an even count, the largest of the
\* lower half; for an odd count both terms are the middle element.
Median2(f) ==
  LET n == Cardinality(DOMAIN f)
  IN  OrderStat(f, n \div 2) + OrderStat(f, (n - 1) \div 2)

\* Twice |amp - med|, for each amplitude.
Dev2(f) ==
  LET med2 == Median2(f) IN [i \in DOMAIN f |-> Abs(2 * f[i] - med2)]

\* Four times mad = median(|amp - med|).
Mad4(f) == Median2(Dev2(f))

\* The amplitudes the clip drops: |amp - med| > thresh * mad, none at all when
\* mad is zero.
Outliers(f, thresh) ==
  LET dev2 == Dev2(f)
      mad4 == Median2(dev2)
  IN  IF mad4 <= 0 THEN {} ELSE {i \in DOMAIN f : 2 * dev2[i] > thresh * mad4}

\* The elements of a finite set of numbers as an increasing sequence: the j-th
\* is the one with j elements up to and including it.
InOrder(S) ==
  [j \in 1..Cardinality(S) |->
     CHOOSE k \in S : Cardinality({i \in S : i <= k}) = j]
============================================================================
