------------------------- MODULE RobustStatsProofs -------------------------
(***************************************************************************)
(* Facts about the operators of RobustStats: InOrder enumerates a finite   *)
(* set of integers, and outliers are indices of amplitudes.                *)
(***************************************************************************)
EXTENDS RobustStats, TLAPS, FiniteSetTheorems, WellFoundedInduction

\* Every set of natural numbers that is not empty has a least element.
LEMMA LeastNat ==
  ASSUME NEW T \in SUBSET Nat, T # {}
  PROVE  \E k \in T : \A j \in T : k <= j
<1>1. PICK k \in T : \A j \in T : ~(<<j, k>> \in OpToRel(<, Nat))
  BY NatLessThanWellFounded, WFMin
<1>2. ASSUME NEW j \in T, ~(k <= j) PROVE FALSE
  <2>1. j \in Nat /\ k \in Nat /\ j < k
    BY <1>2
  <2>2. <<j, k>> \in OpToRel(<, Nat)
    BY <2>1 DEF OpToRel
  <2> QED
    BY <1>1, <2>2
<1> QED
  BY <1>2

\* Every amplitude the clip drops is one it was given.
LEMMA OutliersSubset ==
  ASSUME NEW f, NEW thresh
  PROVE  Outliers(f, thresh) \subseteq DOMAIN f
  BY DEF Outliers

\* How many elements of S are at most k.
UpTo(S, k) == {i \in S : i <= k}

\* In a finite set of integers of an interval, each count from 1 to the size of
\* the set is the rank of one of its elements.  The least k with at least j
\* elements up to it is that element: the library's minimum principle replaces
\* an induction.
LEMMA RankExists ==
  ASSUME NEW m \in Int, NEW n \in Int, NEW S \in SUBSET (m..n),
         NEW j \in 1..Cardinality(S)
  PROVE  \E k \in S : Cardinality(UpTo(S, k)) = j
<1>1. IsFiniteSet(S) /\ Cardinality(S) \in Nat
  BY FS_Interval, FS_Subset, FS_CardinalityType
<1>2. \A k : UpTo(S, k) \in SUBSET S
  BY DEF UpTo
<1>bounds. \A i \in S : i \in Int /\ m <= i /\ i <= n
  OBVIOUS
<1>3. \A k : IsFiniteSet(UpTo(S, k)) /\ Cardinality(UpTo(S, k)) \in Nat
  BY <1>1, <1>2, FS_Subset, FS_CardinalityType
<1> DEFINE T == {d \in Nat : Cardinality(UpTo(S, m + d)) >= j}
<1>4. S # {}
  BY <1>1, FS_EmptySet
<1>5. n - m \in T
  <2>1. m <= n
    <3>1. PICK i \in S : TRUE
      BY <1>4
    <3> QED
      BY <1>bounds, <3>1
  <2>2. m + (n - m) = n
    OBVIOUS
  <2>3. UpTo(S, m + (n - m)) = S
    BY <1>bounds, <2>2 DEF UpTo
  <2> QED
    BY <1>1, <2>1, <2>3
<1>6. PICK d \in T : \A e \in T : ~(<<e, d>> \in OpToRel(<, Nat))
  <2>1. T \in SUBSET Nat /\ T # {}
    BY <1>5
  <2> QED
    BY <2>1, NatLessThanWellFounded, WFMin
<1>7. d \in Nat /\ Cardinality(UpTo(S, m + d)) >= j
  OBVIOUS
<1>8. \A e \in Nat : e < d => Cardinality(UpTo(S, m + e)) < j
  <2>1. ASSUME NEW e \in Nat, e < d PROVE e \notin T
    BY <1>6, <1>7, <2>1 DEF OpToRel
  <2> QED
    BY <1>3, <2>1
<1>9. Cardinality(UpTo(S, m + d - 1)) < j
  <2>1. CASE d = 0
    <3>1. \A i \in S : ~(i <= m + d - 1)
      BY <1>bounds, <2>1
    <3>2. UpTo(S, m + d - 1) = {}
      BY <3>1 DEF UpTo
    <3> QED
      BY <3>2, FS_EmptySet
  <2>2. CASE d # 0
    <3>1. d - 1 \in Nat /\ d - 1 < d /\ m + (d - 1) = m + d - 1
      BY <1>7, <2>2
    <3> QED
      BY <1>8, <3>1
  <2> QED
    BY <2>1, <2>2
<1>10. m + d \in S
  <2> SUFFICES ASSUME m + d \notin S PROVE FALSE
    OBVIOUS
  <2>1. \A i \in S : i <= m + d <=> i <= m + d - 1
    BY <1>bounds, <1>7
  <2>2. UpTo(S, m + d) = UpTo(S, m + d - 1)
    BY <2>1 DEF UpTo
  <2> QED
    BY <1>3, <1>7, <1>9, <2>2
<1>11. UpTo(S, m + d) = UpTo(S, m + d - 1) \cup {m + d}
  <2>1. \A i \in S : i <= m + d <=> i <= m + d - 1 \/ i = m + d
    BY <1>bounds, <1>7
  <2> QED
    BY <1>7, <1>10, <2>1 DEF UpTo
<1>12. Cardinality(UpTo(S, m + d)) <= Cardinality(UpTo(S, m + d - 1)) + 1
  BY <1>3, <1>11, FS_AddElement
<1>13. Cardinality(UpTo(S, m + d)) = j
  BY <1>3, <1>7, <1>9, <1>12
<1> QED
  BY <1>10, <1>13

\* InOrder(S) is a sequence of elements of S, as many as S has.
LEMMA InOrderType ==
  ASSUME NEW m \in Int, NEW n \in Int, NEW S \in SUBSET (m..n)
  PROVE  /\ Cardinality(S) \in Nat
         /\ InOrder(S) \in Seq(S)
         /\ Len(InOrder(S)) = Cardinality(S)
         /\ \A j \in 1..Cardinality(S) :
              /\ InOrder(S)[j] \in S
              /\ Cardinality(UpTo(S, InOrder(S)[j])) = j
<1>1. IsFiniteSet(S) /\ Cardinality(S) \in Nat
  BY FS_Interval, FS_Subset, FS_CardinalityType
<1>2. InOrder(S) = [j \in 1..Cardinality(S) |->
                      CHOOSE k \in S : Cardinality(UpTo(S, k)) = j]
  BY DEF InOrder, UpTo
<1>3. ASSUME NEW j \in 1..Cardinality(S)
      PROVE  /\ InOrder(S)[j] \in S
             /\ Cardinality(UpTo(S, InOrder(S)[j])) = j
  <2>1. \E k \in S : Cardinality(UpTo(S, k)) = j
    BY RankExists, ZenonT(60)
  <2> DEFINE P(k) == k \in S /\ Cardinality(UpTo(S, k)) = j
  <2>2. InOrder(S)[j] = CHOOSE k : P(k)
    BY SMTT(30), <1>2
  <2>3. \E k : P(k)
    BY <2>1
  <2>4. P(CHOOSE k : P(k))
    BY <2>3, Zenon
  <2> QED
    BY <2>2, <2>4
<1> QED
  BY <1>1, <1>2, <1>3

\* In increasing order the rank grows with the element.
LEMMA RankGrows ==
  ASSUME NEW m \in Int, NEW n \in Int, NEW S \in SUBSET (m..n),
         NEW k \in S, NEW l \in S, k < l
  PROVE  Cardinality(UpTo(S, k)) < Cardinality(UpTo(S, l))
<1>1. IsFiniteSet(S)
  BY FS_Interval, FS_Subset
<1>ints. \A i \in S : i \in Int
  OBVIOUS
<1>2. UpTo(S, k) \in SUBSET S /\ UpTo(S, l) \in SUBSET S
  BY DEF UpTo
<1>3. /\ IsFiniteSet(UpTo(S, k)) /\ Cardinality(UpTo(S, k)) \in Nat
      /\ IsFiniteSet(UpTo(S, l)) /\ Cardinality(UpTo(S, l)) \in Nat
  BY <1>1, <1>2, FS_Subset, FS_CardinalityType
<1>4. l \notin UpTo(S, k) /\ UpTo(S, k) \cup {l} \in SUBSET UpTo(S, l)
  <2>1. k \in Int /\ l \in Int /\ ~(l <= k)
    BY <1>ints
  <2>2. \A i \in S : i <= k => i <= l
    BY <1>ints, <2>1
  <2>3. l <= l
    BY <2>1
  <2>4. l \notin UpTo(S, k) /\ l \in UpTo(S, l)
    BY <2>1, <2>3, Zenon DEF UpTo
  <2>5. UpTo(S, k) \subseteq UpTo(S, l)
    BY <2>2, Zenon DEF UpTo
  <2> QED
    BY <2>4, <2>5
<1>5. Cardinality(UpTo(S, k) \cup {l}) = Cardinality(UpTo(S, k)) + 1
  BY <1>3, <1>4, FS_AddElement
<1>6. Cardinality(UpTo(S, k) \cup {l}) <= Cardinality(UpTo(S, l))
  BY <1>3, <1>4, FS_Subset
<1> QED
  BY <1>3, <1>5, <1>6

\* Different elements have different ranks.
LEMMA RankUnique ==
  ASSUME NEW m \in Int, NEW n \in Int, NEW S \in SUBSET (m..n),
         NEW k \in S, NEW l \in S,
         Cardinality(UpTo(S, k)) = Cardinality(UpTo(S, l))
  PROVE  k = l
<1>1. k \in Int /\ l \in Int
  OBVIOUS
<1>2. IsFiniteSet(S) /\ UpTo(S, k) \in SUBSET S /\ UpTo(S, l) \in SUBSET S
  BY FS_Interval, FS_Subset DEF UpTo
<1>3. Cardinality(UpTo(S, k)) \in Nat /\ Cardinality(UpTo(S, l)) \in Nat
  BY <1>2, FS_Subset, FS_CardinalityType
<1>4. ~(k < l)
  <2>1. k < l => Cardinality(UpTo(S, k)) < Cardinality(UpTo(S, l))
    BY RankGrows
  <2> QED
    BY <1>3, <2>1
<1>5. ~(l < k)
  <2>1. l < k => Cardinality(UpTo(S, l)) < Cardinality(UpTo(S, k))
    BY RankGrows
  <2> QED
    BY <1>3, <2>1
<1> QED
  BY <1>1, <1>4, <1>5

\* Each element of the set stands in InOrder at its rank.
LEMMA InOrderAt ==
  ASSUME NEW m \in Int, NEW n \in Int, NEW S \in SUBSET (m..n), NEW k \in S
  PROVE  /\ Cardinality(UpTo(S, k)) \in 1..Cardinality(S)
         /\ InOrder(S)[Cardinality(UpTo(S, k))] = k
<1> DEFINE j == Cardinality(UpTo(S, k))
<1>1. IsFiniteSet(S) /\ Cardinality(S) \in Nat
  BY FS_Interval, FS_Subset, FS_CardinalityType
<1>2. UpTo(S, k) \in SUBSET S /\ k \in UpTo(S, k)
  BY DEF UpTo
<1>3. IsFiniteSet(UpTo(S, k)) /\ j \in Nat /\ j <= Cardinality(S)
  BY <1>1, <1>2, FS_Subset, FS_CardinalityType
<1>4. j # 0
  BY <1>2, <1>3, FS_EmptySet
<1>5. j \in 1..Cardinality(S)
  BY <1>1, <1>3, <1>4
<1>6. InOrder(S)[j] \in S /\ Cardinality(UpTo(S, InOrder(S)[j])) = j
  BY <1>5, InOrderType
<1>7. InOrder(S)[j] = k
  BY <1>6, RankUnique
<1> QED
  BY <1>5, <1>7

\* InOrder(S) lists each element once.
LEMMA InOrderLists ==
  ASSUME NEW m \in Int, NEW n \in Int, NEW S \in SUBSET (m..n)
  PROVE  /\ \A i, j \in 1..Cardinality(S) : InOrder(S)[i] = InOrder(S)[j] => i = j
         /\ \A k \in S : \E j \in 1..Cardinality(S) : InOrder(S)[j] = k
<1>1. ASSUME NEW i \in 1..Cardinality(S), NEW j \in 1..Cardinality(S),
             InOrder(S)[i] = InOrder(S)[j]
      PROVE  i = j
  <2>1. Cardinality(UpTo(S, InOrder(S)[i])) = i
    BY InOrderType
  <2>2. Cardinality(UpTo(S, InOrder(S)[j])) = j
    BY InOrderType
  <2> QED
    BY <1>1, <2>1, <2>2
<1>2. ASSUME NEW k \in S
      PROVE  \E j \in 1..Cardinality(S) : InOrder(S)[j] = k
  BY InOrderAt
<1> QED
  BY <1>1, <1>2

\* The same for a set of positions.
LEMMA InOrderFrom1 ==
  ASSUME NEW n \in Int, NEW S \in SUBSET (1..n), NEW k \in S
  PROVE  /\ Cardinality(UpTo(S, k)) \in 1..Cardinality(S)
         /\ InOrder(S)[Cardinality(UpTo(S, k))] = k
<1>1. \A m \in Int : \A T \in SUBSET (m..n) : \A i \in T :
        /\ Cardinality(UpTo(T, i)) \in 1..Cardinality(T)
        /\ InOrder(T)[Cardinality(UpTo(T, i))] = i
  BY InOrderAt
<1>2. 1 \in Int
  OBVIOUS
<1> QED
  BY <1>1, <1>2, Zenon

\* A set that begins with 1..b is listed as 1, 2, ..., b and then the rest.
LEMMA InOrderPrefix ==
  ASSUME NEW n \in Int, NEW S \in SUBSET (1..n), NEW b \in Nat, 1..b \subseteq S,
         NEW j \in 1..b
  PROVE  j \in 1..Cardinality(S) /\ InOrder(S)[j] = j
<1>1. j \in S
  OBVIOUS
<1>2. UpTo(S, j) = 1..j
  <2>1. \A i \in S : i <= j => i \in 1..j
    OBVIOUS
  <2>2. \A i \in 1..j : i \in S /\ i <= j
    OBVIOUS
  <2> QED
    BY <2>1, <2>2, Zenon DEF UpTo
<1>3. Cardinality(1..j) = j
  BY FS_Interval
<1>4. /\ Cardinality(UpTo(S, j)) \in 1..Cardinality(S)
      /\ InOrder(S)[Cardinality(UpTo(S, j))] = j
  BY <1>1, InOrderFrom1
<1> QED
  BY <1>2, <1>3, <1>4

-----------------------------------------------------------------------------
(* Which amplitudes are outliers does not depend on how they are indexed *)

\* h numbers the elements of I by those of J.
Renumbers(h, J, I) ==
  /\ h \in [J -> I]
  /\ \A i, j \in J : h[i] = h[j] => i = j
  /\ \A i \in I : \E j \in J : h[j] = i

\* A set and the numbers of its elements are of one size.
LEMMA SameCount ==
  ASSUME NEW I, NEW J, NEW h, Renumbers(h, J, I), IsFiniteSet(J), NEW S \in SUBSET I
  PROVE  Cardinality({j \in J : h[j] \in S}) = Cardinality(S)
<1> DEFINE T == {j \in J : h[j] \in S}
           hT == [j \in T |-> h[j]]
<1>1. IsFiniteSet(T)
  BY FS_Subset
<1>2. hT \in [T -> S]
  OBVIOUS
<1>3. \A x, y \in T : hT[x] = hT[y] => x = y
  BY DEF Renumbers
<1>4. \A i \in S : \E j \in T : hT[j] = i
  BY DEF Renumbers
<1>5. hT \in Bijection(T, S)
  BY <1>2, <1>3, <1>4 DEF Bijection, Injection, Surjection, IsInjective
<1>6. ExistsBijection(T, S)
  BY <1>5 DEF ExistsBijection
<1>7. Cardinality(S) = Cardinality(T)
  <2> HIDE DEF T
  <2> QED
    BY <1>1, <1>6, FS_Bijection
<1> QED
  BY <1>7

\* The numbers of f, renumbered.
Renumbered(f, h, J) == [j \in J |-> f[h[j]]]

\* An order statistic is a value, whatever the values are numbered by.
LEMMA OrderStatRenumbered ==
  ASSUME NEW I, NEW J, NEW h, Renumbers(h, J, I), IsFiniteSet(J),
         NEW f, DOMAIN f = I, NEW k
  PROVE  OrderStat(Renumbered(f, h, J), k) = OrderStat(f, k)
<1> DEFINE g == Renumbered(f, h, J)
<1>1. DOMAIN g = J /\ \A j \in J : g[j] = f[h[j]] /\ h[j] \in I
  BY DEF Renumbered, Renumbers
<1>2. {g[j] : j \in J} = {f[i] : i \in I}
  BY <1>1 DEF Renumbers
<1>3. ASSUME NEW v
      PROVE  /\ Cardinality({j \in J : g[j] < v}) = Cardinality({i \in I : f[i] < v})
             /\ Cardinality({j \in J : g[j] <= v}) = Cardinality({i \in I : f[i] <= v})
  <2> DEFINE below == {i \in I : f[i] < v}
             upto == {i \in I : f[i] <= v}
  <2>1. {j \in J : g[j] < v} = {j \in J : h[j] \in below}
    BY <1>1
  <2>2. {j \in J : g[j] <= v} = {j \in J : h[j] \in upto}
    BY <1>1
  <2>3. below \in SUBSET I /\ upto \in SUBSET I
    OBVIOUS
  <2> HIDE DEF below, upto
  <2>4. Cardinality({j \in J : h[j] \in below}) = Cardinality(below)
    BY <2>3, SameCount
  <2>5. Cardinality({j \in J : h[j] \in upto}) = Cardinality(upto)
    BY <2>3, SameCount
  <2> QED
    BY <2>1, <2>2, <2>4, <2>5 DEF below, upto
<1> HIDE DEF g
<1>4. OrderStat(g, k) =
        CHOOSE v \in {g[j] : j \in J} :
          /\ Cardinality({j \in J : g[j] < v}) <= k
          /\ Cardinality({j \in J : g[j] <= v}) > k
  BY <1>1, Zenon DEF OrderStat
<1>5. OrderStat(f, k) =
        CHOOSE v \in {f[i] : i \in I} :
          /\ Cardinality({i \in I : f[i] < v}) <= k
          /\ Cardinality({i \in I : f[i] <= v}) > k
  BY Zenon DEF OrderStat
<1>6. OrderStat(g, k) = OrderStat(f, k)
  BY <1>2, <1>3, <1>4, <1>5, Zenon
<1> QED
  BY <1>6 DEF g

\* So is twice the median.
LEMMA Median2Renumbered ==
  ASSUME NEW I, NEW J, NEW h, Renumbers(h, J, I), IsFiniteSet(J),
         NEW f, DOMAIN f = I
  PROVE  Median2(Renumbered(f, h, J)) = Median2(f)
<1>1. DOMAIN Renumbered(f, h, J) = J
  BY DEF Renumbered
<1>2. {j \in J : h[j] \in I} = J
  BY DEF Renumbers
<1>3. Cardinality(J) = Cardinality(I)
  BY <1>2, SameCount
<1>4. \A k : OrderStat(Renumbered(f, h, J), k) = OrderStat(f, k)
  BY OrderStatRenumbered
<1> QED
  BY <1>1, <1>3, <1>4, Zenon DEF Median2

\* An amplitude is an outlier under one numbering exactly if it is under the
\* other.
LEMMA OutliersRenumbered ==
  ASSUME NEW I, NEW J, NEW h, Renumbers(h, J, I), IsFiniteSet(J),
         NEW f, DOMAIN f = I, NEW thresh
  PROVE  Outliers(Renumbered(f, h, J), thresh)
           = {j \in J : h[j] \in Outliers(f, thresh)}
<1> DEFINE g == Renumbered(f, h, J)
           df == Dev2(f)
<1>1. DOMAIN g = J /\ \A j \in J : g[j] = f[h[j]] /\ h[j] \in I
  BY DEF Renumbered, Renumbers
<1>2. Median2(g) = Median2(f)
  BY Median2Renumbered
<1>3. DOMAIN df = I /\ df = [i \in I |-> Abs(2 * f[i] - Median2(f))]
  BY DEF Dev2
<1>4. Dev2(g) = [j \in J |-> Abs(2 * g[j] - Median2(g))]
  BY <1>1 DEF Dev2
<1>5. Dev2(g) = Renumbered(df, h, J)
  <2>1. \A j \in J : Abs(2 * g[j] - Median2(g)) = df[h[j]]
    BY <1>1, <1>2, <1>3, Zenon
  <2> QED
    BY <1>4, <2>1, Zenon DEF Renumbered
<1>6. Median2(Dev2(g)) = Median2(df)
  <2> HIDE DEF df, g
  <2> QED
    BY <1>3, <1>5, Median2Renumbered
<1>7. \A j \in J : Dev2(g)[j] = df[h[j]]
  BY <1>5 DEF Renumbered
<1>8. Outliers(g, thresh) =
        IF Median2(Dev2(g)) <= 0 THEN {}
        ELSE {j \in J : 2 * Dev2(g)[j] > thresh * Median2(Dev2(g))}
  BY <1>1 DEF Outliers
<1>9. Outliers(f, thresh) =
        IF Median2(df) <= 0 THEN {}
        ELSE {i \in I : 2 * df[i] > thresh * Median2(df)}
  BY DEF Outliers
<1> HIDE DEF g, df
<1>10. Outliers(g, thresh) = {j \in J : h[j] \in Outliers(f, thresh)}
  <2>1. CASE Median2(df) <= 0
    BY <1>6, <1>8, <1>9, <2>1
  <2>2. CASE ~(Median2(df) <= 0)
    <3>1. Outliers(g, thresh) = {j \in J : 2 * df[h[j]] > thresh * Median2(df)}
      BY <1>6, <1>7, <1>8, <2>2
    <3>2. Outliers(f, thresh) = {i \in I : 2 * df[i] > thresh * Median2(df)}
      BY <1>9, <2>2
    <3> QED
      BY <1>1, <3>1, <3>2
  <2> QED
    BY <2>1, <2>2
<1> QED
  BY <1>10 DEF g

-----------------------------------------------------------------------------
(* The statistics exist *)

\* Finitely many naturals have a bound: a least subset without one would lose
\* an element and still have none.
LEMMA FiniteIsBounded ==
  ASSUME NEW I, IsFiniteSet(I), NEW f \in [I -> Nat]
  PROVE  \E d \in Nat : \A i \in I : f[i] <= d
<1> DEFINE Free == {J \in SUBSET I : \A d \in Nat : \E i \in J : ~(f[i] <= d)}
<1> SUFFICES ASSUME I \in Free PROVE FALSE
  OBVIOUS
<1>1. PICK J \in Free : \A K \in Free : <<K, J>> \notin StrictSubsetOrdering(I)
  <2>1. Free \subseteq FiniteSubsetsOf(I) /\ Free # {}
    BY FS_FiniteSubsetsOfFinite
  <2> HIDE DEF Free
  <2> QED
    BY <2>1, FS_StrictSubsetOrderingWellFounded, WFMin
<1>2. PICK x \in J : TRUE
  OBVIOUS
<1>3. J \ {x} \notin Free
  <2>1. <<J \ {x}, J>> \in StrictSubsetOrdering(I)
    BY <1>2 DEF StrictSubsetOrdering
  <2> QED
    BY <1>1, <2>1
<1>4. PICK d \in Nat : \A i \in J \ {x} : f[i] <= d
  BY <1>3
<1> DEFINE e == IF f[x] <= d THEN d ELSE f[x]
<1>5. f[x] \in Nat /\ e \in Nat /\ d <= e /\ f[x] <= e
  BY <1>2
<1>6. ASSUME NEW i \in J PROVE f[i] <= e
  <2>1. f[i] \in Nat
    OBVIOUS
  <2>2. CASE i = x
    BY <1>5, <2>2
  <2>3. CASE i # x
    <3>1. f[i] <= d
      BY <1>4, <2>3
    <3> QED
      BY <1>4, <1>5, <2>1, <3>1
  <2> QED
    BY <2>2, <2>3
<1> QED
  BY <1>5, <1>6

\* Position k of a sorted array holds one of its values, and the counts below
\* and up to it straddle k.
LEMMA OrderStatType ==
  ASSUME NEW I, IsFiniteSet(I), NEW f \in [I -> Nat], NEW k \in Nat,
         k < Cardinality(I)
  PROVE  /\ OrderStat(f, k) \in {f[i] : i \in I}
         /\ Cardinality({i \in I : f[i] < OrderStat(f, k)}) <= k
         /\ Cardinality({i \in I : f[i] <= OrderStat(f, k)}) > k
<1> DEFINE upto(d) == {i \in I : f[i] <= d}
           T == {d \in Nat : Cardinality(upto(d)) > k}
<1>1. Cardinality(I) \in Nat /\ \A i \in I : f[i] \in Nat
  BY FS_CardinalityType
<1>2. \A d : upto(d) \in SUBSET I
  OBVIOUS
<1>3. \A d : IsFiniteSet(upto(d)) /\ Cardinality(upto(d)) \in Nat
  <2> HIDE DEF upto
  <2> QED
    BY <1>2, FS_Subset, FS_CardinalityType
<1>4. T # {}
  <2>1. PICK d \in Nat : \A i \in I : f[i] <= d
    BY FiniteIsBounded
  <2>2. upto(d) = I
    BY <2>1
  <2> QED
    BY <2>2
<1>5. PICK d \in T : \A e \in T : ~(<<e, d>> \in OpToRel(<, Nat))
  <2>1. T \in SUBSET Nat
    OBVIOUS
  <2> HIDE DEF T
  <2> QED
    BY <1>4, <2>1, NatLessThanWellFounded, WFMin
<1>6. d \in Nat /\ Cardinality(upto(d)) > k
  OBVIOUS
<1>7. \A e \in Nat : e < d => Cardinality(upto(e)) <= k
  <2>1. ASSUME NEW e \in Nat, e < d PROVE e \notin T
    BY <1>5, <1>6, <2>1 DEF OpToRel
  <2> HIDE DEF upto
  <2> QED
    BY <1>3, <2>1
<1>8. Cardinality({i \in I : f[i] < d}) <= k
  <2>1. CASE d = 0
    <3>1. {i \in I : f[i] < d} = {}
      BY <1>1, <2>1
    <3> QED
      BY <3>1, FS_EmptySet
  <2>2. CASE d # 0
    <3>1. d - 1 \in Nat /\ d - 1 < d
      BY <1>6, <2>2
    <3>2. \A i \in I : f[i] < d <=> f[i] <= d - 1
      BY <1>1, <1>6
    <3>3. {i \in I : f[i] < d} = upto(d - 1)
      BY <3>2
    <3> HIDE DEF upto
    <3> QED
      BY <1>7, <3>1, <3>3
  <2> QED
    BY <2>1, <2>2
<1>9. d \in {f[i] : i \in I}
  <2> SUFFICES ASSUME \A i \in I : f[i] # d PROVE FALSE
    OBVIOUS
  <2>1. \A i \in I : f[i] < d <=> f[i] <= d
    BY <1>1, <1>6
  <2>2. upto(d) = {i \in I : f[i] < d}
    BY <2>1
  <2> HIDE DEF upto
  <2> QED
    BY <1>3, <1>6, <1>8, <2>2
<1>10. OrderStat(f, k) =
         CHOOSE v \in {f[i] : i \in I} :
           /\ Cardinality({i \in I : f[i] < v}) <= k
           /\ Cardinality({i \in I : f[i] <= v}) > k
  <2>1. DOMAIN f = I
    OBVIOUS
  <2> QED
    BY <2>1, Zenon DEF OrderStat
<1>11. \E v \in {f[i] : i \in I} :
         /\ Cardinality({i \in I : f[i] < v}) <= k
         /\ Cardinality({i \in I : f[i] <= v}) > k
  BY <1>6, <1>8, <1>9
<1> QED
  BY <1>10, <1>11, Zenon

\* Twice the median of some naturals is a natural.
LEMMA Median2Type ==
  ASSUME NEW I, IsFiniteSet(I), I # {}, NEW f \in [I -> Nat]
  PROVE  Median2(f) \in Nat
<1> DEFINE n == Cardinality(I)
<1>1. n \in Nat /\ n > 0
  BY FS_CardinalityType, FS_EmptySet
<1>2. /\ n \div 2 \in Nat /\ n \div 2 < n
      /\ (n - 1) \div 2 \in Nat /\ (n - 1) \div 2 < n
  <2> HIDE DEF n
  <2> QED
    BY <1>1
<1>3. ASSUME NEW k \in Nat, k < n PROVE OrderStat(f, k) \in Nat
  <2>1. OrderStat(f, k) \in {f[i] : i \in I}
    BY <1>3, OrderStatType
  <2> QED
    BY <2>1
<1>4. OrderStat(f, n \div 2) \in Nat /\ OrderStat(f, (n - 1) \div 2) \in Nat
  <2> HIDE DEF n
  <2> QED
    BY <1>2, <1>3
<1>5. Median2(f) = OrderStat(f, n \div 2) + OrderStat(f, (n - 1) \div 2)
  <2>1. DOMAIN f = I
    OBVIOUS
  <2> QED
    BY <2>1, Zenon DEF Median2
<1> QED
  BY <1>4, <1>5

\* So is four times the median absolute deviation.
LEMMA Mad4Type ==
  ASSUME NEW I, IsFiniteSet(I), I # {}, NEW f \in [I -> Nat]
  PROVE  Mad4(f) \in Nat
<1>1. Median2(f) \in Nat
  BY Median2Type
<1>2. Dev2(f) = [i \in I |-> Abs(2 * f[i] - Median2(f))]
  <2>1. DOMAIN f = I
    OBVIOUS
  <2> QED
    BY <2>1, Zenon DEF Dev2
<1>3. \A i \in I : Abs(2 * f[i] - Median2(f)) \in Nat
  <2>1. \A x \in Int : Abs(x) \in Nat
    BY DEF Abs
  <2>2. \A i \in I : 2 * f[i] - Median2(f) \in Int
    <3>1. \A i \in I : f[i] \in Nat
      OBVIOUS
    <3> QED
      BY <1>1, <3>1
  <2> QED
    BY <2>1, <2>2
<1>4. Dev2(f) \in [I -> Nat]
  BY <1>2, <1>3
<1> QED
  BY <1>4, Median2Type DEF Mad4
============================================================================
