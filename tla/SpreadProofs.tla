---------------------------- MODULE SpreadProofs ----------------------------
(***************************************************************************)
(* Proofs about FINUFFT's sort and the spreading that follows it.  For any *)
(* number of points, bins and threads the threads of the sort do not race, *)
(* and what it returns is the stable order by bin.  For any strengths,     *)
(* kernel width, grid and limits, locked or atomic, the fine grid finally  *)
(* holds each point once in every cell of its periodic kernel.             *)
(*                                                                         *)
(* The invariant of the sort says what every shared element counts, as     *)
(* cardinalities of sets of points.  The scans are recursive functions: a  *)
(* function that satisfies the same equation is equal to the scan (SumIs,  *)
(* by the least index at which the two would differ), and the              *)
(* cardinalities do.  That of the spreading says which rows of which       *)
(* subgrids have been merged, and that a cell of the grid holds the weight *)
(* of the points they brought: a sum of strengths is the number of units   *)
(* the points have (SumOverSize).                                          *)
(***************************************************************************)
EXTENDS Spread, FiniteSetTheorems, WellFoundedInduction, TLAPS

-----------------------------------------------------------------------------
(* The inductive invariant of the sort *)

\* Points that come before point k of bin b in the order of the sort, and how many.
Before(b, k) == {p \in Points : Bin(p) < b \/ (Bin(p) = b /\ p < k)}
Rank(b, k) == Cardinality(Before(b, k))

\* Points of the bins from b up to but not including c.
Among(b, c) == {p \in Points : b <= Bin(p) /\ Bin(p) < c}

\* Types of the sort's state.
SortTypes ==
  /\ M \in 1..MaxM /\ nthr \in 1..MaxThreads
  /\ place \in [Points -> Places]
  /\ sorted \in BOOLEAN
  /\ step \in [Team -> 0..Left]
  /\ counts \in [Team -> [Bins -> Nat]]
  /\ bin_offset \in [Bins -> Nat]
  /\ thread_totals \in [Team -> Nat]
  /\ i \in [Team -> Int]
  /\ sortIndices \in [Points -> Points \cup {Unset}]

\* The barriers: nobody is past a phase that somebody has not finished.
Phased ==
  \A t, u \in Team : \A phase \in {Scanning, Single, Finalizing, Placing, Left} :
    step[t] >= phase => step[u] >= phase - 1

\* Element b of thread u's histogram is the number of points of its chunk in the
\* bin until the bin's owner t has finalized it; then it is the slot of the next
\* point that u has in the bin.
Histograms ==
  \A t, u \in Team : \A b \in Own(t) :
    /\ step[u] > Counting /\ step[t] <= Finalizing =>
         counts[u][b] = Cardinality(InBin(b, Chunk(u)))
    /\ step[t] > Finalizing => counts[u][b] = Rank(b, i[u])

\* Offsets count the points of the owner's bins below; totals count those of all
\* its bins, and once scanned those of the bins of the threads before it.
Offsets ==
  /\ \A t \in Team : step[t] > Scanning =>
       \A b \in Own(t) : bin_offset[b] = Cardinality(Among(BinStart(t), b))
  /\ \A t \in Team :
       thread_totals[t] =
         IF \E u \in Team : step[u] > Single THEN Cardinality(Among(0, BinStart(t)))
         ELSE IF step[t] > Scanning THEN Cardinality(Among(BinStart(t), BinStart(t + 1)))
         ELSE 0

\* Each thread has placed the points of its chunk below i, at their ranks.
Placed ==
  \A t \in Team :
    /\ i[t] \in brk(t)..brk(t + 1)
    /\ step[t] < Placing => i[t] = brk(t)
    /\ step[t] > Placing => i[t] = brk(t + 1)
    /\ \A p \in Chunk(t) : p < i[t] => sortIndices[Rank(Bin(p), p)] = p

\* When indexSort has returned every point is at its rank.
Sorted == sorted => \A p \in Points : sortIndices[Rank(Bin(p), p)] = p

IInv == SortTypes /\ Phased /\ Histograms /\ Offsets /\ Placed /\ Sorted

-----------------------------------------------------------------------------
(* Numbers, scans and finite sets *)

\* Every set of natural numbers that is not empty has a least element.
LEMMA LeastNat ==
  ASSUME NEW T \in SUBSET Nat, T # {}
  PROVE  \E k \in T : \A j \in T : k <= j
<1>1. PICK k \in T : \A j \in T : ~(<<j, k>> \in OpToRel(<, Nat))
  BY NatLessThanWellFounded, WFMin
<1>2. ASSUME NEW j \in T, ~(k <= j) PROVE FALSE
  <2>1. j \in Nat /\ k \in Nat /\ j < k
    BY <1>2
  <2>2. <<j, k>> \in OpToRel(<, Nat)
    BY <2>1 DEF OpToRel
  <2> QED
    BY <1>1, <2>2
<1> QED
  BY <1>2

\* std::exclusive_scan computes whatever satisfies its recurrence.
LEMMA SumIs ==
  ASSUME NEW lo \in Nat, NEW hi \in Nat, NEW f, NEW g,
         g = [k \in lo..hi |-> IF k = lo THEN 0 ELSE g[k - 1] + f[k - 1]]
  PROVE  SumBelow(f, lo, hi) = g
<1> DEFINE s == SumBelow(f, lo, hi)
<1>1. s = [k \in lo..hi |-> IF k = lo THEN 0 ELSE s[k - 1] + f[k - 1]]
  BY DEF SumBelow
<1> HIDE DEF s
<1> DEFINE T == {k \in lo..hi : s[k] # g[k]}
<1>2. SUFFICES ASSUME T # {} PROVE FALSE
  BY <1>1 DEF s
<1>3. PICK k \in T : \A j \in T : k <= j
  <2>1. T \in SUBSET Nat
    OBVIOUS
  <2> HIDE DEF T
  <2> QED
    BY <1>2, <2>1, LeastNat
<1>4. k # lo => k - 1 \in lo..hi /\ s[k - 1] = g[k - 1]
  BY <1>3
<1> QED
  BY <1>1, <1>4

\* The sizes of two disjoint sets add up.
LEMMA CardDisjoint ==
  ASSUME NEW A, NEW B, IsFiniteSet(A), IsFiniteSet(B), A \cap B = {}
  PROVE  /\ IsFiniteSet(A \cup B)
         /\ Cardinality(A \cup B) = Cardinality(A) + Cardinality(B)
<1>1. Cardinality(A \cap B) = 0
  BY FS_EmptySet
<1>2. Cardinality(A) \in Nat /\ Cardinality(B) \in Nat
  BY FS_CardinalityType
<1>3. /\ IsFiniteSet(A \cup B)
      /\ Cardinality(A \cup B) = Cardinality(A) + Cardinality(B) - Cardinality(A \cap B)
  BY FS_Union
<1> QED
  BY <1>1, <1>2, <1>3

\* Products of naturals are natural.
LEMMA TimesType ==
  ASSUME NEW a \in Int, NEW b \in Int
  PROVE  a * b \in Int /\ (a >= 0 /\ b >= 0 => a * b >= 0)
         /\ (a > 0 /\ b > 0 => a * b > 0)
  OBVIOUS

\* A larger factor makes the product larger.
LEMMA TimesUp ==
  ASSUME NEW a \in Int, NEW b \in Int, NEW c \in Nat, a <= b
  PROVE  a * c <= b * c
<1>1. (b - a) * c >= 0
  BY TimesType
<1> QED
  BY <1>1

\* Division with remainder.
LEMMA DivMod ==
  ASSUME NEW a \in Nat, NEW b \in Nat \ {0}
  PROVE  /\ a \div b \in Nat
         /\ (a \div b) * b <= a /\ a < (a \div b) * b + b
<1>1. a \div b \in Int /\ a = (a \div b) * b + (a % b) /\ a % b \in 0..(b - 1)
  OBVIOUS
<1>2. a \div b >= 0
  OBVIOUS
<1> QED
  BY <1>1, <1>2

\* A quotient is at most q when the dividend is below (q + 1) * b, and at least
\* q when it is not below q * b.
LEMMA DivBound ==
  ASSUME NEW a \in Nat, NEW b \in Nat \ {0}, NEW q \in Int
  PROVE  /\ a < (q + 1) * b => a \div b <= q
         /\ q * b <= a => q <= a \div b
<1> DEFINE d == a \div b
<1>1. d \in Nat /\ d * b <= a /\ a < d * b + b
  BY DivMod
<1> HIDE DEF d
<1>2. ASSUME a < (q + 1) * b, d >= q + 1 PROVE FALSE
  BY <1>1, <1>2, TimesUp
<1>3. ASSUME q * b <= a, q >= d + 1 PROVE FALSE
  <2>1. (d + 1) * b <= q * b /\ (d + 1) * b = d * b + b
    BY <1>1, <1>3, TimesUp
  <2> QED
    BY <1>1, <1>3, <2>1, TimesType
<1> QED
  BY <1>1, <1>2, <1>3 DEF d

-----------------------------------------------------------------------------
(* The team, its chunks of points and its bins *)

\* The team has at least one thread and no more than there are points.
LEMMA TeamSize ==
  ASSUME SortTypes
  PROVE  /\ M \in Nat \ {0} /\ nt \in Nat \ {0} /\ nt <= M /\ nt <= nthr
         /\ Team = 0..(nt - 1) /\ Points = 0..(M - 1) /\ IsFiniteSet(Points)
<1>1. M \in Nat \ {0} /\ nthr \in Nat \ {0}
  BY BinSortAssumption DEF SortTypes
<1>2. IsFiniteSet(0..(M - 1))
  BY <1>1, FS_Interval
<1> QED
  BY <1>1, <1>2 DEF nt, Team, Points

\* The chunks begin at point 0, end at the last one and never go back.
LEMMA Breaks ==
  ASSUME SortTypes
  PROVE  /\ \A k \in 0..nt : brk(k) \in 0..M
         /\ brk(0) = 0 /\ brk(nt) = M
         /\ \A k, l \in 0..nt : k <= l => brk(k) <= brk(l)
<1> DEFINE n == nt
           num(k) == 2 * M * k + n
<1>1. M \in Nat \ {0} /\ n \in Nat \ {0} /\ 2 * n \in Nat \ {0}
  BY TeamSize
<1> HIDE DEF n
<1>2. \A k : brk(k) = num(k) \div (2 * n)
  BY DEF brk, n
<1>3. ASSUME NEW k \in Nat PROVE num(k) \in Nat /\ M * k \in Nat /\ num(k) = 2 * (M * k) + n
  BY <1>1, TimesType
<1>4. ASSUME NEW k \in Nat, NEW l \in Nat, k <= l
      PROVE  brk(k) \in Nat /\ brk(k) <= brk(l)
  <2>1. num(k) <= num(l)
    <3>1. k * M <= l * M /\ k * M = M * k /\ l * M = M * l
      BY <1>1, <1>4, TimesUp
    <3> QED
      BY <1>1, <1>3, <3>1
  <2>2. num(k) \in Nat /\ num(l) \in Nat
    BY <1>3
  <2> HIDE DEF num
  <2> DEFINE d == num(k) \div (2 * n)
  <2>3. d \in Nat /\ d * (2 * n) <= num(k)
    BY <1>1, <2>2, DivMod
  <2> HIDE DEF d
  <2>4. d * (2 * n) <= num(l)
    BY <1>1, <2>1, <2>2, <2>3
  <2>5. d <= num(l) \div (2 * n)
    BY <1>1, <2>2, <2>3, <2>4, DivBound
  <2> QED
    BY <1>2, <2>3, <2>5 DEF d
<1>5. brk(0) = 0
  <2>1. num(0) = n
    BY <1>1
  <2>2. n \div (2 * n) \in Nat /\ n \div (2 * n) <= 0
    BY <1>1, DivMod, DivBound
  <2> QED
    BY <1>2, <2>1, <2>2
<1>6. brk(n) = M
  <2>1. num(n) \in Nat /\ num(n) = M * (2 * n) + n /\ M * (2 * n) \in Nat
        /\ (M + 1) * (2 * n) = M * (2 * n) + 2 * n
    BY <1>1, <1>3, TimesType
  <2> HIDE DEF num
  <2>2. num(n) < (M + 1) * (2 * n) /\ M * (2 * n) <= num(n)
    BY <1>1, <2>1
  <2>3. num(n) \div (2 * n) <= M /\ M <= num(n) \div (2 * n)
    BY <1>1, <2>1, <2>2, DivBound
  <2>4. num(n) \div (2 * n) \in Nat
    BY <1>1, <2>1, DivMod
  <2> QED
    BY <1>1, <1>2, <2>3, <2>4
<1>7. \A k \in 0..n : k \in Nat /\ 0 <= k /\ k <= n
  BY <1>1
<1>8. \A k \in 0..n : brk(k) \in 0..M
  BY <1>1, <1>4, <1>6, <1>7
<1> QED
  BY <1>4, <1>5, <1>6, <1>7, <1>8 DEF n

\* A place is in one of the bins along its dimension.
LEMMA BinAlong ==
  ASSUME NEW n \in Nat \ {0}, NEW b \in Nat \ {0}, NEW x \in 0..(2 * n)
  PROVE  x \div (2 * b) \in 0..(n \div b)
<1> DEFINE q == n \div b
<1>1. q \in Nat /\ n < q * b + b
  BY DivMod
<1> HIDE DEF q
<1>2. x < (q + 1) * (2 * b)
  <2>1. (q + 1) * (2 * b) = 2 * (q * b + b) /\ q * b \in Int
    BY <1>1
  <2> QED
    BY <1>1, <2>1
<1>3. x \div (2 * b) \in Nat /\ x \div (2 * b) <= q
  BY <1>1, <1>2, DivMod, DivBound
<1> QED
  BY <1>1, <1>3 DEF q

\* There is at least one bin.
LEMMA BinsExist ==
  nbins1 \in Nat \ {0} /\ nbins2 \in Nat \ {0} /\ nbins \in Nat \ {0}
<1>1. nbins1 \in Nat \ {0} /\ nbins2 \in Nat \ {0}
  BY BinSortAssumption, DivMod DEF nbins1, nbins2
<1> QED
  BY <1>1, TimesType DEF nbins

\* Every point is in a bin.
LEMMA BinType ==
  ASSUME SortTypes, NEW p \in Points
  PROVE  Bin(p) \in Bins
<1>1. place[p] \in (0..(2 * N1)) \X (0..(2 * N2))
  BY BinSortAssumption DEF SortTypes
<1> DEFINE bx == place[p][1] \div (2 * BinX)
           by == place[p][2] \div (2 * BinY)
<1>2. bx \in 0..(nbins1 - 1) /\ by \in 0..(nbins2 - 1)
  <2>1. place[p][1] \in 0..(2 * N1) /\ place[p][2] \in 0..(2 * N2)
    BY <1>1
  <2>2. bx \in 0..(N1 \div BinX) /\ by \in 0..(N2 \div BinY)
    BY <2>1, BinSortAssumption, BinAlong
  <2>3. N1 \div BinX \in Nat /\ N2 \div BinY \in Nat
    BY BinSortAssumption, DivMod
  <2> QED
    BY <2>2, <2>3 DEF nbins1, nbins2
<1> HIDE DEF bx, by
<1>3. nbins1 \in Nat \ {0} /\ nbins2 \in Nat \ {0} /\ nbins = nbins1 * nbins2
  BY BinsExist DEF nbins
<1>4. nbins1 * by \in Nat /\ nbins1 * by <= nbins1 * nbins2 - nbins1
  <2>1. by * nbins1 <= (nbins2 - 1) * nbins1
    BY <1>2, <1>3, TimesUp
  <2>2. (nbins2 - 1) * nbins1 = nbins1 * nbins2 - nbins1 /\ by * nbins1 = nbins1 * by
    BY <1>2, <1>3
  <2> QED
    BY <1>2, <1>3, <2>1, <2>2, TimesType
<1>5. bx + nbins1 * by \in 0..(nbins - 1)
  BY <1>2, <1>3, <1>4, TimesType
<1> QED
  BY <1>5 DEF Bin, Bins, bx, by

\* The bins of thread t are those from its start up to the next thread's, the
\* last cut at the number of bins; together the threads have all bins.
LEMMA OwnBins ==
  ASSUME SortTypes
  PROVE  /\ \A t \in 0..nt : BinStart(t) \in Nat
         /\ BinStart(0) = 0 /\ nbins <= BinStart(nt)
         /\ \A t \in Team : /\ BinStart(t) <= BinStart(t + 1)
                            /\ Own(t) = {b \in Bins : /\ BinStart(t) <= b
                                                      /\ b < BinStart(t + 1)}
                            /\ BinEnd(t) = IF BinStart(t + 1) < nbins THEN BinStart(t + 1)
                                                                      ELSE nbins
         /\ \A t, u \in Team : t < u => BinStart(t + 1) <= BinStart(u)
         /\ \A b \in Bins : \E t \in Team : b \in Own(t)
<1> DEFINE c == bin_chunk
           n == nt
<1>1. n \in Nat \ {0} /\ nbins \in Nat \ {0} /\ Team = 0..(n - 1) /\ Bins = 0..(nbins - 1)
  BY TeamSize, BinsExist DEF Bins
<1>2. c \in Nat \ {0} /\ nbins <= n * c
  <2> DEFINE a == nbins + n - 1
  <2>1. a \in Nat /\ 1 * n <= a
    BY <1>1
  <2>2. c = a \div n
    BY DEF bin_chunk
  <2>3. c \in Nat /\ a < c * n + n /\ 1 <= c
    <3> HIDE DEF a
    <3> QED
      BY <1>1, <2>1, <2>2, DivMod, DivBound
  <2>4. c * n \in Nat /\ c * n = n * c
    BY <1>1, <2>3, TimesType
  <2> HIDE DEF c
  <2> QED
    BY <1>1, <2>3, <2>4
<1>3. \A t : BinStart(t) = t * c
  BY DEF BinStart
<1>3a. \A t : BinEnd(t) = IF BinStart(t) + c < nbins THEN BinStart(t) + c ELSE nbins
  BY DEF BinEnd
<1> HIDE DEF c, n
<1>4. \A t \in Nat : BinStart(t) \in Nat /\ BinStart(t + 1) = BinStart(t) + c
  BY <1>2, <1>3, TimesType
<1>5. ASSUME NEW t \in Team
      PROVE  /\ BinStart(t) <= BinStart(t + 1)
             /\ Own(t) = {b \in Bins : BinStart(t) <= b /\ b < BinStart(t + 1)}
             /\ BinEnd(t) = IF BinStart(t + 1) < nbins THEN BinStart(t + 1) ELSE nbins
  <2>1. BinStart(t) \in Nat /\ BinStart(t + 1) = BinStart(t) + c
    <3>1. t \in Nat
      BY <1>1
    <3> QED
      BY <1>4, <3>1
  <2>2. BinEnd(t) = IF BinStart(t + 1) < nbins THEN BinStart(t + 1) ELSE nbins
    BY <1>3a, <2>1
  <2>3. Own(t) = BinStart(t)..(BinEnd(t) - 1)
    BY DEF Own
  <2> QED
    BY <1>1, <1>2, <2>1, <2>2, <2>3
<1>6. ASSUME NEW t \in Team, NEW u \in Team, t < u PROVE BinStart(t + 1) <= BinStart(u)
  <2>1. t + 1 \in Nat /\ u \in Nat /\ t + 1 <= u
    BY <1>1, <1>6
  <2> QED
    BY <1>2, <1>3, <2>1, TimesUp
<1>7. ASSUME NEW b \in Bins PROVE \E t \in Team : b \in Own(t)
  <2> DEFINE t == b \div c
  <2>1. t \in Nat /\ t * c <= b /\ b < t * c + c
    BY <1>1, <1>2, DivMod
  <2>2. t <= n - 1
    <3>1. b < ((n - 1) + 1) * c
      BY <1>1, <1>2
    <3> QED
      BY <1>1, <1>2, <3>1, DivBound
  <2> HIDE DEF t
  <2>3. t \in Team
    BY <1>1, <2>1, <2>2
  <2>4. BinStart(t) <= b /\ b < BinStart(t + 1)
    BY <1>3, <1>4, <2>1
  <2> QED
    BY <1>5, <2>3, <2>4
<1>8. BinStart(0) = 0 /\ nbins <= BinStart(n)
  BY <1>2, <1>3
<1>9. \A t \in 0..n : BinStart(t) \in Nat
  <2>1. 0..n \subseteq Nat
    BY <1>1
  <2> QED
    BY <1>4, <2>1
<1> QED
  BY <1>5, <1>6, <1>7, <1>8, <1>9 DEF n

\* A bin has one owner.
LEMMA OneOwner ==
  ASSUME SortTypes, NEW t \in Team, NEW u \in Team, t # u
  PROVE  Own(t) \cap Own(u) = {}
<1>1. /\ t \in Nat /\ u \in Nat /\ \A b \in Bins : b \in Nat
      /\ t + 1 \in 0..nt /\ u + 1 \in 0..nt /\ t \in 0..nt /\ u \in 0..nt
  BY TeamSize, BinsExist DEF Bins
<1>2. \A w \in 0..nt : BinStart(w) \in Nat
  BY OwnBins
<1>3. t < u => BinStart(t + 1) <= BinStart(u)
  BY OwnBins
<1>4. u < t => BinStart(u + 1) <= BinStart(t)
  BY OwnBins
<1>5. \A b \in Own(t) : b \in Bins /\ BinStart(t) <= b /\ b < BinStart(t + 1)
  BY OwnBins
<1>6. \A b \in Own(u) : b \in Bins /\ BinStart(u) <= b /\ b < BinStart(u + 1)
  BY OwnBins
<1>7. BinStart(t) \in Nat /\ BinStart(u) \in Nat /\ BinStart(t + 1) \in Nat
      /\ BinStart(u + 1) \in Nat
  BY <1>1, <1>2
<1> QED
  BY <1>1, <1>3, <1>4, <1>5, <1>6, <1>7

\* A point is in one chunk: one at most ...
LEMMA OneChunk ==
  ASSUME SortTypes, NEW t \in Team, NEW u \in Team, t # u
  PROVE  Chunk(t) \cap Chunk(u) = {}
<1>1. /\ t \in Nat /\ u \in Nat
      /\ t \in 0..nt /\ u \in 0..nt /\ t + 1 \in 0..nt /\ u + 1 \in 0..nt
  BY TeamSize
<1>2. /\ brk(t) \in Nat /\ brk(u) \in Nat /\ brk(t + 1) \in Nat /\ brk(u + 1) \in Nat
      /\ t + 1 <= u => brk(t + 1) <= brk(u)
      /\ u + 1 <= t => brk(u + 1) <= brk(t)
  BY <1>1, TeamSize, Breaks
<1> QED
  BY <1>1, <1>2 DEF Chunk

\* ... and one at least.
LEMMA ChunkOf ==
  ASSUME SortTypes, NEW p \in Points
  PROVE  \E t \in Team : p \in Chunk(t)
<1>1. p \in 0..(M - 1) /\ M \in Nat \ {0} /\ nt \in Nat \ {0} /\ Team = 0..(nt - 1)
  BY TeamSize
<1>2. brk(0) = 0 /\ brk(nt) = M /\ \A k \in 0..nt : brk(k) \in 0..M
  BY Breaks
<1> DEFINE T == {k \in 0..nt : p < brk(k)}
<1>3. T \in SUBSET Nat /\ T # {}
  <2>1. nt \in T
    BY <1>1, <1>2
  <2> QED
    BY <1>1, <2>1
<1> HIDE DEF T
<1>4. PICK k \in T : \A j \in T : k <= j
  BY <1>3, LeastNat
<1>5. k \in 0..nt /\ p < brk(k) /\ k # 0
  BY <1>1, <1>2 DEF T
<1>6. k - 1 \in 0..nt /\ k - 1 \notin T /\ k - 1 + 1 = k
  BY <1>1, <1>4, <1>5
<1>7. brk(k - 1) <= p
  BY <1>1, <1>2, <1>6 DEF T
<1>8. p \in brk(k - 1)..(brk(k) - 1)
  BY <1>1, <1>2, <1>5, <1>6, <1>7
<1> QED
  BY <1>1, <1>5, <1>6, <1>8 DEF Chunk

\* A chunk is made of points.
LEMMA ChunkPoints ==
  ASSUME SortTypes, NEW t \in Team
  PROVE  /\ Chunk(t) \subseteq Points
         /\ brk(t) \in 0..M /\ brk(t + 1) \in 0..M /\ brk(t) <= brk(t + 1)
<1>1. t \in 0..nt /\ t + 1 \in 0..nt /\ t <= t + 1 /\ M \in Nat /\ Points = 0..(M - 1)
  BY TeamSize
<1>2. brk(t) \in 0..M /\ brk(t + 1) \in 0..M /\ brk(t) <= brk(t + 1)
  BY <1>1, Breaks
<1> QED
  BY <1>1, <1>2 DEF Chunk

-----------------------------------------------------------------------------
(* Counting points *)

\* Points and bins are numbers.
LEMMA Numbers ==
  ASSUME SortTypes
  PROVE  /\ \A p \in Points : p \in Nat /\ p < M /\ Bin(p) \in Bins /\ Bin(p) \in Nat
         /\ \A b \in Bins : b \in Nat /\ b < nbins
         /\ nbins \in Nat /\ M \in Nat
  BY TeamSize, BinsExist, BinType DEF Bins

\* A set of points has a size.
LEMMA PointsSize ==
  ASSUME SortTypes, NEW S \in SUBSET Points
  PROVE  IsFiniteSet(S) /\ Cardinality(S) \in Nat
  BY TeamSize, FS_Subset, FS_CardinalityType

\* The sizes of the sets of points the invariant speaks of.
LEMMA Sizes ==
  ASSUME SortTypes
  PROVE  /\ \A b, c : IsFiniteSet(Among(b, c)) /\ Cardinality(Among(b, c)) \in Nat
         /\ \A b, k : Rank(b, k) \in Nat
         /\ \A b : \A C \in SUBSET Points :
              IsFiniteSet(InBin(b, C)) /\ Cardinality(InBin(b, C)) \in Nat
<1>1. \A b, c : Among(b, c) \in SUBSET Points /\ Before(b, c) \in SUBSET Points
  BY DEF Among, Before
<1>2. \A b : \A C \in SUBSET Points : InBin(b, C) \in SUBSET Points
  BY DEF InBin
<1> QED
  BY <1>1, <1>2, PointsSize DEF Rank

\* The points of adjoining runs of bins add up.
LEMMA AmongSplit ==
  ASSUME SortTypes, NEW a \in Int, NEW b \in Int, NEW c \in Int, a <= b, b <= c
  PROVE  Cardinality(Among(a, c)) = Cardinality(Among(a, b)) + Cardinality(Among(b, c))
<1>1. Among(a, c) = Among(a, b) \cup Among(b, c)
  BY Numbers DEF Among
<1>2. Among(a, b) \cap Among(b, c) = {}
  BY Numbers DEF Among
<1> QED
  BY <1>1, <1>2, Sizes, CardDisjoint

\* No point is in an empty run of bins.
LEMMA AmongNone ==
  ASSUME SortTypes, NEW a \in Int
  PROVE  Cardinality(Among(a, a)) = 0
<1>1. Among(a, a) = {}
  BY Numbers DEF Among
<1> QED
  BY <1>1, FS_EmptySet

\* A run of one bin.
LEMMA AmongOne ==
  ASSUME SortTypes, NEW b \in Int
  PROVE  Among(b, b + 1) = InBin(b, Points)
  BY Numbers DEF Among, InBin

\* Beyond the last bin there is nothing more to count.
LEMMA AmongCut ==
  ASSUME SortTypes, NEW a, NEW c \in Int, nbins <= c
  PROVE  Among(a, c) = Among(a, nbins)
  BY Numbers DEF Among

\* Of a bin, the points below k and those from k up to l add up.
LEMMA InBinSplit ==
  ASSUME SortTypes, NEW b, NEW k \in 0..M, NEW l \in 0..M, k <= l
  PROVE  Cardinality(InBin(b, 0..(l - 1)))
           = Cardinality(InBin(b, 0..(k - 1))) + Cardinality(InBin(b, k..(l - 1)))
<1>1. /\ 0..(l - 1) \in SUBSET Points /\ 0..(k - 1) \in SUBSET Points
      /\ k..(l - 1) \in SUBSET Points
      /\ 0..(l - 1) = (0..(k - 1)) \cup (k..(l - 1))
      /\ (0..(k - 1)) \cap (k..(l - 1)) = {}
  BY TeamSize
<1>2. InBin(b, 0..(l - 1)) = InBin(b, 0..(k - 1)) \cup InBin(b, k..(l - 1))
  BY <1>1 DEF InBin
<1>3. InBin(b, 0..(k - 1)) \cap InBin(b, k..(l - 1)) = {}
  BY <1>1 DEF InBin
<1> QED
  BY <1>1, <1>2, <1>3, Sizes, CardDisjoint

\* A rank counts the points of the bins below and those of the bin before k.
LEMMA RankSplit ==
  ASSUME SortTypes, NEW b \in Bins, NEW k \in 0..M
  PROVE  Rank(b, k) = Cardinality(Among(0, b)) + Cardinality(InBin(b, 0..(k - 1)))
<1>1. 0..(k - 1) \in SUBSET Points
  BY TeamSize
<1>2. Before(b, k) = Among(0, b) \cup InBin(b, 0..(k - 1))
  <2>1. \A p \in Points : p \in 0..(k - 1) <=> p < k
    BY TeamSize
  <2>2. \A p \in Points : 0 <= Bin(p)
    BY Numbers
  <2> QED
    BY <1>1, <2>1, <2>2 DEF Before, Among, InBin
<1>3. Among(0, b) \cap InBin(b, 0..(k - 1)) = {}
  BY Numbers DEF Among, InBin
<1> QED
  BY <1>1, <1>2, <1>3, Sizes, CardDisjoint DEF Rank

\* Going past point k adds one to the rank in its own bin, nothing in others.
LEMMA RankNext ==
  ASSUME SortTypes, NEW k \in Points, NEW b
  PROVE  Rank(b, k + 1) = IF Bin(k) = b THEN Rank(b, k) + 1 ELSE Rank(b, k)
<1>1. \A p \in Points : p < k + 1 <=> (p < k \/ p = k)
  BY Numbers
<1>2. CASE Bin(k) = b
  <2>1. Before(b, k + 1) = Before(b, k) \cup {k}
    BY <1>1, <1>2 DEF Before
  <2>2. k \notin Before(b, k)
    BY <1>2, Numbers DEF Before
  <2>3. IsFiniteSet(Before(b, k)) /\ Cardinality(Before(b, k)) \in Nat
    BY PointsSize DEF Before
  <2> QED
    BY <1>2, <2>1, <2>2, <2>3, FS_AddElement DEF Rank
<1>3. CASE Bin(k) # b
  <2>1. Before(b, k + 1) = Before(b, k)
    BY <1>1, <1>3 DEF Before
  <2> QED
    BY <1>3, <2>1 DEF Rank
<1> QED
  BY <1>2, <1>3

\* Does point p come before point q in the order of the sort?
Precedes(p, q) == Bin(p) < Bin(q) \/ (Bin(p) = Bin(q) /\ p < q)

\* A point that comes before another has the lower rank.
LEMMA RankGrows ==
  ASSUME SortTypes, NEW p \in Points, NEW q \in Points, Precedes(p, q)
  PROVE  Rank(Bin(p), p) < Rank(Bin(q), q)
<1> DEFINE A == Before(Bin(p), p)
           B == Before(Bin(q), q)
<1>1. A \subseteq B /\ p \in B /\ p \notin A
  BY Numbers DEF Before, Precedes
<1>2. A \cup {p} \in SUBSET B /\ B \in SUBSET Points /\ A \in SUBSET Points
  BY <1>1 DEF Before
<1>3. IsFiniteSet(A) /\ IsFiniteSet(B) /\ Cardinality(A) \in Nat /\ Cardinality(B) \in Nat
  BY <1>2, PointsSize
<1> HIDE DEF A, B
<1>4. Cardinality(A \cup {p}) = Cardinality(A) + 1
  BY <1>1, <1>3, FS_AddElement
<1>5. Cardinality(A \cup {p}) <= Cardinality(B)
  BY <1>2, <1>3, FS_Subset
<1> QED
  BY <1>3, <1>4, <1>5 DEF Rank, A, B

\* Two points have different ranks.
LEMMA RankApart ==
  ASSUME SortTypes, NEW p \in Points, NEW q \in Points, p # q
  PROVE  Rank(Bin(p), p) # Rank(Bin(q), q)
<1>1. Precedes(p, q) \/ Precedes(q, p)
  BY Numbers DEF Precedes
<1>2. Rank(Bin(p), p) \in Nat /\ Rank(Bin(q), q) \in Nat
  BY Sizes
<1> QED
  BY <1>1, <1>2, RankGrows

\* A rank is a place in sortIndices.
LEMMA RankType ==
  ASSUME SortTypes, NEW p \in Points
  PROVE  Rank(Bin(p), p) \in Points
<1> DEFINE A == Before(Bin(p), p)
<1>1. p \notin A /\ A \cup {p} \in SUBSET Points /\ A \in SUBSET Points
  BY Numbers DEF Before
<1>2. IsFiniteSet(A) /\ Cardinality(A) \in Nat
  BY <1>1, PointsSize
<1> HIDE DEF A
<1>3. Cardinality(A \cup {p}) = Cardinality(A) + 1
  BY <1>1, <1>2, FS_AddElement
<1>4. IsFiniteSet(Points) /\ Cardinality(Points) = M /\ M \in Nat \ {0} /\ Points = 0..(M - 1)
  BY TeamSize, FS_Interval
<1>5. Cardinality(A \cup {p}) <= M
  BY <1>1, <1>4, FS_Subset
<1> QED
  BY <1>2, <1>3, <1>4, <1>5 DEF Rank, A

-----------------------------------------------------------------------------
(* What the scans compute *)

\* Scanning bin b over the threads counts the points of the bin in the chunks
\* before a thread's.
LEMMA ThreadScan ==
  ASSUME SortTypes, NEW b, NEW f,
         \A u \in Team : f[u] = Cardinality(InBin(b, Chunk(u)))
  PROVE  SumBelow(f, 0, nt) = [k \in 0..nt |-> Cardinality(InBin(b, 0..(brk(k) - 1)))]
<1> DEFINE g == [k \in 0..nt |-> Cardinality(InBin(b, 0..(brk(k) - 1)))]
<1>1. nt \in Nat \ {0} /\ Team = 0..(nt - 1) /\ M \in Nat
  BY TeamSize
<1>2. g[0] = 0
  <2>1. brk(0) = 0
    BY Breaks
  <2>2. InBin(b, 0..(brk(0) - 1)) = {}
    BY <2>1 DEF InBin
  <2> QED
    BY <1>1, <2>2, FS_EmptySet
<1>3. ASSUME NEW k \in 0..nt, k # 0 PROVE g[k] = g[k - 1] + f[k - 1]
  <2>1. k - 1 \in Team /\ k - 1 \in 0..nt /\ k - 1 + 1 = k
    BY <1>1, <1>3
  <2> DEFINE j == k - 1
  <2>2. brk(j) \in 0..M /\ brk(j + 1) \in 0..M /\ brk(j) <= brk(j + 1)
    BY <2>1, ChunkPoints
  <2>3. f[j] = Cardinality(InBin(b, brk(j)..(brk(j + 1) - 1)))
    BY <2>1 DEF Chunk
  <2>4. j \in 0..nt /\ j + 1 = k
    BY <2>1
  <2> HIDE DEF j
  <2>5. Cardinality(InBin(b, 0..(brk(j + 1) - 1)))
          = Cardinality(InBin(b, 0..(brk(j) - 1))) + f[j]
    BY <2>2, <2>3, InBinSplit
  <2>6. g[k] = g[j] + f[j]
    BY <2>4, <2>5
  <2> QED
    BY <2>6 DEF j
<1>4. g = [k \in 0..nt |-> IF k = 0 THEN 0 ELSE g[k - 1] + f[k - 1]]
  <2> DEFINE h == [k \in 0..nt |-> IF k = 0 THEN 0 ELSE g[k - 1] + f[k - 1]]
  <2>1. \A k \in 0..nt : g[k] = h[k]
    <3>1. DOMAIN g = 0..nt
      OBVIOUS
    <3> HIDE DEF g
    <3> QED
      BY <1>2, <1>3
  <2> QED
    BY <2>1
<1> HIDE DEF g
<1>5. SumBelow(f, 0, nt) = g
  BY <1>1, <1>4, SumIs
<1> QED
  BY <1>5 DEF g

\* Scanning the totals of bins from lo on counts the points of the bins below.
LEMMA BinScan ==
  ASSUME SortTypes, NEW lo \in Nat, NEW hi \in Nat, lo <= hi, NEW f,
         \A b \in lo..(hi - 1) : f[b] = Cardinality(InBin(b, Points))
  PROVE  SumBelow(f, lo, hi) = [k \in lo..hi |-> Cardinality(Among(lo, k))]
<1> DEFINE g == [k \in lo..hi |-> Cardinality(Among(lo, k))]
<1>1. g[lo] = 0
  BY AmongNone
<1>2. ASSUME NEW k \in lo..hi, k # lo PROVE g[k] = g[k - 1] + f[k - 1]
  <2> DEFINE j == k - 1
  <2>1. j \in lo..(hi - 1) /\ j \in lo..hi /\ j \in Int /\ j + 1 = k /\ j + 1 \in Int
        /\ lo <= j /\ j <= j + 1
    BY <1>2
  <2> HIDE DEF j
  <2>2. Cardinality(Among(lo, j + 1))
          = Cardinality(Among(lo, j)) + Cardinality(Among(j, j + 1))
    BY <2>1, AmongSplit
  <2>3. f[j] = Cardinality(Among(j, j + 1))
    BY <2>1, AmongOne
  <2>4. g[k] = g[j] + f[j]
    BY <2>1, <2>2, <2>3
  <2> QED
    BY <2>4 DEF j
<1>3. g = [k \in lo..hi |-> IF k = lo THEN 0 ELSE g[k - 1] + f[k - 1]]
  <2> DEFINE h == [k \in lo..hi |-> IF k = lo THEN 0 ELSE g[k - 1] + f[k - 1]]
  <2>1. \A k \in lo..hi : g[k] = h[k]
    <3> HIDE DEF g
    <3> QED
      BY <1>1, <1>2
  <2> QED
    BY <2>1
<1> HIDE DEF g
<1>4. SumBelow(f, lo, hi) = g
  BY <1>3, SumIs
<1> QED
  BY <1>4 DEF g

\* Scanning the totals of the threads counts the points of the bins of the
\* threads before.
LEMMA TotalScan ==
  ASSUME SortTypes, NEW f,
         \A t \in Team : f[t] = Cardinality(Among(BinStart(t), BinStart(t + 1)))
  PROVE  SumBelow(f, 0, nt) = [k \in 0..nt |-> Cardinality(Among(0, BinStart(k)))]
<1> DEFINE g == [k \in 0..nt |-> Cardinality(Among(0, BinStart(k)))]
<1>1. nt \in Nat \ {0} /\ Team = 0..(nt - 1)
  BY TeamSize
<1>2. g[0] = 0
  <2>1. BinStart(0) = 0
    BY OwnBins
  <2> QED
    BY <1>1, <2>1, AmongNone
<1>3. ASSUME NEW k \in 0..nt, k # 0 PROVE g[k] = g[k - 1] + f[k - 1]
  <2> DEFINE j == k - 1
  <2>1. j \in Team /\ j \in 0..nt /\ j + 1 = k /\ j + 1 \in 0..nt
    BY <1>1, <1>3
  <2> HIDE DEF j
  <2>2. BinStart(j) \in Nat /\ BinStart(j + 1) \in Nat /\ BinStart(j) <= BinStart(j + 1)
    BY <2>1, OwnBins
  <2>3. Cardinality(Among(0, BinStart(j + 1)))
          = Cardinality(Among(0, BinStart(j))) + f[j]
    BY <2>1, <2>2, AmongSplit
  <2>4. g[k] = g[j] + f[j]
    BY <2>1, <2>3
  <2> QED
    BY <2>4 DEF j
<1>4. g = [k \in 0..nt |-> IF k = 0 THEN 0 ELSE g[k - 1] + f[k - 1]]
  <2> DEFINE h == [k \in 0..nt |-> IF k = 0 THEN 0 ELSE g[k - 1] + f[k - 1]]
  <2>1. \A k \in 0..nt : g[k] = h[k]
    <3> HIDE DEF g
    <3> QED
      BY <1>2, <1>3
  <2> QED
    BY <2>1
<1> HIDE DEF g
<1>5. SumBelow(f, 0, nt) = g
  BY <1>1, <1>4, SumIs
<1> QED
  BY <1>5 DEF g

-----------------------------------------------------------------------------
(* The steps of the sort *)

\* What depends on the points and the team only does not change with the step.
LEMMA Fixed ==
  ASSUME UNCHANGED <<M, nthr, place>>
  PROVE  /\ nt' = nt /\ Team' = Team /\ Points' = Points
         /\ \A k : brk(k)' = brk(k) /\ Chunk(k)' = Chunk(k)
         /\ \A t : BinStart(t)' = BinStart(t) /\ Own(t)' = Own(t)
         /\ \A p : Bin(p)' = Bin(p)
         /\ \A b, c : Among(b, c)' = Among(b, c) /\ Rank(b, c)' = Rank(b, c)
         /\ \A b, C : InBin(b, C)' = InBin(b, C)
<1>1. nt' = nt
  BY DEF nt
<1>2. Team' = Team /\ Points' = Points
  BY <1>1 DEF Team, Points
<1>3. \A k : brk(k)' = brk(k) /\ Chunk(k)' = Chunk(k)
  BY <1>1 DEF brk, Chunk
<1>4. bin_chunk' = bin_chunk
  BY <1>1 DEF bin_chunk
<1>5. \A t : BinStart(t)' = BinStart(t) /\ Own(t)' = Own(t)
  BY <1>4 DEF BinStart, BinEnd, Own
<1>6. \A p : Bin(p)' = Bin(p)
  BY DEF Bin
<1>7. \A b, c : Among(b, c)' = Among(b, c) /\ Rank(b, c)' = Rank(b, c)
  BY <1>2, <1>6 DEF Among, Before, Rank
<1>8. \A b, C : InBin(b, C)' = InBin(b, C)
  BY <1>6 DEF InBin
<1> QED
  BY <1>1, <1>2, <1>3, <1>5, <1>6, <1>7, <1>8

\* Each slot of sortIndices is the rank of a point.
LEMMA RankOnto ==
  ASSUME SortTypes, NEW s \in Points
  PROVE  \E p \in Points : Rank(Bin(p), p) = s
<1> DEFINE f == [p \in Points |-> Rank(Bin(p), p)]
<1>1. f \in [Points -> Points]
  BY RankType
<1>2. \A p, q \in Points : f[p] = f[q] => p = q
  BY RankApart
<1>3. \A p \in Points : f[p] = Rank(Bin(p), p)
  OBVIOUS
<1> HIDE DEF f
<1>4. f \in Injection(Points, Points)
  BY <1>1, <1>2 DEF Injection, IsInjective
<1>5. IsFiniteSet(Points)
  BY TeamSize
<1>6. f \in Surjection(Points, Points)
  BY <1>4, <1>5, FS_Injection
<1>7. \E p \in Points : f[p] = s
  BY <1>6 DEF Surjection
<1> QED
  BY <1>3, <1>7

\* Arriving at a barrier never brings a thread past it.
LEMMA ArrivePhased ==
  ASSUME SortTypes, Phased, NEW t \in Team, Arrive(t), Team' = Team,
         step[t] \in {Counting, Scanning, Single, Finalizing, Placing}
  PROVE  Phased' /\ step' \in [Team -> 0..Left]
<1>1. step \in [Team -> 0..10] /\ step' = [step EXCEPT ![t] = step[t] + 1]
      /\ step[t] \in {0, 2, 4, 6, 8}
  BY DEF SortTypes, Arrive, Counting, Scanning, Single, Finalizing, Placing, Left
<1>2. step' \in [Team -> 0..10] /\ \A u \in Team : step[u] <= step'[u]
  BY <1>1
<1>3. \A u \in Team : \A phase \in {2, 4, 6, 8, 10} : step'[u] >= phase => step[u] >= phase
  BY <1>1
<1>4. \A v, u \in Team : \A phase \in {2, 4, 6, 8, 10} :
        step[v] >= phase => step[u] >= phase - 1
  BY DEF Phased, Scanning, Single, Finalizing, Placing, Left
<1>5. \A v, u \in Team : \A phase \in {2, 4, 6, 8, 10} :
         step'[v] >= phase => step'[u] >= phase - 1
  BY <1>1, <1>2, <1>3, <1>4
<1> QED
  BY <1>2, <1>5 DEF Phased, Scanning, Single, Finalizing, Placing, Left

\* A thread at a phase sees the others in it or at one of its two barriers.
LEMMA Together ==
  ASSUME SortTypes, Phased, NEW t \in Team, NEW u \in Team,
         step[t] \in {0, 2, 4, 6, 8}
  PROVE  step[u] \in Int /\ step[t] - 1 <= step[u] /\ step[u] <= step[t] + 1
<1>1. step[t] \in 0..10 /\ step[u] \in 0..10
  BY DEF SortTypes, Left
<1>2. \A phase \in {2, 4, 6, 8, 10} :
        /\ step[t] >= phase => step[u] >= phase - 1
        /\ step[u] >= phase => step[t] >= phase - 1
  BY DEF Phased, Scanning, Single, Finalizing, Placing, Left
<1> QED
  BY <1>1, <1>2

\* Counting a chunk.
LEMMA CountInv ==
  ASSUME IInv, NEW t \in Team, CountChunk(t)
  PROVE  IInv'
<1> USE DEF Counting, Scanning, Single, Finalizing, Placing
<1>1. /\ SortTypes /\ Phased /\ Histograms /\ Offsets /\ Placed /\ Sorted
      /\ UNCHANGED <<M, nthr, place>> /\ ~sorted /\ step[t] = 0
      /\ step' = [step EXCEPT ![t] = step[t] + 1]
      /\ counts' = [counts EXCEPT ![t] = [b \in Bins |-> Cardinality(InBin(b, Chunk(t)))]]
      /\ UNCHANGED <<sorted, bin_offset, thread_totals, i, sortIndices>>
  BY DEF IInv, CountChunk, At, Arrive
<1> USE DEF SortTypes
<1>2. Team' = Team /\ Points' = Points
  BY <1>1, Fixed
<1>3. Phased' /\ step' \in [Team -> 0..Left]
  BY <1>1, <1>2, ArrivePhased DEF Arrive
<1>4. \A u \in Team : /\ step[u] \in 0..1 /\ step'[u] \in 0..1
                      /\ u # t => step'[u] = step[u]
  BY <1>1, Together, SMTT(30) DEF Left
<1>5. counts' \in [Team -> [Bins -> Nat]]
  <2>1. \A b \in Bins : Cardinality(InBin(b, Chunk(t))) \in Nat
    BY <1>1, ChunkPoints, Sizes
  <2> QED
    BY <1>1, <2>1
<1>6. SortTypes'
  BY <1>1, <1>2, <1>3, <1>5
<1>7. Histograms'
  <2> SUFFICES ASSUME NEW v \in Team, NEW u \in Team, NEW b \in Own(v)
               PROVE  step'[u] > 0 => counts'[u][b] = Cardinality(InBin(b, Chunk(u)))
    BY <1>1, <1>2, <1>4, Fixed DEF Histograms
  <2>1. b \in Bins
    BY <1>1, OwnBins
  <2>2. CASE u = t
    BY <1>1, <2>1, <2>2
  <2>3. CASE u # t
    <3>1. counts'[u] = counts[u] /\ step'[u] = step[u] /\ step[v] <= 6
      BY <1>1, <1>4, <2>3
    <3> QED
      BY <1>1, <3>1 DEF Histograms
  <2> QED
    BY <2>2, <2>3
<1>8. Offsets'
  BY <1>1, <1>2, <1>4, Fixed DEF Offsets
<1>9. Placed'
  BY <1>1, <1>2, <1>4, Fixed DEF Placed
<1> QED
  BY <1>1, <1>3, <1>6, <1>7, <1>8, <1>9 DEF IInv, Sorted

\* Adding up bins.
LEMMA ScanInv ==
  ASSUME IInv, NEW t \in Team, ScanBins(t)
  PROVE  IInv'
<1> USE DEF Counting, Scanning, Single, Finalizing, Placing
<1> DEFINE Total(b) == SumBelow([u \in Team |-> counts[u][b]], 0, nt)[nt]
           total == [b \in Own(t) |-> Total(b)]
           running == SumBelow(total, BinStart(t), BinEnd(t))
<1>1. /\ SortTypes /\ Phased /\ Histograms /\ Offsets /\ Placed /\ Sorted
      /\ UNCHANGED <<M, nthr, place>> /\ ~sorted /\ step[t] = 2
      /\ step' = [step EXCEPT ![t] = step[t] + 1]
      /\ UNCHANGED <<sorted, counts, i, sortIndices>>
  BY DEF IInv, ScanBins, At, Arrive
<1>2. IF BinStart(t) < BinEnd(t)
        THEN /\ bin_offset' = [b \in Bins |-> IF b \in Own(t) THEN running[b]
                                                              ELSE bin_offset[b]]
             /\ thread_totals' = [thread_totals EXCEPT ![t] = running[BinEnd(t)]]
        ELSE /\ thread_totals' = [thread_totals EXCEPT ![t] = 0]
             /\ bin_offset' = bin_offset
  BY DEF ScanBins
<1>3. Team' = Team /\ Points' = Points
  BY <1>1, Fixed
<1>4. Phased' /\ step' \in [Team -> 0..Left]
  BY <1>1, <1>3, ArrivePhased DEF Arrive
<1>5. /\ step \in [Team -> 0..10] /\ counts \in [Team -> [Bins -> Nat]]
      /\ bin_offset \in [Bins -> Nat] /\ thread_totals \in [Team -> Nat]
  BY <1>1 DEF SortTypes, Left
<1>6. \A u \in Team : /\ step[u] \in 1..3 /\ step'[u] \in 1..3
                      /\ u # t => step'[u] = step[u]
  BY <1>1, <1>5, Together
<1>7. /\ BinStart(t) \in Nat /\ BinStart(t + 1) \in Nat /\ BinEnd(t) \in Nat
      /\ BinStart(t) <= BinStart(t + 1) /\ nbins \in Nat
      /\ BinEnd(t) = IF BinStart(t + 1) < nbins THEN BinStart(t + 1) ELSE nbins
      /\ Own(t) = BinStart(t)..(BinEnd(t) - 1) /\ Own(t) \subseteq Bins
  <2>1. t \in 0..nt /\ t + 1 \in 0..nt
    BY <1>1, TeamSize
  <2> QED
    BY <1>1, <2>1, OwnBins, BinsExist DEF Own
<1>8. ASSUME NEW b \in Own(t)
      PROVE  Total(b) = Cardinality(InBin(b, Points))
  <2> DEFINE f == [u \in Team |-> counts[u][b]]
  <2>1. \A u \in Team : f[u] = Cardinality(InBin(b, Chunk(u)))
    BY <1>1, <1>6 DEF Histograms
  <2>2. nt \in 0..nt /\ brk(nt) = M /\ Points = 0..(M - 1)
    BY <1>1, TeamSize, Breaks
  <2> HIDE DEF f
  <2>3. SumBelow(f, 0, nt) = [k \in 0..nt |-> Cardinality(InBin(b, 0..(brk(k) - 1)))]
    BY <1>1, <2>1, ThreadScan
  <2>4. SumBelow(f, 0, nt)[nt] = Cardinality(InBin(b, Points))
    BY <2>2, <2>3
  <2> QED
    BY <2>4 DEF f
<1>9. ASSUME BinStart(t) < BinEnd(t)
      PROVE  running = [k \in BinStart(t)..BinEnd(t) |-> Cardinality(Among(BinStart(t), k))]
  <2>1. \A b \in BinStart(t)..(BinEnd(t) - 1) : total[b] = Cardinality(InBin(b, Points))
    BY <1>7, <1>8
  <2> HIDE DEF total
  <2> QED
    BY <1>1, <1>7, <1>9, <2>1, BinScan
<1>10. Cardinality(Among(BinStart(t), BinEnd(t)))
         = Cardinality(Among(BinStart(t), BinStart(t + 1)))
  BY <1>1, <1>7, AmongCut
<1>11. ~(BinStart(t) < BinEnd(t)) => Cardinality(Among(BinStart(t), BinStart(t + 1))) = 0
  <2>1. ~(BinStart(t) < BinEnd(t)) => Among(BinStart(t), BinStart(t + 1)) = {}
    BY <1>1, <1>7, Numbers DEF Among
  <2> QED
    BY <2>1, FS_EmptySet
<1> HIDE DEF running
<1>12. /\ thread_totals' = [thread_totals EXCEPT
                              ![t] = Cardinality(Among(BinStart(t), BinStart(t + 1)))]
       /\ \A b \in Own(t) : bin_offset'[b] = Cardinality(Among(BinStart(t), b))
       /\ \A b \in Bins : b \notin Own(t) => bin_offset'[b] = bin_offset[b]
  <2>1. CASE BinStart(t) < BinEnd(t)
    <3>1. running[BinEnd(t)] = Cardinality(Among(BinStart(t), BinStart(t + 1)))
      BY <1>7, <1>9, <1>10, <2>1
    <3>2. \A b \in Own(t) : running[b] = Cardinality(Among(BinStart(t), b))
      BY <1>7, <1>9, <2>1
    <3> QED
      BY <1>2, <1>7, <2>1, <3>1, <3>2
  <2>2. CASE ~(BinStart(t) < BinEnd(t))
    <3>1. Own(t) = {}
      BY <1>7, <2>2
    <3> QED
      BY <1>2, <1>11, <2>2, <3>1
  <2> QED
    BY <2>1, <2>2
<1>13. SortTypes'
  <2>1. bin_offset' \in [Bins -> Nat]
    <3>1. \A b \in Bins : bin_offset'[b] \in Nat
      BY <1>1, <1>5, <1>12, Sizes
    <3>2. bin_offset' = [b \in Bins |-> bin_offset'[b]]
      BY <1>2, <1>5
    <3> QED
      BY <3>1, <3>2
  <2>2. thread_totals' \in [Team -> Nat]
    BY <1>1, <1>5, <1>12, Sizes
  <2> QED
    BY <1>1, <1>3, <1>4, <2>1, <2>2 DEF SortTypes
<1>14. Histograms'
  BY <1>1, <1>3, <1>6, Fixed DEF Histograms
<1>15. Offsets'
  <2>1. ASSUME NEW v \in Team, step'[v] > 2, NEW b \in Own(v)
        PROVE  bin_offset'[b] = Cardinality(Among(BinStart(v), b))
    <3>1. CASE v = t
      BY <1>12, <2>1, <3>1
    <3>2. CASE v # t
      <4>1. b \in Bins /\ b \notin Own(t) /\ step[v] > 2
        BY <1>1, <1>6, <2>1, <3>2, OwnBins, OneOwner
      <4> QED
        BY <1>1, <1>12, <2>1, <4>1 DEF Offsets
    <3> QED
      BY <3>1, <3>2
  <2>2. ASSUME NEW v \in Team
        PROVE  thread_totals'[v] = IF step'[v] > 2
                                     THEN Cardinality(Among(BinStart(v), BinStart(v + 1)))
                                     ELSE 0
    <3>1. CASE v = t
      BY <1>1, <1>5, <1>12, <3>1
    <3>2. CASE v # t
      BY <1>1, <1>5, <1>6, <1>12, <3>2 DEF Offsets
    <3> QED
      BY <3>1, <3>2
  <2> QED
    BY <1>1, <1>3, <1>6, <2>1, <2>2, Fixed DEF Offsets
<1>16. Placed'
  BY <1>1, <1>3, <1>6, Fixed DEF Placed
<1> QED
  BY <1>1, <1>4, <1>13, <1>14, <1>15, <1>16 DEF IInv, Sorted

\* The first thread to arrive scans the totals, the others pass by.
LEMMA TotalsInv ==
  ASSUME IInv, NEW t \in Team, ScanTotals(t)
  PROVE  IInv'
<1> USE DEF Counting, Scanning, Single, Finalizing, Placing
<1>1. /\ SortTypes /\ Phased /\ Histograms /\ Offsets /\ Placed /\ Sorted
      /\ UNCHANGED <<M, nthr, place>> /\ ~sorted /\ step[t] = 4
      /\ step' = [step EXCEPT ![t] = step[t] + 1]
      /\ thread_totals' = IF \A u \in Team : step[u] <= 4
                            THEN [u \in Team |-> SumBelow(thread_totals, 0, nt)[u]]
                            ELSE thread_totals
      /\ UNCHANGED <<sorted, counts, bin_offset, i, sortIndices>>
  BY DEF IInv, ScanTotals, At, Arrive
<1>2. Team' = Team /\ Points' = Points
  BY <1>1, Fixed
<1>3. Phased' /\ step' \in [Team -> 0..Left]
  BY <1>1, <1>2, ArrivePhased DEF Arrive
<1>4. step \in [Team -> 0..10] /\ thread_totals \in [Team -> Nat]
  BY <1>1 DEF SortTypes, Left
<1>5. \A u \in Team : /\ step[u] \in 3..5 /\ step'[u] \in 3..5
                      /\ u # t => step'[u] = step[u]
  BY <1>1, <1>4, Together
<1>6. step'[t] = 5
  BY <1>1, <1>4
<1>7. /\ thread_totals' \in [Team -> Nat]
      /\ \A v \in Team : thread_totals'[v] = Cardinality(Among(0, BinStart(v)))
  <2>1. CASE \A u \in Team : step[u] <= 4
    <3>1. \A v \in Team : thread_totals[v] = Cardinality(Among(BinStart(v), BinStart(v + 1)))
      BY <1>1, <1>5, <2>1 DEF Offsets
    <3>2. SumBelow(thread_totals, 0, nt)
            = [k \in 0..nt |-> Cardinality(Among(0, BinStart(k)))]
      BY <1>1, <3>1, TotalScan
    <3>3. \A v \in Team : v \in 0..nt
      BY <1>1, TeamSize
    <3>4. thread_totals' = [u \in Team |-> SumBelow(thread_totals, 0, nt)[u]]
      BY <1>1, <2>1
    <3>5. \A v \in Team :
            SumBelow(thread_totals, 0, nt)[v] = Cardinality(Among(0, BinStart(v)))
      BY <3>2, <3>3
    <3>6. \A v \in Team : Cardinality(Among(0, BinStart(v))) \in Nat
      BY <1>1, Sizes
    <3> QED
      BY <3>4, <3>5, <3>6
  <2>2. CASE ~(\A u \in Team : step[u] <= 4)
    <3>1. \E u \in Team : step[u] > 4
      BY <1>5, <2>2
    <3> QED
      BY <1>1, <1>4, <2>2, <3>1 DEF Offsets
  <2> QED
    BY <2>1, <2>2
<1>8. SortTypes'
  BY <1>1, <1>2, <1>3, <1>7 DEF SortTypes
<1>9. Histograms'
  BY <1>1, <1>2, <1>5, Fixed DEF Histograms
<1>10. Offsets'
  BY <1>1, <1>2, <1>5, <1>6, <1>7, Fixed DEF Offsets
<1>11. Placed'
  BY <1>1, <1>2, <1>5, Fixed DEF Placed
<1> QED
  BY <1>1, <1>3, <1>8, <1>9, <1>10, <1>11 DEF IInv, Sorted

\* Counts become slots.
LEMMA FinalizeInv ==
  ASSUME IInv, NEW t \in Team, Finalize(t)
  PROVE  IInv'
<1> USE DEF Counting, Scanning, Single, Finalizing, Placing
<1>1. /\ SortTypes /\ Phased /\ Histograms /\ Offsets /\ Placed /\ Sorted
      /\ UNCHANGED <<M, nthr, place>> /\ ~sorted /\ step[t] = 6
      /\ step' = [step EXCEPT ![t] = step[t] + 1]
      /\ counts' = [u \in Team |-> [b \in Bins |->
                      IF b \in Own(t) THEN FirstSlot(t, b, u) ELSE counts[u][b]]]
      /\ UNCHANGED <<sorted, bin_offset, thread_totals, i, sortIndices>>
  BY DEF IInv, Finalize, At, Arrive
<1>2. Team' = Team /\ Points' = Points
  BY <1>1, Fixed
<1>3. Phased' /\ step' \in [Team -> 0..Left]
  BY <1>1, <1>2, ArrivePhased DEF Arrive
<1>4. step \in [Team -> 0..10] /\ counts \in [Team -> [Bins -> Nat]]
  BY <1>1 DEF SortTypes, Left
<1>5. \A u \in Team : /\ step[u] \in 5..7 /\ step'[u] \in 5..7
                      /\ u # t => step'[u] = step[u]
  BY <1>1, <1>4, Together
<1>6. ASSUME NEW b \in Own(t), NEW u \in Team
      PROVE  FirstSlot(t, b, u) = Rank(b, brk(u)) /\ i[u] = brk(u) /\ b \in Bins
  <2> DEFINE f == [w \in Team |-> counts[w][b]]
  <2>1. \A w \in Team : f[w] = Cardinality(InBin(b, Chunk(w)))
    BY <1>1, <1>5 DEF Histograms
  <2>2. u \in 0..nt /\ t \in 0..nt
    BY <1>1, TeamSize
  <2>3. b \in Bins /\ BinStart(t) \in Nat /\ b \in Nat /\ BinStart(t) <= b
    BY <1>1, <2>2, OwnBins, Numbers
  <2>4. bin_offset[b] = Cardinality(Among(BinStart(t), b))
        /\ thread_totals[t] = Cardinality(Among(0, BinStart(t)))
    BY <1>1, <1>5 DEF Offsets
  <2>5. Cardinality(Among(0, b))
          = Cardinality(Among(0, BinStart(t))) + Cardinality(Among(BinStart(t), b))
    BY <1>1, <2>3, AmongSplit
  <2>6. brk(u) \in 0..M
    BY <1>1, ChunkPoints
  <2>7. FirstSlot(t, b, u) = bin_offset[b] + thread_totals[t] + SumBelow(f, 0, nt)[u]
    BY DEF FirstSlot
  <2> HIDE DEF f
  <2>8. SumBelow(f, 0, nt)[u] = Cardinality(InBin(b, 0..(brk(u) - 1)))
    <3>1. SumBelow(f, 0, nt) = [k \in 0..nt |-> Cardinality(InBin(b, 0..(brk(k) - 1)))]
      BY <1>1, <2>1, ThreadScan
    <3> QED
      BY <2>2, <3>1
  <2>9. Rank(b, brk(u)) = Cardinality(Among(0, b)) + Cardinality(InBin(b, 0..(brk(u) - 1)))
    BY <1>1, <2>3, <2>6, RankSplit
  <2>10. /\ Cardinality(Among(0, BinStart(t))) \in Nat
         /\ Cardinality(Among(BinStart(t), b)) \in Nat
         /\ Cardinality(InBin(b, 0..(brk(u) - 1))) \in Nat
    <3>1. 0..(brk(u) - 1) \in SUBSET Points
      BY <1>1, <2>6, TeamSize
    <3> QED
      BY <1>1, <3>1, Sizes
  <2>11. FirstSlot(t, b, u) = Rank(b, brk(u))
    BY <2>4, <2>5, <2>7, <2>8, <2>9, <2>10
  <2>12. i[u] = brk(u)
    BY <1>1, <1>5 DEF Placed
  <2> QED
    BY <2>3, <2>11, <2>12
<1>7. SortTypes'
  <2>1. counts' \in [Team -> [Bins -> Nat]]
    <3>1. ASSUME NEW u \in Team, NEW b \in Bins
          PROVE  (IF b \in Own(t) THEN FirstSlot(t, b, u) ELSE counts[u][b]) \in Nat
      BY <1>1, <1>4, <1>6, Sizes
    <3> QED
      BY <1>1, <3>1
  <2> QED
    BY <1>1, <1>2, <1>3, <2>1 DEF SortTypes
<1>8. Histograms'
  <2>1. ASSUME NEW v \in Team, NEW u \in Team, NEW b \in Own(v)
        PROVE  /\ step'[v] <= 6 => counts'[u][b] = Cardinality(InBin(b, Chunk(u)))
               /\ step'[v] > 6 => counts'[u][b] = Rank(b, i[u])
    <3>1. b \in Bins
      BY <1>1, OwnBins
    <3>2. CASE v = t
      <4>1. step'[v] = 7
        BY <1>1, <1>4, <3>2
      <4>2. counts'[u][b] = FirstSlot(t, b, u)
        BY <1>1, <3>1, <3>2
      <4> QED
        BY <1>6, <3>2, <4>1, <4>2
    <3>3. CASE v # t
      <4>1. b \notin Own(t) /\ step'[v] = step[v] /\ step[u] > 0
        BY <1>1, <1>5, <3>3, OneOwner
      <4>2. counts'[u][b] = counts[u][b]
        BY <1>1, <3>1, <4>1
      <4> QED
        BY <1>1, <4>1, <4>2 DEF Histograms
    <3> QED
      BY <3>2, <3>3
  <2> QED
    BY <1>1, <1>2, <2>1, Fixed DEF Histograms
<1>9. Offsets'
  BY <1>1, <1>2, <1>5, Fixed DEF Offsets
<1>10. Placed'
  BY <1>1, <1>2, <1>5, Fixed DEF Placed
<1> QED
  BY <1>1, <1>3, <1>7, <1>8, <1>9, <1>10 DEF IInv, Sorted

\* Placing the next point of a chunk, or finding that it was the last.
LEMMA PlaceInv ==
  ASSUME IInv, NEW t \in Team, PlacePoint(t)
  PROVE  IInv'
<1> USE DEF Counting, Scanning, Single, Finalizing, Placing
<1> DEFINE k == i[t]
           b == Bin(k)
<1>1. /\ SortTypes /\ Phased /\ Histograms /\ Offsets /\ Placed /\ Sorted
      /\ UNCHANGED <<M, nthr, place>> /\ ~sorted /\ step[t] = 8
      /\ UNCHANGED <<sorted, bin_offset, thread_totals>>
  BY DEF IInv, PlacePoint, At
<1>2. Team' = Team /\ Points' = Points
  BY <1>1, Fixed
<1>3. /\ step \in [Team -> 0..10] /\ counts \in [Team -> [Bins -> Nat]]
      /\ i \in [Team -> Int] /\ sortIndices \in [Points -> Points \cup {Unset}]
  BY <1>1 DEF SortTypes, Left
<1>4. \A u \in Team : step[u] \in 7..9
  BY <1>1, <1>3, Together
<1>5. \A u \in Team, c \in Bins : counts[u][c] = Rank(c, i[u])
  <2> TAKE u \in Team, c \in Bins
  <2>1. PICK v \in Team : c \in Own(v)
    BY <1>1, OwnBins
  <2> QED
    BY <1>1, <1>4, <2>1 DEF Histograms
<1>6. CASE k \in Chunk(t)
  <2>1. /\ sortIndices' = [sortIndices EXCEPT ![counts[t][b]] = k]
        /\ counts' = [counts EXCEPT ![t][b] = counts[t][b] + 1]
        /\ i' = [i EXCEPT ![t] = k + 1]
        /\ step' = step
    BY <1>6 DEF PlacePoint
  <2>2. k \in Points /\ b \in Bins /\ k \in Nat
    BY <1>1, <1>6, ChunkPoints, Numbers
  <2> HIDE DEF b, k
  <2>3. counts[t][b] = Rank(b, k) /\ Rank(b, k) \in Points /\ b = Bin(k) /\ k = i[t]
    BY <1>1, <1>5, <2>2, RankType DEF b, k
  <2>4. \A c \in Bins : /\ counts'[t][c] = Rank(c, k + 1)
                        /\ counts'[t][c] \in Nat
    <3> TAKE c \in Bins
    <3>1. Rank(c, k + 1) = IF b = c THEN Rank(c, k) + 1 ELSE Rank(c, k)
      BY <1>1, <2>2, <2>3, RankNext
    <3>2. counts'[t][c] = IF c = b THEN counts[t][b] + 1 ELSE counts[t][c]
      BY <1>3, <2>1, <2>2
    <3>3. counts[t][c] = Rank(c, k) /\ counts[t][c] \in Nat
      BY <1>3, <1>5, <2>3
    <3> QED
      BY <3>1, <3>2, <3>3
  <2>5. \A u \in Team : u # t => counts'[u] = counts[u] /\ i'[u] = i[u]
    BY <1>3, <2>1
  <2>6. i'[t] = k + 1 /\ i' \in [Team -> Int]
    BY <1>3, <2>1, <2>2
  <2>7. SortTypes'
    <3>1. counts' \in [Team -> [Bins -> Nat]]
      BY <1>3, <2>1, <2>2, <2>4
    <3>2. sortIndices' \in [Points -> Points \cup {Unset}]
      BY <1>3, <2>1, <2>2, <2>3
    <3> QED
      BY <1>1, <1>2, <2>1, <2>6, <3>1, <3>2 DEF SortTypes
  <2>8. Histograms'
    <3>1. \A u \in Team, c \in Bins : counts'[u][c] = Rank(c, i'[u])
      <4> TAKE u \in Team, c \in Bins
      <4>1. CASE u = t
        BY <2>4, <2>6, <4>1
      <4>2. CASE u # t
        BY <1>5, <2>5, <4>2
      <4> QED
        BY <4>1, <4>2
    <3>2. \A v \in Team : Own(v) \subseteq Bins /\ Own(v)' = Own(v)
      BY <1>1, OwnBins, Fixed
    <3> QED
      BY <1>1, <1>2, <1>4, <2>1, <3>1, <3>2, Fixed DEF Histograms
  <2>9. Placed'
    <3>1. /\ i[t] \in brk(t)..brk(t + 1) /\ k <= brk(t + 1) - 1
          /\ brk(t) \in Nat /\ brk(t + 1) \in Nat
      BY <1>1, <1>6, ChunkPoints DEF Placed, Chunk, k
    <3>2. i'[t] \in brk(t)..brk(t + 1)
      BY <2>2, <2>3, <2>6, <3>1
    <3>3. ASSUME NEW u \in Team, NEW p \in Chunk(u), p < i'[u]
          PROVE  sortIndices'[Rank(Bin(p), p)] = p
      <4>1. p \in Points /\ Rank(Bin(p), p) \in Points /\ p \in Nat
        BY <1>1, ChunkPoints, RankType, Numbers
      <4>2. CASE p = k
        BY <1>3, <2>1, <2>3, <4>1, <4>2
      <4>3. CASE p # k
        <5>1. p < i[u]
          BY <2>2, <2>3, <2>5, <2>6, <3>3, <4>1, <4>3
        <5>2. sortIndices[Rank(Bin(p), p)] = p
          BY <1>1, <5>1 DEF Placed
        <5>3. Rank(Bin(p), p) # Rank(b, k)
          BY <1>1, <2>2, <2>3, <4>1, <4>3, RankApart
        <5> QED
          BY <1>3, <2>1, <2>3, <4>1, <5>2, <5>3
      <4> QED
        BY <4>2, <4>3
    <3>4. \A u \in Team : i'[u] \in brk(u)..brk(u + 1)
      BY <1>1, <2>5, <3>2 DEF Placed
    <3>5. \A u \in Team : /\ ~(step'[u] < 8)
                            \/ i'[u] = brk(u)
                          /\ step'[u] > 8 => i'[u] = brk(u + 1)
      <4> TAKE u \in Team
      <4>1. CASE u = t
        BY <1>1, <2>1, <4>1
      <4>2. CASE u # t
        BY <1>1, <1>4, <2>1, <2>5, <4>2 DEF Placed
      <4> QED
        BY <4>1, <4>2
    <3>6. \A u \in Team : step'[u] < 8 => i'[u] = brk(u)
      BY <3>5
    <3> QED
      BY <1>1, <1>2, <3>3, <3>4, <3>5, <3>6, Fixed DEF Placed
  <2>10. Phased'
    BY <1>1, <1>2, <2>1 DEF Phased
  <2>11. Offsets'
    BY <1>1, <1>2, <2>1, Fixed DEF Offsets
  <2> QED
    BY <1>1, <2>7, <2>8, <2>9, <2>10, <2>11 DEF IInv, Sorted
<1>7. CASE k \notin Chunk(t)
  <2>1. /\ step' = [step EXCEPT ![t] = step[t] + 1] /\ Arrive(t)
        /\ UNCHANGED <<sortIndices, counts, i>>
    BY <1>7 DEF PlacePoint, Arrive
  <2>2. Phased' /\ step' \in [Team -> 0..Left]
    BY <1>1, <1>2, <2>1, ArrivePhased
  <2>3. SortTypes'
    BY <1>1, <1>2, <2>1, <2>2 DEF SortTypes
  <2>4. \A u \in Team : step'[u] \in 7..9 /\ (u # t => step'[u] = step[u])
    BY <1>1, <1>3, <1>4, <2>1
  <2>5. Histograms'
    BY <1>1, <1>2, <1>4, <2>1, <2>4, Fixed DEF Histograms
  <2>6. Offsets'
    BY <1>1, <1>2, <1>4, <2>1, <2>4, Fixed DEF Offsets
  <2>7. i[t] = brk(t + 1)
    <3>1. i[t] \in brk(t)..brk(t + 1) /\ brk(t) \in Nat /\ brk(t + 1) \in Nat
      BY <1>1, ChunkPoints DEF Placed
    <3> QED
      BY <1>7, <3>1 DEF Chunk
  <2>8. step'[t] = 9
    BY <1>1, <1>3, <2>1
  <2>9. Placed'
    <3>1. \A u \in Team : step'[u] > 8 => i[u] = brk(u + 1)
      BY <1>1, <2>4, <2>7 DEF Placed
    <3>2. \A u \in Team : step'[u] < 8 => i[u] = brk(u)
      BY <1>1, <2>4, <2>8 DEF Placed
    <3> QED
      BY <1>1, <1>2, <2>1, <3>1, <3>2, Fixed DEF Placed
  <2> QED
    BY <1>1, <2>2, <2>3, <2>5, <2>6, <2>9 DEF IInv, Sorted
<1> QED
  BY <1>6, <1>7

\* Leaving a barrier: the thread's phase begins when everyone's last is over.
LEMMA BarrierInv ==
  ASSUME IInv, NEW t \in Team, Barrier(t)
  PROVE  IInv'
<1> USE DEF Counting, Scanning, Single, Finalizing, Placing
<1>1. /\ SortTypes /\ Phased /\ Histograms /\ Offsets /\ Placed /\ Sorted
      /\ UNCHANGED <<M, nthr, place>> /\ ~sorted /\ step[t] % 2 = 1
      /\ \A u \in Team : step[u] >= step[t]
      /\ step' = [step EXCEPT ![t] = step[t] + 1]
      /\ UNCHANGED <<sorted, counts, bin_offset, thread_totals, i, sortIndices>>
  BY DEF IInv, Barrier, Opens, Arrive
<1>2. Team' = Team /\ Points' = Points
  BY <1>1, Fixed
<1>3. step \in [Team -> 0..10]
  BY <1>1 DEF SortTypes, Left
<1>4. step[t] \in {1, 3, 5, 7, 9}
  BY <1>1, <1>3
<1>5. step' \in [Team -> 0..10] /\ step'[t] = step[t] + 1
      /\ \A u \in Team : u # t => step'[u] = step[u]
  BY <1>1, <1>3, <1>4
<1>6. Phased'
  <2>1. ASSUME NEW v \in Team, NEW u \in Team, NEW phase \in {2, 4, 6, 8, 10},
               step'[v] >= phase
        PROVE  step'[u] >= phase - 1
    <3>1. step'[u] >= step[u] /\ step[u] \in 0..10 /\ step[v] \in 0..10
      BY <1>3, <1>5
    <3>2. CASE step[v] >= phase
      BY <1>1, <3>1, <3>2, <1>5 DEF Phased, Left
    <3>3. CASE ~(step[v] >= phase)
      <4>1. v = t /\ phase = step[t] + 1
        BY <1>5, <2>1, <3>1, <3>3
      <4> QED
        BY <1>1, <1>4, <1>5, <3>1, <4>1
    <3> QED
      BY <3>2, <3>3
  <2> QED
    BY <1>2, <2>1 DEF Phased, Left
<1>7. SortTypes'
  BY <1>1, <1>2, <1>5 DEF SortTypes, Left
<1>8. \A u \in Team : /\ step[u] \in 0..10 /\ step'[u] \in 0..10
                      /\ step'[u] > 0 => step[u] > 0
                      /\ step'[u] > 2 <=> step[u] > 2
                      /\ step'[u] > 4 <=> step[u] > 4
                      /\ step'[u] > 6 <=> step[u] > 6
                      /\ step'[u] < 8 => step[u] < 8
                      /\ step'[u] > 8 <=> step[u] > 8
  BY <1>3, <1>4, <1>5
<1>9. Histograms'
  <2>1. \A u \in Team : step'[u] <= 6 <=> step[u] <= 6
    BY <1>8
  <2> QED
    BY <1>1, <1>2, <1>8, <2>1, Fixed DEF Histograms
<1>10. Offsets'
  BY <1>1, <1>2, <1>8, Fixed DEF Offsets
<1>11. Placed'
  BY <1>1, <1>2, <1>8, Fixed DEF Placed
<1> QED
  BY <1>1, <1>6, <1>7, <1>9, <1>10, <1>11 DEF IInv, Sorted

\* The region ends with every point placed.
LEMMA EndInv ==
  ASSUME IInv, EndSort
  PROVE  IInv'
<1>1. /\ SortTypes /\ Phased /\ Histograms /\ Offsets /\ Placed /\ Sorted
      /\ UNCHANGED <<M, nthr, place, step, counts, bin_offset, thread_totals, i, sortIndices>>
      /\ sorted' = TRUE /\ \A t \in Team : step[t] = 10
  BY DEF IInv, EndSort, Left
<1>2. Team' = Team /\ Points' = Points
  BY <1>1, Fixed
<1>3. \A p \in Points : sortIndices[Rank(Bin(p), p)] = p
  <2> TAKE p \in Points
  <2>1. PICK t \in Team : p \in Chunk(t)
    BY <1>1, ChunkOf
  <2>2. i[t] = brk(t + 1) /\ p < brk(t + 1)
    BY <1>1, <2>1, ChunkPoints DEF Placed, Placing, Chunk
  <2> QED
    BY <1>1, <2>1, <2>2 DEF Placed
<1>4. Sorted'
  BY <1>1, <1>2, <1>3, Fixed DEF Sorted
<1>5. SortTypes'
  <2>1. sorted' \in BOOLEAN
    BY <1>1
  <2> QED
    BY <1>1, <1>2, <2>1 DEF SortTypes
<1>6. Phased' /\ Histograms' /\ Offsets' /\ Placed'
  BY <1>1, <1>2, Fixed DEF Phased, Histograms, Offsets, Placed
<1> QED
  BY <1>4, <1>5, <1>6 DEF IInv

\* The serial sort puts every point at its rank.
LEMMA SerialInv ==
  ASSUME IInv, SerialSort
  PROVE  IInv'
<1> DEFINE hist == [b \in Bins |-> Cardinality(InBin(b, Points))]
           offset == SumBelow(hist, 0, nbins)
           Slot(p) == offset[Bin(p)] + Cardinality({q \in InBin(Bin(p), Points) : q < p})
<1>1. /\ SortTypes /\ Phased /\ Histograms /\ Offsets /\ Placed /\ Sorted
      /\ UNCHANGED <<M, nthr, place, step, counts, bin_offset, thread_totals, i>>
      /\ sorted' = TRUE
      /\ sortIndices' = [s \in Points |-> CHOOSE p \in Points : Slot(p) = s]
  BY DEF IInv, SerialSort
<1>2. Team' = Team /\ Points' = Points
  BY <1>1, Fixed
<1>3. offset = [k \in 0..nbins |-> Cardinality(Among(0, k))]
  <2>1. \A b \in 0..(nbins - 1) : hist[b] = Cardinality(InBin(b, Points))
    BY DEF Bins
  <2>2. nbins \in Nat /\ 0 <= nbins /\ 0 \in Nat
    BY BinsExist
  <2> HIDE DEF hist
  <2> QED
    BY <1>1, <2>1, <2>2, BinScan
<1>4. ASSUME NEW p \in Points PROVE Slot(p) = Rank(Bin(p), p)
  <2>1. Bin(p) \in Bins /\ Bin(p) \in 0..nbins /\ p \in 0..M
    BY <1>1, Numbers
  <2>2. {q \in InBin(Bin(p), Points) : q < p} = InBin(Bin(p), 0..(p - 1))
    <3>1. \A q : q \in 0..(p - 1) <=> (q \in Points /\ q < p)
      BY <2>1, <1>1, TeamSize
    <3> QED
      BY <3>1 DEF InBin
  <2>3. offset[Bin(p)] = Cardinality(Among(0, Bin(p)))
    BY <1>3, <2>1
  <2> QED
    BY <1>1, <2>1, <2>2, <2>3, RankSplit
<1> HIDE DEF Slot
<1>5. \A s \in Points : /\ sortIndices'[s] \in Points
                        /\ Slot(sortIndices'[s]) = s
  <2> TAKE s \in Points
  <2>1. \E p \in Points : Slot(p) = s
    BY <1>1, <1>4, RankOnto
  <2> QED
    BY <1>1, <2>1
<1>6. \A p \in Points : sortIndices'[Rank(Bin(p), p)] = p
  <2> TAKE p \in Points
  <2>1. Rank(Bin(p), p) \in Points
    BY <1>1, RankType
  <2> DEFINE q == sortIndices'[Rank(Bin(p), p)]
  <2>2. q \in Points /\ Slot(q) = Rank(Bin(p), p)
    BY <1>5, <2>1
  <2> HIDE DEF q
  <2>3. Rank(Bin(q), q) = Rank(Bin(p), p)
    BY <1>4, <2>2
  <2>4. q = p
    BY <1>1, <2>2, <2>3, RankApart
  <2> QED
    BY <2>4 DEF q
<1>7. SortTypes'
  <2>1. sorted' \in BOOLEAN
    BY <1>1
  <2>2. sortIndices' \in [Points -> Points \cup {Unset}]
    <3>1. sortIndices' = [s \in Points |-> sortIndices'[s]]
      BY <1>1
    <3> QED
      BY <1>5, <3>1
  <2> QED
    BY <1>1, <1>2, <2>1, <2>2 DEF SortTypes
<1>8. Sorted'
  BY <1>1, <1>2, <1>6, Fixed DEF Sorted
<1>9. Placed'
  <2>1. \A t \in Team : Chunk(t) \subseteq Points
    BY <1>1, ChunkPoints
  <2> QED
    BY <1>1, <1>2, <1>6, <2>1, Fixed DEF Placed
<1>10. Phased' /\ Histograms' /\ Offsets'
  BY <1>1, <1>2, Fixed DEF Phased, Histograms, Offsets
<1> QED
  BY <1>7, <1>8, <1>9, <1>10 DEF IInv

-----------------------------------------------------------------------------
(* The invariant of the specification *)

\* It holds when the transform begins.
LEMMA InitInv == Init => IInv
<1> SUFFICES ASSUME Init PROVE IInv
  OBVIOUS
<1>1. /\ M \in Nat \ {0} /\ nthr \in Nat \ {0} /\ sorted = FALSE
      /\ step = [t \in Team |-> 0]
      /\ counts = [t \in Team |-> [b \in Bins |-> 0]]
      /\ bin_offset = [b \in Bins |-> 0]
      /\ thread_totals = [t \in Team |-> 0]
      /\ i = [t \in Team |-> brk(t)]
      /\ sortIndices = [s \in Points |-> Unset]
  BY BinSortAssumption DEF Init, Counting
<1>2. nt \in Nat \ {0} /\ Team = 0..(nt - 1)
  BY <1>1 DEF nt, Team
<1>3. \A t \in Team : brk(t) \in Int
  <2>1. \A t \in Team : 2 * M * t + nt \in Int /\ 2 * nt \in Nat \ {0}
    BY <1>1, <1>2
  <2> QED
    BY <2>1 DEF brk
<1>4. SortTypes
  <2>1. M \in 1..MaxM /\ nthr \in 1..MaxThreads /\ place \in [Points -> Places]
    BY DEF Init
  <2>2. /\ step \in [Team -> 0..10] /\ counts \in [Team -> [Bins -> Nat]]
        /\ bin_offset \in [Bins -> Nat] /\ thread_totals \in [Team -> Nat]
    BY <1>1
  <2>3. i \in [Team -> Int] /\ sortIndices \in [Points -> Points \cup {Unset}]
    BY <1>1, <1>3
  <2>4. sorted \in BOOLEAN
    BY <1>1
  <2> QED
    BY <2>1, <2>2, <2>3, <2>4 DEF SortTypes, Left
<1>5. \A t \in Team : step[t] = 0 /\ thread_totals[t] = 0 /\ i[t] = brk(t)
  BY <1>1
<1>6. Phased /\ Histograms /\ Offsets /\ Sorted
  BY <1>1, <1>5
     DEF Phased, Histograms, Offsets, Sorted, Counting, Scanning, Single, Finalizing,
         Placing, Left
<1>7. Placed
  <2> SUFFICES ASSUME NEW t \in Team
               PROVE  /\ i[t] \in brk(t)..brk(t + 1)
                      /\ \A p \in Chunk(t) : ~(p < i[t])
    BY <1>5 DEF Placed, Placing
  <2>1. brk(t) \in Nat /\ brk(t + 1) \in Nat /\ brk(t) <= brk(t + 1) /\ i[t] = brk(t)
    BY <1>4, <1>5, ChunkPoints
  <2> QED
    BY <2>1 DEF Chunk
<1> QED
  BY <1>4, <1>6, <1>7 DEF IInv

\* A step of the spreader, or none, leaves the sort's state alone.
LEMMA OtherInv ==
  ASSUME IInv, UNCHANGED sortVars
  PROVE  IInv'
<1>1. /\ SortTypes /\ Phased /\ Histograms /\ Offsets /\ Placed /\ Sorted
      /\ UNCHANGED <<M, nthr, place>>
      /\ UNCHANGED <<sorted, step, counts, bin_offset, thread_totals, i, sortIndices>>
  BY DEF IInv, sortVars
<1>2. Team' = Team /\ Points' = Points
  BY <1>1, Fixed
<1>3. SortTypes'
  BY <1>1, <1>2 DEF SortTypes
<1>4. Phased' /\ Histograms' /\ Offsets' /\ Placed' /\ Sorted'
  BY <1>1, <1>2, Fixed DEF Phased, Histograms, Offsets, Placed, Sorted
<1> QED
  BY <1>3, <1>4 DEF IInv

\* Every step of indexSort's threads and of the spreader's keeps the invariant.
THEOREM SortInvariant == Spec => []IInv
<1>1. IInv /\ [Next]_vars => IInv'
  <2> SUFFICES ASSUME IInv, [Next]_vars PROVE IInv'
    OBVIOUS
  <2>1. CASE SortNext
    BY <2>1, SerialInv, EndInv, CountInv, ScanInv, TotalsInv, FinalizeInv, PlaceInv,
       BarrierInv DEF SortNext, SortThread
  <2>2. CASE UNCHANGED sortVars
    BY <2>2, OtherInv
  <2>3. SortNext \/ UNCHANGED sortVars
    BY DEF Next, Sort, Join, SpreadThread, Take, AddAtomic, Enter, Load, Store, vars
  <2> QED
    BY <2>1, <2>2, <2>3
<1>2. SpreadInit => IInv
  BY InitInv DEF SpreadInit
<1> QED
  BY <1>1, <1>2, PTL DEF Spec

-----------------------------------------------------------------------------
(* What the sort promises *)

\* Whatever the schedule, for any number of threads, points and bins, the threads
\* of the sort never access an element at once that one of them writes.
THEOREM SortRaceFree == Spec => []NoSortRace
<1>1. IInv => NoSortRace
  <2> SUFFICES ASSUME IInv, NEW t \in Team, NEW u \in Team, t # u,
                      NEW x \in Writes(t), x \in Writes(u) \cup Reads(u)
               PROVE  FALSE
    BY DEF NoSortRace
  <2>1. SortTypes /\ Phased /\ Histograms /\ Placed
    BY DEF IInv
  <2>2. step[t] \in 0..10 /\ step[u] \in 0..10
    BY <2>1 DEF SortTypes, Left
  <2> USE DEF Counting, Scanning, Single, Finalizing, Placing
  <2>3. step[t] \in {0, 2, 4, 6, 8}
    BY <2>2 DEF Writes
  <2>4. step[u] \in {0, 2, 4, 6, 8}
    BY <2>2 DEF Writes, Reads
  <2>5. step[u] = step[t]
    <3>1. step[t] - 1 <= step[u] /\ step[u] <= step[t] + 1
      BY <2>1, <2>3, Together
    <3> QED
      BY <2>3, <2>4, <3>1
  <2>6. Own(t) \cap Own(u) = {} /\ Chunk(t) \cap Chunk(u) = {}
    BY <2>1, OneOwner, OneChunk
  <2>7. CASE step[t] = 0
    BY <2>5, <2>7 DEF Writes, Reads
  <2>8. CASE step[t] = 2
    BY <2>5, <2>6, <2>8 DEF Writes, Reads
  <2>9. CASE step[t] = 4
    BY <2>2, <2>5, <2>9, TeamSize, <2>1 DEF Writes, Reads
  <2>10. CASE step[t] = 6
    BY <2>5, <2>6, <2>10 DEF Writes, Reads
  <2>11. CASE step[t] = 8
    <3>1. step[u] = 8 /\ Reads(u) = {}
      BY <2>5, <2>11 DEF Reads
    <3>2. i[t] \in Chunk(t) /\ i[u] \in Chunk(u)
      BY <2>11, <3>1 DEF Writes
    <3>3. i[t] \in Points /\ i[u] \in Points /\ i[t] # i[u]
      BY <2>1, <2>6, <3>2, ChunkPoints
    <3>4. /\ counts[t][Bin(i[t])] = Rank(Bin(i[t]), i[t])
          /\ counts[u][Bin(i[u])] = Rank(Bin(i[u]), i[u])
      <4>1. \A c \in Bins : \E v \in Team : c \in Own(v) /\ step[v] > 6
        <5>1. \A v \in Team : step[v] > 6
          BY <2>1, <2>11, Together
        <5> QED
          BY <2>1, <5>1, OwnBins
      <4> QED
        BY <2>1, <3>3, <4>1, BinType DEF Histograms
    <3>5. counts[t][Bin(i[t])] # counts[u][Bin(i[u])]
      BY <2>1, <3>3, <3>4, RankApart
    <3>6. /\ Writes(t) = {<<"counts", t, Bin(i[t])>>, <<"slot", counts[t][Bin(i[t])]>>}
          /\ Writes(u) = {<<"counts", u, Bin(i[u])>>, <<"slot", counts[u][Bin(i[u])]>>}
      BY <2>11, <3>1, <3>2 DEF Writes
    <3> QED
      BY <3>1, <3>5, <3>6
  <2> QED
    BY <2>3, <2>7, <2>8, <2>9, <2>10, <2>11
<1> QED
  BY <1>1, SortInvariant, PTL

\* What indexSort returns, from one thread or from many, is every point once, by
\* bin and within a bin in point order.
THEOREM SortStable == Spec => []StableByBin
<1>1. IInv => StableByBin
  <2> SUFFICES ASSUME IInv, sorted PROVE StableByBin
    BY DEF StableByBin
  <2>1. SortTypes /\ \A p \in Points : sortIndices[Rank(Bin(p), p)] = p
    BY DEF IInv, Sorted
  <2>2. \A s \in Points : sortIndices[s] \in Points
                          /\ Rank(Bin(sortIndices[s]), sortIndices[s]) = s
    <3> TAKE s \in Points
    <3>1. PICK p \in Points : Rank(Bin(p), p) = s
      BY <2>1, RankOnto
    <3>2. sortIndices[s] = p
      BY <2>1, <3>1
    <3> QED
      BY <3>1, <3>2
  <2>3. {sortIndices[s] : s \in Points} = Points
    BY <2>1, <2>2, RankType
  <2>4. ASSUME NEW s \in 1..(M - 1), NEW p, NEW q,
               p = sortIndices[s - 1], q = sortIndices[s]
        PROVE  Bin(p) < Bin(q) \/ (Bin(p) = Bin(q) /\ p < q)
    <3>1. s - 1 \in Points /\ s \in Points /\ s \in Nat /\ s - 1 \in Nat
      BY <2>1, TeamSize
    <3>2. p \in Points /\ q \in Points /\ Rank(Bin(p), p) = s - 1 /\ Rank(Bin(q), q) = s
      BY <2>2, <2>4, <3>1
    <3>3. p # q
      BY <3>1, <3>2
    <3>4. Precedes(p, q) \/ Precedes(q, p)
      BY <2>1, <3>2, <3>3, Numbers DEF Precedes
    <3>5. ~Precedes(q, p)
      <4>1. Precedes(q, p) => s < s - 1
        BY <2>1, <3>2, RankGrows
      <4> QED
        BY <3>1, <4>1
    <3> QED
      BY <3>4, <3>5 DEF Precedes
  <2> QED
    BY <2>3, <2>4 DEF StableByBin
<1> QED
  BY <1>1, SortInvariant, PTL

-----------------------------------------------------------------------------
(* The inductive invariant of the spreading *)

\* The strength of a set of points is the number of units they have: a sum is
\* the size of a set.
Unit(p) == {p} \X (1..Strength[p])
Units(S) == UNION {Unit(p) : p \in S}
Weight(S) == Cardinality(Units(S))

\* Row r of subgrid k: where it lies in the grid, and the points of the
\* subproblem that reach it in column x of the grid.
Height(k) == Box(k, 2)[2]
RowAt(k, r) == (Box(k, 2)[1] + r) % N2
InColumn(p, x) == \E d \in 0..(NS - 1) : (First(p, 1) + d) % N1 = x
InRow(k, p, r) == r - (First(p, 2) - Box(k, 2)[1]) \in 0..(NS - 1)
RowSet(k, r, x) == {p \in SubPoints(k) : InRow(k, p, r) /\ InColumn(p, x)}

\* The points whose share of cell c has been added when rows[k] rows of each
\* subgrid k have been.
Merged(rows, c) ==
  {p \in Points : \E k \in 0..(nb - 1) : \E r \in 0..(rows[k] - 1) :
                    RowAt(k, r) = c[2] /\ p \in RowSet(k, r, c[1])}

\* Types of the spreader's state.
SpreadTypes ==
  /\ isub \in 0..nb
  /\ at \in [Threads -> {"idle", "merge", "critical", "loaded"}]
  /\ dy \in [Threads -> Nat]
  /\ DOMAIN du0 = Threads /\ DOMAIN acc = Threads
  /\ DOMAIN grid = Xs \X Ys
  /\ done \in BOOLEAN

\* A thread that is not idle has a subproblem of its own, sub[t], and has merged
\* the rows below dy[t] of its subgrid; subproblems that nobody has are merged
\* or not yet taken.
Shared(sub, rows) ==
  /\ \A t \in Threads : at[t] # "idle" =>
       /\ sub[t] \in 0..(isub - 1)
       /\ du0[t] = Subgrid(sub[t])
       /\ rows[sub[t]] = dy[t] /\ dy[t] < Height(sub[t])
  /\ \A t, u \in Threads : at[t] # "idle" /\ at[u] # "idle" /\ sub[t] = sub[u] => t = u
  /\ \A k \in 0..(nb - 1) :
       /\ k >= isub => rows[k] = 0
       /\ k < isub => rows[k] = Height(k) \/ \E t \in Threads : at[t] # "idle" /\ sub[t] = k

\* One thread is in the critical section, without atomics, and what it has loaded
\* is what the grid still holds.
Locked ==
  /\ \A t \in Threads : at[t] \in {"critical", "loaded"} => ~Atomic
  /\ \A t, u \in Threads :
       at[t] \in {"critical", "loaded"} /\ at[u] \in {"critical", "loaded"} => t = u
  /\ \A t \in Threads : at[t] = "loaded" => acc[t] = GridRow(WrapY(du0[t], dy[t]))

\* The spreading at work: the grid holds what has been merged.
Working(sub, rows) ==
  /\ Shared(sub, rows)
  /\ \A c \in Xs \X Ys : grid[c] = Weight(Merged(rows, c))

\* Nothing is spread before the points are in order.
NotBegun ==
  /\ isub = 0 /\ ~done
  /\ \A t \in Threads : at[t] = "idle"
  /\ \A c \in Xs \X Ys : grid[c] = 0

SumInv ==
  /\ SpreadTypes /\ Locked
  /\ ~sorted => NotBegun
  /\ sorted => \E sub \in [Threads -> Nat], rows \in [0..(nb - 1) -> Nat] : Working(sub, rows)
  /\ done => isub = nb /\ \A t \in Threads : at[t] = "idle"

-----------------------------------------------------------------------------
(* Sums as sizes of sets *)

\* A union of finitely many finite sets is finite.
LEMMA FiniteUnion ==
  ASSUME NEW S, IsFiniteSet(S), NEW H, \A x \in S : IsFiniteSet(H[x])
  PROVE  IsFiniteSet(UNION {H[x] : x \in S})
<1> DEFINE Q == {H[x] : x \in S}
           h == [x \in S |-> H[x]]
<1>1. h \in Surjection(S, Q)
  BY DEF Surjection
<1>2. \A q \in Q : IsFiniteSet(q)
  OBVIOUS
<1> HIDE DEF Q, h
<1>3. IsFiniteSet(Q)
  BY <1>1, FS_Surjection
<1>4. IsFiniteSet(UNION Q)
  BY <1>2, <1>3, FS_UNION
<1> QED
  BY <1>4 DEF Q

\* Total is the disjoint union of the finite sets H[x], whose sizes f gives.
DisjointSizes(S, f, H, Total) ==
  /\ IsFiniteSet(S)
  /\ \A x \in S : IsFiniteSet(H[x]) /\ f[x] = Cardinality(H[x])
  /\ \A x, y \in S : x # y => H[x] \cap H[y] = {}
  /\ Total = UNION {H[x] : x \in S}

\* The sum over a finite set of the sizes of disjoint finite sets is the size of
\* their union, whatever order SumOver adds them in: a subset for which it is
\* not would have a smaller one.
LEMMA SumOverSize ==
  ASSUME NEW S, NEW f, NEW H, NEW Total, DisjointSizes(S, f, H, Total)
  PROVE  SumOver(S, f) = Cardinality(Total)
<1> USE DEF DisjointSizes
<1> DEFINE Pick(T) == CHOOSE x \in T : TRUE
           U(T) == UNION {H[x] : x \in T}
           P(g) == g = [T \in SUBSET S |-> IF T = {} THEN 0
                                           ELSE f[Pick(T)] + g[T \ {Pick(T)}]]
           s == CHOOSE g : P(g)
           G == [T \in SUBSET S |-> Cardinality(U(T))]
<1>1. SumOver(S, f) = s[S]
  BY DEF SumOver
<1>2. ASSUME NEW T \in SUBSET S
      PROVE  G[T] = IF T = {} THEN 0 ELSE f[Pick(T)] + G[T \ {Pick(T)}]
  <2>1. CASE T = {}
    <3>1. U(T) = {}
      BY <2>1
    <3> QED
      BY <2>1, <3>1, FS_EmptySet
  <2>2. CASE T # {}
    <3> DEFINE x == Pick(T)
               R == T \ {x}
    <3>1. x \in T /\ x \in S /\ R \in SUBSET S
      BY <2>2
    <3> HIDE DEF x
    <3>2. IsFiniteSet(R) /\ \A y \in R : IsFiniteSet(H[y])
      BY <3>1, FS_Subset
    <3>3. IsFiniteSet(U(R))
      <4> HIDE DEF R
      <4> QED
        BY <3>2, FiniteUnion
    <3>4. U(T) = U(R) \cup H[x]
      BY <3>1
    <3>5. U(R) \cap H[x] = {}
      <4>1. \A y \in R : H[y] \cap H[x] = {}
        BY <3>1
      <4> HIDE DEF R
      <4> QED
        BY <4>1
    <3>6. IsFiniteSet(H[x]) /\ f[x] = Cardinality(H[x])
      BY <3>1
    <3>7. Cardinality(U(T)) = Cardinality(U(R)) + f[x]
      <4> DEFINE A == U(R)
                 B == H[x]
      <4>1. IsFiniteSet(A) /\ IsFiniteSet(B) /\ A \cap B = {}
        BY <3>3, <3>5, <3>6
      <4>2. U(T) = A \cup B /\ f[x] = Cardinality(B)
        BY <3>4, <3>6
      <4> HIDE DEF A, B
      <4>3. Cardinality(A \cup B) = Cardinality(A) + Cardinality(B)
        BY <4>1, CardDisjoint
      <4> QED
        BY <4>2, <4>3 DEF A
    <3>8. f[x] \in Nat /\ Cardinality(U(R)) \in Nat
      <4> HIDE DEF U
      <4> QED
        BY <3>3, <3>6, FS_CardinalityType
    <3>9. G[T] = f[x] + G[R]
      <4> HIDE DEF U
      <4> QED
        BY <3>1, <3>7, <3>8
    <3> QED
      BY <2>2, <3>9 DEF x
  <2> QED
    BY <2>1, <2>2
<1>3. P(G)
  <2> HIDE DEF Pick
  <2>1. G = [T \in SUBSET S |-> G[T]]
    OBVIOUS
  <2> HIDE DEF G
  <2> QED
    BY <1>2, <2>1
<1>4. P(s)
  <2> HIDE DEF P, G
  <2> QED
    BY <1>3
<1> DEFINE Bad == {T \in SUBSET S : s[T] # G[T]}
<1>5. Bad = {}
  <2> SUFFICES ASSUME Bad # {} PROVE FALSE
    OBVIOUS
  <2>1. PICK T \in Bad : \A R \in Bad : <<R, T>> \notin StrictSubsetOrdering(S)
    <3>1. Bad \subseteq FiniteSubsetsOf(S)
      BY FS_FiniteSubsetsOfFinite
    <3> HIDE DEF Bad
    <3> QED
      BY <3>1, FS_StrictSubsetOrderingWellFounded, WFMin
  <2>2. T \in SUBSET S /\ s[T] # G[T]
    OBVIOUS
  <2>3. s[T] = IF T = {} THEN 0 ELSE f[Pick(T)] + s[T \ {Pick(T)}]
    <3> HIDE DEF s, G, Pick
    <3> QED
      BY <1>4, <2>2
  <2>4. T # {} => s[T \ {Pick(T)}] = G[T \ {Pick(T)}]
    <3> HIDE DEF s, G
    <3>1. ASSUME T # {} PROVE T \ {Pick(T)} \notin Bad
      <4>1. Pick(T) \in T
        BY <3>1
      <4>2. <<T \ {Pick(T)}, T>> \in StrictSubsetOrdering(S)
        BY <2>2, <4>1 DEF StrictSubsetOrdering
      <4> QED
        BY <2>1, <4>2
    <3> QED
      BY <2>2, <3>1
  <2> HIDE DEF s, G, Pick
  <2> QED
    BY <1>2, <2>2, <2>3, <2>4
<1>6. s[S] = G[S]
  <2> HIDE DEF s, G
  <2> QED
    BY <1>5
<1>7. Total = U(S)
  OBVIOUS
<1> HIDE DEF s, U
<1> QED
  BY <1>1, <1>6, <1>7

\* A point has as many units as its strength says.
LEMMA UnitSize ==
  ASSUME NEW p \in 0..(MaxM - 1)
  PROVE  IsFiniteSet(Unit(p)) /\ Cardinality(Unit(p)) = Strength[p]
<1> DEFINE n == Strength[p]
           J == 1..n
<1>1. n \in Nat
  BY SpreadAssumption
<1> HIDE DEF n
<1>2. IsFiniteSet(J) /\ Cardinality(J) = n
  BY <1>1, FS_Interval
<1> HIDE DEF J
<1>3. IsFiniteSet({p}) /\ Cardinality({p}) = 1
  BY FS_Singleton
<1>4. IsFiniteSet({p} \X J) /\ Cardinality({p} \X J) = Cardinality({p}) * Cardinality(J)
  BY <1>2, <1>3, FS_Product
<1>5. Cardinality({p} \X J) = n
  BY <1>1, <1>2, <1>3, <1>4
<1> QED
  BY <1>4, <1>5 DEF Unit, J, n

\* The units of finitely many points.
LEMMA UnitsFinite ==
  ASSUME NEW S \in SUBSET (0..(MaxM - 1))
  PROVE  IsFiniteSet(S) /\ IsFiniteSet(Units(S)) /\ Weight(S) \in Nat
<1> DEFINE D == 0..(MaxM - 1)
           H == [p \in S |-> Unit(p)]
<1>1. IsFiniteSet(D)
  BY BinSortAssumption, FS_Interval
<1> HIDE DEF D
<1>2. IsFiniteSet(S)
  BY <1>1, FS_Subset DEF D
<1>3. \A p \in S : IsFiniteSet(H[p])
  BY UnitSize
<1>4. Units(S) = UNION {H[p] : p \in S}
  BY DEF Units
<1>5. IsFiniteSet(UNION {H[p] : p \in S})
  <2> HIDE DEF H
  <2> QED
    BY <1>2, <1>3, FiniteUnion
<1> QED
  BY <1>2, <1>4, <1>5, FS_CardinalityType DEF Weight

\* Points without a point in common have no unit in common, and their weights add up.
LEMMA WeightUnion ==
  ASSUME NEW S \in SUBSET (0..(MaxM - 1)), NEW T \in SUBSET (0..(MaxM - 1)),
         S \cap T = {}
  PROVE  /\ Units(S) \cap Units(T) = {}
         /\ Weight(S \cup T) = Weight(S) + Weight(T)
<1>1. Units(S) \cap Units(T) = {}
  <2> SUFFICES ASSUME NEW p \in S, NEW q \in T PROVE Unit(p) \cap Unit(q) = {}
    BY DEF Units
  <2>1. p # q
    OBVIOUS
  <2> QED
    BY <2>1 DEF Unit
<1>2. Units(S \cup T) = Units(S) \cup Units(T)
  BY DEF Units
<1> QED
  BY <1>1, <1>2, UnitsFinite, CardDisjoint DEF Weight

\* SumOver of the strengths of a set of points is its weight.
LEMMA StrengthSum ==
  ASSUME NEW S \in SUBSET (0..(MaxM - 1))
  PROVE  SumOver(S, [p \in S |-> Strength[p]]) = Weight(S)
<1> DEFINE f == [p \in S |-> Strength[p]]
           H == [p \in S |-> Unit(p)]
<1>1. IsFiniteSet(S)
  BY UnitsFinite
<1>2. \A p \in S : IsFiniteSet(H[p]) /\ f[p] = Cardinality(H[p])
  BY UnitSize
<1>3. \A p, q \in S : p # q => H[p] \cap H[q] = {}
  BY DEF Unit
<1>4. Units(S) = UNION {H[p] : p \in S}
  BY DEF Units
<1> HIDE DEF f, H
<1>5. DisjointSizes(S, f, H, Units(S))
  BY <1>1, <1>2, <1>3, <1>4 DEF DisjointSizes
<1>6. SumOver(S, f) = Cardinality(Units(S))
  BY <1>5, SumOverSize
<1> QED
  BY <1>6 DEF Weight, f

-----------------------------------------------------------------------------
(* The periods of the grid *)

\* What remains after taking away whole periods is the remainder.
LEMMA ModIs ==
  ASSUME NEW N \in Nat \ {0}, NEW a \in Int, NEW q \in Int, NEW r \in 0..(N - 1),
         a = q * N + r
  PROVE  a % N = r
<1> DEFINE d == a \div N
           m == a % N
<1>1. d \in Int /\ m \in 0..(N - 1) /\ a = d * N + m
  OBVIOUS
<1> HIDE DEF d, m
<1>2. ASSUME d >= q + 1 PROVE FALSE
  <2>1. (q + 1) * N <= d * N /\ (q + 1) * N = q * N + N
    BY <1>1, <1>2, TimesUp
  <2> QED
    BY <1>1, <2>1, TimesType
<1>3. ASSUME q >= d + 1 PROVE FALSE
  <2>1. (d + 1) * N <= q * N /\ (d + 1) * N = d * N + N
    BY <1>1, <1>3, TimesUp
  <2> QED
    BY <1>1, <2>1, TimesType
<1>4. d = q
  BY <1>1, <1>2, <1>3
<1>5. d * N = q * N /\ q * N \in Int
  BY <1>4, TimesType
<1>6. m = r
  BY <1>1, <1>5
<1> QED
  BY <1>6 DEF m

\* The remainder of a number at most one period outside the grid.
LEMMA ModNear ==
  ASSUME NEW N \in Nat \ {0}, NEW a \in Int, -N <= a, a < 2 * N
  PROVE  /\ a % N \in 0..(N - 1)
         /\ a < 0 => a % N = a + N
         /\ 0 <= a /\ a < N => a % N = a
         /\ N <= a => a % N = a - N
<1>1. a % N \in 0..(N - 1)
  OBVIOUS
<1>2. CASE a < 0
  <2>1. a = (-1) * N + (a + N) /\ a + N \in 0..(N - 1)
    BY <1>2
  <2>2. a % N = a + N
    BY <2>1, ModIs
  <2> QED
    BY <1>1, <1>2, <2>2
<1>3. CASE 0 <= a /\ a < N
  <2>1. a = 0 * N + a /\ a \in 0..(N - 1)
    BY <1>3
  <2>2. a % N = a
    BY <2>1, ModIs
  <2> QED
    BY <1>1, <1>3, <2>2
<1>4. CASE N <= a
  <2>1. a = 1 * N + (a - N) /\ a - N \in 0..(N - 1)
    BY <1>4
  <2>2. a % N = a - N
    BY <2>1, ModIs
  <2> QED
    BY <1>1, <1>4, <2>2
<1> QED
  BY <1>2, <1>3, <1>4

\* Numbers less than a period apart with the same remainder are the same.
LEMMA ModSame ==
  ASSUME NEW N \in Nat \ {0}, NEW a \in Int, NEW b \in Int,
         a % N = b % N, -N < a - b, a - b < N
  PROVE  a = b
<1> DEFINE d == a \div N
           e == b \div N
           m == a % N
<1>1. /\ d \in Int /\ e \in Int /\ m \in 0..(N - 1)
      /\ a = d * N + m /\ b = e * N + m
  OBVIOUS
<1> HIDE DEF d, e, m
<1>2. ASSUME d >= e + 1 PROVE FALSE
  <2>1. (e + 1) * N <= d * N /\ (e + 1) * N = e * N + N
    BY <1>1, <1>2, TimesUp
  <2> QED
    BY <1>1, <2>1, TimesType
<1>3. ASSUME e >= d + 1 PROVE FALSE
  <2>1. (d + 1) * N <= e * N /\ (d + 1) * N = d * N + N
    BY <1>1, <1>3, TimesUp
  <2> QED
    BY <1>1, <2>1, TimesType
<1>4. d = e
  BY <1>1, <1>2, <1>3
<1> QED
  BY <1>1, <1>4

\* One further: the remainder grows by one, until it is back at zero.
LEMMA ModNext ==
  ASSUME NEW N \in Nat \ {0}, NEW a \in Int
  PROVE  /\ a % N \in 0..(N - 1)
         /\ (a + 1) % N = IF (a % N) + 1 < N THEN (a % N) + 1 ELSE 0
<1> DEFINE d == a \div N
           m == a % N
<1>1. d \in Int /\ m \in 0..(N - 1) /\ a = d * N + m /\ d * N \in Int
  OBVIOUS
<1> HIDE DEF d, m
<1>2. CASE m + 1 < N
  <2>1. a + 1 = d * N + (m + 1) /\ m + 1 \in 0..(N - 1)
    BY <1>1, <1>2
  <2> QED
    BY <1>1, <1>2, <2>1, ModIs DEF m
<1>3. CASE ~(m + 1 < N)
  <2>1. a + 1 = (d + 1) * N + 0
    BY <1>1, <1>3
  <2>2. d + 1 \in Int /\ 0 \in 0..(N - 1)
    BY <1>1
  <2>3. (a + 1) % N = 0
    BY <2>1, <2>2, ModIs
  <2> QED
    BY <1>1, <1>3, <2>3 DEF m
<1> QED
  BY <1>2, <1>3

\* T is a set of integers, not empty, between two bounds.
Between(T, lo, hi) ==
  lo \in Int /\ hi \in Int /\ T # {} /\ \A k \in T : k \in Int /\ lo <= k /\ k <= hi

\* Such a set has a least member and a greatest.
LEMMA Extremes ==
  ASSUME NEW lo, NEW hi, NEW T, Between(T, lo, hi)
  PROVE  /\ \E k \in T : \A j \in T : k <= j
         /\ \E k \in T : \A j \in T : k >= j
<1> USE DEF Between
<1> DEFINE Up == {k - lo : k \in T}
           Down == {hi - k : k \in T}
<1>1. Up \in SUBSET Nat /\ Down \in SUBSET Nat /\ Up # {} /\ Down # {}
  <2>1. \A k \in T : k - lo \in Nat /\ hi - k \in Nat
    OBVIOUS
  <2>2. Up # {} /\ Down # {}
    <3>1. PICK k \in T : TRUE
      OBVIOUS
    <3> QED
      BY <3>1
  <2> QED
    BY <2>1, <2>2
<1>2. \E k \in T : \A j \in T : k <= j
  <2>1. PICK u \in Up : \A v \in Up : u <= v
    <3> HIDE DEF Up
    <3> QED
      BY <1>1, LeastNat
  <2>2. PICK k \in T : u = k - lo
    OBVIOUS
  <2>3. ASSUME NEW j \in T PROVE k <= j
    <3>1. j - lo \in Up
      OBVIOUS
    <3>2. k - lo <= j - lo
      BY <2>1, <2>2, <3>1
    <3> QED
      BY <3>2
  <2> QED
    BY <2>3
<1>3. \E k \in T : \A j \in T : k >= j
  <2>1. PICK u \in Down : \A v \in Down : u <= v
    <3> HIDE DEF Down
    <3> QED
      BY <1>1, LeastNat
  <2>2. PICK k \in T : u = hi - k
    OBVIOUS
  <2>3. ASSUME NEW j \in T PROVE k >= j
    <3>1. hi - j \in Down
      OBVIOUS
    <3>2. hi - k <= hi - j
      BY <2>1, <2>2, <3>1
    <3> QED
      BY <3>2
  <2> QED
    BY <2>3
<1> QED
  BY <1>2, <1>3

-----------------------------------------------------------------------------
(* Subproblems *)

\* There is a subproblem, and no more than there are points.
LEMMA NbType ==
  ASSUME SortTypes
  PROVE  nb \in 1..M
<1> DEFINE per == IF nthr < M THEN nthr ELSE M
           q == (M - 1) \div MaxSubproblem
<1>1. M \in Nat \ {0} /\ nthr \in Nat \ {0} /\ per \in 1..M
  BY BinSortAssumption DEF SortTypes
<1>2. MaxSubproblem \in Nat \ {0} /\ M - 1 \in Nat
  BY <1>1, SpreadAssumption
<1>3. q \in Nat /\ q <= M - 1
  <2>1. q \in Nat /\ q * MaxSubproblem <= M - 1
    BY <1>2, DivMod
  <2> HIDE DEF q
  <2>2. q * MaxSubproblem >= q
    <3>1. q * (MaxSubproblem - 1) >= 0 /\ q * (MaxSubproblem - 1) = q * MaxSubproblem - q
      BY <1>2, <2>1, TimesType
    <3> QED
      BY <1>2, <2>1, <3>1, TimesType
  <2> QED
    BY <1>2, <2>1, <2>2, TimesType
<1>4. nb \in {M, 1 + q, per}
  <2> HIDE DEF q
  <2> QED
    BY DEF nb, q
<1> HIDE DEF q, per
<1> QED
  BY <1>1, <1>3, <1>4

\* The subproblems begin at point 0, end at the last one and have a point each.
LEMMA SubBreaks ==
  ASSUME SortTypes
  PROVE  /\ nb \in Nat \ {0}
         /\ Break(0) = 0 /\ Break(nb) = M
         /\ \A k \in Nat : Break(k) \in Nat
         /\ \A k, l \in Nat : k < l => Break(k) < Break(l)
<1> DEFINE n == nb
           num(k) == M * k + n - 1
<1>1. M \in Nat \ {0} /\ n \in Nat \ {0} /\ n <= M
  BY NbType, TeamSize
<1> HIDE DEF n
<1>2. \A k : Break(k) = num(k) \div n
  BY DEF Break, n
<1>3. ASSUME NEW k \in Nat
      PROVE  M * k \in Nat /\ num(k) \in Nat /\ Break(k) \in Nat /\ Break(k) * n <= num(k)
  <2>1. M * k \in Nat
    BY <1>1, TimesType
  <2>2. num(k) \in Nat
    BY <1>1, <2>1
  <2> HIDE DEF num
  <2> QED
    BY <1>1, <1>2, <2>1, <2>2, DivMod
<1>4. ASSUME NEW k \in Nat, NEW l \in Nat, k < l PROVE Break(k) < Break(l)
  <2>1. num(k) + n <= num(l)
    <3>1. (k + 1) * M <= l * M /\ (k + 1) * M = M * k + M /\ l * M = M * l
      BY <1>1, <1>4, TimesUp
    <3> QED
      BY <1>1, <1>3, <3>1
  <2> DEFINE d == Break(k)
  <2>2. d \in Nat /\ d * n <= num(k) /\ num(l) \in Nat /\ num(k) \in Nat /\ d * n \in Nat
    BY <1>1, <1>3, TimesType
  <2> HIDE DEF d, num
  <2>3. (d + 1) * n <= num(l)
    <3>1. (d + 1) * n = d * n + n
      BY <1>1, <2>2
    <3> QED
      BY <1>1, <2>1, <2>2, <3>1
  <2>4. d + 1 <= num(l) \div n
    BY <1>1, <2>2, <2>3, DivBound
  <2>5. Break(l) \in Nat /\ Break(l) = num(l) \div n
    BY <1>2, <1>3
  <2> QED
    BY <2>2, <2>4, <2>5 DEF d
<1>5. Break(0) = 0
  <2>1. num(0) = n - 1 /\ n - 1 \in Nat /\ n - 1 < (0 + 1) * n
    BY <1>1
  <2>2. (n - 1) \div n \in Nat /\ (n - 1) \div n <= 0
    BY <1>1, <2>1, DivMod, DivBound
  <2> QED
    BY <1>2, <2>1, <2>2
<1>6. Break(n) = M
  <2>1. num(n) \in Nat /\ num(n) = M * n + n - 1 /\ M * n \in Nat
        /\ (M + 1) * n = M * n + n
    BY <1>1, <1>3, TimesType
  <2> HIDE DEF num
  <2>2. num(n) < (M + 1) * n /\ M * n <= num(n)
    BY <1>1, <2>1
  <2>3. num(n) \div n <= M /\ M <= num(n) \div n /\ num(n) \div n \in Nat
    BY <1>1, <2>1, <2>2, DivBound, DivMod
  <2> QED
    BY <1>1, <1>2, <2>3
<1> QED
  BY <1>1, <1>3, <1>4, <1>5, <1>6 DEF n

\* Each point is in exactly one subproblem, at the place where the order has it,
\* and no subproblem is empty.
LEMMA SubPartition ==
  ASSUME SortTypes, Sorted, sorted
  PROVE  /\ \A k \in 0..(nb - 1) : SubPoints(k) \in SUBSET Points /\ SubPoints(k) # {}
         /\ \A p \in Points : \E k \in 0..(nb - 1) : p \in SubPoints(k)
         /\ \A k, l \in 0..(nb - 1) : k # l => SubPoints(k) \cap SubPoints(l) = {}
<1>1. /\ M \in Nat \ {0} /\ Points = 0..(M - 1) /\ nb \in Nat \ {0}
      /\ Break(0) = 0 /\ Break(nb) = M
      /\ \A k \in Nat : Break(k) \in Nat
      /\ \A k, l \in Nat : k < l => Break(k) < Break(l)
  BY SubBreaks, TeamSize
<1>2. \A k \in 0..(nb - 1) : /\ k \in Nat /\ k + 1 \in Nat
                             /\ 0 <= Break(k) /\ Break(k) < Break(k + 1) /\ Break(k + 1) <= M
  <2> SUFFICES ASSUME NEW k \in 0..(nb - 1)
               PROVE  /\ k \in Nat /\ k + 1 \in Nat
                      /\ 0 <= Break(k) /\ Break(k) < Break(k + 1) /\ Break(k + 1) <= M
    OBVIOUS
  <2>1. k \in Nat /\ k + 1 \in Nat /\ k < k + 1 /\ (k + 1 = nb \/ k + 1 < nb)
    BY <1>1
  <2>2. Break(k) \in Nat /\ Break(k + 1) \in Nat /\ Break(k) < Break(k + 1)
    BY <1>1, <2>1
  <2>3. Break(k + 1) <= M
    BY <1>1, <2>1, <2>2
  <2> QED
    BY <1>1, <2>1, <2>2, <2>3
<1>3. \A j \in Points : \E p \in Points : sortIndices[j] = p /\ Rank(Bin(p), p) = j
  BY RankOnto DEF Sorted
<1>4. \A j, l \in Points : sortIndices[j] = sortIndices[l] => j = l
  BY <1>3
<1>5. \A k \in 0..(nb - 1) : Break(k)..(Break(k + 1) - 1) \subseteq Points
  <2> SUFFICES ASSUME NEW k \in 0..(nb - 1), NEW j \in Break(k)..(Break(k + 1) - 1)
               PROVE  j \in Points
    OBVIOUS
  <2>1. k \in Nat /\ k + 1 \in Nat /\ 0 <= Break(k) /\ Break(k + 1) <= M
    BY <1>2
  <2>2. Break(k) \in Nat /\ Break(k + 1) \in Nat
    BY <1>1, <2>1
  <2> QED
    BY <1>1, <2>1, <2>2
<1>6. ASSUME NEW k \in 0..(nb - 1) PROVE SubPoints(k) \in SUBSET Points /\ SubPoints(k) # {}
  <2>1. Break(k) \in Break(k)..(Break(k + 1) - 1)
    BY <1>1, <1>2
  <2> QED
    BY <1>3, <1>5, <2>1 DEF SubPoints
<1>7. ASSUME NEW p \in Points PROVE \E k \in 0..(nb - 1) : p \in SubPoints(k)
  <2> DEFINE j == Rank(Bin(p), p)
             T == {k \in 1..nb : j < Break(k)}
  <2>1. j \in Points /\ sortIndices[j] = p
    BY RankType DEF Sorted
  <2> HIDE DEF j
  <2>2. nb \in T /\ T \in SUBSET Nat
    BY <1>1, <2>1
  <2>3. PICK k \in T : \A l \in T : k <= l
    <3> HIDE DEF T
    <3> QED
      BY <2>2, LeastNat
  <2>4. k \in 1..nb /\ j < Break(k)
    OBVIOUS
  <2>5. k - 1 \in 0..(nb - 1) /\ (k - 1) + 1 = k
    BY <1>1, <2>4
  <2>6. Break(k - 1) <= j
    <3>1. CASE k = 1
      BY <1>1, <2>1, <3>1
    <3>2. CASE k > 1
      <4>1. k - 1 \in 1..nb /\ ~(k <= k - 1) /\ Break(k - 1) \in Nat
        BY <1>1, <2>4, <3>2
      <4>2. k - 1 \notin T
        BY <2>3, <4>1
      <4> QED
        BY <1>1, <2>1, <4>1, <4>2
    <3> QED
      BY <1>1, <2>4, <3>1, <3>2
  <2>7. j \in Break(k - 1)..(Break(k) - 1)
    BY <1>1, <1>2, <2>1, <2>4, <2>5, <2>6
  <2> HIDE DEF T
  <2>8. p \in SubPoints(k - 1)
    BY <2>1, <2>5, <2>7 DEF SubPoints
  <2> QED
    BY <2>5, <2>8
<1>8. ASSUME NEW k \in 0..(nb - 1), NEW l \in 0..(nb - 1), k < l,
             NEW p, p \in SubPoints(k), p \in SubPoints(l)
      PROVE  FALSE
  <2>1. PICK j \in Break(k)..(Break(k + 1) - 1) : p = sortIndices[j]
    BY <1>8 DEF SubPoints
  <2>2. PICK m \in Break(l)..(Break(l + 1) - 1) : p = sortIndices[m]
    BY <1>8 DEF SubPoints
  <2>3. j = m
    BY <1>4, <1>5, <2>1, <2>2
  <2>4. k + 1 = l \/ k + 1 < l
    BY <1>1, <1>8
  <2>5. Break(k + 1) <= Break(l) /\ Break(k + 1) \in Nat /\ Break(l) \in Nat
    <3>1. k \in Nat /\ k + 1 \in Nat /\ l \in Nat
      OBVIOUS
    <3>2. Break(k + 1) \in Nat /\ Break(l) \in Nat
      BY <1>1, <3>1
    <3>3. k + 1 < l => Break(k + 1) < Break(l)
      BY <1>1, <3>1
    <3> QED
      BY <2>4, <3>2, <3>3
  <2>6. Break(k) \in Nat /\ Break(l + 1) \in Nat
    BY <1>1
  <2> QED
    BY <2>1, <2>2, <2>3, <2>5, <2>6
<1>9. \A k, l \in 0..(nb - 1) : k # l => SubPoints(k) \cap SubPoints(l) = {}
  <2>1. \A k, l \in 0..(nb - 1) : k # l => k < l \/ l < k
    BY <1>1
  <2> QED
    BY <1>8, <2>1
<1> QED
  BY <1>6, <1>7, <1>9

\* A kernel begins inside the grid, or at most its width before it.
LEMMA FirstRange ==
  ASSUME SortTypes, NEW p \in Points
  PROVE  First(p, 1) \in (-NS)..N1 /\ First(p, 2) \in (-NS)..N2
<1>1. NS \in Nat \ {0} /\ N1 \in Nat /\ N2 \in Nat
  BY SpreadAssumption, BinSortAssumption
<1>2. place[p][1] \in 0..(2 * N1) /\ place[p][2] \in 0..(2 * N2)
  <2>1. place[p] \in (0..(2 * N1)) \X (0..(2 * N2))
    BY BinSortAssumption DEF SortTypes
  <2> QED
    BY <2>1
<1>3. ASSUME NEW n \in Nat, NEW x \in 0..(2 * n)
      PROVE  (x - NS + 1) \div 2 \in (-NS)..n
  BY <1>1
<1> QED
  BY <1>1, <1>2, <1>3 DEF First

\* The box of a subproblem holds the kernels of its points.
LEMMA BoxHolds ==
  ASSUME SortTypes, Sorted, sorted, NEW k \in 0..(nb - 1), NEW d \in {1, 2},
         NEW N \in Nat, \A p \in Points : First(p, d) \in (-NS)..N
  PROVE  /\ Box(k, d)[1] \in (-NS)..N /\ Box(k, d)[2] \in Nat
         /\ Box(k, d)[1] + Box(k, d)[2] <= N + NS
         /\ Box(k, d)[2] >= 1
         /\ \A p \in SubPoints(k) : /\ Box(k, d)[1] <= First(p, d)
                                    /\ First(p, d) + NS <= Box(k, d)[1] + Box(k, d)[2]
<1>1. NS \in Nat \ {0}
  BY SpreadAssumption
<1> DEFINE f == {First(p, d) : p \in SubPoints(k)}
           lo == CHOOSE x \in f : \A y \in f : x <= y
           hi == CHOOSE x \in f : \A y \in f : x >= y
           a == -NS
<1>2. SubPoints(k) \in SUBSET Points /\ SubPoints(k) # {}
  BY SubPartition
<1>3. Between(f, a, N)
  BY <1>1, <1>2 DEF Between
<1>4. \A p \in SubPoints(k) : First(p, d) \in f
  OBVIOUS
<1>5. Box(k, d) = <<lo, hi - lo + NS>>
  BY DEF Box
<1> HIDE DEF f, a
<1>6. lo \in f /\ \A y \in f : lo <= y
  <2>1. \E x \in f : \A y \in f : x <= y
    BY <1>3, Extremes
  <2> QED
    BY <2>1
<1>7. hi \in f /\ \A y \in f : hi >= y
  <2>1. \E x \in f : \A y \in f : x >= y
    BY <1>3, Extremes
  <2> QED
    BY <2>1
<1> HIDE DEF lo, hi
<1>8. lo \in (-NS)..N /\ hi \in (-NS)..N /\ lo <= hi
  BY <1>1, <1>3, <1>6, <1>7 DEF a, Between
<1>9. \A p \in SubPoints(k) : lo <= First(p, d) /\ First(p, d) <= hi /\ First(p, d) \in Int
  <2> SUFFICES ASSUME NEW p \in SubPoints(k)
               PROVE  lo <= First(p, d) /\ First(p, d) <= hi /\ First(p, d) \in Int
    OBVIOUS
  <2>1. First(p, d) \in f
    BY <1>4
  <2>2. lo <= First(p, d) /\ hi >= First(p, d)
    BY <1>6, <1>7, <2>1
  <2>3. First(p, d) \in Int
    BY <1>3, <2>1 DEF Between
  <2> QED
    BY <1>1, <1>8, <2>2, <2>3
<1>10. Box(k, d)[1] = lo /\ Box(k, d)[2] = hi - lo + NS
  BY <1>5
<1> QED
  BY <1>1, <1>8, <1>9, <1>10

-----------------------------------------------------------------------------
(* Wrapping and adding rows *)

\* add_wrapped_subgrid puts a column where the period does.
LEMMA WrapXMod ==
  ASSUME NEW g, NEW dx \in 0..(g.size[1] - 1),
         g.off[1] \in (-NS)..N1, g.size[1] \in Nat, g.off[1] + g.size[1] <= N1 + NS
  PROVE  WrapX(g, dx) = (g.off[1] + dx) % N1
<1> DEFINE ox == g.off[1]
           w == g.size[1]
<1>1. /\ N1 \in Nat \ {0} /\ NS \in Nat /\ N1 >= 2 * NS /\ NS >= 1
      /\ ox \in (-NS)..N1 /\ w \in Nat /\ dx \in 0..(w - 1) /\ ox + w <= N1 + NS
  BY SpreadAssumption, BinSortAssumption
<1>2. ox + dx \in Int /\ -N1 <= ox + dx /\ ox + dx < 2 * N1
  <2> HIDE DEF ox, w
  <2> QED
    BY <1>1
<1> HIDE DEF ox, w
<1>4. CASE ox + dx < 0
  <2>1. WrapX(g, dx) = (ox + dx) + N1
    BY <1>1, <1>4 DEF WrapX, ox, w
  <2>2. (ox + dx) % N1 = (ox + dx) + N1
    BY <1>1, <1>2, <1>4, ModNear
  <2> QED
    BY <2>1, <2>2 DEF ox
<1>5. CASE 0 <= ox + dx /\ ox + dx < N1
  <2>1. WrapX(g, dx) = ox + dx
    BY <1>1, <1>5 DEF WrapX, ox, w
  <2>2. (ox + dx) % N1 = ox + dx
    BY <1>1, <1>2, <1>5, ModNear
  <2> QED
    BY <2>1, <2>2 DEF ox
<1>6. CASE N1 <= ox + dx
  <2>1. WrapX(g, dx) = (ox + dx) - N1
    BY <1>1, <1>6 DEF WrapX, ox, w
  <2>2. (ox + dx) % N1 = (ox + dx) - N1
    BY <1>1, <1>2, <1>6, ModNear
  <2> QED
    BY <2>1, <2>2 DEF ox
<1> QED
  BY <1>1, <1>2, <1>4, <1>5, <1>6

\* The wrapped row list runs through the rows of the grid period after period.
LEMMA WrapYMod ==
  ASSUME NEW g, NEW r \in Nat, g.off[2] \in (-NS)..N2
  PROVE  WrapY(g, r) = (g.off[2] + r) % N2
<1> DEFINE oy == g.off[2]
           Back(y) == IF y < 0 THEN y + N2 ELSE IF y >= N2 THEN y - N2 ELSE y
           h == [j \in 0..r |-> (oy + j) % N2]
           P(f) == f = [j \in 0..r |-> Back(IF j = 0 THEN oy ELSE f[j - 1] + 1)]
           o2 == CHOOSE f : P(f)
<1>1. /\ N2 \in Nat \ {0} /\ NS \in Nat /\ N2 >= 2 * NS /\ NS >= 1 /\ oy \in (-NS)..N2
  BY SpreadAssumption, BinSortAssumption
<1>2. WrapY(g, r) = o2[r]
  BY DEF WrapY
<1> HIDE DEF oy
<1>3. \A j \in 0..r : h[j] = Back(IF j = 0 THEN oy ELSE h[j - 1] + 1)
  <2> SUFFICES ASSUME NEW j \in 0..r
               PROVE  h[j] = Back(IF j = 0 THEN oy ELSE h[j - 1] + 1)
    OBVIOUS
  <2>1. CASE j = 0
    <3>1. oy \in Int /\ -N2 <= oy /\ oy < 2 * N2 /\ oy + 0 = oy
      BY <1>1
    <3>2. /\ oy < 0 => oy % N2 = oy + N2
          /\ 0 <= oy /\ oy < N2 => oy % N2 = oy
          /\ N2 <= oy => oy % N2 = oy - N2
      BY <1>1, <3>1, ModNear
    <3>3. oy % N2 = Back(oy)
      BY <1>1, <3>1, <3>2
    <3> QED
      BY <2>1, <3>1, <3>3
  <2>2. CASE j # 0
    <3> DEFINE a == oy + (j - 1)
               m == a % N2
    <3>1. a \in Int /\ a + 1 = oy + j /\ j - 1 \in 0..r
      BY <1>1, <2>2
    <3>2. h[j - 1] = m /\ h[j] = (a + 1) % N2
      BY <3>1
    <3> HIDE DEF a, h
    <3>3. m \in 0..(N2 - 1) /\ (a + 1) % N2 = IF m + 1 < N2 THEN m + 1 ELSE 0
      BY <1>1, <3>1, ModNext
    <3> HIDE DEF m
    <3>4. Back(m + 1) = IF m + 1 < N2 THEN m + 1 ELSE 0
      BY <1>1, <3>3
    <3> QED
      BY <2>2, <3>2, <3>3, <3>4
  <2> QED
    BY <2>1, <2>2
<1>4. P(h)
  <2> HIDE DEF Back
  <2>1. h = [j \in 0..r |-> h[j]]
    OBVIOUS
  <2> HIDE DEF h
  <2> QED
    BY <1>3, <2>1
<1>5. P(o2)
  <2> HIDE DEF P, h
  <2> QED
    BY <1>4
<1> DEFINE T == {j \in 0..r : o2[j] # h[j]}
<1>6. T = {}
  <2> SUFFICES ASSUME T # {} PROVE FALSE
    OBVIOUS
  <2>1. T \in SUBSET Nat
    OBVIOUS
  <2>2. PICK j \in T : \A k \in T : j <= k
    <3> HIDE DEF T
    <3> QED
      BY <2>1, LeastNat
  <2>3. j \in 0..r /\ o2[j] # h[j]
    OBVIOUS
  <2> HIDE DEF o2, h, Back
  <2>4. j # 0 => o2[j - 1] = h[j - 1]
    <3>1. ASSUME j # 0 PROVE o2[j - 1] = h[j - 1]
      <4>1. j - 1 \in 0..r /\ ~(j <= j - 1)
        BY <2>3, <3>1
      <4> QED
        BY <2>2, <4>1
    <3> QED
      BY <3>1
  <2>5. o2[j] = Back(IF j = 0 THEN oy ELSE o2[j - 1] + 1)
    BY <1>5, <2>3
  <2>6. h[j] = Back(IF j = 0 THEN oy ELSE h[j - 1] + 1)
    BY <1>3, <2>3
  <2> QED
    BY <2>3, <2>4, <2>5, <2>6
<1>7. o2[r] = h[r]
  <2> HIDE DEF o2, h
  <2>1. r \in 0..r
    OBVIOUS
  <2> QED
    BY <1>6, <2>1
<1>8. h[r] = (oy + r) % N2
  OBVIOUS
<1> HIDE DEF o2, h
<1> QED
  BY <1>2, <1>7, <1>8 DEF oy

\* Points of subproblem k whose kernels hold cell <<dx, r>> of its subgrid.
Hits(k, dx, r) ==
  {p \in SubPoints(k) : dx - (First(p, 1) - Box(k, 1)[1]) \in 0..(NS - 1) /\ InRow(k, p, r)}

\* A cell of a subgrid holds the weight of its points.
LEMMA SubgridIs ==
  ASSUME SortTypes, Sorted, sorted, NEW k \in 0..(nb - 1)
  PROVE  /\ Subgrid(k).off[1] = Box(k, 1)[1] /\ Subgrid(k).off[2] = Box(k, 2)[1]
         /\ Subgrid(k).size[1] = Box(k, 1)[2] /\ Subgrid(k).size[2] = Height(k)
         /\ \A dx \in 0..(Box(k, 1)[2] - 1), r \in 0..(Height(k) - 1) :
              Subgrid(k).val[<<dx, r>>] = Weight(Hits(k, dx, r))
<1> DEFINE bx == Box(k, 1)
           by == Box(k, 2)
           Hit(c) == {p \in SubPoints(k) : c[1] - (First(p, 1) - bx[1]) \in 0..(NS - 1)
                                        /\ c[2] - (First(p, 2) - by[1]) \in 0..(NS - 1)}
           v == [c \in (0..(bx[2] - 1)) \X (0..(by[2] - 1)) |->
                  SumOver(Hit(c), [p \in Hit(c) |-> Strength[p]])]
<1>1. Subgrid(k) = [off |-> <<bx[1], by[1]>>, size |-> <<bx[2], by[2]>>, val |-> v]
  BY DEF Subgrid
<1>2. ASSUME NEW dx \in 0..(bx[2] - 1), NEW r \in 0..(by[2] - 1)
      PROVE  v[<<dx, r>>] = Weight(Hits(k, dx, r))
  <2> DEFINE S == Hit(<<dx, r>>)
  <2>1. v[<<dx, r>>] = SumOver(S, [p \in S |-> Strength[p]])
    OBVIOUS
  <2>2. S = Hits(k, dx, r)
    BY DEF Hits, InRow
  <2>3. S \in SUBSET (0..(MaxM - 1))
    <3>1. S \subseteq Points
      BY SubPartition
    <3>2. Points \subseteq 0..(MaxM - 1)
      BY BinSortAssumption DEF Points, SortTypes
    <3> QED
      BY <3>1, <3>2
  <2> HIDE DEF S
  <2>4. SumOver(S, [p \in S |-> Strength[p]]) = Weight(S)
    BY <2>3, StrengthSum
  <2> QED
    BY <2>1, <2>2, <2>4
<1> HIDE DEF v, bx, by
<1>3. /\ Subgrid(k).off[1] = bx[1] /\ Subgrid(k).off[2] = by[1]
      /\ Subgrid(k).size[1] = bx[2] /\ Subgrid(k).size[2] = by[2]
      /\ Subgrid(k).val = v
  BY <1>1
<1> QED
  BY <1>2, <1>3 DEF bx, by, Height

\* The boxes of subproblem k.
LEMMA Boxes ==
  ASSUME SortTypes, Sorted, sorted, NEW k \in 0..(nb - 1)
  PROVE  /\ Box(k, 1)[1] \in (-NS)..N1 /\ Box(k, 1)[2] \in Nat
         /\ Box(k, 1)[1] + Box(k, 1)[2] <= N1 + NS
         /\ Box(k, 2)[1] \in (-NS)..N2 /\ Height(k) \in Nat /\ Height(k) >= 1
         /\ \A p \in SubPoints(k) :
              /\ p \in Points /\ First(p, 1) \in Int /\ First(p, 2) \in Int
              /\ Box(k, 1)[1] <= First(p, 1)
              /\ First(p, 1) + NS <= Box(k, 1)[1] + Box(k, 1)[2]
              /\ Box(k, 2)[1] <= First(p, 2)
              /\ First(p, 2) + NS <= Box(k, 2)[1] + Height(k)
<1>1. N1 \in Nat /\ N2 \in Nat /\ NS \in Nat
  BY BinSortAssumption, SpreadAssumption
<1>2. \A p \in Points : First(p, 1) \in (-NS)..N1 /\ First(p, 2) \in (-NS)..N2
  BY FirstRange
<1>3. /\ Box(k, 1)[1] \in (-NS)..N1 /\ Box(k, 1)[2] \in Nat
      /\ Box(k, 1)[1] + Box(k, 1)[2] <= N1 + NS
      /\ \A p \in SubPoints(k) : /\ Box(k, 1)[1] <= First(p, 1)
                                 /\ First(p, 1) + NS <= Box(k, 1)[1] + Box(k, 1)[2]
  BY <1>1, <1>2, BoxHolds
<1>4. /\ Box(k, 2)[1] \in (-NS)..N2 /\ Box(k, 2)[2] \in Nat /\ Box(k, 2)[2] >= 1
      /\ \A p \in SubPoints(k) : /\ Box(k, 2)[1] <= First(p, 2)
                                 /\ First(p, 2) + NS <= Box(k, 2)[1] + Box(k, 2)[2]
  BY <1>1, <1>2, BoxHolds
<1>5. \A p \in SubPoints(k) : p \in Points /\ First(p, 1) \in Int /\ First(p, 2) \in Int
  <2>1. SubPoints(k) \subseteq Points
    BY SubPartition
  <2> QED
    BY <1>1, <1>2, <2>1
<1> QED
  BY <1>3, <1>4, <1>5 DEF Height

\* A row of a subgrid adds to each cell of its row of the grid the weight of the
\* points that reach the cell from there: a point comes in by one column only, as
\* its kernel is narrower than the grid.
LEMMA RowAdds ==
  ASSUME SortTypes, Sorted, sorted, NEW k \in 0..(nb - 1), NEW r \in 0..(Height(k) - 1),
         NEW row
  PROVE  AddRow(Subgrid(k), r, row) = [x \in Xs |-> row[x] + Weight(RowSet(k, r, x))]
<1> DEFINE g == Subgrid(k)
           ox == Box(k, 1)[1]
           w == Box(k, 1)[2]
<1>1. /\ g.off[1] = ox /\ g.size[1] = w
      /\ \A dx \in 0..(w - 1) : g.val[<<dx, r>>] = Weight(Hits(k, dx, r))
  BY SubgridIs
<1>2. /\ N1 \in Nat \ {0} /\ NS \in Nat \ {0} /\ N1 >= 2 * NS
      /\ ox \in (-NS)..N1 /\ w \in Nat /\ ox + w <= N1 + NS
      /\ \A p \in SubPoints(k) : /\ First(p, 1) \in Int
                                 /\ ox <= First(p, 1) /\ First(p, 1) + NS <= ox + w
  BY Boxes, SpreadAssumption, BinSortAssumption
<1> HIDE DEF g, ox, w
<1>3. ASSUME NEW dx \in 0..(w - 1) PROVE WrapX(g, dx) = (ox + dx) % N1
  BY <1>1, <1>2, WrapXMod
<1>4. ASSUME NEW x \in Xs
      PROVE  LET cols == {dx \in 0..(g.size[1] - 1) : WrapX(g, dx) = x}
             IN  SumOver(cols, [dx \in cols |-> g.val[<<dx, r>>]]) = Weight(RowSet(k, r, x))
  <2> DEFINE cols == {dx \in 0..(g.size[1] - 1) : WrapX(g, dx) = x}
             f == [dx \in cols |-> g.val[<<dx, r>>]]
             H == [dx \in cols |-> Units(Hits(k, dx, r))]
             R == RowSet(k, r, x)
  <2>1. cols = {dx \in 0..(w - 1) : (ox + dx) % N1 = x}
    BY <1>1, <1>3
  <2>2. IsFiniteSet(cols)
    <3> DEFINE D == 0..(w - 1)
    <3>1. IsFiniteSet(D) /\ cols \in SUBSET D
      BY <1>2, <2>1, FS_Interval
    <3> HIDE DEF D, cols
    <3> QED
      BY <3>1, FS_Subset
  <2>3. \A dx \in cols : Hits(k, dx, r) \in SUBSET (0..(MaxM - 1))
    <3>1. SubPoints(k) \subseteq Points
      BY SubPartition
    <3>2. Points \subseteq 0..(MaxM - 1)
      BY BinSortAssumption DEF Points, SortTypes
    <3> QED
      BY <3>1, <3>2 DEF Hits
  <2>4. \A dx \in cols : IsFiniteSet(H[dx]) /\ f[dx] = Cardinality(H[dx])
    <3> SUFFICES ASSUME NEW dx \in cols
                 PROVE  IsFiniteSet(H[dx]) /\ f[dx] = Cardinality(H[dx])
      OBVIOUS
    <3>1. IsFiniteSet(Units(Hits(k, dx, r)))
      BY <2>3, UnitsFinite
    <3>2. dx \in 0..(w - 1)
      BY <2>1
    <3>3. f[dx] = Weight(Hits(k, dx, r)) /\ H[dx] = Units(Hits(k, dx, r))
      BY <1>1, <3>2
    <3> QED
      BY <3>1, <3>3 DEF Weight
  <2>5. ASSUME NEW dx \in cols, NEW ex \in cols, NEW p,
               p \in Hits(k, dx, r), p \in Hits(k, ex, r)
        PROVE  dx = ex
    <3> DEFINE a == ox + dx
               b == ox + ex
               d == dx - (First(p, 1) - ox)
               e == ex - (First(p, 1) - ox)
    <3>1. d \in 0..(NS - 1) /\ e \in 0..(NS - 1) /\ First(p, 1) \in Int
      BY <1>2, <2>5 DEF Hits, ox
    <3>2. /\ dx \in Int /\ ex \in Int /\ a % N1 = b % N1
      BY <2>1
    <3>3. a \in Int /\ b \in Int /\ -N1 < a - b /\ a - b < N1
      BY <1>2, <3>1, <3>2
    <3>4. a = b
      <4> HIDE DEF a, b
      <4> QED
        BY <1>2, <3>2, <3>3, ModSame
    <3> QED
      BY <1>2, <3>2, <3>4
  <2>6. \A dx, ex \in cols : dx # ex => H[dx] \cap H[ex] = {}
    <3> SUFFICES ASSUME NEW dx \in cols, NEW ex \in cols, dx # ex
                 PROVE  Units(Hits(k, dx, r)) \cap Units(Hits(k, ex, r)) = {}
      OBVIOUS
    <3>1. Hits(k, dx, r) \cap Hits(k, ex, r) = {}
      BY <2>5
    <3> QED
      BY <2>3, <3>1, WeightUnion
  <2>7. \A p : p \in R <=> \E dx \in cols : p \in Hits(k, dx, r)
    <3>1. ASSUME NEW p \in R PROVE \E dx \in cols : p \in Hits(k, dx, r)
      <4>1. p \in SubPoints(k) /\ InRow(k, p, r) /\ InColumn(p, x)
        BY DEF RowSet
      <4>2. PICK d \in 0..(NS - 1) : (First(p, 1) + d) % N1 = x
        BY <4>1 DEF InColumn
      <4> DEFINE dx == (First(p, 1) - ox) + d
      <4>3. First(p, 1) \in Int /\ ox <= First(p, 1) /\ First(p, 1) + NS <= ox + w
        BY <1>2, <4>1
      <4>4. dx \in 0..(w - 1) /\ ox + dx = First(p, 1) + d
            /\ dx - (First(p, 1) - ox) = d
        BY <1>2, <4>3
      <4> HIDE DEF dx
      <4>5. dx \in cols
        BY <2>1, <4>2, <4>4
      <4>6. p \in Hits(k, dx, r)
        BY <4>1, <4>4 DEF Hits, ox
      <4> QED
        BY <4>5, <4>6
    <3>2. ASSUME NEW p, NEW dx \in cols, p \in Hits(k, dx, r) PROVE p \in R
      <4>1. p \in SubPoints(k) /\ InRow(k, p, r) /\ dx - (First(p, 1) - ox) \in 0..(NS - 1)
        BY <3>2 DEF Hits, ox
      <4> DEFINE d == dx - (First(p, 1) - ox)
      <4>2. First(p, 1) \in Int /\ dx \in Int
        BY <1>2, <2>1, <4>1
      <4>3. First(p, 1) + d = ox + dx /\ d \in 0..(NS - 1)
        BY <1>2, <4>1, <4>2
      <4>4. (First(p, 1) + d) % N1 = x
        BY <2>1, <4>3
      <4> HIDE DEF d
      <4>5. InColumn(p, x)
        BY <4>3, <4>4 DEF InColumn
      <4> QED
        BY <4>1, <4>5 DEF RowSet
    <3> QED
      BY <3>1, <3>2
  <2>8. Units(R) = UNION {H[dx] : dx \in cols}
    <3>1. \A dx \in cols : H[dx] = Units(Hits(k, dx, r))
      OBVIOUS
    <3> HIDE DEF R, cols, H
    <3> QED
      BY <2>7, <3>1 DEF Units
  <2>9. DisjointSizes(cols, f, H, Units(R))
    <3> HIDE DEF cols, f, H, R
    <3> QED
      BY <2>2, <2>4, <2>6, <2>8 DEF DisjointSizes
  <2>10. SumOver(cols, f) = Weight(R)
    <3> HIDE DEF cols, f, H, R
    <3> QED
      BY <2>9, SumOverSize DEF Weight
  <2> QED
    BY <2>10
<1>5. AddRow(g, r, row)
        = [x \in Xs |->
             LET cols == {dx \in 0..(g.size[1] - 1) : WrapX(g, dx) = x}
             IN  row[x] + SumOver(cols, [dx \in cols |-> g.val[<<dx, r>>]])]
  BY DEF AddRow
<1> QED
  BY <1>4, <1>5 DEF g

-----------------------------------------------------------------------------
(* What has been merged *)

\* The points that a row brings are points of this transform.
LEMMA RowPoints ==
  ASSUME SortTypes, Sorted, sorted
  PROVE  /\ \A k \in 0..(nb - 1) : \A r, x : RowSet(k, r, x) \in SUBSET (0..(MaxM - 1))
         /\ \A rows, c : Merged(rows, c) \in SUBSET (0..(MaxM - 1))
<1>1. Points \subseteq 0..(MaxM - 1)
  BY BinSortAssumption DEF Points, SortTypes
<1>2. \A k \in 0..(nb - 1) : SubPoints(k) \subseteq Points
  BY SubPartition
<1> QED
  BY <1>1, <1>2 DEF RowSet, Merged

\* Nothing is merged by no rows.
LEMMA MergedNone ==
  ASSUME NEW rows \in [0..(nb - 1) -> Nat], \A k \in 0..(nb - 1) : rows[k] = 0, NEW c
  PROVE  Weight(Merged(rows, c)) = 0
<1>1. \A k \in 0..(nb - 1) : 0..(rows[k] - 1) = {}
  OBVIOUS
<1>2. Merged(rows, c) = {}
  BY <1>1 DEF Merged
<1>3. Units({}) = {}
  BY DEF Units
<1> QED
  BY <1>2, <1>3, FS_EmptySet DEF Weight

\* One more row of subgrid k has been merged.
Advance(rows, k, next) ==
  /\ rows \in [0..(nb - 1) -> Nat] /\ next \in [0..(nb - 1) -> Nat] /\ k \in 0..(nb - 1)
  /\ next[k] = rows[k] + 1
  /\ \A l \in 0..(nb - 1) : l # k => next[l] = rows[l]

\* The next row of subgrid k adds, in the row of the grid where it lies, points
\* that no earlier row has brought there: the rows of a kernel are fewer than
\* those of the grid, and subproblems share no point.
LEMMA MergedNext ==
  ASSUME SortTypes, Sorted, sorted, NEW rows, NEW k, NEW next, Advance(rows, k, next), NEW c
  PROVE  Weight(Merged(next, c)) =
           IF RowAt(k, rows[k]) = c[2]
             THEN Weight(Merged(rows, c)) + Weight(RowSet(k, rows[k], c[1]))
             ELSE Weight(Merged(rows, c))
<1> DEFINE r == rows[k]
           New == IF RowAt(k, r) = c[2] THEN RowSet(k, r, c[1]) ELSE {}
<1> k \in 0..(nb - 1)
  BY DEF Advance
<1>1. /\ r \in Nat /\ next[k] = r + 1
      /\ \A l \in 0..(nb - 1) : rows[l] \in Nat /\ (l # k => next[l] = rows[l])
  BY DEF Advance
<1>2. \A l \in 0..(nb - 1) : SubPoints(l) \subseteq Points
  BY SubPartition
<1> HIDE DEF r
<1>3. Merged(next, c) = Merged(rows, c) \cup New
  <2>1. ASSUME NEW p \in Points, NEW l \in 0..(nb - 1), NEW s \in 0..(next[l] - 1),
               RowAt(l, s) = c[2], p \in RowSet(l, s, c[1])
        PROVE  p \in Merged(rows, c) \cup New
    <3>1. CASE l = k /\ s = r
      BY <2>1, <3>1
    <3>2. CASE ~(l = k /\ s = r)
      <4>1. s \in 0..(rows[l] - 1)
        BY <1>1, <3>2 DEF r
      <4> QED
        BY <2>1, <4>1 DEF Merged
    <3> QED
      BY <3>1, <3>2
  <2>2. \A p \in Merged(next, c) : p \in Merged(rows, c) \cup New
    BY <2>1 DEF Merged
  <2>3. ASSUME NEW p \in Points, NEW l \in 0..(nb - 1), NEW s \in 0..(rows[l] - 1),
               RowAt(l, s) = c[2], p \in RowSet(l, s, c[1])
        PROVE  p \in Merged(next, c)
    <3>1. s \in 0..(next[l] - 1)
      BY <1>1 DEF r
    <3> QED
      BY <2>3, <3>1 DEF Merged
  <2>4. \A p \in Merged(rows, c) : p \in Merged(next, c)
    BY <2>3 DEF Merged
  <2>5. ASSUME NEW p \in New PROVE p \in Merged(next, c)
    <3>1. RowAt(k, r) = c[2] /\ p \in RowSet(k, r, c[1])
      BY <2>5
    <3>2. p \in Points
      BY <1>2, <3>1 DEF RowSet
    <3>3. r \in 0..(next[k] - 1)
      BY <1>1
    <3> QED
      BY <3>1, <3>2, <3>3 DEF Merged
  <2> HIDE DEF New
  <2> QED
    BY <2>2, <2>4, <2>5
<1>4. Merged(rows, c) \cap New = {}
  <2> SUFFICES ASSUME NEW p \in Merged(rows, c), p \in New PROVE FALSE
    OBVIOUS
  <2>1. RowAt(k, r) = c[2] /\ p \in RowSet(k, r, c[1])
    OBVIOUS
  <2>2. PICK l \in 0..(nb - 1) : \E s \in 0..(rows[l] - 1) :
               RowAt(l, s) = c[2] /\ p \in RowSet(l, s, c[1])
    BY DEF Merged
  <2>3. PICK s \in 0..(rows[l] - 1) : RowAt(l, s) = c[2] /\ p \in RowSet(l, s, c[1])
    BY <2>2
  <2>4. l = k
    BY <2>1, <2>3, SubPartition DEF RowSet
  <2> DEFINE o == Box(k, 2)[1]
             f == First(p, 2)
  <2>5. /\ o \in Int /\ f \in Int /\ N2 \in Nat \ {0} /\ NS \in Nat /\ N2 >= 2 * NS
        /\ NS >= 1
    <3>1. p \in SubPoints(k)
      BY <2>1 DEF RowSet
    <3>2. NS \in Nat \ {0} /\ N2 \in Nat \ {0} /\ N2 >= 2 * NS
      BY SpreadAssumption, BinSortAssumption
    <3>3. o \in (-NS)..N2 /\ f \in Int
      BY <3>1, Boxes
    <3> QED
      BY <3>2, <3>3
  <2>6. r - (f - o) \in 0..(NS - 1) /\ s - (f - o) \in 0..(NS - 1)
    BY <2>1, <2>3, <2>4 DEF RowSet, InRow
  <2>7. (o + r) % N2 = (o + s) % N2
    BY <2>1, <2>3, <2>4 DEF RowAt
  <2> HIDE DEF o, f
  <2>8. s \in Nat /\ s < r
    BY <1>1, <2>4 DEF r
  <2> DEFINE a == o + r
             b == o + s
  <2>9. a \in Int /\ b \in Int /\ -N2 < a - b /\ a - b < N2 /\ a % N2 = b % N2
    BY <1>1, <2>5, <2>6, <2>7, <2>8
  <2>10. a = b
    <3> HIDE DEF a, b
    <3> QED
      BY <2>5, <2>9, ModSame
  <2> QED
    BY <1>1, <2>5, <2>8, <2>10
<1>5. Merged(rows, c) \in SUBSET (0..(MaxM - 1)) /\ New \in SUBSET (0..(MaxM - 1))
  BY RowPoints
<1>6. Weight(Merged(next, c)) = Weight(Merged(rows, c)) + Weight(New)
  <2> HIDE DEF New
  <2> QED
    BY <1>3, <1>4, <1>5, WeightUnion
<1>7. RowAt(k, r) # c[2] => Merged(next, c) = Merged(rows, c)
  BY <1>3
<1> QED
  BY <1>6, <1>7 DEF r

\* When every subgrid has been merged whole, each cell holds the direct sum.
LEMMA MergedAll ==
  ASSUME SortTypes, Sorted, sorted, NEW rows,
         \A k \in 0..(nb - 1) : rows[k] = Height(k), NEW c \in Xs \X Ys
  PROVE  Weight(Merged(rows, c)) = DirectSum(c)
<1> DEFINE hit == {p \in Points : Covers(p, c)}
<1>1. NS \in Nat \ {0} /\ N1 \in Nat \ {0} /\ N2 \in Nat \ {0}
  BY SpreadAssumption, BinSortAssumption
<1>2. ASSUME NEW p \in Points, Covers(p, c) PROVE p \in Merged(rows, c)
  <2>1. PICK k \in 0..(nb - 1) : p \in SubPoints(k)
    BY SubPartition
  <2>2. PICK d \in 0..(NS - 1) : (First(p, 2) + d) % N2 = c[2]
    BY <1>2 DEF Covers
  <2> DEFINE o == Box(k, 2)[1]
             f == First(p, 2)
             r == (f - o) + d
  <2>3. o \in (-NS)..N2 /\ f \in Int /\ o <= f /\ f + NS <= o + Height(k) /\ Height(k) \in Nat
    BY <2>1, Boxes
  <2>4. r \in 0..(Height(k) - 1) /\ o + r = f + d /\ r - (f - o) = d
    <3> HIDE DEF o, f
    <3> QED
      BY <1>1, <2>3
  <2> HIDE DEF r
  <2>5. RowAt(k, r) = c[2] /\ InRow(k, p, r)
    BY <2>2, <2>4 DEF RowAt, InRow
  <2>6. InColumn(p, c[1])
    BY <1>2 DEF Covers, InColumn
  <2> QED
    BY <2>1, <2>4, <2>5, <2>6 DEF Merged, RowSet
<1>3. ASSUME NEW p \in Merged(rows, c) PROVE Covers(p, c)
  <2>1. PICK k \in 0..(nb - 1) : \E r \in 0..(rows[k] - 1) :
               RowAt(k, r) = c[2] /\ p \in RowSet(k, r, c[1])
    BY DEF Merged
  <2>2. PICK r \in 0..(rows[k] - 1) : RowAt(k, r) = c[2] /\ p \in RowSet(k, r, c[1])
    BY <2>1
  <2> DEFINE o == Box(k, 2)[1]
             f == First(p, 2)
             d == r - (f - o)
  <2>3. p \in SubPoints(k) /\ InColumn(p, c[1]) /\ d \in 0..(NS - 1) /\ (o + r) % N2 = c[2]
    BY <2>2 DEF RowSet, InRow, RowAt
  <2>4. o \in Int /\ f \in Int /\ r \in Int
    <3>1. o \in (-NS)..N2 /\ f \in Int
      BY <2>3, Boxes
    <3> QED
      BY <1>1, <3>1
  <2>5. f + d = o + r
    BY <2>4
  <2>6. (f + d) % N2 = c[2]
    BY <2>3, <2>5
  <2> HIDE DEF d
  <2> QED
    BY <2>3, <2>6 DEF Covers, InColumn
<1>4. Merged(rows, c) = hit
  BY <1>2, <1>3 DEF Merged
<1>5. hit \in SUBSET (0..(MaxM - 1))
  BY <1>4, RowPoints
<1>6. DirectSum(c) = SumOver(hit, [p \in hit |-> Strength[p]])
  BY DEF DirectSum
<1> HIDE DEF hit
<1>7. SumOver(hit, [p \in hit |-> Strength[p]]) = Weight(hit)
  BY <1>5, StrengthSum
<1> QED
  BY <1>4, <1>6, <1>7

-----------------------------------------------------------------------------
(* The steps of the spreader *)

\* While the sort's state stays as it is, so do the subproblems.
LEMMA Unmoved ==
  ASSUME UNCHANGED sortVars
  PROVE  /\ nb' = nb /\ Points' = Points /\ Threads' = Threads /\ (Atomic <=> Atomic')
         /\ \A k : Subgrid(k)' = Subgrid(k) /\ Height(k)' = Height(k)
         /\ \A k, r : RowAt(k, r)' = RowAt(k, r)
         /\ \A k, r, x : RowSet(k, r, x)' = RowSet(k, r, x)
         /\ \A rows, c : Merged(rows, c)' = Merged(rows, c)
<1>1. UNCHANGED <<M, nthr, place, sortIndices>>
  BY DEF sortVars
<1>2. nb' = nb /\ Points' = Points /\ Threads' = Threads /\ (Atomic <=> Atomic')
  BY <1>1 DEF nb, Points, Threads, Atomic
<1>3. \A k : SubPoints(k)' = SubPoints(k)
  BY <1>1, <1>2 DEF SubPoints, Break
<1>4. \A p, d : First(p, d)' = First(p, d)
  BY <1>1 DEF First
<1>5. \A k, d : Box(k, d)' = Box(k, d)
  BY <1>3, <1>4 DEF Box
<1>6. \A k : Subgrid(k)' = Subgrid(k)
  BY <1>3, <1>4, <1>5 DEF Subgrid
<1>7. \A k, r : RowAt(k, r)' = RowAt(k, r)
  BY <1>5 DEF RowAt
<1>8. \A k, r, x : RowSet(k, r, x)' = RowSet(k, r, x)
  BY <1>3, <1>4, <1>5 DEF RowSet, InRow, InColumn
<1>9. \A rows, c : Merged(rows, c)' = Merged(rows, c)
  BY <1>2, <1>7, <1>8 DEF Merged
<1> QED
  BY <1>2, <1>5, <1>6, <1>7, <1>8, <1>9 DEF Height

\* The grid holds what has been merged, and row r of g, which is subgrid k, is the
\* next one to merge.
Due(rows, k, next, g, r) ==
  /\ Advance(rows, k, next)
  /\ \A c \in Xs \X Ys : grid[c] = Weight(Merged(rows, c))
  /\ rows[k] < Height(k) /\ g = Subgrid(k) /\ r = rows[k]

\* Adding the next row of subgrid k to the grid adds what MergedNext says.
LEMMA RowMerged ==
  ASSUME SortTypes, Sorted, sorted, NEW rows, NEW k, NEW next, NEW g, NEW r,
         Due(rows, k, next, g, r)
  PROVE  LET y == WrapY(g, r)
             new == SetRow(y, AddRow(g, r, GridRow(y)))
         IN  \A c \in Xs \X Ys : new[c] = Weight(Merged(next, c))
<1> DEFINE y == WrapY(g, r)
           row == AddRow(g, r, GridRow(y))
<1> USE DEF Due
<1> k \in 0..(nb - 1)
  BY DEF Advance
<1>1. r \in 0..(Height(k) - 1) /\ Height(k) \in Nat
  BY Boxes DEF Advance
<1>2. y = RowAt(k, r)
  <2>1. g.off[2] = Box(k, 2)[1] /\ g.off[2] \in (-NS)..N2
    BY SubgridIs, Boxes
  <2> QED
    BY <1>1, <2>1, WrapYMod DEF RowAt
<1> HIDE DEF y
<1>3. row = [x \in Xs |-> GridRow(y)[x] + Weight(RowSet(k, r, x))]
  BY <1>1, RowAdds
<1>4. \A x \in Xs : GridRow(y)[x] = grid[<<x, y>>]
  BY DEF GridRow
<1> HIDE DEF row
<1>5. ASSUME NEW c \in Xs \X Ys PROVE SetRow(y, row)[c] = Weight(Merged(next, c))
  <2>1. SetRow(y, row)[c] = IF c[2] = y THEN row[c[1]] ELSE grid[c]
    BY DEF SetRow
  <2>2. c[1] \in Xs /\ c = <<c[1], c[2]>>
    OBVIOUS
  <2>3. Weight(Merged(next, c)) = IF RowAt(k, r) = c[2]
                                    THEN Weight(Merged(rows, c)) + Weight(RowSet(k, r, c[1]))
                                    ELSE Weight(Merged(rows, c))
    BY MergedNext
  <2>4. CASE c[2] = y
    <3>1. GridRow(y)[c[1]] = grid[c]
      BY <1>4, <2>2, <2>4
    <3> QED
      BY <1>2, <1>3, <2>1, <2>2, <2>3, <2>4, <3>1
  <2>5. CASE c[2] # y
    BY <1>2, <2>1, <2>3, <2>5
  <2> QED
    BY <2>4, <2>5
<1> QED
  BY <1>5 DEF y, row

\* A thread adds a row and goes on, to its next row or to idle.
LEMMA AddStep ==
  ASSUME SortTypes, Sorted, sorted, SpreadTypes, NEW more \in {"merge", "critical"},
         NEW sub \in [Threads -> Nat], NEW rows \in [0..(nb - 1) -> Nat], Working(sub, rows),
         NEW t \in Threads, at[t] # "idle", UNCHANGED <<sortVars, isub, du0, acc, done>>,
         grid' = SetRow(WrapY(du0[t], dy[t]),
                        AddRow(du0[t], dy[t], GridRow(WrapY(du0[t], dy[t])))),
         NextRow(t, more)
  PROVE  /\ SpreadTypes'
         /\ \E next \in [0..(nb - 1) -> Nat] : Working(sub, next)'
<1> DEFINE k == sub[t]
           next == [rows EXCEPT ![k] = @ + 1]
<1>1. /\ isub \in 0..nb /\ at \in [Threads -> {"idle", "merge", "critical", "loaded"}]
      /\ dy \in [Threads -> Nat] /\ DOMAIN du0 = Threads /\ DOMAIN acc = Threads
      /\ DOMAIN grid = Xs \X Ys /\ done \in BOOLEAN /\ nb \in Nat \ {0}
  BY SubBreaks DEF SpreadTypes
<1>2. /\ k \in 0..(isub - 1) /\ du0[t] = Subgrid(k) /\ rows[k] = dy[t] /\ dy[t] < Height(k)
  BY DEF Working, Shared
<1>3. k \in 0..(nb - 1) /\ k < isub
  BY <1>1, <1>2
<1>4. /\ Height(k) \in Nat /\ du0[t].size[2] = Height(k)
  BY <1>2, <1>3, Boxes, SubgridIs
<1>5. /\ next \in [0..(nb - 1) -> Nat] /\ next[k] = dy[t] + 1
      /\ \A l \in 0..(nb - 1) : l # k => next[l] = rows[l]
  BY <1>2, <1>3
<1>6. /\ DOMAIN grid' = Xs \X Ys
      /\ \A c \in Xs \X Ys : grid'[c] = Weight(Merged(next, c))
  <2>1. \A c \in Xs \X Ys : grid[c] = Weight(Merged(rows, c))
    BY DEF Working
  <2>2. Due(rows, k, next, du0[t], dy[t])
    <3> HIDE DEF k, next
    <3> QED
      BY <1>2, <1>3, <1>5, <2>1 DEF Due, Advance
  <2> HIDE DEF k, next
  <2> DEFINE g == du0[t]
             r == dy[t]
             new == SetRow(WrapY(g, r), AddRow(g, r, GridRow(WrapY(g, r))))
  <2>3. grid' = new
    OBVIOUS
  <2> HIDE DEF g, r
  <2>4. Due(rows, k, next, g, r)
    BY <2>2 DEF g, r
  <2>5. DOMAIN new = Xs \X Ys
    BY DEF SetRow
  <2>6. \A c \in Xs \X Ys : new[c] = Weight(Merged(next, c))
    BY <2>4, RowMerged
  <2> HIDE DEF new
  <2> QED
    BY <2>3, <2>5, <2>6
<1>7. /\ dy' = [dy EXCEPT ![t] = @ + 1]
      /\ at' = [at EXCEPT ![t] = IF dy[t] + 1 < Height(k) THEN more ELSE "idle"]
      /\ UNCHANGED <<isub, du0, acc, done>>
  BY <1>4 DEF NextRow
<1> HIDE DEF k, next
<1>8. /\ dy' \in [Threads -> Nat] /\ dy'[t] = dy[t] + 1
      /\ at' \in [Threads -> {"idle", "merge", "critical", "loaded"}]
      /\ at'[t] = IF dy[t] + 1 < Height(k) THEN more ELSE "idle"
      /\ \A u \in Threads : u # t => dy'[u] = dy[u] /\ at'[u] = at[u]
  BY <1>1, <1>7
<1>9. /\ nb' = nb /\ Threads' = Threads
      /\ \A l : Subgrid(l)' = Subgrid(l) /\ Height(l)' = Height(l)
      /\ \A ns, c : Merged(ns, c)' = Merged(ns, c)
  BY Unmoved
<1>10. SpreadTypes'
  BY <1>1, <1>6, <1>7, <1>8, <1>9 DEF SpreadTypes
<1>11. Shared(sub, next)'
  <2>1. Shared(sub, rows)
    BY DEF Working
  <2>2. ASSUME NEW u \in Threads, at'[u] # "idle"
        PROVE  /\ at[u] # "idle" /\ sub[u] \in 0..(isub - 1) /\ du0[u] = Subgrid(sub[u])
               /\ next[sub[u]] = dy'[u] /\ dy'[u] < Height(sub[u])
    <3>1. CASE u = t
      <4>1. dy[t] + 1 < Height(k)
        BY <1>8, <2>2, <3>1
      <4> QED
        BY <1>2, <1>5, <1>8, <3>1, <4>1 DEF k
    <3>2. CASE u # t
      <4>1. at[u] # "idle" /\ dy'[u] = dy[u]
        BY <1>8, <2>2, <3>2
      <4>2. /\ sub[u] \in 0..(isub - 1) /\ du0[u] = Subgrid(sub[u])
            /\ rows[sub[u]] = dy[u] /\ dy[u] < Height(sub[u]) /\ sub[u] # k
        BY <2>1, <3>2, <4>1 DEF Shared, k
      <4>3. sub[u] \in 0..(nb - 1)
        BY <1>1, <4>2
      <4> QED
        BY <1>5, <4>1, <4>2, <4>3
    <3> QED
      BY <3>1, <3>2
  <2>3. ASSUME NEW u \in Threads, NEW v \in Threads,
               at'[u] # "idle", at'[v] # "idle", sub[u] = sub[v]
        PROVE  u = v
    BY <2>1, <2>2, <2>3 DEF Shared
  <2>4. ASSUME NEW l \in 0..(nb - 1)
        PROVE  /\ l >= isub => next[l] = 0
               /\ l < isub => next[l] = Height(l) \/ \E u \in Threads : at'[u] # "idle" /\ sub[u] = l
    <3>1. CASE l = k
      <4>1. CASE dy[t] + 1 < Height(k)
        BY <1>1, <1>3, <1>8, <3>1, <4>1 DEF k
      <4>2. CASE ~(dy[t] + 1 < Height(k))
        BY <1>1, <1>2, <1>3, <1>4, <1>5, <3>1, <4>2
      <4> QED
        BY <4>1, <4>2
    <3>2. CASE l # k
      <4>1. /\ l >= isub => rows[l] = 0
            /\ l < isub => rows[l] = Height(l) \/ \E u \in Threads : at[u] # "idle" /\ sub[u] = l
        BY <2>1 DEF Shared
      <4>2. next[l] = rows[l]
        BY <1>5, <3>2
      <4>3. \A u \in Threads : at[u] # "idle" /\ sub[u] = l => at'[u] # "idle"
        BY <1>8, <3>2 DEF k
      <4> QED
        BY <4>1, <4>2, <4>3
    <3> QED
      BY <3>1, <3>2
  <2> QED
    BY <1>7, <1>9, <2>2, <2>3, <2>4 DEF Shared
<1>12. Working(sub, next)'
  BY <1>6, <1>9, <1>11 DEF Working
<1> QED
  BY <1>5, <1>10, <1>12

\* Before the points are in order nothing is spread; once they are, the spreading
\* has begun with nothing merged.
LEMMA SortKeeps ==
  ASSUME IInv, SumInv, SortNext, UNCHANGED spreadVars
  PROVE  SumInv'
<1>1. ~sorted /\ UNCHANGED <<M, nthr>>
  BY DEF SortNext, SerialSort, EndSort, SortThread, CountChunk, ScanBins, ScanTotals,
         Finalize, PlacePoint, Barrier, At
<1>2. /\ SpreadTypes /\ Locked /\ isub = 0 /\ done = FALSE
      /\ \A t \in Threads : at[t] = "idle"
      /\ \A c \in Xs \X Ys : grid[c] = 0
  BY <1>1 DEF SumInv, NotBegun, SpreadTypes
<1>3. nb' = nb /\ Threads' = Threads /\ nb \in Nat \ {0}
  BY <1>1, SubBreaks DEF nb, Threads, IInv
<1>4. UNCHANGED <<grid, isub, at, du0, dy, acc, done>>
  BY DEF spreadVars
<1>5. SpreadTypes'
  BY <1>2, <1>3, <1>4 DEF SpreadTypes
<1>6. Locked' /\ NotBegun'
  BY <1>2, <1>3, <1>4 DEF Locked, NotBegun
<1>7. \E sub \in [Threads' -> Nat], rows \in [0..(nb' - 1) -> Nat] : Working(sub, rows)'
  <2>1. /\ [t \in Threads |-> 0] \in [Threads -> Nat]
        /\ [k \in 0..(nb - 1) |-> 0] \in [0..(nb - 1) -> Nat]
    OBVIOUS
  <2>2. PICK sub \in [Threads -> Nat] : TRUE
    BY <2>1
  <2>3. PICK rows \in [0..(nb - 1) -> Nat] : rows = [k \in 0..(nb - 1) |-> 0]
    BY <2>1
  <2>4. \A k \in 0..(nb - 1) : rows[k] = 0 /\ 0..(rows[k] - 1) = {}
    BY <2>3
  <2>5. Shared(sub, rows)'
    BY <1>2, <1>3, <1>4, <2>4 DEF Shared
  <2>6. \A c : Merged(rows, c)' = {}
    BY <1>3, <2>4 DEF Merged
  <2>7. Units({}) = {}
    BY DEF Units
  <2>8. \A c : Weight(Merged(rows, c)') = 0
    BY <2>6, <2>7, FS_EmptySet DEF Weight
  <2>9. \A c \in Xs \X Ys : grid'[c] = Weight(Merged(rows, c)')
    BY <1>2, <1>4, <2>8
  <2>10. Working(sub, rows)'
    BY <2>5, <2>9 DEF Working
  <2> QED
    BY <1>3, <2>10
<1> QED
  BY <1>2, <1>4, <1>5, <1>6, <1>7 DEF SumInv

\* What holds while the spreading is at work.
LEMMA AtWork ==
  ASSUME IInv, SumInv, sorted
  PROVE  /\ SortTypes /\ Sorted /\ SpreadTypes /\ Locked
         /\ \E sub \in [Threads -> Nat], rows \in [0..(nb - 1) -> Nat] : Working(sub, rows)
  BY DEF IInv, SumInv

\* Taking a subproblem: its subgrid is the thread's own, with no row merged.
LEMMA TakeKeeps ==
  ASSUME IInv, SumInv, NEW t \in Threads, Take(t)
  PROVE  SumInv'
<1>1. /\ sorted /\ ~done /\ at[t] = "idle" /\ isub < nb
      /\ du0' = [du0 EXCEPT ![t] = Subgrid(isub)] /\ isub' = isub + 1
      /\ dy' = [dy EXCEPT ![t] = 0] /\ at' = [at EXCEPT ![t] = "merge"]
      /\ UNCHANGED <<sortVars, grid, acc, done>>
  BY DEF Take
<1>2. /\ SortTypes /\ Sorted /\ SpreadTypes /\ Locked
      /\ \E sub \in [Threads -> Nat], rows \in [0..(nb - 1) -> Nat] : Working(sub, rows)
  BY <1>1, AtWork
<1>3. /\ isub \in 0..nb /\ at \in [Threads -> {"idle", "merge", "critical", "loaded"}]
      /\ dy \in [Threads -> Nat] /\ DOMAIN du0 = Threads /\ DOMAIN acc = Threads
      /\ DOMAIN grid = Xs \X Ys /\ done \in BOOLEAN /\ nb \in Nat \ {0}
  BY <1>2, SubBreaks DEF SpreadTypes
<1>4. /\ at'[t] = "merge" /\ dy'[t] = 0 /\ du0'[t] = Subgrid(isub)
      /\ \A u \in Threads : u # t => at'[u] = at[u] /\ dy'[u] = dy[u] /\ du0'[u] = du0[u]
  BY <1>1, <1>3
<1>5. /\ nb' = nb /\ Threads' = Threads /\ (Atomic <=> Atomic') /\ sorted'
      /\ \A l : Subgrid(l)' = Subgrid(l) /\ Height(l)' = Height(l)
      /\ \A ns, c : Merged(ns, c)' = Merged(ns, c)
  BY <1>1, Unmoved DEF sortVars
<1>6. SpreadTypes'
  BY <1>1, <1>3, <1>5 DEF SpreadTypes
<1>7. Locked'
  <2>1. \A u \in Threads : at'[u] \in {"critical", "loaded"} => u # t /\ at'[u] = at[u]
    BY <1>4
  <2>2. \A u \in Threads : at'[u] = "loaded" =>
          acc'[u] = acc[u] /\ du0'[u] = du0[u] /\ dy'[u] = dy[u]
    BY <1>1, <1>4, <2>1
  <2>3. \A y : GridRow(y)' = GridRow(y)
    BY <1>1 DEF GridRow
  <2> QED
    BY <1>2, <1>5, <2>1, <2>2, <2>3 DEF Locked
<1>8. PICK sub \in [Threads -> Nat] : \E rows \in [0..(nb - 1) -> Nat] : Working(sub, rows)
  BY <1>2
<1>9. PICK rows \in [0..(nb - 1) -> Nat] : Working(sub, rows)
  BY <1>8
<1>10. PICK own \in [Threads -> Nat] :
             own[t] = isub /\ \A u \in Threads : u # t => own[u] = sub[u]
  <2> DEFINE f == [sub EXCEPT ![t] = isub]
  <2>1. /\ f \in [Threads -> Nat] /\ f[t] = isub
        /\ \A u \in Threads : u # t => f[u] = sub[u]
    BY <1>3
  <2> HIDE DEF f
  <2> QED
    BY <2>1
<1>11. Shared(own, rows)'
  <2>1. Shared(sub, rows)
    BY <1>9 DEF Working
  <2>2. isub \in 0..(nb - 1) /\ Height(isub) \in Nat /\ Height(isub) >= 1 /\ rows[isub] = 0
    <3>1. isub \in 0..(nb - 1)
      BY <1>1, <1>3
    <3> QED
      BY <1>1, <1>2, <2>1, <3>1, Boxes DEF Shared
  <2>3. ASSUME NEW u \in Threads, at'[u] # "idle"
        PROVE  /\ own[u] \in 0..((isub + 1) - 1) /\ du0'[u] = Subgrid(own[u])
               /\ rows[own[u]] = dy'[u] /\ dy'[u] < Height(own[u])
               /\ u # t => at[u] # "idle" /\ own[u] < isub
    <3>1. CASE u = t
      BY <1>3, <1>4, <1>10, <2>2, <3>1
    <3>2. CASE u # t
      <4>1. at[u] # "idle" /\ dy'[u] = dy[u] /\ du0'[u] = du0[u] /\ own[u] = sub[u]
        BY <1>4, <1>10, <2>3, <3>2
      <4>2. /\ sub[u] \in 0..(isub - 1) /\ du0[u] = Subgrid(sub[u])
            /\ rows[sub[u]] = dy[u] /\ dy[u] < Height(sub[u])
        BY <2>1, <4>1 DEF Shared
      <4> QED
        BY <1>3, <4>1, <4>2
    <3> QED
      BY <3>1, <3>2
  <2>4. ASSUME NEW u \in Threads, NEW v \in Threads,
               at'[u] # "idle", at'[v] # "idle", own[u] = own[v]
        PROVE  u = v
    <3>1. CASE u # t /\ v # t
      <4>1. at[u] # "idle" /\ at[v] # "idle" /\ sub[u] = sub[v]
        BY <1>10, <2>3, <2>4, <3>1
      <4> QED
        BY <2>1, <4>1 DEF Shared
    <3>2. CASE u = t /\ v # t
      BY <1>3, <1>10, <2>3, <2>4, <3>2
    <3>3. CASE u # t /\ v = t
      BY <1>3, <1>10, <2>3, <2>4, <3>3
    <3> QED
      BY <3>1, <3>2, <3>3
  <2>5. ASSUME NEW l \in 0..(nb - 1)
        PROVE  /\ l >= isub + 1 => rows[l] = 0
               /\ l < isub + 1 =>
                    rows[l] = Height(l) \/ \E u \in Threads : at'[u] # "idle" /\ own[u] = l
    <3>1. /\ l >= isub => rows[l] = 0
          /\ l < isub => rows[l] = Height(l) \/ \E u \in Threads : at[u] # "idle" /\ sub[u] = l
      BY <2>1 DEF Shared
    <3>2. l = isub => at'[t] # "idle" /\ own[t] = l
      BY <1>4, <1>10
    <3>3. \A u \in Threads : at[u] # "idle" => at'[u] # "idle" /\ own[u] = sub[u]
      BY <1>1, <1>4, <1>10
    <3>4. l \in Int /\ isub \in Int
      BY <1>3
    <3>5. CASE l < isub
      BY <3>1, <3>3, <3>4, <3>5
    <3>6. CASE l >= isub
      BY <3>1, <3>2, <3>4, <3>6
    <3> QED
      BY <3>4, <3>5, <3>6
  <2> QED
    BY <1>1, <1>5, <2>3, <2>4, <2>5 DEF Shared
<1>12. Working(own, rows)'
  BY <1>1, <1>5, <1>9, <1>11 DEF Working
<1>13. done' = FALSE
  BY <1>1, <1>3
<1> QED
  BY <1>5, <1>6, <1>7, <1>10, <1>12, <1>13 DEF SumInv

\* Steps that neither take a subproblem nor finish a row.
LEMMA GridKept ==
  ASSUME IInv, SumInv, sorted, UNCHANGED <<sortVars, grid, isub, du0, dy>>,
         at' \in [Threads -> {"idle", "merge", "critical", "loaded"}],
         \A t \in Threads : at'[t] # "idle" <=> at[t] # "idle"
  PROVE  \E sub \in [Threads' -> Nat], rows \in [0..(nb' - 1) -> Nat] : Working(sub, rows)'
<1>1. PICK sub \in [Threads -> Nat] : \E rows \in [0..(nb - 1) -> Nat] : Working(sub, rows)
  BY AtWork
<1>2. PICK rows \in [0..(nb - 1) -> Nat] : Working(sub, rows)
  BY <1>1
<1>3. /\ nb' = nb /\ Threads' = Threads
      /\ \A l : Subgrid(l)' = Subgrid(l) /\ Height(l)' = Height(l)
      /\ \A ns, c : Merged(ns, c)' = Merged(ns, c)
  BY Unmoved
<1>4. Shared(sub, rows)'
  BY <1>2, <1>3 DEF Working, Shared
<1>5. Working(sub, rows)'
  BY <1>2, <1>3, <1>4 DEF Working
<1> QED
  BY <1>3, <1>5

\* With atomics nobody is in the critical section, and none enters it.
LEMMA AtomicKeeps ==
  ASSUME IInv, SumInv, NEW t \in Threads, AddAtomic(t), sorted
  PROVE  SumInv'
<1>1. /\ at[t] = "merge" /\ Atomic /\ NextRow(t, "merge")
      /\ UNCHANGED <<sortVars, isub, du0, acc, done>>
      /\ grid' = SetRow(WrapY(du0[t], dy[t]),
                        AddRow(du0[t], dy[t], GridRow(WrapY(du0[t], dy[t]))))
  BY DEF AddAtomic
<1>2. /\ SortTypes /\ Sorted /\ SpreadTypes /\ Locked /\ at[t] # "idle"
  BY <1>1, AtWork
<1>3. PICK sub \in [Threads -> Nat] : \E rows \in [0..(nb - 1) -> Nat] : Working(sub, rows)
  BY AtWork
<1>4. PICK rows \in [0..(nb - 1) -> Nat] : Working(sub, rows)
  BY <1>3
<1>5. SpreadTypes' /\ \E next \in [0..(nb - 1) -> Nat] : Working(sub, next)'
  BY <1>1, <1>2, <1>4, AddStep
<1>6. nb' = nb /\ Threads' = Threads /\ sorted'
  BY <1>1, Unmoved DEF sortVars
<1>7. Locked'
  <2>1. \A u \in Threads : at'[u] \in {"merge", "idle"} \/ at'[u] = at[u]
    BY <1>1, <1>2 DEF NextRow, SpreadTypes
  <2>2. \A u \in Threads : at[u] \notin {"critical", "loaded"}
    BY <1>1, <1>2 DEF Locked
  <2>3. \A u \in Threads' : at'[u] \notin {"critical", "loaded"}
    BY <1>6, <2>1, <2>2
  <2> QED
    BY <2>3 DEF Locked
<1>8. done' = FALSE
  BY <1>1, <1>2 DEF SumInv, SpreadTypes
<1> QED
  BY <1>5, <1>6, <1>7, <1>8 DEF SumInv

\* Without them a thread enters when nobody is inside ...
LEMMA EnterKeeps ==
  ASSUME IInv, SumInv, NEW t \in Threads, Enter(t), sorted
  PROVE  SumInv'
<1>1. /\ at[t] = "merge" /\ ~Atomic /\ CriticalFree
      /\ at' = [at EXCEPT ![t] = "critical"]
      /\ UNCHANGED <<sortVars, grid, isub, du0, dy, acc, done>>
  BY DEF Enter
<1>2. /\ SpreadTypes /\ Locked /\ at \in [Threads -> {"idle", "merge", "critical", "loaded"}]
  BY AtWork DEF SpreadTypes
<1>3. /\ nb' = nb /\ Threads' = Threads /\ sorted' /\ (Atomic <=> Atomic')
  BY <1>1, Unmoved DEF sortVars
<1>4. /\ at' \in [Threads -> {"idle", "merge", "critical", "loaded"}]
      /\ at'[t] = "critical" /\ \A u \in Threads : u # t => at'[u] = at[u]
  BY <1>1, <1>2
<1>5. SpreadTypes'
  BY <1>1, <1>2, <1>3, <1>4 DEF SpreadTypes
<1>6. Locked'
  <2>1. \A u \in Threads : u # t => at'[u] \notin {"critical", "loaded"}
    BY <1>1, <1>4 DEF CriticalFree
  <2>2. \A u \in Threads : at'[u] # "loaded"
    BY <1>4, <2>1
  <2> QED
    BY <1>1, <1>3, <2>1, <2>2 DEF Locked
<1>7. \A u \in Threads : at'[u] # "idle" <=> at[u] # "idle"
  BY <1>1, <1>4
<1>8. \E sub \in [Threads' -> Nat], rows \in [0..(nb' - 1) -> Nat] : Working(sub, rows)'
  BY <1>1, <1>4, <1>7, GridKept
<1>9. done' = FALSE
  BY <1>1, <1>2 DEF SumInv, SpreadTypes
<1> QED
  BY <1>3, <1>5, <1>6, <1>8, <1>9 DEF SumInv

\* ... loads the row of the grid ...
LEMMA LoadKeeps ==
  ASSUME IInv, SumInv, NEW t \in Threads, Load(t), sorted
  PROVE  SumInv'
<1>1. /\ at[t] = "critical" /\ at' = [at EXCEPT ![t] = "loaded"]
      /\ acc' = [acc EXCEPT ![t] = GridRow(WrapY(du0[t], dy[t]))]
      /\ UNCHANGED <<sortVars, grid, isub, du0, dy, done>>
  BY DEF Load
<1>2. /\ SpreadTypes /\ Locked /\ DOMAIN acc = Threads
      /\ at \in [Threads -> {"idle", "merge", "critical", "loaded"}]
  BY AtWork DEF SpreadTypes
<1>3. /\ nb' = nb /\ Threads' = Threads /\ sorted' /\ (Atomic <=> Atomic')
  BY <1>1, Unmoved DEF sortVars
<1>4. /\ at' \in [Threads -> {"idle", "merge", "critical", "loaded"}]
      /\ at'[t] = "loaded" /\ \A u \in Threads : u # t => at'[u] = at[u]
      /\ acc'[t] = GridRow(WrapY(du0[t], dy[t])) /\ DOMAIN acc' = Threads
  BY <1>1, <1>2
<1>5. SpreadTypes'
  BY <1>1, <1>2, <1>3, <1>4 DEF SpreadTypes
<1>6. Locked'
  <2>1. \A u \in Threads : u # t => at'[u] \notin {"critical", "loaded"}
    BY <1>1, <1>2, <1>4 DEF Locked
  <2>2. ~Atomic
    BY <1>1, <1>2 DEF Locked
  <2>3. GridRow(WrapY(du0[t], dy[t])) = GridRow(WrapY(du0[t], dy[t]))'
    BY <1>1 DEF GridRow
  <2> QED
    BY <1>1, <1>3, <1>4, <2>1, <2>2, <2>3 DEF Locked
<1>7. \A u \in Threads : at'[u] # "idle" <=> at[u] # "idle"
  BY <1>1, <1>4
<1>8. \E sub \in [Threads' -> Nat], rows \in [0..(nb' - 1) -> Nat] : Working(sub, rows)'
  BY <1>1, <1>4, <1>7, GridKept
<1>9. done' = FALSE
  BY <1>1, <1>2 DEF SumInv, SpreadTypes
<1> QED
  BY <1>3, <1>5, <1>6, <1>8, <1>9 DEF SumInv

\* ... and stores the sum: what it had loaded is still what the grid holds.
LEMMA StoreKeeps ==
  ASSUME IInv, SumInv, NEW t \in Threads, Store(t), sorted
  PROVE  SumInv'
<1>1. /\ at[t] = "loaded" /\ NextRow(t, "critical")
      /\ grid' = SetRow(WrapY(du0[t], dy[t]), AddRow(du0[t], dy[t], acc[t]))
      /\ UNCHANGED <<sortVars, isub, du0, acc, done>>
  BY DEF Store
<1>2. /\ SortTypes /\ Sorted /\ SpreadTypes /\ Locked /\ at[t] # "idle"
  BY <1>1, AtWork
<1>3. acc[t] = GridRow(WrapY(du0[t], dy[t]))
  BY <1>1, <1>2 DEF Locked
<1>4. PICK sub \in [Threads -> Nat] : \E rows \in [0..(nb - 1) -> Nat] : Working(sub, rows)
  BY AtWork
<1>5. PICK rows \in [0..(nb - 1) -> Nat] : Working(sub, rows)
  BY <1>4
<1>6. SpreadTypes' /\ \E next \in [0..(nb - 1) -> Nat] : Working(sub, next)'
  BY <1>1, <1>2, <1>3, <1>5, AddStep
<1>7. nb' = nb /\ Threads' = Threads /\ sorted' /\ (Atomic <=> Atomic')
  BY <1>1, Unmoved DEF sortVars
<1>8. Locked'
  <2>1. /\ at'[t] \in {"critical", "idle"}
        /\ \A u \in Threads : u # t => at'[u] = at[u]
    BY <1>1, <1>2 DEF NextRow, SpreadTypes
  <2>2. \A u \in Threads : u # t => at[u] \notin {"critical", "loaded"}
    BY <1>1, <1>2 DEF Locked
  <2>3. \A u \in Threads : /\ at'[u] # "loaded"
                           /\ at'[u] = "critical" => u = t
    BY <2>1, <2>2
  <2>4. ~Atomic
    BY <1>1, <1>2 DEF Locked
  <2> QED
    BY <1>7, <2>3, <2>4 DEF Locked
<1>9. done' = FALSE
  BY <1>1, <1>2 DEF SumInv, SpreadTypes
<1> QED
  BY <1>6, <1>7, <1>8, <1>9 DEF SumInv

\* The end of the region, and steps that change nothing.
LEMMA JoinKeeps ==
  ASSUME IInv, SumInv, Join \/ UNCHANGED vars
  PROVE  SumInv'
<1>1. /\ UNCHANGED <<sortVars, grid, isub, at, du0, dy, acc>>
      /\ (done' = done) \/ (done' = TRUE /\ sorted /\ isub = nb
                            /\ \A t \in Threads : at[t] = "idle")
  BY DEF Join, vars, spreadVars
<1>2. /\ nb' = nb /\ Threads' = Threads /\ (sorted' <=> sorted) /\ (Atomic <=> Atomic')
  BY <1>1, Unmoved DEF sortVars
<1>3. SpreadTypes /\ Locked /\ at \in [Threads -> {"idle", "merge", "critical", "loaded"}]
  BY DEF SumInv, SpreadTypes
<1>4. SpreadTypes'
  BY <1>1, <1>2, <1>3 DEF SpreadTypes
<1>5. Locked'
  <2>1. \A y : GridRow(y)' = GridRow(y)
    BY <1>1 DEF GridRow
  <2> QED
    BY <1>1, <1>2, <1>3, <2>1 DEF Locked
<1>6. ~sorted' => NotBegun'
  BY <1>1, <1>2 DEF SumInv, NotBegun
<1>7. sorted' =>
        \E sub \in [Threads' -> Nat], rows \in [0..(nb' - 1) -> Nat] : Working(sub, rows)'
  BY <1>1, <1>2, <1>3, GridKept
<1>8. done' => isub' = nb' /\ \A t \in Threads' : at'[t] = "idle"
  BY <1>1, <1>2 DEF SumInv
<1> QED
  BY <1>4, <1>5, <1>6, <1>7, <1>8 DEF SumInv

\* Every step of the sort and of the spreader keeps what the grid holds.
THEOREM SpreadInvariant == Spec => []SumInv
<1>1. SpreadInit => SumInv
  <2> SUFFICES ASSUME SpreadInit PROVE SumInv
    OBVIOUS
  <2>1. IInv /\ sorted = FALSE
    BY InitInv DEF SpreadInit, Init
  <2>2. nb \in Nat \ {0}
    BY <2>1, SubBreaks DEF IInv
  <2>3. /\ isub = 0 /\ done = FALSE /\ at = [t \in Threads |-> "idle"]
        /\ du0 = [t \in Threads |-> <<>>] /\ dy = [t \in Threads |-> 0]
        /\ DOMAIN acc = Threads /\ grid = [c \in Xs \X Ys |-> 0]
    BY DEF SpreadInit
  <2>4. /\ \A t \in Threads : at[t] = "idle"
        /\ \A c \in Xs \X Ys : grid[c] = 0
    BY <2>3
  <2>5. SpreadTypes
    <3>1. done \in BOOLEAN
      BY <2>3
    <3>2. isub \in 0..nb
      BY <2>2, <2>3
    <3>3. at \in [Threads -> {"idle", "merge", "critical", "loaded"}]
      BY <2>3
    <3>4. dy \in [Threads -> Nat] /\ DOMAIN du0 = Threads /\ DOMAIN grid = Xs \X Ys
      BY <2>3
    <3> QED
      BY <2>3, <3>1, <3>2, <3>3, <3>4 DEF SpreadTypes
  <2>6. Locked
    BY <2>4 DEF Locked
  <2> QED
    BY <2>1, <2>3, <2>4, <2>5, <2>6 DEF SumInv, NotBegun
<1>2. IInv /\ SumInv /\ [Next]_vars => SumInv'
  <2> SUFFICES ASSUME IInv, SumInv, [Next]_vars PROVE SumInv'
    OBVIOUS
  <2>1. CASE Sort
    BY <2>1, SortKeeps DEF Sort
  <2>2. CASE Join \/ UNCHANGED vars
    BY <2>2, JoinKeeps
  <2>3. ASSUME NEW t \in Threads, SpreadThread(t) PROVE SumInv'
    <3>1. at[t] # "idle" => sorted
      BY DEF SumInv, NotBegun
    <3>2. CASE Take(t)
      BY <3>2, TakeKeeps
    <3>3. CASE AddAtomic(t)
      BY <3>1, <3>3, AtomicKeeps DEF AddAtomic
    <3>4. CASE Enter(t)
      BY <3>1, <3>4, EnterKeeps DEF Enter
    <3>5. CASE Load(t)
      BY <3>1, <3>5, LoadKeeps DEF Load
    <3>6. CASE Store(t)
      BY <3>1, <3>6, StoreKeeps DEF Store
    <3> QED
      BY <2>3, <3>2, <3>3, <3>4, <3>5, <3>6 DEF SpreadThread
  <2> QED
    BY <2>1, <2>2, <2>3 DEF Next
<1> QED
  BY <1>1, <1>2, SortInvariant, PTL DEF Spec

\* Whatever thread spread which subproblem, for any points, kernel width, grid and
\* limits, the grid finally holds in each cell the sum of the strengths of the
\* points whose kernels cover it, each once.
THEOREM SpreadHoldsSum == Spec => []SpreadIsSum
<1>1. IInv /\ SumInv => SpreadIsSum
  <2> SUFFICES ASSUME IInv, SumInv, done, NEW c \in Xs \X Ys
               PROVE  grid[c] = DirectSum(c)
    BY DEF SpreadIsSum
  <2>1. sorted /\ isub = nb /\ \A t \in Threads : at[t] = "idle"
    BY DEF SumInv, NotBegun
  <2>2. SortTypes /\ Sorted /\ nb \in Nat \ {0}
    BY SubBreaks DEF IInv
  <2>3. PICK sub \in [Threads -> Nat] : \E rows \in [0..(nb - 1) -> Nat] : Working(sub, rows)
    BY <2>1, AtWork
  <2>4. PICK rows \in [0..(nb - 1) -> Nat] : Working(sub, rows)
    BY <2>3
  <2>5. \A k \in 0..(nb - 1) : rows[k] = Height(k)
    <3> SUFFICES ASSUME NEW k \in 0..(nb - 1) PROVE rows[k] = Height(k)
      OBVIOUS
    <3>1. k < isub
      BY <2>1, <2>2
    <3> QED
      BY <2>1, <2>4, <3>1 DEF Working, Shared
  <2>6. grid[c] = Weight(Merged(rows, c))
    BY <2>4 DEF Working
  <2> QED
    BY <2>1, <2>2, <2>5, <2>6, MergedAll
<1> QED
  BY <1>1, SortInvariant, SpreadInvariant, PTL
=============================================================================
