---------------------------- MODULE ImagingProofs ----------------------------
(***************************************************************************)
(* Proofs about the images: how samples become pixels (Image) and how      *)
(* CLEAN takes the point-spread function out of them (Clean).              *)
(*                                                                         *)
(* Both are sums, and the model image is a recursion over the components.  *)
(* That the recursive functions exist is shown by the least number, and    *)
(* what they compute by the smallest set, for which it would fail.         *)
(***************************************************************************)
EXTENDS Clean, Image, RobustStatsProofs

-----------------------------------------------------------------------------
(* Smallest sets and sums *)

\* Every set of subsets of a finite set that is not empty has a smallest one.
LEMMA SmallestSet ==
  ASSUME NEW I, IsFiniteSet(I), NEW T \in SUBSET (SUBSET I), T # {}
  PROVE  \E S \in T : \A R \in T : R \subseteq S => R = S
<1>1. T \subseteq FiniteSubsetsOf(I)
  BY FS_FiniteSubsetsOfFinite
<1>2. PICK S \in T : \A R \in T : <<R, S>> \notin StrictSubsetOrdering(I)
  BY <1>1, FS_StrictSubsetOrderingWellFounded, WFMin
<1>3. ASSUME NEW R \in T, R \subseteq S, R # S PROVE FALSE
  <2>1. <<R, S>> \in StrictSubsetOrdering(I)
    BY <1>3 DEF StrictSubsetOrdering
  <2> QED
    BY <1>2, <2>1
<1> QED
  BY <1>3

\* The element a fold takes out of a set first.
First(S) == CHOOSE x \in S : TRUE

\* h gives the sum over every subset, in the order in which a fold adds it up.
Partial(f, I, h) ==
  h = [S \in SUBSET I |-> IF S = {} THEN 0 ELSE f[First(S)] + h[S \ {First(S)}]]

\* The same, of integers.
Sums(f, I, h) ==
  \A S \in SUBSET I :
    /\ h[S] \in Int
    /\ h[S] = IF S = {} THEN 0 ELSE f[First(S)] + h[S \ {First(S)}]

\* What a fold takes out of a set is in it, and a smaller set is left.
LEMMA FirstIn ==
  ASSUME NEW S, S # {}
  PROVE  First(S) \in S
  BY DEF First

\* Sums over subsets exist, by the least size of a subset without one.
LEMMA PartialExists ==
  ASSUME NEW I, IsFiniteSet(I), NEW f \in [I -> Int]
  PROVE  \E h : Partial(f, I, h)
<1> DEFINE Small(n) == {S \in SUBSET I : Cardinality(S) <= n}
           Next1(h, S) == IF S = {} THEN 0 ELSE f[First(S)] + h[S \ {First(S)}]
           Good(n, h) == /\ DOMAIN h = Small(n)
                         /\ \A S \in Small(n) : h[S] = Next1(h, S)
           T == {n \in Nat : \A h : ~Good(n, h)}
<1>1. T = {}
  <2>1. SUFFICES ASSUME T # {} PROVE FALSE
    OBVIOUS
  <2>2. PICK n \in T : \A j \in T : n <= j
    <3>1. T \in SUBSET Nat
      OBVIOUS
    <3> HIDE DEF T
    <3> QED
      BY <2>1, <3>1, LeastNat
  <2>3. n \in Nat /\ \A h : ~Good(n, h)
    BY <2>2
  <2>4. n # 0
    <3> DEFINE z == [S \in Small(0) |-> 0]
    <3>1. ASSUME NEW S \in Small(0) PROVE S = {}
      BY FS_Subset, FS_EmptySet, FS_CardinalityType
    <3>2. Good(0, z)
      BY <3>1
    <3> HIDE DEF Good, z
    <3> QED
      BY <2>3, <3>2
  <2>5. PICK h : Good(n - 1, h)
    <3>1. n - 1 \in Nat /\ n - 1 \notin T
      <4> HIDE DEF T
      <4> QED
        BY <2>2, <2>3, <2>4
    <3> HIDE DEF Good
    <3> QED
      BY <3>1
  <2> DEFINE g == [S \in Small(n) |-> Next1(h, S)]
  <2>6. ASSUME NEW S \in Small(n), S # {}
        PROVE  S \ {First(S)} \in Small(n - 1)
    <3>1. IsFiniteSet(S) /\ First(S) \in S /\ Cardinality(S) \in Nat /\ Cardinality(S) <= n
      BY <2>6, FirstIn, FS_Subset, FS_CardinalityType
    <3>2. Cardinality(S \ {First(S)}) = Cardinality(S) - 1
      BY <3>1, FS_RemoveElement
    <3> QED
      BY <2>3, <3>1, <3>2
  <2>7. ASSUME NEW S \in Small(n - 1) PROVE S \in Small(n) /\ g[S] = h[S]
    <3>1. Cardinality(S) \in Nat
      BY FS_Subset, FS_CardinalityType
    <3>2. S \in Small(n)
      BY <2>3, <3>1
    <3>3. h[S] = Next1(h, S)
      BY <2>5
    <3> HIDE DEF Next1
    <3> QED
      BY <3>2, <3>3
  <2>8. ASSUME NEW S \in Small(n) PROVE g[S] = Next1(g, S)
    <3>1. g[S] = Next1(h, S)
      OBVIOUS
    <3>2. S # {} => g[S \ {First(S)}] = h[S \ {First(S)}]
      BY <2>6, <2>7
    <3> HIDE DEF g
    <3> QED
      BY <3>1, <3>2
  <2>9. Good(n, g)
    <3>1. DOMAIN g = Small(n)
      OBVIOUS
    <3> HIDE DEF g, Next1, Small
    <3> QED
      BY <2>8, <3>1
  <2> HIDE DEF Good, g
  <2> QED
    BY <2>3, <2>9
<1>2. PICK h : Good(Cardinality(I), h)
  <2>1. Cardinality(I) \in Nat
    BY FS_CardinalityType
  <2> HIDE DEF Good
  <2> QED
    BY <1>1, <2>1
<1>3. Small(Cardinality(I)) = SUBSET I
  BY FS_Subset
<1> DEFINE g == [S \in SUBSET I |-> h[S]]
<1>4. ASSUME NEW S \in SUBSET I PROVE g[S] = Next1(g, S)
  <2>1. h[S] = Next1(h, S)
    BY <1>2, <1>3
  <2>2. S \ {First(S)} \in SUBSET I
    OBVIOUS
  <2> QED
    BY <2>1, <2>2
<1>5. Partial(f, I, g)
  <2>1. g = [S \in SUBSET I |-> g[S]]
    OBVIOUS
  <2>2. g = [S \in SUBSET I |-> Next1(g, S)]
    <3> HIDE DEF g, Next1
    <3> QED
      BY <1>4, <2>1
  <2> HIDE DEF g
  <2> QED
    BY <2>2 DEF Partial
<1> QED
  BY <1>5

\* The sum is the last of the partial sums, which are integers.
LEMMA TotalIsPartial ==
  ASSUME NEW I, IsFiniteSet(I), NEW f \in [I -> Int]
  PROVE  \E h : Total(f) = h[I] /\ Sums(f, I, h)
<1> DEFINE P(h) == h = [S \in SUBSET I |->
                          IF S = {} THEN 0
                          ELSE f[CHOOSE x \in S : TRUE] + h[S \ {CHOOSE x \in S : TRUE}]]
           iter == CHOOSE h : P(h)
<1>1. Total(f) = iter[I]
  BY DEF Total, FoldFunction, FoldFunctionOnSet, MapThenFoldSet
<1>2. \E h : P(h)
  <2>1. PICK h : Partial(f, I, h)
    BY PartialExists
  <2>2. P(h)
    BY <2>1 DEF Partial, First
  <2> HIDE DEF P
  <2> QED
    BY <2>2
<1>3. P(iter)
  <2> HIDE DEF P
  <2> QED
    BY <1>2
<1>4. Partial(f, I, iter)
  <2> HIDE DEF iter
  <2> QED
    BY <1>3 DEF Partial, First
<1> HIDE DEF iter, P
<1>5. \A S \in SUBSET I :
        iter[S] = IF S = {} THEN 0 ELSE f[First(S)] + iter[S \ {First(S)}]
  BY <1>4 DEF Partial
<1> DEFINE T == {S \in SUBSET I : iter[S] \notin Int}
<1>6. T = {}
  <2>1. SUFFICES ASSUME T # {} PROVE FALSE
    OBVIOUS
  <2>2. PICK S \in T : \A R \in T : R \subseteq S => R = S
    <3>1. T \in SUBSET (SUBSET I)
      OBVIOUS
    <3> HIDE DEF T
    <3> QED
      BY <2>1, <3>1, SmallestSet
  <2>3. S \in SUBSET I /\ iter[S] \notin Int
    BY <2>2
  <2>4. S # {}
    BY <1>5, <2>3
  <2>5. First(S) \in S /\ S \ {First(S)} \notin T
    BY <2>2, <2>4, FirstIn
  <2>6. f[First(S)] \in Int /\ iter[S \ {First(S)}] \in Int
    BY <2>3, <2>5
  <2>7. iter[S] = f[First(S)] + iter[S \ {First(S)}]
    <3> HIDE DEF T
    <3> QED
      BY <1>5, <2>3, <2>4
  <2> QED
    BY <2>3, <2>6, <2>7
<1>7. Sums(f, I, iter)
  BY <1>5, <1>6 DEF Sums
<1> QED
  BY <1>1, <1>7

\* Changing one value changes the sum by as much.
LEMMA TotalChange ==
  ASSUME NEW I, IsFiniteSet(I), NEW f \in [I -> Int], NEW g \in [I -> Int],
         NEW x \in I, \A y \in I : y # x => g[y] = f[y]
  PROVE  Total(f) \in Int /\ Total(g) = Total(f) + (g[x] - f[x])
<1>1. PICK F : Total(f) = F[I] /\ Sums(f, I, F)
  BY TotalIsPartial
<1>2. PICK G : Total(g) = G[I] /\ Sums(g, I, G)
  BY TotalIsPartial
<1> DEFINE d(S) == IF x \in S THEN g[x] - f[x] ELSE 0
           T == {S \in SUBSET I : G[S] # F[S] + d(S)}
<1>3. T = {}
  <2>1. SUFFICES ASSUME T # {} PROVE FALSE
    OBVIOUS
  <2>2. PICK S \in T : \A R \in T : R \subseteq S => R = S
    <3>1. T \in SUBSET (SUBSET I)
      OBVIOUS
    <3> HIDE DEF T
    <3> QED
      BY <2>1, <3>1, SmallestSet
  <2>3. S \in SUBSET I /\ G[S] # F[S] + d(S)
    BY <2>2
  <2>4. S # {}
    <3>1. ASSUME S = {} PROVE FALSE
      <4>1. F[S] = 0 /\ G[S] = 0
        BY <1>1, <1>2, <2>3, <3>1 DEF Sums
      <4> QED
        BY <2>3, <3>1, <4>1
    <3> QED
      BY <3>1
  <2> DEFINE a == First(S)
             R == S \ {a}
  <2>5. a \in S /\ R \in SUBSET I /\ R \notin T
    BY <2>2, <2>4, FirstIn
  <2>6. G[R] = F[R] + d(R)
    BY <2>5
  <2>7. F[S] = f[a] + F[R] /\ G[S] = g[a] + G[R] /\ F[R] \in Int /\ G[R] \in Int
    BY <1>1, <1>2, <2>3, <2>4, <2>5 DEF Sums
  <2>8. f[a] \in Int /\ g[a] \in Int /\ f[x] \in Int /\ g[x] \in Int
    BY <2>3, <2>5
  <2>9. CASE a = x
    <3>1. x \in S /\ x \notin R
      BY <2>5, <2>9
    <3> HIDE DEF a, R
    <3> QED
      BY <2>3, <2>6, <2>7, <2>8, <2>9, <3>1
  <2>10. CASE a # x
    <3>1. g[a] = f[a] /\ (x \in S <=> x \in R)
      BY <2>3, <2>5, <2>10
    <3> HIDE DEF a, R
    <3> QED
      BY <2>3, <2>6, <2>7, <2>8, <3>1
  <2> QED
    BY <2>9, <2>10
<1>4. G[I] = F[I] + d(I)
  BY <1>3
<1> QED
  BY <1>1, <1>2, <1>4 DEF Sums

\* A sum of values between a and c is between a for each and c for each.
LEMMA TotalBound ==
  ASSUME NEW I, IsFiniteSet(I), NEW f \in [I -> Int], NEW a \in Int, NEW c \in Int,
         \A y \in I : a <= f[y] /\ f[y] <= c
  PROVE  /\ Total(f) \in Int
         /\ a * Cardinality(I) <= Total(f) /\ Total(f) <= c * Cardinality(I)
<1>1. PICK F : Total(f) = F[I] /\ Sums(f, I, F)
  BY TotalIsPartial
<1> DEFINE Within(S) == a * Cardinality(S) <= F[S] /\ F[S] <= c * Cardinality(S)
           T == {S \in SUBSET I : ~Within(S)}
<1>2. T = {}
  <2>1. SUFFICES ASSUME T # {} PROVE FALSE
    OBVIOUS
  <2>2. PICK S \in T : \A R \in T : R \subseteq S => R = S
    <3>1. T \in SUBSET (SUBSET I)
      OBVIOUS
    <3> HIDE DEF T
    <3> QED
      BY <2>1, <3>1, SmallestSet
  <2>3. S \in SUBSET I /\ ~Within(S)
    BY <2>2
  <2>4. S # {}
    <3>1. ASSUME S = {} PROVE FALSE
      <4>1. F[S] = 0 /\ Cardinality(S) = 0
        BY <1>1, <2>3, <3>1, FS_EmptySet DEF Sums
      <4> QED
        BY <2>3, <4>1
    <3> QED
      BY <3>1
  <2> DEFINE x == First(S)
             R == S \ {x}
  <2>5. x \in S /\ R \in SUBSET I /\ R \notin T
    BY <2>2, <2>4, FirstIn
  <2>6. Within(R)
    BY <2>5
  <2>7. F[S] = f[x] + F[R] /\ F[R] \in Int /\ f[x] \in Int /\ a <= f[x] /\ f[x] <= c
    BY <1>1, <2>3, <2>4, <2>5 DEF Sums
  <2>8. /\ Cardinality(R) = Cardinality(S) - 1
        /\ Cardinality(S) \in Nat /\ Cardinality(R) \in Nat
    BY <2>3, <2>5, FS_Subset, FS_RemoveElement, FS_CardinalityType
  <2> HIDE DEF x, R
  <2>9. /\ c * Cardinality(S) = c * Cardinality(R) + c /\ c * Cardinality(R) \in Int
        /\ a * Cardinality(S) = a * Cardinality(R) + a /\ a * Cardinality(R) \in Int
    BY <2>8
  <2> QED
    BY <2>3, <2>6, <2>7, <2>9
<1>3. Within(I)
  BY <1>2
<1> QED
  BY <1>1, <1>3 DEF Sums

\* A sum of equal values is that value times their number.
LEMMA TotalSame ==
  ASSUME NEW I, IsFiniteSet(I), NEW f \in [I -> Int], NEW c \in Int,
         \A y \in I : f[y] = c
  PROVE  Total(f) = c * Cardinality(I)
<1>1. /\ Total(f) \in Int
      /\ c * Cardinality(I) <= Total(f) /\ Total(f) <= c * Cardinality(I)
  BY TotalBound
<1>2. c * Cardinality(I) \in Int
  BY FS_CardinalityType
<1> QED
  BY <1>1, <1>2

\* A sum of zeros is zero.
LEMMA TotalZero ==
  ASSUME NEW I, IsFiniteSet(I), NEW f \in [I -> Int], \A y \in I : f[y] = 0
  PROVE  Total(f) = 0
<1>1. Total(f) = 0 * Cardinality(I)
  BY TotalSame
<1>2. Cardinality(I) \in Nat
  BY FS_CardinalityType
<1> QED
  BY <1>1, <1>2

-----------------------------------------------------------------------------
(* CLEAN: pixels and peaks *)

\* An image has finitely many pixels, and its centre is one of them.
LEMMA PixelsFinite == IsFiniteSet(Pixels) /\ Centre \in Pixels
<1>1. IsFiniteSet(X) /\ IsFiniteSet(Y)
  <2>1. N1 - 1 \in Int /\ N2 - 1 \in Int
    BY CleanAssumption
  <2> QED
    BY <2>1, FS_Interval DEF X, Y
<1>2. IsFiniteSet(Pixels)
  BY <1>1, FS_Product DEF Pixels
<1>3. N1 \div 2 \in X /\ N2 \div 2 \in Y
  BY CleanAssumption DEF X, Y
<1> QED
  BY <1>2, <1>3 DEF Centre, Pixels

\* p is the first pixel, in buffer order, of the largest magnitude.
IsPeak(f, p) ==
  \A q \in Pixels :
    Abs(f[p]) > Abs(f[q]) \/ (Abs(f[p]) = Abs(f[q]) /\ Index(p) <= Index(q))

\* Every image has a peak.
LEMMA PeakIs ==
  ASSUME NEW f \in [Pixels -> Int]
  PROVE  Peak(f) \in Pixels /\ IsPeak(f, Peak(f))
<1>1. ASSUME NEW p \in Pixels PROVE Abs(f[p]) \in Nat /\ Index(p) \in Nat
  <2>1. f[p] \in Int
    OBVIOUS
  <2>2. p[1] \in 0..(N1 - 1) /\ p[2] \in 0..(N2 - 1)
    BY DEF Pixels, X, Y
  <2>3. p[2] * N1 \in Nat
    BY <2>2, CleanAssumption
  <2> QED
    BY <2>1, <2>2, <2>3 DEF Abs, Index
<1> DEFINE Up(p) == {q \in Pixels : Abs(f[q]) >= Abs(f[p])}
           T == {Up(p) : p \in Pixels}
<1>2. PICK S \in T : \A R \in T : R \subseteq S => R = S
  <2>1. T \in SUBSET (SUBSET Pixels) /\ T # {}
    BY PixelsFinite
  <2> HIDE DEF T
  <2> QED
    BY <2>1, PixelsFinite, SmallestSet
<1>3. PICK a \in Pixels : S = Up(a)
  OBVIOUS
<1>4. ASSUME NEW q \in Pixels PROVE Abs(f[q]) <= Abs(f[a])
  <2>1. SUFFICES ASSUME Abs(f[q]) > Abs(f[a]) PROVE FALSE
    BY <1>1
  <2>2. Up(q) \subseteq Up(a) /\ a \in Up(a) /\ a \notin Up(q)
    BY <1>1, <2>1
  <2>3. Up(q) \in T
    OBVIOUS
  <2> HIDE DEF T, Up
  <2> QED
    BY <1>2, <1>3, <2>2, <2>3
<1> DEFINE L == {q \in Pixels : Abs(f[q]) = Abs(f[a])}
           K == {Index(q) : q \in L}
<1>5. PICK k \in K : \A j \in K : k <= j
  <2>1. K \in SUBSET Nat /\ K # {}
    BY <1>1
  <2> HIDE DEF K
  <2> QED
    BY <2>1, LeastNat
<1>6. PICK p \in L : k = Index(p)
  OBVIOUS
<1>7. IsPeak(f, p)
  <2>1. ASSUME NEW q \in Pixels
        PROVE  Abs(f[p]) > Abs(f[q]) \/ (Abs(f[p]) = Abs(f[q]) /\ Index(p) <= Index(q))
    <3>1. Abs(f[p]) = Abs(f[a]) /\ Abs(f[q]) <= Abs(f[a])
      BY <1>4, <1>6
    <3>2. Abs(f[q]) = Abs(f[a]) => Index(p) <= Index(q)
      BY <1>5, <1>6
    <3> QED
      BY <1>1, <3>1, <3>2
  <2> QED
    BY <2>1 DEF IsPeak
<1>8. \E b \in Pixels : IsPeak(f, b)
  BY <1>6, <1>7
<1> QED
  BY <1>8 DEF Peak, IsPeak

-----------------------------------------------------------------------------
(* CLEAN: the model image *)

NoFlux == [p \in Pixels |-> 0]

\* The model image after k components, given that after k - 1.
AfterNext(c, h, k) ==
  IF k = 0 THEN NoFlux ELSE [h[k - 1] EXCEPT ![c[k].at] = @ + c[k].flux]

\* h[k] is the model image after k of the components c.
Models(c, h) ==
  /\ DOMAIN h = 0..Len(c)
  /\ \A k \in 0..Len(c) : h[k] = AfterNext(c, h, k)

\* Components have model images, by the least number of them that has none.
LEMMA ModelsExist ==
  ASSUME NEW c, Len(c) \in Nat
  PROVE  \E h : Models(c, h)
<1> DEFINE Good(n, h) == /\ DOMAIN h = 0..n
                         /\ \A k \in 0..n : h[k] = AfterNext(c, h, k)
           T == {n \in Nat : \A h : ~Good(n, h)}
<1>1. T = {}
  <2>1. SUFFICES ASSUME T # {} PROVE FALSE
    OBVIOUS
  <2>2. PICK n \in T : \A j \in T : n <= j
    <3>1. T \in SUBSET Nat
      OBVIOUS
    <3> HIDE DEF T
    <3> QED
      BY <2>1, <3>1, LeastNat
  <2>3. n \in Nat /\ \A h : ~Good(n, h)
    BY <2>2
  <2>4. n # 0
    <3> DEFINE z == [k \in 0..0 |-> NoFlux]
    <3>1. Good(0, z)
      BY DEF AfterNext
    <3> HIDE DEF Good, z
    <3> QED
      BY <2>3, <3>1
  <2>5. PICK h : Good(n - 1, h)
    <3>1. n - 1 \in Nat /\ n - 1 \notin T
      <4> HIDE DEF T
      <4> QED
        BY <2>2, <2>3, <2>4
    <3> HIDE DEF Good
    <3> QED
      BY <3>1
  <2> DEFINE g == [k \in 0..n |-> AfterNext(c, h, k)]
  <2>6. ASSUME NEW k \in 0..n PROVE g[k] = AfterNext(c, g, k)
    <3>1. g[k] = AfterNext(c, h, k)
      OBVIOUS
    <3>2. k # 0 => g[k - 1] = h[k - 1]
      <4>1. ASSUME k # 0 PROVE k - 1 \in 0..(n - 1) /\ k - 1 \in 0..n
        BY <2>3, <4>1
      <4>2. k # 0 => h[k - 1] = AfterNext(c, h, k - 1)
        BY <2>5, <4>1
      <4>3. k # 0 => g[k - 1] = AfterNext(c, h, k - 1)
        BY <4>1
      <4> QED
        BY <4>2, <4>3
    <3> HIDE DEF g
    <3> QED
      BY <3>1, <3>2 DEF AfterNext
  <2>7. Good(n, g)
    <3>1. DOMAIN g = 0..n
      OBVIOUS
    <3> HIDE DEF g
    <3> QED
      BY <2>6, <3>1
  <2> HIDE DEF Good, g
  <2> QED
    BY <2>3, <2>7
<1>2. PICK h : Good(Len(c), h)
  <2> HIDE DEF Good
  <2> QED
    BY <1>1
<1>3. Models(c, h)
  BY <1>2 DEF Models
<1> QED
  BY <1>3

\* The model image of any components.
ModelOf(c) ==
  LET F[k \in 0..Len(c)] ==
        IF k = 0 THEN [p \in Pixels |-> 0]
        ELSE [F[k - 1] EXCEPT ![c[k].at] = @ + c[k].flux]
  IN  F[Len(c)]

\* Its recursion is such a sequence of images.
LEMMA ModelOfIs ==
  ASSUME NEW c, Len(c) \in Nat
  PROVE  \E h : Models(c, h) /\ ModelOf(c) = h[Len(c)]
<1> DEFINE P(h) == h = [k \in 0..Len(c) |->
                          IF k = 0 THEN [p \in Pixels |-> 0]
                          ELSE [h[k - 1] EXCEPT ![c[k].at] = @ + c[k].flux]]
           F == CHOOSE h : P(h)
<1>1. ModelOf(c) = F[Len(c)]
  BY DEF ModelOf
<1>2. PICK h : Models(c, h)
  BY ModelsExist
<1> DEFINE g == [k \in 0..Len(c) |-> h[k]]
<1>3. P(g)
  <2>1. ASSUME NEW k \in 0..Len(c)
        PROVE  g[k] = IF k = 0 THEN [p \in Pixels |-> 0]
                      ELSE [g[k - 1] EXCEPT ![c[k].at] = @ + c[k].flux]
    <3>1. h[k] = AfterNext(c, h, k)
      BY <1>2 DEF Models
    <3>2. k # 0 => k - 1 \in 0..Len(c)
      OBVIOUS
    <3> QED
      BY <3>1, <3>2 DEF AfterNext, NoFlux
  <2>2. g = [k \in 0..Len(c) |-> g[k]]
    OBVIOUS
  <2> HIDE DEF g
  <2> QED
    BY <2>1, <2>2
<1>4. P(F)
  <2> HIDE DEF P, g
  <2> QED
    BY <1>3
<1>5. Models(c, F)
  <2> HIDE DEF F
  <2> QED
    BY <1>4 DEF Models, AfterNext, NoFlux
<1> HIDE DEF F
<1> QED
  BY <1>1, <1>5

\* model is that of the components, before a step and after it.
LEMMA ModelIsOf == model = ModelOf(components) /\ model' = ModelOf(components')
  BY DEF model, ModelOf

\* Two sequences of components that begin alike have the same model images there.
LEMMA ModelsAgree ==
  ASSUME NEW c, NEW d, NEW h, NEW g, Models(c, h), Models(d, g),
         Len(c) \in Nat, Len(d) \in Nat, Len(c) <= Len(d),
         \A k \in 1..Len(c) : c[k] = d[k]
  PROVE  \A k \in 0..Len(c) : h[k] = g[k]
<1> DEFINE T == {k \in 0..Len(c) : h[k] # g[k]}
<1>1. SUFFICES ASSUME T # {} PROVE FALSE
  OBVIOUS
<1>2. PICK k \in T : \A j \in T : k <= j
  <2>1. T \in SUBSET Nat
    OBVIOUS
  <2> HIDE DEF T
  <2> QED
    BY <1>1, <2>1, LeastNat
<1>3. k \in 0..Len(c) /\ h[k] # g[k]
  BY <1>2
<1>4. h[k] = AfterNext(c, h, k) /\ g[k] = AfterNext(d, g, k)
  BY <1>3 DEF Models
<1>5. k # 0
  BY <1>3, <1>4 DEF AfterNext
<1>6. k - 1 \in 0..Len(c) /\ k - 1 \notin T
  <2> HIDE DEF T
  <2> QED
    BY <1>2, <1>3, <1>5
<1>7. h[k - 1] = g[k - 1] /\ c[k] = d[k]
  BY <1>3, <1>5, <1>6
<1> QED
  BY <1>3, <1>4, <1>7 DEF AfterNext

-----------------------------------------------------------------------------
(* CLEAN: the invariant *)

\* Each pixel of the residual is a multiple of the grain of the iterations left.
Whole == \A p \in Pixels : \E m \in Int : residual[p] = m * Grain[NIter - it]

\* Images are images, and components are what an iteration appends.
CleanTypes ==
  /\ TypeOK
  /\ components \in Seq([at : Pixels, flux : Int])
  /\ psf \in Psfs
  /\ dirty \in [Pixels -> Int] /\ model \in [Pixels -> Int]

CleanInv == CleanTypes /\ Whole /\ Conserved

\* A product is divided by its factor without remainder.
LEMMA DivExact ==
  ASSUME NEW a \in Int, NEW u \in Nat \ {0}
  PROVE  (a * u) \div u = a
<1> DEFINE b == a * u
           d == b \div u
           m == b % u
<1>1. d \in Int /\ m \in 0..(u - 1) /\ b = d * u + m /\ b \in Int
  OBVIOUS
<1>2. b = a * u
  OBVIOUS
<1> HIDE DEF b, d, m
<1>3. (d - a) * u = -m
  BY <1>1, <1>2
<1>4. d - a >= 1 => (d - a) * u >= u
  BY <1>1
<1>5. d - a <= -1 => (d - a) * u <= -u
  BY <1>1
<1>6. d = a
  BY <1>1, <1>3, <1>4, <1>5
<1> QED
  BY <1>6 DEF d, b

\* What PSF and images hold is what the constants say.
LEMMA PsfType ==
  ASSUME CleanTypes
  PROVE  /\ psf \in [Pixels -> Int]
         /\ \A p \in Pixels, a \in Pixels : Response(p, a) \in Int
         /\ \A x \in Int, y \in Int : At(x, y) \in Int
         /\ \A p \in Pixels, a \in Pixels :
              At(p[1] - a[1], p[2] - a[2]) = Response(p, a)
<1>1. psf \in [Pixels -> Int]
  BY CleanAssumption DEF CleanTypes
<1>2. \A p \in Pixels, a \in Pixels : Response(p, a) \in Int
  BY <1>1 DEF Response
<1>3. \A x \in Int, y \in Int : At(x, y) \in Int
  BY <1>1 DEF At
<1>4. \A p \in Pixels, a \in Pixels : At(p[1] - a[1], p[2] - a[2]) = Response(p, a)
  BY DEF At, Response, Shifted
<1> QED
  BY <1>1, <1>2, <1>3, <1>4

\* The model image convolved with the PSF, term by term at pixel p.
Terms(p) == [q \in Pixels |-> model[q] * At(p[1] - q[1], p[2] - q[2])]

\* A term is a number.
LEMMA TermsType ==
  ASSUME CleanTypes, NEW p \in Pixels
  PROVE  Terms(p) \in [Pixels -> Int]
<1>1. ASSUME NEW q \in Pixels PROVE model[q] * At(p[1] - q[1], p[2] - q[2]) \in Int
  <2>1. model[q] \in Int /\ At(p[1] - q[1], p[2] - q[2]) \in Int
    BY PsfType DEF CleanTypes
  <2> QED
    BY <2>1
<1> QED
  BY <1>1 DEF Terms

\* Conservation is about the sum of these terms.
LEMMA ConservedTotal ==
  Conserved <=> \A p \in Pixels : Unit * (dirty[p] - residual[p]) = Total(Terms(p))
  BY DEF Conserved, Terms

\* CLEAN starts with the dirty image as the residual and no component.
LEMMA CleanInitInv == Init => CleanInv
<1> SUFFICES ASSUME Init PROVE CleanInv
  OBVIOUS
<1>1. PICK d \in Images : dirty = [p \in Pixels |-> Scale * d[p]]
  BY DEF Init
<1>2. /\ residual = dirty /\ components = <<>> /\ it = 0 /\ pc = "iterate"
      /\ psf \in Psfs
  BY DEF Init
<1>3. /\ Grain[NIter] \in Nat \ {0} /\ NIter \in Nat /\ d \in [Pixels -> Int]
      /\ Scale = Grain[NIter]
  BY CleanAssumption DEF Scale
<1>4. ASSUME NEW p \in Pixels
      PROVE  /\ d[p] \in Int /\ dirty[p] = d[p] * Grain[NIter]
             /\ dirty[p] \in Int
  BY <1>1, <1>3
<1>5. dirty \in [Pixels -> Int]
  BY <1>1, <1>4
<1>6. model = NoFlux
  <2>1. Len(components) = 0
    BY <1>2
  <2>2. PICK h : Models(components, h) /\ model = h[0]
    BY <2>1, ModelOfIs, ModelIsOf
  <2> QED
    BY <2>1, <2>2 DEF Models, AfterNext
<1>7. TypeOK
  <2>1. DOMAIN components = {} /\ Len(components) = 0
    BY <1>2
  <2> QED
    BY <1>2, <1>3, <1>5, <2>1 DEF TypeOK
<1>8. CleanTypes
  <2>1. components \in Seq([at : Pixels, flux : Int])
    BY <1>2
  <2>2. model \in [Pixels -> Int]
    BY <1>6 DEF NoFlux
  <2> QED
    BY <1>2, <1>5, <1>7, <2>1, <2>2 DEF CleanTypes
<1>9. Whole
  <2>1. NIter - it = NIter
    BY <1>2, <1>3
  <2> QED
    BY <1>2, <1>4, <2>1 DEF Whole
<1>10. Conserved
  <2>1. ASSUME NEW p \in Pixels
        PROVE  Unit * (dirty[p] - residual[p]) = Total(Terms(p))
    <3>1. ASSUME NEW q \in Pixels PROVE Terms(p)[q] = 0
      <4>1. At(p[1] - q[1], p[2] - q[2]) \in Int /\ model[q] = 0
        BY <1>6, <1>8, PsfType DEF NoFlux
      <4> QED
        BY <4>1 DEF Terms
    <3>2. Terms(p) \in [Pixels -> Int]
      BY <1>8, TermsType
    <3>3. Total(Terms(p)) = 0
      BY <3>1, <3>2, PixelsFinite, TotalZero
    <3>4. Unit * (dirty[p] - residual[p]) = 0
      BY <1>2, <1>4, CleanAssumption
    <3> QED
      BY <3>3, <3>4
  <2> QED
    BY <2>1, ConservedTotal
<1> QED
  BY <1>8, <1>9, <1>10 DEF CleanInv

\* What an iteration does, in whole units: at is its pixel, m the peak over
\* the grain of the iterations left.
Worked(at, m) ==
  LET k == NIter - it
  IN  /\ k \in 1..NIter
      /\ at \in Pixels /\ m \in Int
      /\ residual[at] = m * Grain[k]
      /\ components' = Append(components, [at |-> at, flux |-> m * (Unit * Grain[k - 1])])
      /\ residual' = [p \in Pixels |-> residual[p] - (m * Response(p, at)) * Grain[k - 1]]

\* Component and subtraction divide without remainder.
LEMMA IterateWorks ==
  ASSUME CleanInv, Iterate
  PROVE  /\ \E m \in Int : Worked(Peak(residual), m)
         /\ IsPeak(residual, Peak(residual))
<1> DEFINE at == Peak(residual)
           k == NIter - it
           G == Grain[k - 1]
           comp == Gained(residual[at])
<1>1. residual \in [Pixels -> Int] /\ it \in 0..NIter
  BY DEF CleanInv, CleanTypes, TypeOK
<1>2. at \in Pixels /\ IsPeak(residual, at)
  BY <1>1, PeakIs
<1> HIDE DEF at
<1>3. k \in 1..NIter
  BY <1>1, CleanAssumption DEF Iterate, MayIterate
<1> HIDE DEF k
<1>4. G \in Nat \ {0} /\ Unit \in Nat \ {0} /\ Grain[k] = Unit * (Unit * G)
  <2>1. k - 1 \in 0..NIter
    BY <1>3, CleanAssumption
  <2>2. G \in Nat \ {0}
    BY <2>1, CleanAssumption
  <2>3. Grain[k] = Unit * (Unit * Grain[k - 1])
    BY <1>3, CleanAssumption
  <2> QED
    BY <2>2, <2>3, CleanAssumption
<1>5. PICK m \in Int : residual[at] = m * Grain[k]
  BY <1>2 DEF CleanInv, Whole, k
<1> HIDE DEF G
<1>6. comp = m * (Unit * G)
  <2> DEFINE a == m * (Unit * G)
  <2>1. a \in Int /\ residual[at] = a * Unit
    BY <1>4, <1>5
  <2> HIDE DEF a
  <2>2. comp = a
    BY <1>4, <2>1, DivExact DEF Gained
  <2> QED
    BY <2>2 DEF a
<1>7. ASSUME NEW p \in Pixels
      PROVE  (comp * Response(p, at)) \div Unit = (m * Response(p, at)) * G
  <2> DEFINE r == Response(p, at)
             b == (m * r) * G
  <2>1. r \in Int
    BY <1>2, PsfType DEF CleanInv
  <2> HIDE DEF r
  <2>2. b \in Int /\ comp * r = b * Unit
    BY <1>4, <1>6, <2>1
  <2> HIDE DEF b, comp
  <2>3. (comp * r) \div Unit = b
    BY <1>4, <2>2, DivExact
  <2> QED
    BY <2>3 DEF b, r
<1>8. components' = Append(components, [at |-> at, flux |-> m * (Unit * G)])
  BY <1>6 DEF Iterate, at
<1>9. residual' = [p \in Pixels |-> residual[p] - (m * Response(p, at)) * G]
  <2>1. residual' = [p \in Pixels |-> residual[p] - (comp * Response(p, at)) \div Unit]
    BY DEF Iterate, at
  <2> QED
    BY <1>7, <2>1
<1>10. Worked(at, m)
  BY <1>2, <1>3, <1>5, <1>8, <1>9 DEF Worked, k, G
<1> QED
  BY <1>2, <1>10 DEF at

\* A component is added to its pixel of the model image.
LEMMA ModelGrows ==
  ASSUME CleanTypes, NEW at \in Pixels, NEW flux \in Int,
         components' = Append(components, [at |-> at, flux |-> flux])
  PROVE  model' = [model EXCEPT ![at] = @ + flux]
<1> DEFINE c == components
           d == components'
           n == Len(components)
<1>1. n \in Nat /\ c \in Seq([at : Pixels, flux : Int])
  BY DEF CleanTypes
<1>2. /\ Len(d) = n + 1 /\ d[n + 1] = [at |-> at, flux |-> flux]
      /\ \A k \in 1..n : c[k] = d[k]
  BY <1>1
<1>3. PICK h : Models(c, h) /\ model = h[n]
  BY <1>1, ModelOfIs, ModelIsOf
<1>4. PICK g : Models(d, g) /\ model' = g[n + 1]
  <2> HIDE DEF c, d, n
  <2>1. PICK g : Models(d, g) /\ ModelOf(d) = g[Len(d)]
    <3>1. Len(d) \in Nat
      BY <1>1, <1>2
    <3> QED
      BY <3>1, ModelOfIs
  <2> QED
    BY <1>2, <2>1, ModelIsOf DEF d
<1> HIDE DEF c, d, n
<1>7. g[n] = h[n]
  <2>1. \A k \in 0..Len(c) : h[k] = g[k]
    <3>1. Len(c) = n /\ Len(c) \in Nat /\ Len(d) \in Nat /\ Len(c) <= Len(d)
      BY <1>1, <1>2 DEF n, c
    <3> QED
      BY <1>2, <1>3, <1>4, <3>1, ModelsAgree
  <2> QED
    BY <1>1, <2>1 DEF n, c
<1>8. g[n + 1] = AfterNext(d, g, n + 1)
  BY <1>1, <1>2, <1>4 DEF Models
<1>9. AfterNext(d, g, n + 1) = [g[n] EXCEPT ![at] = @ + flux]
  BY <1>1, <1>2, SMTT(30) DEF AfterNext
<1> QED
  BY <1>3, <1>4, <1>7, <1>8, <1>9

\* An iteration keeps the invariant.
LEMMA CleanIterateInv == CleanInv /\ Iterate => CleanInv'
<1> SUFFICES ASSUME CleanInv, Iterate PROVE CleanInv'
  OBVIOUS
<1>1. PICK at, m : Worked(at, m)
  BY IterateWorks
<1> DEFINE k == NIter - it
           G == Grain[k - 1]
           flux == m * (Unit * G)
<1>2. /\ k \in 1..NIter /\ at \in Pixels /\ m \in Int
      /\ residual[at] = m * Grain[k]
      /\ components' = Append(components, [at |-> at, flux |-> flux])
      /\ residual' = [p \in Pixels |-> residual[p] - (m * Response(p, at)) * G]
  BY <1>1 DEF Worked
<1>3. it \in 0..NIter /\ NIter \in Nat /\ it' = it + 1
  BY CleanAssumption DEF CleanInv, CleanTypes, TypeOK, Iterate
<1>4. it' \in 0..NIter /\ NIter - it' = k - 1
  BY <1>2, <1>3
<1> HIDE DEF k
<1>5. G \in Nat \ {0} /\ Unit \in Nat \ {0} /\ Grain[k] = Unit * (Unit * G)
  <2>1. k - 1 \in 0..NIter
    BY <1>2, <1>3
  <2>2. G \in Nat \ {0}
    BY <2>1, CleanAssumption
  <2>3. Grain[k] = Unit * (Unit * Grain[k - 1])
    BY <1>2, CleanAssumption
  <2> QED
    BY <2>2, <2>3, CleanAssumption
<1> HIDE DEF G
<1>6. ASSUME NEW p \in Pixels
      PROVE  /\ Response(p, at) \in Int /\ residual[p] \in Int
             /\ residual'[p] = residual[p] - (m * Response(p, at)) * G
             /\ residual'[p] \in Int
  <2>1. Response(p, at) \in Int /\ residual[p] \in Int
    BY <1>2, PsfType DEF CleanInv, CleanTypes, TypeOK
  <2>2. residual'[p] = residual[p] - (m * Response(p, at)) * G
    BY <1>2
  <2>3. residual[p] - (m * Response(p, at)) * G \in Int
    BY <1>2, <1>5, <2>1
  <2> QED
    BY <2>1, <2>2, <2>3
<1>7. flux \in Int
  BY <1>2, <1>5
<1> HIDE DEF flux
<1>8. model' = [model EXCEPT ![at] = @ + flux] /\ model \in [Pixels -> Int]
  BY <1>2, <1>7, ModelGrows DEF CleanInv, CleanTypes
<1>9. /\ dirty' = dirty /\ psf' = psf /\ pc' = pc
      /\ dirty \in [Pixels -> Int] /\ psf \in Psfs /\ pc \in {"iterate", "done"}
  BY DEF Iterate, CleanInv, CleanTypes, TypeOK
<1>10. CleanTypes'
  <2>1. /\ components \in Seq([at : Pixels, flux : Int]) /\ Len(components) = it
        /\ [at |-> at, flux |-> flux] \in [at : Pixels, flux : Int]
    BY <1>2, <1>7 DEF CleanInv, CleanTypes, TypeOK
  <2>2. /\ components' \in Seq([at : Pixels, flux : Int])
        /\ Len(components') = it'
    BY <1>2, <1>3, <2>1
  <2>3. ASSUME NEW j \in DOMAIN components'
        PROVE  components'[j].at \in Pixels /\ components'[j].flux \in Int
    <3>1. j \in 1..Len(components')
      BY <2>2
    <3>2. components'[j] \in [at : Pixels, flux : Int]
      <4> DEFINE R == [at : Pixels, flux : Int]
      <4>1. components' \in Seq(R)
        BY <2>2
      <4> HIDE DEF R
      <4>2. components'[j] \in R
        BY <3>1, <4>1
      <4> QED
        BY <4>2 DEF R
    <3> QED
      BY <3>2
  <2>4. residual' \in [Pixels -> Int]
    BY <1>2, <1>6
  <2>5. model' \in [Pixels -> Int]
    BY <1>2, <1>7, <1>8
  <2> QED
    BY <1>4, <1>9, <2>2, <2>3, <2>4, <2>5 DEF CleanTypes, TypeOK
<1>11. Whole'
  <2>1. ASSUME NEW p \in Pixels PROVE \E j \in Int : residual'[p] = j * G
    <3>1. PICK j \in Int : residual[p] = j * Grain[k]
      BY DEF CleanInv, Whole, k
    <3> DEFINE b == j * (Unit * Unit) - m * Response(p, at)
    <3>2. b \in Int
      BY <1>2, <1>5, <1>6, <3>1
    <3>3. residual[p] = (j * (Unit * Unit)) * G
      BY <1>5, <3>1
    <3>4. (j * (Unit * Unit) - m * Response(p, at)) * G
            = (j * (Unit * Unit)) * G - (m * Response(p, at)) * G
      BY <1>2, <1>5, <1>6, <3>1
    <3>5. residual'[p] = b * G
      BY <1>6, <3>3, <3>4
    <3> QED
      BY <3>2, <3>5
  <2> QED
    BY <1>4, <2>1 DEF Whole, G
<1>12. Conserved'
  <2>1. ASSUME NEW p \in Pixels
        PROVE  Unit * (dirty'[p] - residual'[p]) = Total(Terms(p)')
    <3> DEFINE r == Response(p, at)
               d == dirty[p] - residual[p]
               f == Terms(p)
               g == Terms(p)'
    <3>1. Unit * d = Total(f)
      BY ConservedTotal DEF CleanInv
    <3>2. f \in [Pixels -> Int]
      BY TermsType DEF CleanInv
    <3>3. ASSUME NEW q \in Pixels
          PROVE  /\ At(p[1] - q[1], p[2] - q[2]) \in Int /\ model[q] \in Int
                 /\ f[q] = model[q] * At(p[1] - q[1], p[2] - q[2])
                 /\ g[q] = model'[q] * At(p[1] - q[1], p[2] - q[2])
      <4>1. At(p[1] - q[1], p[2] - q[2]) \in Int /\ model[q] \in Int
        BY <1>8, PsfType DEF CleanInv
      <4>2. At(p[1] - q[1], p[2] - q[2])' = At(p[1] - q[1], p[2] - q[2])
        BY <1>9 DEF At
      <4> QED
        BY <4>1, <4>2 DEF Terms
    <3>4. \A q \in Pixels : q # at => g[q] = f[q]
      BY <1>8, <3>3
    <3>5. g[at] - f[at] = flux * r
      <4>1. At(p[1] - at[1], p[2] - at[2]) = r /\ r \in Int
        BY <1>2, PsfType DEF CleanInv
      <4>2. model'[at] = model[at] + flux /\ model[at] \in Int
        BY <1>2, <1>8
      <4>3. f[at] = model[at] * r /\ g[at] = (model[at] + flux) * r
        BY <1>2, <3>3, <4>1, <4>2
      <4> HIDE DEF f, g, r
      <4> QED
        BY <1>7, <4>1, <4>2, <4>3
    <3>6. g \in [Pixels -> Int]
      <4>1. ASSUME NEW q \in Pixels PROVE g[q] \in Int
        <5>1. model'[q] \in Int
          BY <1>2, <1>7, <1>8
        <5> HIDE DEF g
        <5> QED
          BY <3>3, <5>1
      <4>2. g = [q \in Pixels |-> g[q]]
        BY DEF Terms
      <4> HIDE DEF g
      <4> QED
        BY <4>1, <4>2
    <3>7. Total(g) = Total(f) + flux * r /\ Total(f) \in Int
      <4> HIDE DEF f, g, r
      <4>1. Total(f) \in Int /\ Total(g) = Total(f) + (g[at] - f[at])
        BY <1>2, <3>2, <3>4, <3>6, PixelsFinite, TotalChange
      <4> QED
        BY <3>5, <4>1
    <3>8. Unit * (dirty'[p] - residual'[p]) = Unit * d + flux * r
      <4>1. dirty[p] \in Int /\ dirty'[p] = dirty[p]
        BY <1>9
      <4>2. residual'[p] = residual[p] - (m * r) * G /\ r \in Int /\ residual[p] \in Int
        BY <1>6
      <4>3. flux * r = Unit * ((m * r) * G)
        <5> HIDE DEF r
        <5> QED
          BY <1>2, <1>5, <4>2 DEF flux
      <4> HIDE DEF r
      <4> QED
        BY <1>2, <1>5, <4>1, <4>2, <4>3
    <3> HIDE DEF f, g, d, r
    <3> QED
      BY <3>1, <3>7, <3>8 DEF g
  <2>2. Conserved' <=> \A p \in Pixels :
                         Unit * (dirty'[p] - residual'[p]) = Total(Terms(p)')
    BY DEF Conserved, Terms
  <2> QED
    BY <2>1, <2>2
<1> QED
  BY <1>10, <1>11, <1>12 DEF CleanInv

\* So does a step that leaves the images alone.
LEMMA CleanIdleInv ==
  ASSUME CleanInv, pc' \in {"iterate", "done"},
         UNCHANGED <<dirty, psf, thr, residual, components, it>>
  PROVE  CleanInv'
<1>1. model' = model
  BY ModelIsOf
<1>2. CleanTypes'
  BY <1>1 DEF CleanInv, CleanTypes, TypeOK
<1>3. Whole'
  BY DEF CleanInv, Whole
<1>4. Conserved'
  <2>1. Conserved' <=> Conserved
    BY <1>1 DEF Conserved, At
  <2> QED
    BY <2>1 DEF CleanInv
<1> QED
  BY <1>2, <1>3, <1>4 DEF CleanInv

\* CLEAN keeps its invariant: types, pixels in whole grains, and conservation.
THEOREM CleanInvariant == Spec => []CleanInv
<1>1. CleanInv /\ [Next]_vars => CleanInv'
  <2> SUFFICES ASSUME CleanInv, [Next]_vars PROVE CleanInv'
    OBVIOUS
  <2>1. CASE Iterate
    BY <2>1, CleanIterateInv
  <2>2. CASE Stop
    BY <2>2, CleanIdleInv DEF Stop
  <2>3. CASE UNCHANGED vars
    <3>1. pc \in {"iterate", "done"}
      BY DEF CleanInv, CleanTypes, TypeOK
    <3> QED
      BY <2>3, <3>1, CleanIdleInv DEF vars
  <2> QED
    BY <2>1, <2>2, <2>3 DEF Next
<1> QED
  BY CleanInitInv, <1>1, PTL DEF Spec

\* After every iteration of hogbom_clean the dirty image is the residual plus
\* the model image convolved with the PSF, whatever image, PSF and threshold,
\* and however often the peak comes back to a pixel.
THEOREM CleanConserves == Spec => []Conserved
<1>1. CleanInv => Conserved
  BY DEF CleanInv
<1> QED
  BY CleanInvariant, <1>1, PTL

\* What hogbom_clean requires of the PSF (clean.hpp): a unit peak at the centre.
UnitPeaks == \A f \in Psfs : f[Centre] = Unit

\* An iteration brings the pixel it works on down.
LEMMA IterateReduces ==
  ASSUME UnitPeaks, CleanInv, Iterate, NEW at, NEW m, Worked(at, m),
         residual[at] # 0
  PROVE  Abs(residual'[at]) < Abs(residual[at])
<1> DEFINE k == NIter - it
           G == Grain[k - 1]
<1>1. /\ k \in 1..NIter /\ at \in Pixels /\ m \in Int
      /\ residual[at] = m * Grain[k]
      /\ residual' = [p \in Pixels |-> residual[p] - (m * Response(p, at)) * G]
  BY DEF Worked
<1> HIDE DEF k
<1>2. G \in Nat \ {0} /\ Unit \in Nat \ {0} /\ Grain[k] = Unit * (Unit * G)
  <2>1. k - 1 \in 0..NIter
    BY <1>1, CleanAssumption
  <2>2. G \in Nat \ {0}
    BY <2>1, CleanAssumption
  <2>3. Grain[k] = Unit * (Unit * Grain[k - 1])
    BY <1>1, CleanAssumption
  <2> QED
    BY <2>2, <2>3, CleanAssumption
<1> HIDE DEF G
<1>3. Response(at, at) = Unit
  <2>1. Shifted(at, at) = Centre
    <3>1. at[1] \in Int /\ at[2] \in Int /\ N1 \in Nat \ {0} /\ N2 \in Nat \ {0}
      BY <1>1, CleanAssumption DEF Pixels, X, Y
    <3>2. at[1] - at[1] + N1 \div 2 = N1 \div 2 /\ at[2] - at[2] + N2 \div 2 = N2 \div 2
      BY <3>1
    <3> QED
      BY <3>2 DEF Shifted, Centre
  <2>2. psf[Centre] = Unit
    BY DEF UnitPeaks, CleanInv, CleanTypes
  <2> QED
    BY <2>1, <2>2, PixelsFinite DEF Response
<1> DEFINE a == (m * Unit) * G
           b == Unit * a
<1>4. a \in Int /\ residual[at] = Unit * a /\ residual'[at] = Unit * a - a
  BY <1>1, <1>2, <1>3
<1> HIDE DEF a
<1>5. a # 0 /\ b \in Int /\ (a > 0 => b >= a) /\ (a < 0 => b <= a)
  BY <1>2, <1>4
<1>6. residual[at] = b /\ residual'[at] = b - a
  BY <1>4
<1> HIDE DEF b
<1> QED
  BY <1>4, <1>5, <1>6 DEF Abs

\* An iteration of hogbom_clean works on a pixel of the largest magnitude and
\* brings that magnitude down, if the PSF has the unit peak it requires.
THEOREM CleanReducesPeak == ASSUME UnitPeaks PROVE Spec => PeakReduced
<1> DEFINE Down == it' = it + 1 =>
             LET at == components'[it'].at
             IN  /\ \A p \in Pixels : Abs(residual[p]) <= Abs(residual[at])
                 /\ residual[at] # 0 => Abs(residual'[at]) < Abs(residual[at])
<1>1. CleanInv /\ [Next]_vars => [Down]_vars
  <2> SUFFICES ASSUME CleanInv, Next, it' = it + 1 PROVE Down
    OBVIOUS
  <2>1. it \in Nat
    BY CleanAssumption DEF CleanInv, CleanTypes, TypeOK
  <2>2. Iterate
    BY <2>1 DEF Next, Stop
  <2> DEFINE at == Peak(residual)
  <2>3. IsPeak(residual, at)
    BY <2>2, IterateWorks
  <2>4. PICK m : Worked(at, m)
    BY <2>2, IterateWorks
  <2> HIDE DEF at
  <2>5. components'[it'].at = at
    <3>1. components \in Seq([at : Pixels, flux : Int]) /\ Len(components) = it
      BY DEF CleanInv, CleanTypes, TypeOK
    <3>2. \E x : components' = Append(components, [at |-> at, flux |-> x])
      BY <2>4 DEF Worked
    <3>3. PICK x : components' = Append(components, [at |-> at, flux |-> x])
      BY <3>2
    <3>4. components'[it + 1] = [at |-> at, flux |-> x]
      BY <3>1, <3>3
    <3> QED
      BY <3>4
  <2>6. \A p \in Pixels : Abs(residual[p]) <= Abs(residual[at])
    <3>1. at \in Pixels /\ residual \in [Pixels -> Int]
      BY <2>4 DEF Worked, CleanInv, CleanTypes, TypeOK
    <3>2. \A p \in Pixels : Abs(residual[p]) \in Int
      BY <3>1 DEF Abs
    <3> QED
      BY <2>3, <3>1, <3>2 DEF IsPeak
  <2>7. residual[at] # 0 => Abs(residual'[at]) < Abs(residual[at])
    BY <2>2, <2>4, IterateReduces
  <2> QED
    BY <2>5, <2>6, <2>7
<1>2. Spec => [][Down]_vars
  <2> HIDE DEF Down
  <2> QED
    BY CleanInvariant, <1>1, PTL DEF Spec
<1> QED
  BY <1>2 DEF PeakReduced

-----------------------------------------------------------------------------
(* The image: phases and pixels *)

\* A cosine is a number between -1 and 1, the same a whole turn further on.
LEMMA Cosine ==
  ASSUME NEW x \in Int
  PROVE  /\ TwiceCos(x) \in Int /\ -2 <= TwiceCos(x) /\ TwiceCos(x) <= 2
         /\ \A k \in Int : TwiceCos(x + Turn * k) = TwiceCos(x)
         /\ TwiceCos(0) = 2
<1>1. CASE Turn = 4
  <2>1. x % 4 \in 0..3 /\ (\A k \in Int : (x + 4 * k) % 4 = x % 4) /\ 0 % 4 = 0
    OBVIOUS
  <2>2. \A k \in Int : TwiceCos(x + Turn * k) = TwiceCos(x)
    BY <1>1, <2>1 DEF TwiceCos
  <2>3. TwiceCos(x) \in {2, 0, -2} /\ TwiceCos(0) = 2
    BY <1>1, <2>1 DEF TwiceCos
  <2> QED
    BY <2>2, <2>3
<1>2. CASE Turn = 6
  <2>1. x % 6 \in 0..5 /\ (\A k \in Int : (x + 6 * k) % 6 = x % 6) /\ 0 % 6 = 0
    OBVIOUS
  <2>2. \A k \in Int : TwiceCos(x + Turn * k) = TwiceCos(x)
    BY <1>2, <2>1 DEF TwiceCos
  <2>3. TwiceCos(x) \in {2, 1, -1, -2} /\ TwiceCos(0) = 2
    BY <1>2, <2>1 DEF TwiceCos
  <2> QED
    BY <2>2, <2>3
<1> QED
  BY <1>1, <1>2, ImageAssumption

\* to_finufft_coords moves a coordinate by whole turns.
LEMMA WrapsTurns ==
  ASSUME NEW x \in Int
  PROVE  Wrap(x) \in Int /\ \E k \in Int : Wrap(x) = x + Turn * k
<1>1. CASE Turn = 4
  <2> DEFINE y == x + 2
  <2>1. \E k \in Int : Fmod(y, 4) = y + 4 * k
    <3>1. y \in Int /\ y % 4 = y + 4 * (-(y \div 4)) /\ -((-y) % 4) = y + 4 * ((-y) \div 4)
      OBVIOUS
    <3>2. -(y \div 4) \in Int /\ (-y) \div 4 \in Int
      OBVIOUS
    <3> HIDE DEF y
    <3> QED
      BY <3>1, <3>2 DEF Fmod
  <2>2. PICK k \in Int : Fmod(y, 4) = y + 4 * k
    BY <2>1
  <2>3. 4 \div 2 = 2
    OBVIOUS
  <2>4. Wrap(x) = (IF Fmod(y, 4) < 0 THEN Fmod(y, 4) + 4 ELSE Fmod(y, 4)) - 2
    BY <1>1, <2>3 DEF Wrap
  <2>5. Wrap(x) = x + 4 * k \/ Wrap(x) = x + 4 * (k + 1)
    BY <2>2, <2>4
  <2>6. \E j \in Int : Wrap(x) = x + 4 * j
    <3>1. k \in Int /\ k + 1 \in Int
      OBVIOUS
    <3> QED
      BY <2>5, <3>1
  <2> QED
    BY <1>1, <2>6
<1>2. CASE Turn = 6
  <2> DEFINE y == x + 3
  <2>1. \E k \in Int : Fmod(y, 6) = y + 6 * k
    <3>1. y \in Int /\ y % 6 = y + 6 * (-(y \div 6)) /\ -((-y) % 6) = y + 6 * ((-y) \div 6)
      OBVIOUS
    <3>2. -(y \div 6) \in Int /\ (-y) \div 6 \in Int
      OBVIOUS
    <3> HIDE DEF y
    <3> QED
      BY <3>1, <3>2 DEF Fmod
  <2>2. PICK k \in Int : Fmod(y, 6) = y + 6 * k
    BY <2>1
  <2>3. 6 \div 2 = 3
    OBVIOUS
  <2>4. Wrap(x) = (IF Fmod(y, 6) < 0 THEN Fmod(y, 6) + 6 ELSE Fmod(y, 6)) - 3
    BY <1>2, <2>3 DEF Wrap
  <2>5. Wrap(x) = x + 6 * k \/ Wrap(x) = x + 6 * (k + 1)
    BY <2>2, <2>4
  <2>6. \E j \in Int : Wrap(x) = x + 6 * j
    <3>1. k \in Int /\ k + 1 \in Int
      OBVIOUS
    <3> QED
      BY <2>5, <3>1
  <2> QED
    BY <1>2, <2>6
<1> QED
  BY <1>1, <1>2, ImageAssumption

\* to_finufft_coords brings a coordinate into [-pi, pi), of either sign: fmod leaves
\* less than a turn, and what is below zero is brought up by one.
LEMMA WrapInRange ==
  ASSUME NEW x \in Int
  PROVE  Wrap(x) \in (-(Turn \div 2))..(Turn \div 2 - 1)
<1>1. CASE Turn = 4
  <2>1. 4 \div 2 = 2
    OBVIOUS
  <2> DEFINE y == x + 2
  <2>2. y % 4 \in 0..3 /\ (-y) % 4 \in 0..3
    OBVIOUS
  <2>3. Fmod(y, 4) \in Int /\ -4 < Fmod(y, 4) /\ Fmod(y, 4) < 4
    <3> HIDE DEF y
    <3> QED
      BY <2>2 DEF Fmod
  <2>4. Wrap(x) = (IF Fmod(y, 4) < 0 THEN Fmod(y, 4) + 4 ELSE Fmod(y, 4)) - 2
    BY <1>1, <2>1 DEF Wrap
  <2> HIDE DEF y
  <2> QED
    BY <1>1, <2>1, <2>3, <2>4
<1>2. CASE Turn = 6
  <2>1. 6 \div 2 = 3
    OBVIOUS
  <2> DEFINE y == x + 3
  <2>2. y % 6 \in 0..5 /\ (-y) % 6 \in 0..5
    OBVIOUS
  <2>3. Fmod(y, 6) \in Int /\ -6 < Fmod(y, 6) /\ Fmod(y, 6) < 6
    <3> HIDE DEF y
    <3> QED
      BY <2>2 DEF Fmod
  <2>4. Wrap(x) = (IF Fmod(y, 6) < 0 THEN Fmod(y, 6) + 6 ELSE Fmod(y, 6)) - 3
    BY <1>2, <2>1 DEF Wrap
  <2> HIDE DEF y
  <2> QED
    BY <1>2, <2>1, <2>3, <2>4
<1> QED
  BY <1>1, <1>2, ImageAssumption

\* Half the image, in pixels: the place of frequency zero.
Half0 == npix \div 2

\* FINUFFT leaves at pixel p the frequency p pixels from the middle.
LEMMA ModeFrequency ==
  ASSUME npix \in Sizes, NEW p \in Axis
  PROVE  Frequency(ModePlace(p)) = p - Half0
  BY ImageAssumption DEF Axis, Frequency, ModePlace, KMin, Half0

\* A pixel's column and row, from its place in the buffer.
LEMMA PixelPlace ==
  ASSUME npix \in Sizes
  PROVE  /\ \A ix \in Axis, iy \in Axis :
              /\ Idx(ix, iy) \in Raster
              /\ Idx(ix, iy) % npix = ix /\ Idx(ix, iy) \div npix = iy
         /\ \A p \in Raster : p % npix \in Axis /\ p \div npix \in Axis
<1>1. npix \in Nat \ {0}
  BY ImageAssumption
<1>2. ASSUME NEW ix \in Axis, NEW iy \in Axis
      PROVE  /\ Idx(ix, iy) \in Raster
             /\ Idx(ix, iy) % npix = ix /\ Idx(ix, iy) \div npix = iy
  <2> DEFINE b == iy * npix + ix
             d == b \div npix
             m == b % npix
  <2>1. /\ ix \in 0..(npix - 1) /\ iy \in 0..(npix - 1)
        /\ iy * npix \in Int /\ 0 <= iy * npix
        /\ iy * npix <= (npix - 1) * npix /\ (npix - 1) * npix = npix * npix - npix
    BY <1>1 DEF Axis
  <2>2. b \in Raster /\ b \in Int /\ b = iy * npix + ix
    BY <1>1, <2>1 DEF Raster
  <2> HIDE DEF b
  <2>3. d \in Int /\ m \in 0..(npix - 1) /\ b = d * npix + m
    BY <1>1, <2>2
  <2> HIDE DEF d, m
  <2>4. (d - iy) * npix = ix - m
    BY <1>1, <2>1, <2>2, <2>3
  <2>5. d - iy >= 1 => (d - iy) * npix >= npix
    BY <1>1, <2>1, <2>3
  <2>6. d - iy <= -1 => (d - iy) * npix <= -npix
    BY <1>1, <2>1, <2>3
  <2>7. d = iy
    BY <1>1, <2>1, <2>3, <2>4, <2>5, <2>6
  <2>8. m = ix
    BY <2>1, <2>2, <2>3, <2>7
  <2> QED
    BY <2>2, <2>7, <2>8 DEF Idx, b, d, m
<1>3. ASSUME NEW p \in Raster PROVE p % npix \in Axis /\ p \div npix \in Axis
  <2> DEFINE d == p \div npix
             m == p % npix
  <2>1. /\ p \in Int /\ 0 <= p /\ p < npix * npix
        /\ d \in Int /\ m \in 0..(npix - 1) /\ p = d * npix + m
    BY <1>1 DEF Raster
  <2> HIDE DEF d, m
  <2>2. d <= -1 => d * npix <= -npix
    BY <1>1, <2>1
  <2>3. d >= npix => d * npix >= npix * npix
    BY <1>1, <2>1
  <2>4. d \in 0..(npix - 1)
    BY <1>1, <2>1, <2>2, <2>3
  <2> QED
    BY <2>1, <2>4 DEF Axis, d, m
<1> QED
  BY <1>2, <1>3

\* Samples, as push_sample makes them.
Samples == [u : Int, v : Int, phase : Int]

\* The phase a sample brings to the pixel that is fx, fy from the middle.
PhaseAt(s, fx, fy) == s.phase + fx * s.u + fy * s.v

\* What a bag of samples adds up to there.
Adding(bag, fx, fy) ==
  [i \in DOMAIN bag |-> TwiceCos(PhaseAt(bag[i], fx, fy))]

\* What is added up are numbers between -2 and 2, one for each sample.
LEMMA AddingType ==
  ASSUME NEW bag \in Seq(Samples), NEW fx \in Int, NEW fy \in Int
  PROVE  /\ Adding(bag, fx, fy) \in [1..Len(bag) -> Int]
         /\ \A i \in 1..Len(bag) :
              /\ PhaseAt(bag[i], fx, fy) \in Int
              /\ Adding(bag, fx, fy)[i] = TwiceCos(PhaseAt(bag[i], fx, fy))
              /\ -2 <= Adding(bag, fx, fy)[i] /\ Adding(bag, fx, fy)[i] <= 2
         /\ IsFiniteSet(1..Len(bag)) /\ Cardinality(1..Len(bag)) = Len(bag)
<1>1. ASSUME NEW i \in 1..Len(bag)
      PROVE  /\ PhaseAt(bag[i], fx, fy) \in Int
             /\ TwiceCos(PhaseAt(bag[i], fx, fy)) \in Int
             /\ -2 <= TwiceCos(PhaseAt(bag[i], fx, fy))
             /\ TwiceCos(PhaseAt(bag[i], fx, fy)) <= 2
  <2>1. bag[i] \in Samples
    OBVIOUS
  <2>2. bag[i].u \in Int /\ bag[i].v \in Int /\ bag[i].phase \in Int
    BY <2>1 DEF Samples
  <2>3. PhaseAt(bag[i], fx, fy) \in Int
    BY <2>2 DEF PhaseAt
  <2> QED
    BY <2>3, Cosine
<1>2. DOMAIN bag = 1..Len(bag) /\ Len(bag) \in Nat
  OBVIOUS
<1>3. IsFiniteSet(1..Len(bag)) /\ Cardinality(1..Len(bag)) = Len(bag)
  BY <1>2, FS_Interval
<1> QED
  BY <1>1, <1>2, <1>3 DEF Adding

\* A pixel of the image of a bag.
LEMMA ShuffledAt ==
  ASSUME npix \in Sizes, NEW bag, NEW p \in Raster
  PROVE  Shuffled(bag)[p] =
           Total(Adding(bag, (p % npix) - Half0, (p \div npix) - Half0))
<1>1. /\ Frequency(ModePlace(p % npix)) = (p % npix) - Half0
      /\ Frequency(ModePlace(p \div npix)) = (p \div npix) - Half0
  BY PixelPlace, ModeFrequency
<1>2. Shuffled(bag)[p] = Fine(bag, ModePlace(p % npix), ModePlace(p \div npix))
  BY DEF Shuffled
<1> QED
  BY <1>1, <1>2 DEF Fine, Adding, PhaseAt

\* No pixel has more than every sample in phase, of either sign.
LEMMA PixelBound ==
  ASSUME npix \in Sizes, NEW bag \in Seq(Samples), NEW p \in Raster
  PROVE  /\ Shuffled(bag)[p] \in Int
         /\ -(2 * Len(bag)) <= Shuffled(bag)[p] /\ Shuffled(bag)[p] <= 2 * Len(bag)
<1> DEFINE fx == (p % npix) - Half0
           fy == (p \div npix) - Half0
<1>1. fx \in Int /\ fy \in Int
  BY PixelPlace, ImageAssumption DEF Axis, Half0
<1>2. Shuffled(bag)[p] = Total(Adding(bag, fx, fy))
  BY ShuffledAt
<1> HIDE DEF fx, fy
<1> DEFINE f == Adding(bag, fx, fy)
           I == 1..Len(bag)
<1>3. /\ f \in [I -> Int] /\ IsFiniteSet(I) /\ Cardinality(I) = Len(bag)
      /\ \A i \in I : -2 <= f[i] /\ f[i] <= 2
  BY <1>1, AddingType
<1> HIDE DEF f, I
<1>4. /\ Total(f) \in Int
      /\ -2 * Cardinality(I) <= Total(f) /\ Total(f) <= 2 * Cardinality(I)
  BY <1>3, TotalBound
<1>5. Len(bag) \in Nat
  OBVIOUS
<1> QED
  BY <1>2, <1>3, <1>4, <1>5 DEF f

\* The pixel where all samples are in phase, if there is one, has them all.
LEMMA PixelInPhase ==
  ASSUME npix \in Sizes,
         NEW bag \in Seq(Samples), NEW ix \in Axis, NEW iy \in Axis,
         \A i \in 1..Len(bag) :
           \E k \in Int : PhaseAt(bag[i], ix - Half0, iy - Half0) = Turn * k
  PROVE  Shuffled(bag)[Idx(ix, iy)] = 2 * Len(bag)
<1> DEFINE fx == ix - Half0
           fy == iy - Half0
<1>1. fx \in Int /\ fy \in Int
  BY ImageAssumption DEF Axis, Half0
<1>2. Shuffled(bag)[Idx(ix, iy)] = Total(Adding(bag, fx, fy))
  BY PixelPlace, ShuffledAt
<1>3. \A i \in 1..Len(bag) : \E k \in Int : PhaseAt(bag[i], fx, fy) = Turn * k
  OBVIOUS
<1> HIDE DEF fx, fy
<1> DEFINE f == Adding(bag, fx, fy)
           I == 1..Len(bag)
<1>4. /\ f \in [I -> Int] /\ IsFiniteSet(I) /\ Cardinality(I) = Len(bag)
      /\ \A i \in I : f[i] = TwiceCos(PhaseAt(bag[i], fx, fy))
  BY <1>1, AddingType
<1>5. ASSUME NEW i \in I PROVE f[i] = 2
  <2>1. PICK k \in Int : PhaseAt(bag[i], fx, fy) = Turn * k
    BY <1>3
  <2>2. TwiceCos(0 + Turn * k) = TwiceCos(0) /\ TwiceCos(0) = 2
    BY Cosine
  <2>3. 0 + Turn * k = Turn * k
    BY ImageAssumption
  <2> QED
    BY <1>4, <2>1, <2>2, <2>3
<1> HIDE DEF f, I
<1>6. Total(f) = 2 * Cardinality(I)
  BY <1>4, <1>5, TotalSame
<1> QED
  BY <1>2, <1>4, <1>6 DEF f

-----------------------------------------------------------------------------
(* The image: the invariant *)

Twins ==
  /\ dirty_samples \in Seq(Samples) /\ psf_samples \in Seq(Samples)
  /\ Len(dirty_samples) = Len(psf_samples)
  /\ \A i \in 1..Len(dirty_samples) :
       /\ psf_samples[i].u = dirty_samples[i].u
       /\ psf_samples[i].v = dirty_samples[i].v
       /\ psf_samples[i].phase = 0

\* The sense of u: to_finufft_coords turns it round.
Sense == IF stage = "gather" THEN -1 ELSE 1

\* s has the phase of the source, but for whole turns.
Phased(s) ==
  \E k \in Int : s.phase = Sense * (s.u * src.l) - s.v * src.m + Turn * k

Pictured ==
  stage = "imaged" => /\ Len(dirty_samples) > 0
                      /\ dirtyImg = Shuffled(dirty_samples)
                      /\ psfImg = Shuffled(psf_samples)

ImageInv ==
  /\ npix \in Sizes
  /\ src \in Sources
  /\ stage \in {"gather", "coords", "imaged", "failed"}
  /\ Twins
  /\ \A i \in 1..Len(dirty_samples) : Phased(dirty_samples[i])
  /\ Pictured

\* A sample is pushed with its twin.
LEMMA PushInv ==
  ASSUME ImageInv, NEW u \in Coords, NEW v \in Coords, PushSample(u, v)
  PROVE  ImageInv'
<1> DEFINE s == [u |-> u, v |-> v, phase |-> Visibility(u, v)]
           t == [u |-> u, v |-> v, phase |-> 0]
           n == Len(dirty_samples)
           w == -(u * src.l + v * src.m)
<1>1. u \in Int /\ v \in Int /\ src.l \in Int /\ src.m \in Int
  BY ImageAssumption DEF ImageInv
<1>2. /\ stage = "gather" /\ stage' = stage /\ src' = src /\ npix' = npix
      /\ dirty_samples' = Append(dirty_samples, s)
      /\ psf_samples' = Append(psf_samples, t)
  BY DEF PushSample
<1>3. w \in Int /\ u * src.l \in Int /\ v * src.m \in Int
  BY <1>1
<1>4. Visibility(u, v) \in Int /\ \E k \in Int : Visibility(u, v) = w + Turn * k
  <2>1. Visibility(u, v) = w % Turn
    BY DEF Visibility
  <2> HIDE DEF w
  <2>2. -(w \div Turn) \in Int /\ w % Turn \in Int
    BY <1>3, ImageAssumption
  <2>3. w % Turn = w + Turn * (-(w \div Turn))
    <3>1. Turn = 4 => w % Turn = w + Turn * (-(w \div Turn))
      BY <1>3
    <3>2. Turn = 6 => w % Turn = w + Turn * (-(w \div Turn))
      BY <1>3
    <3> QED
      BY <3>1, <3>2, ImageAssumption
  <2> QED
    BY <2>1, <2>2, <2>3
<1>5. s \in Samples /\ t \in Samples
  BY <1>1, <1>4 DEF Samples
<1>6. s.u = u /\ s.v = v /\ s.phase = Visibility(u, v) /\ t.u = u /\ t.v = v /\ t.phase = 0
  OBVIOUS
<1> HIDE DEF s, t
<1>7. /\ n \in Nat /\ Len(psf_samples) = n
      /\ dirty_samples \in Seq(Samples) /\ psf_samples \in Seq(Samples)
  BY DEF ImageInv, Twins
<1>8. /\ Len(dirty_samples') = n + 1 /\ Len(psf_samples') = n + 1
      /\ dirty_samples' \in Seq(Samples) /\ psf_samples' \in Seq(Samples)
      /\ \A i \in 1..(n + 1) :
           /\ dirty_samples'[i] = IF i = n + 1 THEN s ELSE dirty_samples[i]
           /\ psf_samples'[i] = IF i = n + 1 THEN t ELSE psf_samples[i]
  BY <1>2, <1>5, <1>7
<1> HIDE DEF n
<1>9. ASSUME NEW i \in 1..(n + 1)
      PROVE  /\ psf_samples'[i].u = dirty_samples'[i].u
             /\ psf_samples'[i].v = dirty_samples'[i].v
             /\ psf_samples'[i].phase = 0
  <2>1. CASE i = n + 1
    BY <1>6, <1>8, <2>1
  <2>2. CASE i # n + 1
    <3>1. i \in 1..n
      BY <1>7, <2>2
    <3>2. /\ psf_samples[i].u = dirty_samples[i].u
          /\ psf_samples[i].v = dirty_samples[i].v
          /\ psf_samples[i].phase = 0
      BY <3>1 DEF ImageInv, Twins, n
    <3> QED
      BY <1>8, <2>2, <3>2
  <2> QED
    BY <2>1, <2>2
<1>10. Twins'
  BY <1>8, <1>9 DEF Twins
<1>11. Sense = -1 /\ Sense' = -1
  BY <1>2 DEF Sense
<1>12. ASSUME NEW i \in 1..(n + 1) PROVE Phased(dirty_samples[i])'
  <2>1. CASE i = n + 1
    <3>1. dirty_samples'[i] = s
      BY <1>8, <2>1
    <3>2. PICK k \in Int : Visibility(u, v) = w + Turn * k
      BY <1>4
    <3>3. w + Turn * k = (-1) * (u * src.l) - v * src.m + Turn * k
      BY <1>3, ImageAssumption
    <3>4. s.phase = (-1) * (s.u * src.l) - s.v * src.m + Turn * k
      <4> HIDE DEF w
      <4> QED
        BY <1>6, <3>2, <3>3
    <3>5. dirty_samples'[i].phase
            = Sense' * (dirty_samples'[i].u * src'.l) - dirty_samples'[i].v * src'.m + Turn * k
      BY <1>2, <1>11, <3>1, <3>4
    <3> QED
      BY <3>5 DEF Phased
  <2>2. CASE i # n + 1
    <3>1. i \in 1..n
      BY <1>7, <2>2
    <3>2. Phased(dirty_samples[i])
      BY <3>1 DEF ImageInv, n
    <3>3. dirty_samples'[i] = dirty_samples[i]
      BY <1>8, <2>2
    <3> QED
      BY <1>2, <1>11, <3>2, <3>3 DEF Phased
  <2> QED
    BY <2>1, <2>2
<1>13. Pictured'
  BY <1>2 DEF Pictured
<1> QED
  BY <1>2, <1>8, <1>10, <1>12, <1>13 DEF ImageInv

\* Where a sample is put.
LEMMA PlacedIs ==
  ASSUME NEW s \in Samples
  PROVE  /\ Placed(s) \in Samples
         /\ Placed(s).u = Wrap(-s.u) /\ Placed(s).v = Wrap(s.v)
         /\ Placed(s).phase = s.phase
<1>1. s.u \in Int /\ s.v \in Int /\ s.phase \in Int /\ -s.u \in Int
  BY DEF Samples
<1>2. Wrap(-s.u) \in Int /\ Wrap(s.v) \in Int
  BY <1>1, WrapsTurns
<1> DEFINE x == Wrap(-s.u)
           y == Wrap(s.v)
<1>3. Placed(s) = [s EXCEPT !.u = x, !.v = y]
  BY DEF Placed
<1> HIDE DEF x, y
<1>4. Placed(s) = [u |-> x, v |-> y, phase |-> s.phase]
  BY <1>3 DEF Samples
<1> QED
  BY <1>1, <1>2, <1>4 DEF Samples, x, y

\* A bag of placed samples has each sample in its place.
LEMMA PlacedBag ==
  ASSUME NEW bag \in Seq(Samples), NEW c,
         c = [i \in DOMAIN bag |-> Placed(bag[i])]
  PROVE  /\ c \in Seq(Samples) /\ Len(c) = Len(bag)
         /\ \A i \in 1..Len(bag) :
              /\ bag[i] \in Samples
              /\ c[i].u = Wrap(-bag[i].u) /\ c[i].v = Wrap(bag[i].v)
              /\ c[i].phase = bag[i].phase
<1>1. DOMAIN bag = 1..Len(bag) /\ Len(bag) \in Nat
  OBVIOUS
<1>2. ASSUME NEW i \in 1..Len(bag)
      PROVE  /\ bag[i] \in Samples /\ c[i] = Placed(bag[i]) /\ Placed(bag[i]) \in Samples
             /\ c[i].u = Wrap(-bag[i].u) /\ c[i].v = Wrap(bag[i].v)
             /\ c[i].phase = bag[i].phase
  <2>1. bag[i] \in Samples /\ c[i] = Placed(bag[i])
    BY <1>1
  <2> QED
    BY <2>1, PlacedIs
<1>3. c \in [1..Len(bag) -> Samples]
  BY <1>1, <1>2
<1>4. c \in Seq(Samples) /\ Len(c) = Len(bag)
  BY <1>1, <1>3
<1> QED
  BY <1>2, <1>4

\* Both bags are put in their places.
LEMMA PlaceInv == ImageInv /\ ToFinufftCoords => ImageInv'
<1> SUFFICES ASSUME ImageInv, ToFinufftCoords PROVE ImageInv'
  OBVIOUS
<1> DEFINE n == Len(dirty_samples)
<1>1. /\ dirty_samples \in Seq(Samples) /\ psf_samples \in Seq(Samples)
      /\ Len(psf_samples) = n
      /\ src \in Sources /\ src' = src /\ src.l \in Int /\ src.m \in Int
      /\ stage = "gather" /\ stage' = "coords" /\ npix' = npix
  BY ImageAssumption DEF ImageInv, Twins, ToFinufftCoords
<1>2. dirty_samples' = [i \in DOMAIN dirty_samples |-> Placed(dirty_samples[i])]
  BY DEF ToFinufftCoords
<1>3. psf_samples' = [i \in DOMAIN psf_samples |-> Placed(psf_samples[i])]
  BY DEF ToFinufftCoords
<1>4. /\ dirty_samples' \in Seq(Samples) /\ Len(dirty_samples') = n
      /\ \A i \in 1..n :
           /\ dirty_samples[i] \in Samples
           /\ dirty_samples'[i].u = Wrap(-dirty_samples[i].u)
           /\ dirty_samples'[i].v = Wrap(dirty_samples[i].v)
           /\ dirty_samples'[i].phase = dirty_samples[i].phase
  BY <1>1, <1>2, PlacedBag
<1>5. /\ psf_samples' \in Seq(Samples) /\ Len(psf_samples') = n
      /\ \A i \in 1..n :
           /\ psf_samples'[i].u = Wrap(-psf_samples[i].u)
           /\ psf_samples'[i].v = Wrap(psf_samples[i].v)
           /\ psf_samples'[i].phase = psf_samples[i].phase
  BY <1>1, <1>3, PlacedBag
<1>6. Twins'
  <2>1. \A i \in 1..n : /\ psf_samples[i].u = dirty_samples[i].u
                        /\ psf_samples[i].v = dirty_samples[i].v
                        /\ psf_samples[i].phase = 0
    BY DEF ImageInv, Twins
  <2> HIDE DEF n
  <2> QED
    BY <1>4, <1>5, <2>1 DEF Twins
<1>7. ASSUME NEW i \in 1..n PROVE Phased(dirty_samples[i])'
  <2> DEFINE s == dirty_samples[i]
             t == dirty_samples'[i]
  <2>1. s.u \in Int /\ s.v \in Int /\ -s.u \in Int
    <3>1. s \in Samples
      BY <1>4
    <3> HIDE DEF s
    <3> QED
      BY <3>1 DEF Samples
  <2>2. PICK k \in Int : s.phase = (-1) * (s.u * src.l) - s.v * src.m + Turn * k
    BY <1>1 DEF ImageInv, Phased, Sense
  <2>3. t.u = Wrap(-s.u) /\ t.v = Wrap(s.v) /\ t.phase = s.phase
    BY <1>4
  <2>4. PICK a \in Int : Wrap(-s.u) = -s.u + Turn * a
    BY <2>1, WrapsTurns
  <2>5. PICK b \in Int : Wrap(s.v) = s.v + Turn * b
    BY <2>1, WrapsTurns
  <2>6. t.u = -s.u + Turn * a /\ t.v = s.v + Turn * b
    BY <2>3, <2>4, <2>5
  <2> DEFINE j == k - a * src.l + b * src.m
             x == s.u
             y == s.v
             z == s.phase
             x1 == t.u
             y1 == t.v
             z1 == t.phase
  <2>7. /\ x \in Int /\ y \in Int /\ z1 = z
        /\ z = (-1) * (x * src.l) - y * src.m + Turn * k
        /\ x1 = -x + Turn * a /\ y1 = y + Turn * b
    BY <2>1, <2>2, <2>3, <2>6
  <2> HIDE DEF x, y, z, x1, y1, z1
  <2>8. Turn \in Int
    BY ImageAssumption
  <2>9. z1 = 1 * (x1 * src.l) - y1 * src.m + Turn * j
    <3> DEFINE l == src.l
               m == src.m
    <3>1. l \in Int /\ m \in Int
      BY <1>1
    <3>2. z1 = -(x * l) - y * m + Turn * k
      BY <2>7, <3>1
    <3> HIDE DEF l, m
    <3>3. x1 * l = -(x * l) + Turn * (a * l)
      BY <2>7, <2>8, <3>1
    <3>4. y1 * m = y * m + Turn * (b * m)
      BY <2>7, <2>8, <3>1
    <3>5. /\ Turn * (k - a * l + b * m) = Turn * k - Turn * (a * l) + Turn * (b * m)
          /\ Turn * (a * l) \in Int /\ Turn * (b * m) \in Int /\ Turn * k \in Int
          /\ x * l \in Int /\ y * m \in Int
      BY <2>7, <2>8, <3>1
    <3>6. z1 = 1 * (x1 * l) - y1 * m + Turn * (k - a * l + b * m)
      BY <3>2, <3>3, <3>4, <3>5
    <3> QED
      BY <3>6 DEF l, m
  <2>10. j \in Int
    BY <1>1
  <2> HIDE DEF j
  <2> QED
    BY <1>1, <2>9, <2>10 DEF Phased, Sense, x1, y1, z1
<1>8. Pictured'
  BY <1>1 DEF Pictured
<1> QED
  BY <1>1, <1>4, <1>6, <1>7, <1>8 DEF ImageInv

\* The images are made from the bags, which stay.
LEMMA RunInv == ImageInv /\ RunFinufftDirty => ImageInv'
<1> SUFFICES ASSUME ImageInv, RunFinufftDirty PROVE ImageInv'
  OBVIOUS
<1>1. /\ stage = "coords" /\ stage' \in {"failed", "imaged"}
      /\ src' = src /\ dirty_samples' = dirty_samples /\ psf_samples' = psf_samples
      /\ npix' = npix
  BY DEF RunFinufftDirty
<1>2. Twins'
  BY <1>1 DEF ImageInv, Twins
<1>3. Sense' = Sense
  BY <1>1 DEF Sense
<1>4. ASSUME NEW i \in 1..Len(dirty_samples) PROVE Phased(dirty_samples[i])'
  <2>1. Phased(dirty_samples[i])
    BY DEF ImageInv
  <2> QED
    BY <1>1, <1>3, <2>1 DEF Phased
<1>5. Pictured'
  <2>1. SUFFICES ASSUME stage' = "imaged"
                 PROVE  /\ Len(dirty_samples) > 0
                        /\ dirtyImg' = Shuffled(dirty_samples)
                        /\ psfImg' = Shuffled(psf_samples)
    BY <1>1 DEF Pictured, Shuffled, Fine, Raster, ModePlace, KMin
  <2>2. dirty_samples # <<>>
    BY <2>1 DEF RunFinufftDirty
  <2>3. Len(dirty_samples) > 0
    BY <2>2 DEF ImageInv, Twins
  <2> QED
    BY <2>2, <2>3 DEF RunFinufftDirty
<1> QED
  BY <1>1, <1>2, <1>4, <1>5 DEF ImageInv

\* The gridder keeps its invariant: twins, the source's phase in every sample,
\* and images of the bags.
THEOREM ImageInvariant == ImageSpec => []ImageInv
<1>1. ImageInit => ImageInv
  <2> SUFFICES ASSUME ImageInit PROVE ImageInv
    OBVIOUS
  <2>1. /\ dirty_samples = <<>> /\ psf_samples = <<>> /\ src \in Sources /\ stage = "gather"
        /\ npix \in Sizes
    BY DEF ImageInit
  <2>2. /\ dirty_samples \in Seq(Samples) /\ psf_samples \in Seq(Samples)
        /\ Len(dirty_samples) = 0 /\ Len(psf_samples) = 0
    BY <2>1
  <2> QED
    BY <2>1, <2>2 DEF ImageInv, Twins, Pictured
<1>2. ImageInv /\ [ImageNext]_imageVars => ImageInv'
  <2> SUFFICES ASSUME ImageInv, [ImageNext]_imageVars PROVE ImageInv'
    OBVIOUS
  <2>1. ASSUME NEW u \in Coords, NEW v \in Coords, PushSample(u, v) PROVE ImageInv'
    BY <2>1, PushInv
  <2>2. CASE ToFinufftCoords
    BY <2>2, PlaceInv
  <2>3. CASE RunFinufftDirty
    BY <2>3, RunInv
  <2>4. CASE UNCHANGED imageVars
    <3>1. /\ src' = src /\ dirty_samples' = dirty_samples /\ psf_samples' = psf_samples
          /\ stage' = stage /\ dirtyImg' = dirtyImg /\ psfImg' = psfImg /\ npix' = npix
      BY <2>4 DEF imageVars
    <3>2. Twins' /\ Sense' = Sense
      BY <3>1 DEF ImageInv, Twins, Sense
    <3>3. ASSUME NEW i \in 1..Len(dirty_samples) PROVE Phased(dirty_samples[i])'
      <4>1. Phased(dirty_samples[i])
        BY DEF ImageInv
      <4> QED
        BY <3>1, <3>2, <4>1 DEF Phased
    <3>4. Pictured'
      BY <3>1 DEF ImageInv, Pictured, Shuffled, Fine, Raster, ModePlace, KMin
    <3> QED
      BY <3>1, <3>2, <3>3, <3>4 DEF ImageInv
  <2> QED
    BY <2>1, <2>2, <2>3, <2>4 DEF ImageNext
<1> QED
  BY <1>1, <1>2, PTL DEF ImageSpec

\* The points handed to FINUFFT lie in [-pi, pi), in both bags, for every baseline
\* (to_finufft_coords).
THEOREM CoordinatesInRange == ImageSpec => []PointsInRange
<1>1. ImageInit => PointsInRange
  BY DEF ImageInit, PointsInRange
<1>2. ImageInv /\ PointsInRange /\ [ImageNext]_imageVars => PointsInRange'
  <2> SUFFICES ASSUME ImageInv, PointsInRange, [ImageNext]_imageVars PROVE PointsInRange'
    OBVIOUS
  <2>1. ASSUME NEW u \in Coords, NEW v \in Coords, PushSample(u, v) PROVE PointsInRange'
    <3>1. stage' = "gather"
      BY <2>1 DEF PushSample
    <3> QED
      BY <3>1 DEF PointsInRange
  <2>2. CASE ToFinufftCoords
    <3> DEFINE range == (-(Turn \div 2))..(Turn \div 2 - 1)
    <3>1. /\ dirty_samples \in Seq(Samples) /\ psf_samples \in Seq(Samples)
          /\ dirty_samples' = [i \in DOMAIN dirty_samples |-> Placed(dirty_samples[i])]
          /\ psf_samples' = [i \in DOMAIN psf_samples |-> Placed(psf_samples[i])]
      BY <2>2 DEF ImageInv, Twins, ToFinufftCoords
    <3>2. ASSUME NEW bag \in Seq(Samples), NEW k \in DOMAIN bag
          PROVE  Placed(bag[k]).u \in range /\ Placed(bag[k]).v \in range
      <4>1. bag[k] \in Samples
        OBVIOUS
      <4>2. bag[k].u \in Int /\ -bag[k].u \in Int /\ bag[k].v \in Int
        <5> DEFINE s == bag[k]
        <5>1. s \in Samples
          BY <4>1
        <5> HIDE DEF s
        <5>2. s.u \in Int /\ -s.u \in Int /\ s.v \in Int
          BY <5>1 DEF Samples
        <5> QED
          BY <5>2 DEF s
      <4>3. Placed(bag[k]).u = Wrap(-bag[k].u) /\ Placed(bag[k]).v = Wrap(bag[k].v)
        BY <4>1, PlacedIs
      <4> QED
        BY <4>2, <4>3, WrapInRange
    <3> HIDE DEF range
    <3>3. /\ \A k \in DOMAIN dirty_samples' :
               dirty_samples'[k].u \in range /\ dirty_samples'[k].v \in range
          /\ \A k \in DOMAIN psf_samples' :
               psf_samples'[k].u \in range /\ psf_samples'[k].v \in range
      BY <3>1, <3>2
    <3> QED
      BY <3>3 DEF PointsInRange, range
  <2>3. CASE RunFinufftDirty
    BY <2>3 DEF RunFinufftDirty, PointsInRange
  <2>4. CASE UNCHANGED imageVars
    BY <2>4 DEF imageVars, PointsInRange
  <2> QED
    BY <2>1, <2>2, <2>3, <2>4 DEF ImageNext
<1> QED
  BY ImageInvariant, <1>1, <1>2, PTL DEF ImageSpec

-----------------------------------------------------------------------------
(* The image: what CLEAN and the header rely on *)

\* The header's place of the pixel src.l columns left of the middle and src.m rows
\* above it.
LEMMA SkyIs ==
  ASSUME ImageInv, InField
  PROVE  /\ src.l \in Int /\ src.m \in Int
         /\ Half0 - src.l \in Axis /\ Half0 + src.m \in Axis
         /\ SkyTwice(Half0 - src.l, Half0 + src.m)
              = [l |-> 2 * src.l + OddShift, m |-> 2 * src.m - OddShift]
<1>1. src.l \in Int /\ src.m \in Int /\ npix \in Nat \ {0}
  BY ImageAssumption DEF ImageInv
<1> DEFINE l == src.l
           m == src.m
<1>2. /\ Half0 \in Int /\ OddShift \in {0, 1} /\ npix = 2 * Half0 + OddShift
      /\ l \in Int /\ m \in Int
  BY <1>1 DEF Half0, OddShift
<1>3. -npix < 2 * l /\ 2 * l <= npix /\ -npix <= 2 * m /\ 2 * m < npix
  BY DEF InField
<1> HIDE DEF l, m
<1>4. Half0 - l \in Axis /\ Half0 + m \in Axis
  BY <1>1, <1>2, <1>3 DEF Axis
<1>5. /\ -(2 * ((Half0 - l) + 1) - CrPixTwice) = 2 * l + OddShift
      /\ 2 * ((Half0 + m) + 1) - CrPixTwice = 2 * m - OddShift
  BY <1>1, <1>2 DEF CrPixTwice
<1>6. SkyTwice(Half0 - l, Half0 + m) = [l |-> 2 * l + OddShift, m |-> 2 * m - OddShift]
  BY <1>5 DEF SkyTwice
<1> QED
  BY <1>2, <1>4, <1>6 DEF l, m

\* At the source's pixel every sample is in phase.
LEMMA SourceInPhase ==
  ASSUME ImageInv, stage = "imaged", Half0 - src.l \in Axis, Half0 + src.m \in Axis
  PROVE  dirtyImg[Idx(Half0 - src.l, Half0 + src.m)] = 2 * Len(dirty_samples)
<1> DEFINE px == Half0 - src.l
           py == Half0 + src.m
<1>1. /\ src.l \in Int /\ src.m \in Int /\ px \in Axis /\ py \in Axis
      /\ px - Half0 = -src.l /\ py - Half0 = src.m
  <2>1. src.l \in Int /\ src.m \in Int /\ Half0 \in Int
    BY ImageAssumption DEF ImageInv, Half0
  <2> QED
    BY <2>1
<1> HIDE DEF px, py
<1>2. ASSUME NEW i \in 1..Len(dirty_samples)
      PROVE  \E k \in Int : PhaseAt(dirty_samples[i], px - Half0, py - Half0) = Turn * k
  <2> DEFINE s == dirty_samples[i]
             x == s.u
             y == s.v
             l == src.l
             m == src.m
  <2>1. s \in Samples
    BY DEF ImageInv, Twins
  <2>2. x \in Int /\ y \in Int /\ l \in Int /\ m \in Int
    <3> HIDE DEF s
    <3> QED
      BY <1>1, <2>1 DEF Samples
  <2>3. PICK k \in Int : s.phase = 1 * (s.u * src.l) - s.v * src.m + Turn * k
    BY DEF ImageInv, Phased, Sense
  <2>4. s.phase = 1 * (x * l) - y * m + Turn * k
    BY <2>3
  <2>5. PhaseAt(s, px - Half0, py - Half0) = s.phase + (-l) * x + m * y
    BY <1>1 DEF PhaseAt
  <2> HIDE DEF s, x, y, l, m
  <2>6. (1 * (x * l) - y * m + Turn * k) + (-l) * x + m * y = Turn * k
    BY <2>2, ImageAssumption
  <2> QED
    BY <2>4, <2>5, <2>6 DEF s
<1>3. /\ dirty_samples \in Seq(Samples)
      /\ dirtyImg = Shuffled(dirty_samples) /\ npix \in Sizes
  BY DEF ImageInv, Twins, Pictured
<1>4. dirtyImg[Idx(px, py)] = 2 * Len(dirty_samples)
  BY <1>1, <1>2, <1>3, PixelInPhase
<1> QED
  BY <1>4 DEF px, py

\* A source in the field appears, with its full flux, where the header of the
\* product says it is, half a pixel off if the size is odd, and nothing is brighter:
\* over to_finufft_coords, the transform, its mode order and the reference pixel.
THEOREM SourceWhereHeaderSays == ImageSpec => []SkyMatchesWcs
<1>1. ImageInv => SkyMatchesWcs
  <2> SUFFICES ASSUME ImageInv, stage = "imaged" PROVE SkyMatchesWcs
    BY DEF SkyMatchesWcs
  <2>1. ASSUME InField
        PROVE  \E ix \in Axis, iy \in Axis :
                 /\ SkyTwice(ix, iy) = [l |-> 2 * src.l + OddShift, m |-> 2 * src.m - OddShift]
                 /\ dirtyImg[Idx(ix, iy)] = 2 * Len(dirty_samples)
    BY <2>1, SkyIs, SourceInPhase
  <2>2. \A p \in Raster : dirtyImg[p] <= 2 * Len(dirty_samples)
    <3>1. /\ dirty_samples \in Seq(Samples)
          /\ dirtyImg = Shuffled(dirty_samples)
      BY DEF ImageInv, Twins, Pictured
    <3> QED
      BY <3>1, PixelBound DEF ImageInv
  <2> QED
    BY <2>1, <2>2 DEF SkyMatchesWcs
<1> QED
  BY ImageInvariant, <1>1, PTL

\* The PSF peaks at the pixel hogbom_clean and the beam fit take for its
\* centre, and that peak, by which it is divided, is positive.
THEOREM PsfPeakAtCentre == ImageSpec => []PsfCentred
<1>1. ImageInv => PsfCentred
  <2> SUFFICES ASSUME ImageInv, stage = "imaged"
               PROVE  psfImg[Idx(PsfCentre, PsfCentre)] = PsfPeak /\ PsfPeak > 0
    BY DEF PsfCentred
  <2> DEFINE n == Len(psf_samples)
             c == Idx(PsfCentre, PsfCentre)
  <2>1. /\ psf_samples \in Seq(Samples) /\ psfImg = Shuffled(psf_samples)
        /\ n > 0 /\ n \in Nat /\ npix \in Sizes
        /\ \A i \in 1..n : psf_samples[i] \in Samples /\ psf_samples[i].phase = 0
    BY DEF ImageInv, Twins, Pictured
  <2>2. PsfCentre \in Axis /\ PsfCentre - Half0 = 0 /\ c \in Raster
    <3>1. PsfCentre \in Axis /\ PsfCentre - Half0 = 0
      BY <2>1, ImageAssumption DEF PsfCentre, Half0, Axis
    <3> QED
      BY <2>1, <3>1, PixelPlace
  <2>3. ASSUME NEW i \in 1..n
        PROVE  \E k \in Int : PhaseAt(psf_samples[i], PsfCentre - Half0, PsfCentre - Half0) = Turn * k
    <3>1. psf_samples[i].u \in Int /\ psf_samples[i].v \in Int /\ psf_samples[i].phase = 0
      BY <2>1 DEF Samples
    <3>2. PhaseAt(psf_samples[i], PsfCentre - Half0, PsfCentre - Half0) = 0
      BY <2>2, <3>1 DEF PhaseAt
    <3>3. Turn * 0 = 0
      BY ImageAssumption
    <3> QED
      BY <3>2, <3>3
  <2>4. psfImg[c] = 2 * n
    BY <2>1, <2>2, <2>3, PixelInPhase
  <2>5. \A p \in Raster : /\ psfImg[p] \in Int
                          /\ -(2 * n) <= psfImg[p] /\ psfImg[p] <= 2 * n
    BY <2>1, PixelBound
  <2> HIDE DEF n, c
  <2> DEFINE V == {Abs(psfImg[p]) : p \in Raster}
  <2>6. Abs(psfImg[c]) = 2 * n
    BY <2>1, <2>4 DEF Abs
  <2>7. 2 * n \in V /\ \A y \in V : y \in Int /\ y <= 2 * n
    BY <2>1, <2>2, <2>5, <2>6 DEF Abs
  <2>8. PsfPeak = 2 * n
    <3>1. PsfPeak = CHOOSE x \in V : \A y \in V : x >= y
      BY DEF PsfPeak, Max
    <3> HIDE DEF V
    <3>2. \E x \in V : \A y \in V : x >= y
      BY <2>7
    <3>3. PsfPeak \in V /\ \A y \in V : PsfPeak >= y
      BY <3>1, <3>2
    <3> QED
      BY <2>1, <2>7, <3>3
  <2> QED
    BY <2>1, <2>4, <2>8 DEF c
<1> QED
  BY ImageInvariant, <1>1, PTL

\* The dirty image of a source is the PSF moved from its centre to the source,
\* which is what every iteration of hogbom_clean subtracts.
THEOREM SourceLooksLikePsf == ImageSpec => []DirtyIsMovedPsf
<1>1. ImageInv => DirtyIsMovedPsf
  <2> SUFFICES ASSUME ImageInv, stage = "imaged",
                      NEW ix \in Axis, NEW iy \in Axis,
                      ix + src.l \in Axis, iy - src.m \in Axis
               PROVE  dirtyImg[Idx(ix, iy)] = psfImg[Idx(ix + src.l, iy - src.m)]
    BY DEF DirtyIsMovedPsf
  <2> DEFINE sx == ix + src.l
             sy == iy - src.m
             l == src.l
             m == src.m
             a == sx - Half0
             b == sy - Half0
             n == Len(dirty_samples)
  <2>1. /\ npix \in Sizes /\ l \in Int /\ m \in Int /\ a \in Int /\ b \in Int
        /\ ix - Half0 \in Int /\ iy - Half0 \in Int
        /\ ix - Half0 = a - l /\ iy - Half0 = b + m
        /\ sx - Half0 = a /\ sy - Half0 = b
    <3>1. npix \in Sizes /\ src.l \in Int /\ src.m \in Int
      BY ImageAssumption DEF ImageInv
    <3> QED
      BY <3>1, ImageAssumption DEF Axis, Half0
  <2>2. /\ dirty_samples \in Seq(Samples) /\ psf_samples \in Seq(Samples)
        /\ Len(psf_samples) = n
        /\ dirtyImg = Shuffled(dirty_samples) /\ psfImg = Shuffled(psf_samples)
    BY DEF ImageInv, Twins, Pictured
  <2>3. /\ dirtyImg[Idx(ix, iy)] = Total(Adding(dirty_samples, ix - Half0, iy - Half0))
        /\ psfImg[Idx(sx, sy)] = Total(Adding(psf_samples, sx - Half0, sy - Half0))
    <3>1. /\ Idx(ix, iy) \in Raster
          /\ Idx(ix, iy) % npix = ix /\ Idx(ix, iy) \div npix = iy
      BY <2>1, PixelPlace
    <3>2. sx \in Axis /\ sy \in Axis
      OBVIOUS
    <3> HIDE DEF sx, sy
    <3>3. /\ Idx(sx, sy) \in Raster
          /\ Idx(sx, sy) % npix = sx /\ Idx(sx, sy) \div npix = sy
      BY <2>1, <3>2, PixelPlace
    <3> QED
      BY <2>1, <2>2, <3>1, <3>3, ShuffledAt
  <2> HIDE DEF sx, sy, a, b
  <2> DEFINE f == Adding(dirty_samples, ix - Half0, iy - Half0)
             g == Adding(psf_samples, a, b)
  <2>4. /\ f \in [1..n -> Int] /\ g \in [1..n -> Int]
        /\ \A i \in 1..n :
             /\ f[i] = TwiceCos(PhaseAt(dirty_samples[i], ix - Half0, iy - Half0))
             /\ g[i] = TwiceCos(PhaseAt(psf_samples[i], a, b))
             /\ PhaseAt(psf_samples[i], a, b) \in Int
    <3>1. /\ f \in [1..n -> Int]
          /\ \A i \in 1..n :
               f[i] = TwiceCos(PhaseAt(dirty_samples[i], ix - Half0, iy - Half0))
      <4>1. dirty_samples \in Seq(Samples) /\ ix - Half0 \in Int /\ iy - Half0 \in Int
        BY <2>1, <2>2
      <4> QED
        BY <4>1, AddingType
    <3>2. /\ g \in [1..n -> Int]
          /\ \A i \in 1..n : /\ g[i] = TwiceCos(PhaseAt(psf_samples[i], a, b))
                             /\ PhaseAt(psf_samples[i], a, b) \in Int
      <4>1. psf_samples \in Seq(Samples) /\ a \in Int /\ b \in Int
        BY <2>1, <2>2
      <4>2. Len(psf_samples) = n
        BY <2>2
      <4> HIDE DEF n
      <4> QED
        BY <4>1, <4>2, AddingType
    <3> QED
      BY <3>1, <3>2
  <2>5. ASSUME NEW i \in 1..n PROVE f[i] = g[i]
    <3> DEFINE s == dirty_samples[i]
               t == psf_samples[i]
               x == s.u
               y == s.v
    <3>1. s \in Samples /\ t.u = x /\ t.v = y /\ t.phase = 0
      BY DEF ImageInv, Twins
    <3>2. x \in Int /\ y \in Int
      <4> HIDE DEF s
      <4> QED
        BY <3>1 DEF Samples
    <3>3. PICK k \in Int : s.phase = 1 * (s.u * src.l) - s.v * src.m + Turn * k
      BY DEF ImageInv, Phased, Sense
    <3>4. s.phase = 1 * (x * l) - y * m + Turn * k
      BY <3>3
    <3>5. PhaseAt(t, a, b) = 0 + a * x + b * y
      BY <3>1 DEF PhaseAt
    <3>6. PhaseAt(s, ix - Half0, iy - Half0) = s.phase + (a - l) * x + (b + m) * y
      BY <2>1 DEF PhaseAt
    <3> HIDE DEF s, t, x, y, l, m
    <3>7. (1 * (x * l) - y * m + Turn * k) + (a - l) * x + (b + m) * y
            = (0 + a * x + b * y) + Turn * k
      <4>1. (a - l) * x = a * x - x * l /\ (b + m) * y = b * y + y * m
        BY <2>1, <3>2
      <4>2. /\ a * x \in Int /\ x * l \in Int /\ b * y \in Int /\ y * m \in Int
            /\ Turn * k \in Int
        BY <2>1, <3>2, ImageAssumption
      <4> QED
        BY <4>1, <4>2
    <3>8. PhaseAt(s, ix - Half0, iy - Half0) = PhaseAt(t, a, b) + Turn * k
      BY <3>4, <3>5, <3>6, <3>7
    <3>9. PhaseAt(t, a, b) \in Int
      BY <2>4 DEF t
    <3>10. TwiceCos(PhaseAt(s, ix - Half0, iy - Half0)) = TwiceCos(PhaseAt(t, a, b))
      BY <3>8, <3>9, Cosine
    <3> QED
      BY <2>4, <3>10 DEF s, t
  <2> HIDE DEF f, g, n
  <2>6. f = g
    <3>1. f \in [1..n -> Int] /\ g \in [1..n -> Int]
      BY <2>4
    <3>2. f = [i \in 1..n |-> f[i]] /\ g = [i \in 1..n |-> g[i]]
      BY <3>1
    <3>3. [i \in 1..n |-> f[i]] = [i \in 1..n |-> g[i]]
      BY <2>5
    <3> QED
      BY <3>2, <3>3
  <2> QED
    BY <2>1, <2>3, <2>6 DEF f, g, sx, sy
<1> QED
  BY ImageInvariant, <1>1, PTL
=============================================================================
