----------------------------- MODULE DumpProofs -----------------------------
(***************************************************************************)
(* Proofs about the baselines of a record (AntTable) and the dump that is  *)
(* made of them (DumpVis): for any header file and ANTMASK every pair of   *)
(* samplers of two enabled antennas has one row; a group joins RR and LL   *)
(* of the same antennas; and the dump holds each imaged sample once.       *)
(*                                                                         *)
(* What loops push into a vector is described by Lists: the elements of a  *)
(* set, each once.  FlattenSeq is a recursive function; that it exists and *)
(* what it lists is shown by the least number for which it would not.      *)
(***************************************************************************)
EXTENDS DumpVis, RobustStatsProofs, SequenceTheorems

-----------------------------------------------------------------------------
(* Sequences that list a set *)

\* f holds each element of X once and nothing else.
Lists(f, X) ==
  /\ f \in Seq(X)
  /\ \A i, j \in 1..Len(f) : f[i] = f[j] => i = j
  /\ \A x \in X : \E i \in 1..Len(f) : f[i] = x

\* An empty sequence lists nothing.
LEMMA ListsNothing == Lists(<<>>, {})
  BY DEF Lists

\* InOrder lists the set it is made from.
LEMMA ListsInOrder ==
  ASSUME NEW m \in Int, NEW n \in Int, NEW S \in SUBSET (m..n)
  PROVE  Lists(InOrder(S), S)
<1>1. InOrder(S) \in Seq(S) /\ Len(InOrder(S)) = Cardinality(S)
  BY InOrderType, Zenon
<1>2. \A i, j \in 1..Cardinality(S) : InOrder(S)[i] = InOrder(S)[j] => i = j
  BY InOrderLists, Zenon
<1>3. \A k \in S : \E j \in 1..Cardinality(S) : InOrder(S)[j] = k
  <2> SUFFICES ASSUME NEW k \in S
               PROVE  \E j \in 1..Cardinality(S) : InOrder(S)[j] = k
    OBVIOUS
  <2>1. /\ Cardinality(UpTo(S, k)) \in 1..Cardinality(S)
        /\ InOrder(S)[Cardinality(UpTo(S, k))] = k
    BY InOrderAt, Zenon
  <2> QED
    BY <2>1
<1> QED
  BY <1>1, <1>2, <1>3 DEF Lists

\* What f lists and then g, of two sets with nothing in common.
LEMMA ListsBoth ==
  ASSUME NEW f, NEW A, NEW g, NEW B, Lists(f, A), Lists(g, B), A \cap B = {}
  PROVE  /\ Lists(f \o g, A \cup B)
         /\ Len(f \o g) = Len(f) + Len(g) /\ Len(f) \in Nat /\ Len(g) \in Nat
         /\ \A i \in 1..Len(f) : (f \o g)[i] \in A
         /\ \A i \in (Len(f) + 1)..(Len(f) + Len(g)) : (f \o g)[i] \in B
<1> DEFINE C == A \cup B
           h == f \o g
           m == Len(f)
           n == Len(g)
<1>1. f \in Seq(A) /\ g \in Seq(B)
  BY DEF Lists
<1>2. f \in Seq(C) /\ g \in Seq(C)
  BY <1>1
<1>3. m \in Nat /\ n \in Nat
  BY <1>1
<1>4. h \in Seq(C) /\ Len(h) = m + n
  BY <1>2
<1>5. /\ \A i \in 1..m : h[i] = f[i] /\ f[i] \in A
      /\ \A i \in (m + 1)..(m + n) : i - m \in 1..n /\ h[i] = g[i - m] /\ g[i - m] \in B
      /\ \A i \in 1..n : h[m + i] = g[i]
  BY <1>1, <1>2, <1>3
<1> HIDE DEF h, m, n
<1>6. ASSUME NEW i \in 1..(m + n), NEW j \in 1..(m + n), h[i] = h[j]
      PROVE  i = j
  <2>1. (i \in 1..m \/ i \in (m + 1)..(m + n)) /\ (j \in 1..m \/ j \in (m + 1)..(m + n))
    BY <1>3
  <2>2. ASSUME i \in 1..m, j \in 1..m PROVE i = j
    <3>1. f[i] = f[j]
      BY <1>5, <1>6, <2>2
    <3> QED
      BY <2>2, <3>1 DEF Lists, m
  <2>3. ASSUME i \in (m + 1)..(m + n), j \in (m + 1)..(m + n) PROVE i = j
    <3>1. g[i - m] = g[j - m] /\ i - m \in 1..n /\ j - m \in 1..n
      BY <1>5, <1>6, <2>3
    <3>2. i - m = j - m
      BY <3>1 DEF Lists, n
    <3> QED
      BY <1>3, <3>2
  <2>4. ~(i \in 1..m /\ j \in (m + 1)..(m + n)) /\ ~(j \in 1..m /\ i \in (m + 1)..(m + n))
    BY <1>5, <1>6
  <2> QED
    BY <2>1, <2>2, <2>3, <2>4
<1>7. ASSUME NEW x \in C PROVE \E i \in 1..(m + n) : h[i] = x
  <2>1. CASE x \in A
    <3>1. PICK i \in 1..m : f[i] = x
      BY <2>1 DEF Lists, m
    <3>2. i \in 1..(m + n) /\ h[i] = x
      BY <1>3, <1>5, <3>1
    <3> QED
      BY <3>2
  <2>2. CASE x \in B
    <3>1. PICK i \in 1..n : g[i] = x
      BY <2>2 DEF Lists, n
    <3>2. m + i \in 1..(m + n) /\ h[m + i] = x
      BY <1>3, <1>5, <3>1
    <3> QED
      BY <3>2
  <2> QED
    BY <2>1, <2>2
<1>8. Lists(h, C)
  BY <1>4, <1>6, <1>7 DEF Lists
<1> QED
  BY <1>3, <1>4, <1>5, <1>8 DEF h, m, n

\* The first k sequences of ss, flattened, given that of the first k - 1.
FlatNext(ss, h, k) == IF k = 1 THEN ss[k] ELSE h[k - 1] \o ss[k]

\* h[k] is the first k sequences of ss, flattened.
Flats(ss, h) ==
  /\ DOMAIN h = 1..Len(ss)
  /\ \A k \in 1..Len(ss) : h[k] = FlatNext(ss, h, k)

\* They exist, by the least number of sequences without.
LEMMA FlatsExist ==
  ASSUME NEW ss, Len(ss) \in Nat
  PROVE  \E h : Flats(ss, h)
<1> DEFINE Good(n, h) == /\ DOMAIN h = 1..n
                         /\ \A k \in 1..n : h[k] = FlatNext(ss, h, k)
           T == {n \in Nat : \A h : ~Good(n, h)}
<1>1. T = {}
  <2>1. SUFFICES ASSUME T # {} PROVE FALSE
    OBVIOUS
  <2>2. PICK n \in T : \A j \in T : n <= j
    <3>1. T \in SUBSET Nat
      OBVIOUS
    <3> HIDE DEF T
    <3> QED
      BY <2>1, <3>1, LeastNat
  <2>3. n \in Nat /\ \A h : ~Good(n, h)
    BY <2>2
  <2>4. n # 0
    <3> DEFINE z == [k \in 1..0 |-> {}]
    <3>1. Good(0, z)
      OBVIOUS
    <3> HIDE DEF Good, z
    <3> QED
      BY <2>3, <3>1
  <2>5. PICK h : Good(n - 1, h)
    <3>1. n - 1 \in Nat /\ n - 1 \notin T
      <4> HIDE DEF T
      <4> QED
        BY <2>2, <2>3, <2>4
    <3> HIDE DEF Good
    <3> QED
      BY <3>1
  <2> DEFINE g == [k \in 1..n |-> FlatNext(ss, h, k)]
  <2>6. ASSUME NEW k \in 1..n PROVE g[k] = FlatNext(ss, g, k)
    <3>1. g[k] = FlatNext(ss, h, k)
      OBVIOUS
    <3>2. k # 1 => g[k - 1] = h[k - 1]
      <4>1. ASSUME k # 1 PROVE k - 1 \in 1..(n - 1) /\ k - 1 \in 1..n
        BY <2>3, <4>1
      <4>2. k # 1 => h[k - 1] = FlatNext(ss, h, k - 1)
        BY <2>5, <4>1
      <4>3. k # 1 => g[k - 1] = FlatNext(ss, h, k - 1)
        BY <4>1
      <4> QED
        BY <4>2, <4>3
    <3> HIDE DEF g
    <3> QED
      BY <3>1, <3>2 DEF FlatNext
  <2>7. Good(n, g)
    <3>1. DOMAIN g = 1..n
      OBVIOUS
    <3> HIDE DEF g
    <3> QED
      BY <2>6, <3>1
  <2> HIDE DEF Good, g
  <2> QED
    BY <2>3, <2>7
<1>2. PICK h : Good(Len(ss), h)
  <2> HIDE DEF Good
  <2> QED
    BY <1>1
<1>3. Flats(ss, h)
  BY <1>2 DEF Flats
<1> QED
  BY <1>3

\* FlattenSeq is the last of them.
LEMMA FlattenIs ==
  ASSUME NEW ss, Len(ss) \in Nat \ {0}
  PROVE  \E h : Flats(ss, h) /\ FlattenSeq(ss) = h[Len(ss)]
<1> DEFINE P(h) == h = [k \in 1..Len(ss) |-> IF k = 1 THEN ss[k] ELSE h[k - 1] \o ss[k]]
           F == CHOOSE h : P(h)
<1>1. FlattenSeq(ss) = F[Len(ss)]
  BY DEF FlattenSeq
<1>2. PICK h : Flats(ss, h)
  BY FlatsExist
<1> DEFINE g == [k \in 1..Len(ss) |-> h[k]]
<1>3. P(g)
  <2>1. ASSUME NEW k \in 1..Len(ss)
        PROVE  g[k] = IF k = 1 THEN ss[k] ELSE g[k - 1] \o ss[k]
    <3>1. h[k] = FlatNext(ss, h, k)
      BY <1>2 DEF Flats
    <3>2. k # 1 => k - 1 \in 1..Len(ss)
      OBVIOUS
    <3> QED
      BY <3>1, <3>2 DEF FlatNext
  <2>2. g = [k \in 1..Len(ss) |-> g[k]]
    OBVIOUS
  <2> HIDE DEF g
  <2> QED
    BY <2>1, <2>2
<1>4. P(F)
  <2> HIDE DEF P, g
  <2> QED
    BY <1>3
<1>5. Flats(ss, F)
  <2> HIDE DEF F
  <2> QED
    BY <1>4 DEF Flats, FlatNext
<1> HIDE DEF F
<1> QED
  BY <1>1, <1>5

\* Elements of f are in the order of the sets X they come from.
Ordered(f, X, n) ==
  \A i, j \in 1..Len(f) : i <= j =>
    \E p, q \in 1..n : p <= q /\ f[i] \in X[p] /\ f[j] \in X[q]

\* Each of n sequences lists a set, and these have nothing in common.
ListsEach(ss, X, n) ==
  /\ n \in Nat /\ Len(ss) = n /\ (n = 0 => ss = <<>>)
  /\ \A k \in 1..n : Lists(ss[k], X[k])
  /\ \A j, k \in 1..n : j # k => X[j] \cap X[k] = {}

\* Flattened, they list all of these sets in order.
LEMMA ListsFlat ==
  ASSUME NEW n, NEW ss, NEW X, ListsEach(ss, X, n)
  PROVE  /\ Lists(FlattenSeq(ss), UNION {X[k] : k \in 1..n})
         /\ Ordered(FlattenSeq(ss), X, n)
<1> USE DEF ListsEach
<1> DEFINE U(k) == UNION {X[j] : j \in 1..k}
           Good(f, k) == Lists(f, U(k)) /\ Ordered(f, X, k)
<1>1. CASE n = 0
  <2>1. FlattenSeq(ss) = <<>>
    BY <1>1 DEF FlattenSeq
  <2>2. U(n) = {}
    BY <1>1
  <2>3. Ordered(<<>>, X, n)
    BY DEF Ordered
  <2> QED
    BY <2>1, <2>2, <2>3, ListsNothing
<1>2. CASE n # 0
  <2>1. PICK h : Flats(ss, h) /\ FlattenSeq(ss) = h[n]
    BY <1>2, FlattenIs
  <2> DEFINE T == {k \in 1..n : ~Good(h[k], k)}
  <2>2. T = {}
    <3>1. SUFFICES ASSUME T # {} PROVE FALSE
      OBVIOUS
    <3>2. PICK k \in T : \A j \in T : k <= j
      <4>1. T \in SUBSET Nat
        OBVIOUS
      <4> HIDE DEF T
      <4> QED
        BY <3>1, <4>1, LeastNat
    <3>3. k \in 1..n /\ ~Good(h[k], k) /\ h[k] = FlatNext(ss, h, k) /\ Lists(ss[k], X[k])
      BY <2>1, <3>2 DEF Flats
    <3>4. CASE k = 1
      <4>1. h[k] = ss[k]
        BY <3>3, <3>4 DEF FlatNext
      <4>2. U(k) = X[k]
        BY <3>4
      <4>3. ss[k] \in Seq(X[k])
        BY <3>3 DEF Lists
      <4>4. \A i \in 1..Len(ss[k]) : ss[k][i] \in X[k]
        BY <4>3
      <4>5. Ordered(ss[k], X, k)
        BY <3>4, <4>4 DEF Ordered
      <4> QED
        BY <3>3, <4>1, <4>2, <4>5
    <3>5. CASE k # 1
      <4> DEFINE f == h[k - 1]
                 g == ss[k]
      <4>1. k - 1 \in 1..n /\ k - 1 \notin T /\ k \in Int
        <5> HIDE DEF T
        <5> QED
          BY <3>2, <3>3, <3>5
      <4>2. Good(f, k - 1)
        BY <4>1
      <4>3. h[k] = f \o g
        BY <3>3, <3>5 DEF FlatNext
      <4>4. U(k - 1) \cap X[k] = {}
        <5>1. \A j \in 1..(k - 1) : j \in 1..n /\ j # k
          BY <3>3
        <5> QED
          BY <3>3, <5>1
      <4>5. U(k) = U(k - 1) \cup X[k]
        <5>1. 1..k = 1..(k - 1) \cup {k}
          BY <4>1, <3>3
        <5> QED
          BY <5>1
      <4> HIDE DEF f, g
      <4>6. /\ Lists(f \o g, U(k - 1) \cup X[k])
            /\ Len(f \o g) = Len(f) + Len(g) /\ Len(f) \in Nat /\ Len(g) \in Nat
            /\ \A i \in 1..Len(f) : (f \o g)[i] \in U(k - 1)
            /\ \A i \in (Len(f) + 1)..(Len(f) + Len(g)) : (f \o g)[i] \in X[k]
        <5>1. Lists(f, U(k - 1)) /\ Lists(g, X[k])
          BY <3>3, <4>2 DEF g
        <5> HIDE DEF U
        <5> QED
          BY <4>4, <5>1, ListsBoth
      <4>7. \A i \in 1..Len(f) : (f \o g)[i] = f[i]
        <5>1. f \in Seq(U(k - 1)) /\ g \in Seq(X[k])
          BY <3>3, <4>2 DEF Lists, g
        <5> QED
          BY <5>1
      <4>8. ASSUME NEW i \in 1..Len(f \o g), NEW j \in 1..Len(f \o g), i <= j
            PROVE  \E p, q \in 1..k : p <= q /\ (f \o g)[i] \in X[p] /\ (f \o g)[j] \in X[q]
        <5>1. CASE j \in 1..Len(f)
          <6>1. i \in 1..Len(f)
            BY <4>6, <4>8, <5>1
          <6>2. \E p, q \in 1..(k - 1) : p <= q /\ f[i] \in X[p] /\ f[j] \in X[q]
            BY <4>2, <4>8, <5>1, <6>1 DEF Ordered
          <6>3. \A p \in 1..(k - 1) : p \in 1..k
            BY <4>1
          <6> QED
            BY <4>7, <5>1, <6>1, <6>2, <6>3
        <5>2. CASE j \notin 1..Len(f)
          <6>1. (f \o g)[j] \in X[k]
            BY <4>6, <5>2
          <6>2. CASE i \in 1..Len(f)
            <7>1. (f \o g)[i] \in U(k - 1)
              BY <4>6, <6>2
            <7>2. PICK p \in 1..(k - 1) : (f \o g)[i] \in X[p]
              BY <7>1
            <7>3. p \in 1..k /\ k \in 1..k /\ p <= k
              BY <3>3, <4>1
            <7> QED
              BY <6>1, <7>2, <7>3
          <6>3. CASE i \notin 1..Len(f)
            <7>1. (f \o g)[i] \in X[k] /\ k \in 1..k /\ k <= k
              BY <3>3, <4>6, <6>3
            <7> QED
              BY <6>1, <7>1
          <6> QED
            BY <6>2, <6>3
        <5> QED
          BY <5>1, <5>2
      <4>9. Ordered(f \o g, X, k)
        BY <4>8 DEF Ordered
      <4> QED
        BY <3>3, <4>3, <4>5, <4>6, <4>9
    <3> QED
      BY <3>4, <3>5
  <2>3. n \in 1..n
    BY <1>2
  <2>4. Good(h[n], n)
    BY <2>2, <2>3
  <2> QED
    BY <2>1, <2>4
<1> QED
  BY <1>1, <1>2

-----------------------------------------------------------------------------
(* The baselines of a record *)

\* The loop counter k - 1 of the pairs, over n first samplers in two bands.
LEMMA BandAndFirst ==
  ASSUME NEW n \in Nat, NEW k \in 1..(2 * n)
  PROVE  /\ k <= n => (k - 1) \div n = 0 /\ (k - 1) % n = k - 1
         /\ k > n => (k - 1) \div n = 1 /\ (k - 1) % n = k - 1 - n
<1>1. n > 0
  OBVIOUS
<1> DEFINE q == (k - 1) \div n
           m == (k - 1) % n
<1>2. k - 1 = n * q + m /\ m \in 0..(n - 1) /\ q \in Int
  BY <1>1, Z3
<1>3. q >= 0
  <2>1. ASSUME q <= -1 PROVE FALSE
    <3>1. n * q <= n * (-1)
      <4> HIDE DEF q
      <4> QED
        BY <1>1, <1>2, <2>1, Z3
    <3> QED
      BY <1>1, <1>2, <3>1
  <2> QED
    BY <1>2, <2>1
<1>4. q <= 1
  <2>1. ASSUME q >= 2 PROVE FALSE
    <3>1. n * q >= n * 2
      <4> HIDE DEF q
      <4> QED
        BY <1>1, <1>2, <2>1, Z3
    <3> QED
      BY <1>1, <1>2, <3>1
  <2> QED
    BY <1>2, <2>1
<1>5. q = 0 \/ q = 1
  BY <1>2, <1>3, <1>4
<1> HIDE DEF q, m
<1>6. q = 0 => k - 1 = m
  BY <1>2
<1>7. q = 1 => k - 1 = n + m
  BY <1>2
<1>8. /\ k <= n => q = 0 /\ m = k - 1
      /\ k > n => q = 1 /\ m = k - 1 - n
  BY <1>1, <1>2, <1>5, <1>6, <1>7
<1> QED
  BY <1>8 DEF q, m

\* The types of the samplers of a table and of the antennas in am.
GoodSamplers(am) ==
  /\ sampler \in Seq([ant : Ants, band : Bands])
  /\ am \subseteq Ants

\* The pairs that PairsOf lists.
FirstPairs(s0, band, am) ==
  {p \in {s0} \X (s0..Len(sampler)) : Enabled(s0, band, am) /\ Enabled(p[2], band, am)}

\* Each pair of a first sampler once.
LEMMA ListsPairs ==
  ASSUME NEW am, GoodSamplers(am), NEW s0 \in 1..Len(sampler), NEW band
  PROVE  Lists(PairsOf(s0, band, am), FirstPairs(s0, band, am))
<1> DEFINE S == {s \in Seconds(s0) : Enabled(s, band, am)}
           q == InOrder(S)
           f == [n \in DOMAIN q |-> <<s0, q[n]>>]
           X == FirstPairs(s0, band, am)
<1>1. Len(sampler) \in Nat
  BY DEF GoodSamplers
<1>2. CASE Enabled(s0, band, am)
  <2>1. PairsOf(s0, band, am) = f
    BY <1>2 DEF PairsOf
  <2>2. s0 \in Int /\ Len(sampler) \in Int /\ S \in SUBSET (s0..Len(sampler))
    BY <1>1 DEF Seconds
  <2>3. \A p : p \in X <=> \E s \in S : p = <<s0, s>>
    BY <1>2 DEF FirstPairs, Seconds
  <2> HIDE DEF S, X
  <2>4. Lists(q, S)
    BY <2>2, ListsInOrder
  <2> HIDE DEF q
  <2>5. q \in Seq(S) /\ Len(q) \in Nat /\ DOMAIN q = 1..Len(q)
        /\ \A n \in 1..Len(q) : q[n] \in S
    BY <2>4 DEF Lists
  <2>6. /\ \A n \in 1..Len(q) : <<s0, q[n]>> \in X
        /\ f = [n \in 1..Len(q) |-> <<s0, q[n]>>]
    BY <2>3, <2>5
  <2>7. f \in Seq(X) /\ Len(f) = Len(q) /\ \A n \in 1..Len(q) : f[n] = <<s0, q[n]>>
    BY <2>5, <2>6
  <2> HIDE DEF f
  <2>8. ASSUME NEW i \in 1..Len(f), NEW j \in 1..Len(f), f[i] = f[j] PROVE i = j
    <3>1. q[i] = q[j]
      BY <2>7, <2>8
    <3> QED
      BY <2>4, <2>7, <3>1 DEF Lists
  <2>9. ASSUME NEW p \in X PROVE \E i \in 1..Len(f) : f[i] = p
    <3>1. PICK s \in S : p = <<s0, s>>
      BY <2>3
    <3>2. PICK i \in 1..Len(q) : q[i] = s
      BY <2>4 DEF Lists
    <3> QED
      BY <2>7, <3>1, <3>2
  <2> QED
    BY <2>1, <2>7, <2>8, <2>9 DEF Lists, X
<1>3. CASE ~Enabled(s0, band, am)
  <2>1. PairsOf(s0, band, am) = <<>> /\ X = {}
    BY <1>3 DEF PairsOf, FirstPairs
  <2> QED
    BY <2>1, ListsNothing
<1> QED
  BY <1>2, <1>3

\* All pairs of samplers that are enabled in one band.
AllPairs(am) ==
  {p \in (1..Len(sampler)) \X (1..Len(sampler)) :
     p[1] <= p[2] /\ \E band \in {0, 1} : Enabled(p[1], band, am) /\ Enabled(p[2], band, am)}

\* Each of them has one row, and the bands of the rows are in order.
LEMMA BaselinesList ==
  ASSUME NEW am, GoodSamplers(am)
  PROVE  /\ Lists(BaselinesOf(am), AllPairs(am))
         /\ \A i, j \in 1..Len(BaselinesOf(am)) :
              i <= j => sampler[BaselinesOf(am)[i][1]].band <= sampler[BaselinesOf(am)[j][1]].band
<1> DEFINE n == Len(sampler)
           First(k) == ((k - 1) % n) + 1
           Band(k) == (k - 1) \div n
           ss == [k \in 1..(2 * n) |-> PairsOf(First(k), Band(k), am)]
           X == [k \in 1..(2 * n) |-> FirstPairs(First(k), Band(k), am)]
           f == BaselinesOf(am)
<1>1. n \in Nat /\ 2 * n \in Nat
  BY DEF GoodSamplers
<1>2. f = FlattenSeq(ss)
  BY DEF BaselinesOf, stokes
<1>3. Len(ss) = 2 * n /\ (2 * n = 0 => ss = <<>>)
  BY <1>1
<1>4. \A k \in 1..(2 * n) : /\ k <= n => Band(k) = 0 /\ First(k) = k
                            /\ k > n => Band(k) = 1 /\ First(k) = k - n
  BY <1>1, BandAndFirst
<1>5. \A k \in 1..(2 * n) : First(k) \in 1..n /\ Band(k) \in {0, 1}
  BY <1>1, <1>4
<1>6. \A j, k \in 1..(2 * n) : Band(j) = Band(k) /\ First(j) = First(k) => j = k
  <2> HIDE DEF Band, First
  <2> QED
    BY <1>1, <1>4
<1>7. \A j, k \in 1..(2 * n) : j <= k => Band(j) <= Band(k)
  <2> HIDE DEF Band, First
  <2> QED
    BY <1>1, <1>4
<1>8. \A band \in {0, 1}, s \in 1..n : \E k \in 1..(2 * n) : Band(k) = band /\ First(k) = s
  <2> SUFFICES ASSUME NEW band \in {0, 1}, NEW s \in 1..n
               PROVE  \E k \in 1..(2 * n) : Band(k) = band /\ First(k) = s
    OBVIOUS
  <2>1. s + band * n \in 1..(2 * n)
    BY <1>1
  <2>2. Band(s + band * n) = band /\ First(s + band * n) = s
    <3> HIDE DEF Band, First
    <3>1. CASE band = 0
      BY <1>1, <1>4, <2>1, <3>1
    <3>2. CASE band = 1
      BY <1>1, <1>4, <2>1, <3>2
    <3> QED
      BY <3>1, <3>2
  <2> HIDE DEF Band, First
  <2> QED
    BY <2>1, <2>2
<1> HIDE DEF First, Band
<1>9. ASSUME NEW k \in 1..(2 * n) PROVE Lists(ss[k], X[k])
  <2>1. Lists(PairsOf(First(k), Band(k), am), FirstPairs(First(k), Band(k), am))
    BY <1>5, ListsPairs
  <2> QED
    BY <2>1
<1>10. ASSUME NEW k \in 1..(2 * n), NEW p \in X[k]
       PROVE  /\ p \in (1..n) \X (1..n) /\ p[1] = First(k) /\ p[1] <= p[2]
              /\ Enabled(p[1], Band(k), am) /\ Enabled(p[2], Band(k), am)
  BY <1>1, <1>5, <1>10 DEF FirstPairs
<1>11. ASSUME NEW j \in 1..(2 * n), NEW k \in 1..(2 * n), j # k PROVE X[j] \cap X[k] = {}
  <2>1. ASSUME NEW p, p \in X[j], p \in X[k] PROVE FALSE
    <3>1. First(j) = First(k) /\ Enabled(p[1], Band(j), am) /\ Enabled(p[1], Band(k), am)
      BY <1>10, <2>1
    <3>2. Band(j) = Band(k)
      BY <3>1 DEF Enabled
    <3> QED
      BY <1>6, <1>11, <3>1, <3>2
  <2> QED
    BY <2>1
<1>12. UNION {X[k] : k \in 1..(2 * n)} = AllPairs(am)
  <2>1. ASSUME NEW k \in 1..(2 * n), NEW p \in X[k] PROVE p \in AllPairs(am)
    <3> HIDE DEF X
    <3> QED
      BY <1>5, <1>10 DEF AllPairs
  <2>2. ASSUME NEW p \in AllPairs(am) PROVE \E k \in 1..(2 * n) : p \in X[k]
    <3>1. PICK band \in {0, 1} : Enabled(p[1], band, am) /\ Enabled(p[2], band, am)
      BY DEF AllPairs
    <3>2. p \in (1..n) \X (1..n) /\ p[1] <= p[2]
      BY DEF AllPairs
    <3>3. PICK k \in 1..(2 * n) : Band(k) = band /\ First(k) = p[1]
      BY <1>8, <3>2
    <3>4. p \in {p[1]} \X (p[1]..n)
      BY <1>1, <3>2
    <3>5. p \in FirstPairs(p[1], band, am)
      BY <3>1, <3>4 DEF FirstPairs
    <3> QED
      BY <3>3, <3>5
  <2> HIDE DEF X
  <2> QED
    BY <2>1, <2>2
<1> HIDE DEF ss, X
<1>13. Lists(f, AllPairs(am)) /\ Ordered(f, X, 2 * n)
  <2>1. /\ Lists(FlattenSeq(ss), UNION {X[k] : k \in 1..(2 * n)})
        /\ Ordered(FlattenSeq(ss), X, 2 * n)
    <3>1. ListsEach(ss, X, 2 * n)
      BY <1>1, <1>3, <1>9, <1>11 DEF ListsEach
    <3> QED
      BY <3>1, ListsFlat
  <2> QED
    BY <1>2, <1>12, <2>1
<1> HIDE DEF f
<1>14. ASSUME NEW i \in 1..Len(f), NEW j \in 1..Len(f), i <= j
       PROVE  sampler[f[i][1]].band <= sampler[f[j][1]].band
  <2>1. PICK p, q \in 1..(2 * n) : p <= q /\ f[i] \in X[p] /\ f[j] \in X[q]
    BY <1>13, <1>14 DEF Ordered
  <2>2. sampler[f[i][1]].band = Band(p) /\ sampler[f[j][1]].band = Band(q)
    BY <1>10, <2>1 DEF Enabled
  <2> QED
    BY <1>7, <2>1, <2>2
<1> QED
  BY <1>13, <1>14 DEF f

-----------------------------------------------------------------------------
(* The table *)

\* The antennas that are in the header and in ANTMASK.
OnAnts == antmask \cap user

\* Samplers and masks are of their types, an antenna with a sampler is in the
\* table's mask, and a table that is built has the baselines of those enabled.
TableInv ==
  /\ sampler \in Seq([ant : Ants, band : Bands])
  /\ \A s \in 1..Len(sampler) : sampler[s].ant \in antmask
  /\ antmask \subseteq Ants /\ user \in Masks /\ header \in Headers
  /\ phase = "built" => baseline = BaselinesOf(OnAnts)

\* The first antenna of a name is an antenna.
LEMMA FirstNamed ==
  ASSUME NEW T \in SUBSET Ants, T # {}
  PROVE  (CHOOSE a \in T : \A b \in T : a <= b) \in Ants
<1>1. T \in SUBSET Nat
  BY AntAssumption DEF Ants
<1>2. \E a \in T : \A b \in T : a <= b
  BY <1>1, LeastNat
<1> QED
  BY <1>2

\* A step of the loader, or of rebuild_baselines, keeps TableInv.
LEMMA TableStep ==
  ASSUME TableInv, TableNext
  PROVE  TableInv'
<1> DEFINE Types == [ant : Ants, band : Bands]
<1> USE DEF TableInv
<1>1. ASSUME sampler' = sampler, antmask' = antmask, user' = user, header' = header,
             phase' # "built"
      PROVE  TableInv'
  BY <1>1
<1>2. ASSUME NEW at, NEW tag, NEW next, at # "built", next # "built",
             EatSection(at, tag, next)
      PROVE  TableInv'
  BY <1>1, <1>2 DEF EatSection
<1>3. ASSUME NEW at, NEW next, next # "built", EndSection(at, next) PROVE TableInv'
  BY <1>1, <1>3 DEF EndSection
<1>4. ASSUME ReadAntenna PROVE TableInv'
  BY <1>1, <1>4 DEF ReadAntenna
<1>5. ASSUME ReadSampler PROVE TableInv'
  <2>1. user' = user /\ header' = header /\ phase' # "built"
    BY <1>5 DEF ReadSampler
  <2>2. /\ sampler' \in Seq(Types) /\ antmask' \subseteq Ants
        /\ \A s \in 1..Len(sampler') : sampler'[s].ant \in antmask'
    <3> DEFINE T == Named(Line.name)
               a == CHOOSE x \in T : \A y \in T : x <= y
               entry == [ant |-> a, band |-> Line.band]
    <3>1. \/ UNCHANGED <<sampler, antmask>>
          \/ /\ T # {} /\ Line.band \in Bands
             /\ sampler' = Append(sampler, entry) /\ antmask' = antmask \cup {a}
      BY <1>5 DEF ReadSampler
    <3>2. CASE UNCHANGED <<sampler, antmask>>
      BY <3>2
    <3>3. CASE /\ T # {} /\ Line.band \in Bands
               /\ sampler' = Append(sampler, entry) /\ antmask' = antmask \cup {a}
      <4>1. a \in Ants
        <5>1. T \in SUBSET Ants
          BY DEF Named
        <5> HIDE DEF T
        <5> QED
          BY <3>3, <5>1, FirstNamed
      <4> HIDE DEF a
      <4>2. entry \in Types /\ entry.ant = a
        BY <3>3, <4>1
      <4> HIDE DEF entry, Types
      <4>3. sampler \in Seq(Types)
        BY DEF Types
      <4>4. ASSUME NEW s \in 1..Len(sampler') PROVE sampler'[s].ant \in antmask'
        <5>1. /\ Len(sampler) \in Nat /\ Len(sampler') = Len(sampler) + 1
              /\ \A i \in 1..Len(sampler) : sampler'[i] = sampler[i]
              /\ sampler'[Len(sampler) + 1] = entry
          BY <3>3, <4>2, <4>3
        <5> QED
          BY <3>3, <4>2, <5>1
      <4> QED
        BY <3>3, <4>1, <4>2, <4>3, <4>4
    <3> QED
      BY <3>1, <3>2, <3>3
  <2> QED
    BY <2>1, <2>2
<1>6. ASSUME Load PROVE TableInv'
  BY <1>1, <1>6 DEF Load
<1>7. ASSUME Rebuild PROVE TableInv'
  <2>1. UNCHANGED <<header, sampler, antmask, user>> /\ baseline' = BaselinesOf(OnAnts)
    BY <1>7 DEF Rebuild, Masked, OnAnts
  <2>2. BaselinesOf(OnAnts)' = BaselinesOf(OnAnts)
    BY <2>1 DEF BaselinesOf, PairsOf, Enabled, Seconds, OnAnts
  <2> QED
    BY <2>1, <2>2
<1> QED
  BY <1>2, <1>3, <1>4, <1>5, <1>6, <1>7 DEF TableNext

\* What is known of the rows of a table that is built.
Rows ==
  /\ GoodSamplers(OnAnts)
  /\ Lists(baseline, AllPairs(OnAnts))
  /\ \A i, j \in 1..Len(baseline) :
       i <= j => sampler[baseline[i][1]].band <= sampler[baseline[j][1]].band

\* A table that is built has the rows of all pairs.
LEMMA RowsOfTable ==
  ASSUME TableInv, phase = "built"
  PROVE  Rows
<1>1. GoodSamplers(OnAnts)
  BY DEF TableInv, GoodSamplers, OnAnts
<1>2. baseline = BaselinesOf(OnAnts)
  BY DEF TableInv
<1> QED
  BY <1>1, <1>2, BaselinesList DEF Rows

\* Both samplers of a row are of the row's band and of an enabled antenna each.
LEMMA RowIs ==
  ASSUME Rows, NEW b \in DOMAIN baseline
  PROVE  /\ baseline[b] \in (DOMAIN sampler) \X (DOMAIN sampler)
         /\ BandOf(b) \in {0, 1}
         /\ sampler[baseline[b][2]].band = BandOf(b)
         /\ AntsOf(b) \in OnAnts \X OnAnts /\ OnAnts \subseteq Ants
<1>1. baseline \in Seq(AllPairs(OnAnts)) /\ sampler \in Seq([ant : Ants, band : Bands])
      /\ OnAnts \subseteq Ants
  BY DEF Rows, Lists, GoodSamplers
<1>2. baseline[b] \in AllPairs(OnAnts)
  BY <1>1
<1>3. DOMAIN sampler = 1..Len(sampler)
  BY <1>1
<1>4. baseline[b] \in (DOMAIN sampler) \X (DOMAIN sampler)
  BY <1>2, <1>3 DEF AllPairs
<1>5. PICK band \in {0, 1} :
        Enabled(baseline[b][1], band, OnAnts) /\ Enabled(baseline[b][2], band, OnAnts)
  BY <1>2 DEF AllPairs
<1> QED
  BY <1>1, <1>4, <1>5 DEF Enabled, BandOf, AntsOf

\* The rows of two antennas that the mask keeps, in a band, are as many as the pairs
\* of their samplers.
LEMMA RowsOfTwo ==
  ASSUME TableInv, Rows, NEW band \in {0, 1}, NEW a \in user, NEW c \in user
  PROVE  Cardinality(RowsBetween(a, c, band)) = Cardinality(PairsBetween(a, c, band))
<1> DEFINE R == RowsBetween(a, c, band)
           I == PairsBetween(a, c, band)
           Both(b) == {baseline[b][1], baseline[b][2]}
           h == [b \in R |-> Both(b)]
<1>1. /\ baseline \in Seq(AllPairs(OnAnts)) /\ sampler \in Seq([ant : Ants, band : Bands])
      /\ \A i, j \in 1..Len(baseline) : baseline[i] = baseline[j] => i = j
      /\ \A p \in AllPairs(OnAnts) : \E i \in 1..Len(baseline) : baseline[i] = p
  BY DEF Rows, Lists, GoodSamplers
<1>2. Len(baseline) \in Nat /\ DOMAIN baseline = 1..Len(baseline)
      /\ Len(sampler) \in Nat /\ DOMAIN sampler = 1..Len(sampler)
  BY <1>1
<1>3. \A s \in DOMAIN sampler : sampler[s] \in [ant : Ants, band : Bands]
  <2> DEFINE Types == [ant : Ants, band : Bands]
  <2>1. sampler \in Seq(Types)
    BY <1>1
  <2> HIDE DEF Types
  <2>2. \A s \in DOMAIN sampler : sampler[s] \in Types
    BY <2>1
  <2> QED
    BY <2>2 DEF Types
<1>4. R \in SUBSET (DOMAIN baseline) /\ IsFiniteSet(R)
  <2>1. R \in SUBSET (DOMAIN baseline)
    BY DEF RowsBetween
  <2>2. IsFiniteSet(DOMAIN baseline)
    BY <1>2, FS_Interval
  <2> HIDE DEF R
  <2> QED
    BY <2>1, <2>2, FS_Subset
<1>5. \A b \in R : BandOf(b) = band /\ (AntsOf(b) = <<a, c>> \/ AntsOf(b) = <<c, a>>)
  BY DEF RowsBetween
<1>6. ASSUME NEW b \in R
      PROVE  /\ baseline[b] \in AllPairs(OnAnts)
             /\ baseline[b] = <<baseline[b][1], baseline[b][2]>>
             /\ baseline[b][1] \in DOMAIN sampler /\ baseline[b][2] \in DOMAIN sampler
             /\ Both(b) \in I
  <2> HIDE DEF R
  <2>1. /\ b \in DOMAIN baseline
        /\ baseline[b] \in (DOMAIN sampler) \X (DOMAIN sampler)
        /\ sampler[baseline[b][1]].band = band /\ sampler[baseline[b][2]].band = band
    BY <1>4, <1>5, RowIs DEF BandOf
  <2>2. baseline[b] \in AllPairs(OnAnts)
    BY <1>1, <1>2, <2>1
  <2>3. CASE AntsOf(b) = <<a, c>>
    <3>1. baseline[b][1] \in SamplersOf(a, band) /\ baseline[b][2] \in SamplersOf(c, band)
      BY <1>3, <2>1, <2>3 DEF AntsOf, SamplersOf
    <3> QED
      BY <2>1, <2>2, <3>1 DEF PairsBetween
  <2>4. CASE AntsOf(b) = <<c, a>>
    <3>1. baseline[b][1] \in SamplersOf(c, band) /\ baseline[b][2] \in SamplersOf(a, band)
      BY <1>3, <2>1, <2>4 DEF AntsOf, SamplersOf
    <3>2. Both(b) = {baseline[b][2], baseline[b][1]}
      OBVIOUS
    <3> QED
      BY <2>1, <2>2, <3>1, <3>2 DEF PairsBetween
  <2> QED
    BY <1>5, <2>3, <2>4
<1>7. ASSUME NEW i \in R, NEW j \in R, h[i] = h[j] PROVE i = j
  <2>1. Both(i) = Both(j)
    BY <1>7
  <2>2. /\ i \in DOMAIN baseline /\ j \in DOMAIN baseline
        /\ baseline[i] \in AllPairs(OnAnts) /\ baseline[j] \in AllPairs(OnAnts)
        /\ baseline[i] = <<baseline[i][1], baseline[i][2]>>
        /\ baseline[j] = <<baseline[j][1], baseline[j][2]>>
    <3> HIDE DEF R
    <3> QED
      BY <1>4, <1>6
  <2>3. /\ baseline[i][1] \in Nat /\ baseline[i][2] \in Nat
        /\ baseline[i][1] <= baseline[i][2] /\ baseline[j][1] <= baseline[j][2]
        /\ baseline[j][1] \in Nat /\ baseline[j][2] \in Nat
    BY <1>2, <2>2 DEF AllPairs
  <2>4. \/ baseline[i][1] = baseline[j][1] /\ baseline[i][2] = baseline[j][2]
        \/ baseline[i][1] = baseline[j][2] /\ baseline[i][2] = baseline[j][1]
    <3> HIDE DEF R
    <3>1. {baseline[i][1], baseline[i][2]} = {baseline[j][1], baseline[j][2]}
      BY <2>1
    <3> QED
      BY <3>1
  <2>5. baseline[i][1] = baseline[j][1] /\ baseline[i][2] = baseline[j][2]
    BY <2>3, <2>4
  <2>6. baseline[i] = baseline[j]
    BY <2>2, <2>5
  <2> QED
    BY <1>1, <1>2, <2>2, <2>6
<1>8. ASSUME NEW q \in I PROVE \E b \in R : h[b] = q
  <2>1. PICK s \in SamplersOf(a, band), t \in SamplersOf(c, band) : q = {s, t}
    BY DEF PairsBetween
  <2>2. /\ s \in 1..Len(sampler) /\ sampler[s].ant = a /\ sampler[s].band = band
        /\ t \in 1..Len(sampler) /\ sampler[t].ant = c /\ sampler[t].band = band
    BY <1>2 DEF SamplersOf
  <2>3. Enabled(s, band, OnAnts) /\ Enabled(t, band, OnAnts)
    BY <1>2, <2>2 DEF Enabled, OnAnts, TableInv
  <2>4. CASE s <= t
    <3>1. <<s, t>> \in AllPairs(OnAnts)
      BY <2>2, <2>3, <2>4 DEF AllPairs
    <3>2. PICK b \in DOMAIN baseline : baseline[b] = <<s, t>>
      BY <1>1, <1>2, <3>1
    <3>3. AntsOf(b) = <<a, c>> /\ BandOf(b) = band
      BY <2>2, <3>2 DEF AntsOf, BandOf
    <3>4. b \in R
      BY <3>3 DEF RowsBetween
    <3>5. Both(b) = q
      BY <2>1, <3>2
    <3> QED
      BY <3>4, <3>5
  <2>5. CASE ~(s <= t)
    <3>1. <<t, s>> \in AllPairs(OnAnts)
      BY <1>2, <2>2, <2>3, <2>5 DEF AllPairs
    <3>2. PICK b \in DOMAIN baseline : baseline[b] = <<t, s>>
      BY <1>1, <1>2, <3>1
    <3>3. AntsOf(b) = <<c, a>> /\ BandOf(b) = band
      BY <2>2, <3>2 DEF AntsOf, BandOf
    <3>4. b \in R
      BY <3>3 DEF RowsBetween
    <3>5. Both(b) = q
      BY <2>1, <3>2
    <3> QED
      BY <3>4, <3>5
  <2> QED
    BY <2>4, <2>5
<1>9. h \in [R -> I] /\ \A b \in R : h[b] \in I
  <2> HIDE DEF R, I
  <2> QED
    BY <1>6
<1>10. Renumbers(h, R, I)
  <2> HIDE DEF h, R, I
  <2> QED
    BY <1>7, <1>8, <1>9 DEF Renumbers
<1>11. {b \in R : h[b] \in I} = R
  <2> HIDE DEF h, R, I
  <2> QED
    BY <1>9
<1> HIDE DEF h, R, I
<1>12. Cardinality({b \in R : h[b] \in I}) = Cardinality(I)
  BY <1>4, <1>10, SameCount
<1> QED
  BY <1>11, <1>12 DEF R, I

\* Of an antenna that the mask takes away there is no row.
LEMMA NoRowMasked ==
  ASSUME Rows, NEW band \in {0, 1}, NEW a \in Ants, NEW c \in Ants, ~({a, c} \subseteq user)
  PROVE  Cardinality(RowsBetween(a, c, band)) = 0
<1>1. ASSUME NEW b \in RowsBetween(a, c, band) PROVE FALSE
  <2>1. b \in DOMAIN baseline /\ (AntsOf(b) = <<a, c>> \/ AntsOf(b) = <<c, a>>)
    BY DEF RowsBetween
  <2>2. AntsOf(b) \in OnAnts \X OnAnts
    BY <2>1, RowIs
  <2> QED
    BY <2>1, <2>2 DEF OnAnts
<1>2. RowsBetween(a, c, band) = {}
  BY <1>1
<1> QED
  BY <1>2, FS_EmptySet

\* Rows in full, for the parts of OneRowPerPair.
LEMMA OneRowFromRows ==
  ASSUME TableInv
  PROVE  OneRowPerPair
<1> SUFFICES ASSUME phase = "built"
             PROVE  OneRowPerPair
  BY DEF OneRowPerPair
<1>1. Rows
  BY RowsOfTable
<1>2. ASSUME NEW band \in {0, 1}, NEW a \in Ants, NEW c \in Ants
      PROVE  Cardinality(RowsBetween(a, c, band))
               = IF {a, c} \subseteq user THEN Cardinality(PairsBetween(a, c, band)) ELSE 0
  BY <1>1, RowsOfTwo, NoRowMasked
<1>3. ASSUME NEW b \in DOMAIN baseline, NEW c \in DOMAIN baseline, b < c
      PROVE  BandOf(b) <= BandOf(c)
  <2>1. Len(baseline) \in Nat /\ DOMAIN baseline = 1..Len(baseline)
    BY <1>1 DEF Rows, Lists
  <2> QED
    BY <1>1, <1>3, <2>1 DEF Rows, BandOf
<1>4. 0..(stokes - 1) = {0, 1}
  BY DEF stokes
<1> QED
  BY <1>2, <1>3, <1>4 DEF OneRowPerPair

-----------------------------------------------------------------------------
(* The dump *)

\* f holds elements of X, none of them twice.
Parts(f, X) ==
  /\ f \in Seq(X)
  /\ \A i, j \in 1..Len(f) : f[i] = f[j] => i = j

\* The RR baselines that are paired.
RRs == {b \in DOMAIN baseline : Cross(b) /\ BandOf(b) = 0}

\* The list holds them, and the map finds each one's twin if there is one.
Paired ==
  /\ Lists(rr_list, RRs)
  /\ \A b \in RRs :
       /\ Key(b) \in DOMAIN ll_of <=> HasTwin(b)
       /\ HasTwin(b) => /\ ll_of[Key(b)] \in DOMAIN baseline
                        /\ BandOf(ll_of[Key(b)]) = 1
                        /\ AntsOf(ll_of[Key(b)]) = AntsOf(b)

\* The groups of a record on a baseline, of a record, and of a slice.
RowSet(f, g, b) ==
  IF Key(b) \in DOMAIN ll_of
    THEN {<<f, g, b, ll_of[Key(b)], ch>> : ch \in Track[<<f, g>>][1]..(Track[<<f, g>>][2] - 1)}
    ELSE {}
RecSet(f, g) == UNION {RowSet(f, g, b) : b \in RRs}
SelectedOf(f, sl) ==
  {g \in (sl * RecPerSlice)..(sl * RecPerSlice + RecPerSlice - 1) : Selected(f, g)}
SliceSet(f, sl) == UNION {RecSet(f, g) : g \in SelectedOf(f, sl)}

\* The groups of the slices that were read, whole.
All == UNION {SliceSet(p[1], p[2]) : p \in read}

\* Inside a slice, which records, baselines and channels are behind the loops.
InRecord == step \in {"row", "chan", "endrow"}
InSlice == step = "record" \/ InRecord
Behind == {rr_list[k] : k \in 1..(row - 1)}

RowPassed(x) ==
  /\ InRecord
  /\ \/ x[3] \in Behind
     \/ step = "chan" /\ x[3] = rr_list[row] /\ x[5] < chan
     \/ step = "endrow" /\ x[3] = rr_list[row]

Passed(x) ==
  InSlice => x[1] # file \/ x[2] < Rec \/ (x[2] = Rec /\ RowPassed(x))

\* The groups that the loops have come by.
Made == {x \in All : Passed(x)}

\* Where the loops are: the slices that were read are behind, or are at hand.
WalkInv ==
  /\ step \in {"pair", "file", "slice", "record", "row", "chan", "endrow", "write", "done"}
  /\ file \in Nat \ {0} /\ max_groups \in Int
  /\ step = "slice" \/ InSlice => file \in 1..NFile /\ slice \in Int
  /\ \A p \in read :
       /\ p \in (1..NFile) \X Int
       /\ \/ p[1] < file
          \/ p[1] = file /\ step = "slice" /\ p[2] < slice
          \/ p[1] = file /\ InSlice /\ p[2] <= slice
  /\ InSlice => r \in 0..RecPerSlice /\ <<file, slice>> \in read
  /\ InRecord => r < RecPerSlice /\ HasGroups /\ row \in Nat \ {0}
  /\ step \in {"chan", "endrow"} => row <= Len(rr_list) /\ Twinned
  /\ step = "chan" => chan \in Int /\ ChanStart <= chan

\* There is room for a group until the limit is reached, and no group after.
LimitInv ==
  /\ Len(groups) <= Limit
  /\ ~capped => Len(groups) < Limit
  /\ capped => Len(groups) = Limit /\ step \notin {"row", "chan"}

\* Nothing happens before the table is built and paired; then the groups are
\* those the loops came by, all of them if the limit was not reached.
CollectInv ==
  /\ step = "pair" => read = {} /\ groups = <<>>
  /\ step # "pair" => phase = "built" /\ Paired
  /\ Parts(groups, Made)
  /\ ~capped => Lists(groups, Made)
  /\ step = "done" => (result = 0 => groups # <<>>)

DumpInv == TableInv /\ WalkInv /\ LimitInv /\ CollectInv

\* A set of positions up to n that is not empty has a greatest one.
LEMMA MaxIn ==
  ASSUME NEW n \in Nat, NEW S \in SUBSET (1..n), S # {}
  PROVE  Max(S) \in S
<1> DEFINE T == {n - k : k \in S}
<1>1. T \in SUBSET Nat /\ T # {}
  <2>1. \A k \in S : n - k \in Nat
    OBVIOUS
  <2> QED
    BY <2>1
<1>2. PICK t \in T : \A j \in T : t <= j
  <2> HIDE DEF T
  <2> QED
    BY <1>1, LeastNat
<1>3. PICK k \in S : t = n - k
  BY <1>2
<1>4. \A l \in S : k >= l
  <2> SUFFICES ASSUME NEW l \in S PROVE k >= l
    OBVIOUS
  <2>1. n - l \in T
    OBVIOUS
  <2>2. n - k <= n - l
    <3> HIDE DEF T
    <3> QED
      BY <1>2, <1>3, <2>1
  <2> QED
    BY <2>2
<1>5. \E x \in S : \A y \in S : x >= y
  BY <1>4
<1> QED
  BY <1>5 DEF Max

\* The two bytes of a key are its antennas.
LEMMA KeyBytes ==
  ASSUME NEW i \in 0..255, NEW j \in 0..255, NEW k \in 0..255, NEW l \in 0..255
  PROVE  i * 256 + j = k * 256 + l <=> i = k /\ j = l
OBVIOUS

\* Two antennas have one key.
LEMMA KeyIs ==
  ASSUME Rows, NEW b \in DOMAIN baseline, NEW c \in DOMAIN baseline
  PROVE  Key(b) = Key(c) <=> AntsOf(b) = AntsOf(c)
<1>1. AntsOf(b) \in Ants \X Ants /\ AntsOf(c) \in Ants \X Ants
  BY RowIs
<1>2. Ants \subseteq 0..255
  BY AntAssumption, DumpAssumption DEF Ants
<1>3. /\ AntsOf(b)[1] \in 0..255 /\ AntsOf(b)[2] \in 0..255
      /\ AntsOf(c)[1] \in 0..255 /\ AntsOf(c)[2] \in 0..255
      /\ AntsOf(b) = <<AntsOf(b)[1], AntsOf(b)[2]>>
      /\ AntsOf(c) = <<AntsOf(c)[1], AntsOf(c)[2]>>
  BY <1>1, <1>2
<1>4. AntsOf(b)[1] * 256 + AntsOf(b)[2] = AntsOf(c)[1] * 256 + AntsOf(c)[2]
        <=> AntsOf(b)[1] = AntsOf(c)[1] /\ AntsOf(b)[2] = AntsOf(c)[2]
  <2> DEFINE i == AntsOf(b)[1]
             j == AntsOf(b)[2]
             k == AntsOf(c)[1]
             l == AntsOf(c)[2]
  <2>1. i \in 0..255 /\ j \in 0..255 /\ k \in 0..255 /\ l \in 0..255
    BY <1>3
  <2> HIDE DEF i, j, k, l
  <2>2. i * 256 + j = k * 256 + l <=> i = k /\ j = l
    BY <2>1
  <2> QED
    BY <2>2 DEF i, j, k, l
<1>5. /\ Key(b) = AntsOf(b)[1] * 256 + AntsOf(b)[2]
      /\ Key(c) = AntsOf(c)[1] * 256 + AntsOf(c)[2]
  BY DEF Key
<1>6. Key(b) = Key(c) <=> AntsOf(b)[1] = AntsOf(c)[1] /\ AntsOf(b)[2] = AntsOf(c)[2]
  BY <1>4, <1>5
<1> QED
  BY <1>3, <1>6

\* Sorting the baselines by band pairs them.
LEMMA PairStep ==
  ASSUME Rows, Pair
  PROVE  Paired'
<1> DEFINE LL == {b \in DOMAIN baseline : Cross(b) /\ BandOf(b) = 1}
           Keys == {Key(b) : b \in LL}
           Newest(k) == Max({b \in LL : Key(b) = k})
           map == [k \in Keys |-> Newest(k)]
<1>1. rr_list' = InOrder(RRs) /\ ll_of' = map /\ UNCHANGED tableVars
  BY DEF Pair, RRs
<1>2. UNCHANGED <<baseline, sampler>>
  BY <1>1 DEF tableVars
<1>3. Len(baseline) \in Nat /\ DOMAIN baseline = 1..Len(baseline)
  BY DEF Rows, Lists
<1>4. Lists(InOrder(RRs), RRs)
  <2>1. RRs \in SUBSET (1..Len(baseline)) /\ 1 \in Int /\ Len(baseline) \in Int
    BY <1>3 DEF RRs
  <2> QED
    BY <2>1, ListsInOrder
<1>5. ASSUME NEW b \in RRs
      PROVE  /\ Key(b) \in DOMAIN map <=> HasTwin(b)
             /\ HasTwin(b) => /\ map[Key(b)] \in DOMAIN baseline
                              /\ BandOf(map[Key(b)]) = 1
                              /\ AntsOf(map[Key(b)]) = AntsOf(b)
  <2>1. b \in DOMAIN baseline /\ Cross(b)
    BY DEF RRs
  <2>2. ASSUME NEW c \in DOMAIN baseline, BandOf(c) = 1, AntsOf(c) = AntsOf(b)
        PROVE  c \in LL /\ Key(c) = Key(b)
    BY <2>1, <2>2, KeyIs DEF Cross
  <2>3. ASSUME Key(b) \in Keys
        PROVE  /\ map[Key(b)] \in DOMAIN baseline
               /\ BandOf(map[Key(b)]) = 1
               /\ AntsOf(map[Key(b)]) = AntsOf(b)
    <3> DEFINE S == {c \in LL : Key(c) = Key(b)}
    <3>1. S # {} /\ S \in SUBSET (1..Len(baseline))
      BY <1>3, <2>3
    <3>2. map[Key(b)] = Max(S)
      BY <2>3
    <3>3. Max(S) \in S
      <4> HIDE DEF S
      <4> QED
        BY <1>3, <3>1, MaxIn
    <3>4. map[Key(b)] \in LL /\ Key(map[Key(b)]) = Key(b)
      BY <3>2, <3>3
    <3> HIDE DEF map
    <3> QED
      BY <2>1, <3>4, KeyIs
  <2>4. HasTwin(b) => Key(b) \in Keys
    <3> SUFFICES ASSUME HasTwin(b) PROVE Key(b) \in Keys
      OBVIOUS
    <3>1. PICK c \in DOMAIN baseline : BandOf(c) = 1 /\ AntsOf(c) = AntsOf(b)
      BY DEF HasTwin
    <3>2. c \in LL /\ Key(c) = Key(b)
      BY <2>2, <3>1
    <3> HIDE DEF LL
    <3> QED
      BY <3>2
  <2>5. DOMAIN map = Keys
    OBVIOUS
  <2> HIDE DEF map, Keys
  <2> QED
    BY <2>3, <2>4, <2>5 DEF HasTwin
<1> HIDE DEF map
<1>6. Paired' <=> /\ Lists(rr_list', RRs)
                  /\ \A b \in RRs :
                       /\ Key(b) \in DOMAIN map <=> HasTwin(b)
                       /\ HasTwin(b) => /\ map[Key(b)] \in DOMAIN baseline
                                        /\ BandOf(map[Key(b)]) = 1
                                        /\ AntsOf(map[Key(b)]) = AntsOf(b)
  BY <1>1, <1>2 DEF Paired, RRs, Cross, Key, HasTwin, BandOf, AntsOf
<1> QED
  BY <1>1, <1>4, <1>5, <1>6

\* Other steps keep it.
LEMMA PairedStays ==
  ASSUME Paired, UNCHANGED <<baseline, sampler, rr_list, ll_of>>
  PROVE  Paired'
<1>1. baseline' = baseline /\ sampler' = sampler /\ rr_list' = rr_list /\ ll_of' = ll_of
  OBVIOUS
<1>2. Lists(rr_list, RRs)'
  <2>1. RRs' = RRs
    BY <1>1 DEF RRs, Cross, BandOf, AntsOf
  <2> QED
    BY <1>1, <2>1 DEF Paired
<1>3. ASSUME NEW b \in RRs
      PROVE  /\ (Key(b) \in DOMAIN ll_of)' <=> Key(b) \in DOMAIN ll_of
             /\ HasTwin(b)' <=> HasTwin(b)
             /\ BandOf(ll_of[Key(b)])' = BandOf(ll_of[Key(b)])
             /\ AntsOf(ll_of[Key(b)])' = AntsOf(ll_of[Key(b)])
             /\ AntsOf(b)' = AntsOf(b) /\ ll_of[Key(b)]' = ll_of[Key(b)]
  BY <1>1 DEF HasTwin, BandOf, AntsOf, Key
<1>4. RRs' = RRs
  BY <1>1 DEF RRs, Cross, BandOf, AntsOf
<1> QED
  BY <1>2, <1>3, <1>4 DEF Paired

\* The number of a record's slice.
LEMMA SliceOf ==
  ASSUME NEW per \in Nat \ {0}, NEW sl \in Int, NEW g \in Int
  PROVE  g \in (sl * per)..(sl * per + per - 1) <=> g \div per = sl
<1> DEFINE q == g \div per
<1>1. q \in Int /\ g = q * per + (g % per) /\ g % per \in 0..(per - 1)
  OBVIOUS
<1>2. sl * per \in Int /\ q * per \in Int
  BY <1>1
<1> HIDE DEF q
<1>3. q <= sl - 1 => q * per <= (sl - 1) * per /\ (sl - 1) * per = sl * per - per
  BY <1>1
<1>4. q >= sl + 1 => (sl + 1) * per <= q * per /\ (sl + 1) * per = sl * per + per
  BY <1>1
<1>5. g \in (sl * per)..(sl * per + per - 1) => q = sl
  BY <1>1, <1>2, <1>3, <1>4
<1>6. q = sl => g \in (sl * per)..(sl * per + per - 1)
  BY <1>1, <1>2
<1> QED
  BY <1>5, <1>6 DEF q

\* x is a group of record g of file f on baseline b.
IsGroup(x, f, g, b) ==
  /\ Key(b) \in DOMAIN ll_of
  /\ \E ch \in Track[<<f, g>>][1]..(Track[<<f, g>>][2] - 1) :
       x = <<f, g, b, ll_of[Key(b)], ch>>

\* The groups of a slice are of its file, and of records in it that are selected.
LEMMA SliceSetIs ==
  ASSUME NEW f, NEW sl, NEW x
  PROVE  x \in SliceSet(f, sl) <=> \E g \in SelectedOf(f, sl), b \in RRs : IsGroup(x, f, g, b)
<1>1. \A g, b : x \in RowSet(f, g, b) <=> IsGroup(x, f, g, b)
  BY DEF RowSet, IsGroup
<1>2. \A g : x \in RecSet(f, g) <=> \E b \in RRs : x \in RowSet(f, g, b)
  BY DEF RecSet
<1>3. x \in SliceSet(f, sl) <=> \E g \in SelectedOf(f, sl) : x \in RecSet(f, g)
  BY DEF SliceSet
<1> QED
  BY <1>1, <1>2, <1>3

\* A record selected of a file has a track.
LEMMA SelectedHasTrack ==
  ASSUME NEW f \in 1..NFile, NEW sl \in Int, NEW g \in SelectedOf(f, sl)
  PROVE  /\ <<f, g>> \in Records
         /\ Track[<<f, g>>][1] \in Nat /\ Track[<<f, g>>][2] \in Nat
         /\ g \in Int /\ g \div RecPerSlice = sl
<1>1. RecPerSlice \in Nat \ {0} /\ StartRec[f] \in Nat /\ NRec[f] \in Nat
  BY DumpAssumption
<1>2. sl * RecPerSlice \in Int
  BY <1>1
<1>3. g \in Int /\ g \in (sl * RecPerSlice)..(sl * RecPerSlice + RecPerSlice - 1)
      /\ StartRec[f] <= g /\ g < StartRec[f] + NRec[f]
  BY <1>1, <1>2 DEF SelectedOf, Selected
<1>4. <<f, g>> \in {f} \X (StartRec[f]..(StartRec[f] + NRec[f] - 1))
  BY <1>1, <1>3
<1>5. <<f, g>> \in Records
  BY <1>4 DEF Records
<1>6. Track[<<f, g>>] \in Nat \X Nat
  BY <1>5, DumpAssumption
<1> QED
  BY <1>1, <1>3, <1>5, <1>6, SliceOf

\* A list of a set is part of it.
LEMMA ListsParts ==
  ASSUME NEW f, NEW X, Lists(f, X)
  PROVE  Parts(f, X)
BY DEF Lists, Parts

\* It is part of any larger set, too.
LEMMA PartsOfMore ==
  ASSUME NEW f, NEW X, NEW Y, Parts(f, X), X \subseteq Y
  PROVE  Parts(f, Y)
<1>1. f \in Seq(X)
  BY DEF Parts
<1>2. f \in Seq(Y)
  BY <1>1
<1> QED
  BY <1>2 DEF Parts

\* One more element.
LEMMA OneMore ==
  ASSUME NEW f, NEW X, NEW x, x \notin X
  PROVE  /\ Parts(f, X) => Parts(Append(f, x), X \cup {x})
         /\ Lists(f, X) => Lists(Append(f, x), X \cup {x})
<1> DEFINE h == Append(f, x)
           Y == X \cup {x}
<1>1. ASSUME f \in Seq(X)
      PROVE  /\ Len(f) \in Nat /\ Len(h) = Len(f) + 1 /\ h \in Seq(Y)
             /\ \A i \in 1..Len(f) : h[i] = f[i] /\ f[i] \in X
             /\ h[Len(f) + 1] = x
  <2>1. f \in Seq(Y)
    BY <1>1
  <2> QED
    BY <1>1, <2>1
<1> HIDE DEF h
<1>2. ASSUME f \in Seq(X), \A i, j \in 1..Len(f) : f[i] = f[j] => i = j
      PROVE  h \in Seq(Y) /\ \A i, j \in 1..Len(h) : h[i] = h[j] => i = j
  <2>1. ASSUME NEW i \in 1..Len(h), NEW j \in 1..Len(h), h[i] = h[j] PROVE i = j
    <3>1. (i \in 1..Len(f) \/ i = Len(f) + 1) /\ (j \in 1..Len(f) \/ j = Len(f) + 1)
      BY <1>1, <1>2
    <3>2. i \in 1..Len(f) => h[i] # x
      BY <1>1, <1>2
    <3>3. j \in 1..Len(f) => h[j] # x
      BY <1>1, <1>2
    <3> QED
      BY <1>1, <1>2, <2>1, <3>1, <3>2, <3>3
  <2> QED
    BY <1>1, <1>2, <2>1
<1>3. ASSUME f \in Seq(X), \A z \in X : \E i \in 1..Len(f) : f[i] = z, NEW z \in Y
      PROVE  \E i \in 1..Len(h) : h[i] = z
  <2>1. CASE z = x
    <3>1. Len(f) + 1 \in 1..Len(h) /\ h[Len(f) + 1] = z
      BY <1>1, <1>3, <2>1
    <3> QED
      BY <3>1
  <2>2. CASE z # x
    <3>1. PICK i \in 1..Len(f) : f[i] = z
      BY <1>3, <2>2
    <3>2. i \in 1..Len(h) /\ h[i] = z
      BY <1>1, <1>3, <3>1
    <3> QED
      BY <3>2
  <2> QED
    BY <2>1, <2>2
<1> QED
  BY <1>2, <1>3 DEF Parts, Lists, h

\* What the groups of the slices read are made of.
LEMMA AllIs ==
  ASSUME DumpInv, NEW x \in All
  PROVE  \E p \in read, g \in Int, b \in RRs :
           /\ p[1] \in 1..NFile /\ p[2] \in Int /\ p = <<p[1], p[2]>>
           /\ g \in SelectedOf(p[1], p[2]) /\ IsGroup(x, p[1], g, b)
           /\ x[1] = p[1] /\ x[2] = g /\ x[3] = b /\ x[4] = ll_of[Key(b)]
           /\ x[5] \in Int /\ Track[<<p[1], g>>][1] <= x[5] /\ x[5] < Track[<<p[1], g>>][2]
           /\ x = <<p[1], g, b, ll_of[Key(b)], x[5]>>
           /\ g \div RecPerSlice = p[2]
<1>1. PICK p \in read : x \in SliceSet(p[1], p[2])
  BY DEF All
<1>2. p[1] \in 1..NFile /\ p[2] \in Int /\ p = <<p[1], p[2]>>
  BY DEF DumpInv, WalkInv
<1>3. PICK g \in SelectedOf(p[1], p[2]), b \in RRs : IsGroup(x, p[1], g, b)
  BY <1>1, SliceSetIs
<1>4. PICK ch \in Track[<<p[1], g>>][1]..(Track[<<p[1], g>>][2] - 1) :
        x = <<p[1], g, b, ll_of[Key(b)], ch>>
  BY <1>3 DEF IsGroup
<1>5. /\ Track[<<p[1], g>>][1] \in Nat /\ Track[<<p[1], g>>][2] \in Nat
      /\ g \in Int /\ g \div RecPerSlice = p[2]
  BY <1>2, SelectedHasTrack
<1>6. /\ x[1] = p[1] /\ x[2] = g /\ x[3] = b /\ x[4] = ll_of[Key(b)] /\ x[5] = ch
      /\ ch \in Int /\ Track[<<p[1], g>>][1] <= ch /\ ch < Track[<<p[1], g>>][2]
  BY <1>4, <1>5
<1> QED
  BY <1>2, <1>3, <1>4, <1>5, <1>6

\* A slice that is read adds its groups.
LEMMA AllGrows ==
  ASSUME UNCHANGED <<baseline, sampler, ll_of>>, read' = read \cup {<<file, slice>>}
  PROVE  All' = All \cup SliceSet(file, slice)
<1>1. baseline' = baseline /\ sampler' = sampler /\ ll_of' = ll_of
  OBVIOUS
<1> DEFINE y == <<file, slice>>
           R == read \cup {y}
<1>2. All' = UNION {SliceSet(p[1], p[2]) : p \in read'} /\ read' = R
  BY <1>1 DEF All, SliceSet, RecSet, RowSet, RRs, Cross, Key, BandOf, AntsOf
<1>3. y[1] = file /\ y[2] = slice
  OBVIOUS
<1>4. \A p : p \in R <=> p \in read \/ p = y
  OBVIOUS
<1> HIDE DEF y, R
<1>5. \A x : x \in All' <=> \E p \in R : x \in SliceSet(p[1], p[2])
  BY <1>2
<1>6. \A x : x \in All <=> \E p \in read : x \in SliceSet(p[1], p[2])
  BY DEF All
<1>7. \A x : x \in All' <=> x \in All \/ x \in SliceSet(y[1], y[2])
  BY <1>4, <1>5, <1>6
<1> QED
  BY <1>3, <1>7

\* When none is read they are the same.
LEMMA AllStays ==
  ASSUME UNCHANGED <<baseline, sampler, ll_of, read>>
  PROVE  All' = All
<1>1. baseline' = baseline /\ sampler' = sampler /\ ll_of' = ll_of /\ read' = read
  OBVIOUS
<1>2. All' = UNION {SliceSet(p[1], p[2]) : p \in read}
  BY <1>1 DEF All, SliceSet, RecSet, RowSet, RRs, Cross, Key, BandOf, AntsOf
<1> QED
  BY <1>2 DEF All

\* Before the run.
LEMMA DumpStarts ==
  ASSUME Init
  PROVE  DumpInv
<1>1. sampler = <<>> /\ antmask = {} /\ user \in Masks /\ header \in Headers
      /\ phase = "seekAnt"
  BY DEF Init, TableInit
<1>2. /\ step = "pair" /\ read = {} /\ groups = <<>> /\ file = 1 /\ max_groups \in Int
      /\ capped = FALSE
  BY DumpAssumption DEF Init
<1>3. sampler \in Seq([ant : Ants, band : Bands]) /\ Len(sampler) = 0
  <2> DEFINE Types == [ant : Ants, band : Bands]
  <2> HIDE DEF Types
  <2>1. sampler \in Seq(Types) /\ Len(sampler) = 0
    BY <1>1
  <2> QED
    BY <2>1 DEF Types
<1>4. TableInv
  BY <1>1, <1>3 DEF TableInv
<1>5. WalkInv
  BY <1>2 DEF WalkInv, InSlice, InRecord
<1>6. Lists(groups, Made)
  <2>1. Made = {}
    BY <1>2 DEF Made, All
  <2> QED
    BY <1>2, <2>1, ListsNothing
<1>7. CollectInv
  BY <1>2, <1>6, ListsParts DEF CollectInv
<1>8. LimitInv
  BY <1>2 DEF LimitInv, Limit
<1> QED
  BY <1>4, <1>5, <1>7, <1>8 DEF DumpInv

\* The loader's steps, before there is anything to dump.
LEMMA LoaderStep ==
  ASSUME DumpInv, TableNext, UNCHANGED dumpVars
  PROVE  DumpInv'
<1>1. phase # "built"
  BY DEF TableNext, EatSection, EndSection, ReadAntenna, ReadSampler, Load, Rebuild
<1>2. step = "pair" /\ read = {} /\ groups = <<>>
  BY <1>1 DEF DumpInv, CollectInv
<1>3. UNCHANGED <<max_groups, step, file, slice, read, groups, capped, result>>
  BY DEF dumpVars, inputs, collected
<1>4. TableInv'
  BY TableStep DEF DumpInv
<1>5. WalkInv'
  BY <1>2, <1>3 DEF DumpInv, WalkInv, InSlice, InRecord
<1>6. Lists(groups', Made')
  <2>1. Made' = {}
    <3>1. read' = {}
      BY <1>2, <1>3
    <3> QED
      BY <3>1 DEF Made, All
  <2>2. groups' = <<>>
    BY <1>2, <1>3
  <2> QED
    BY <2>1, <2>2, ListsNothing
<1>7. CollectInv'
  BY <1>2, <1>3, <1>6, ListsParts DEF CollectInv
<1>8. LimitInv'
  BY <1>3 DEF DumpInv, LimitInv, Limit
<1> QED
  BY <1>4, <1>5, <1>7, <1>8 DEF DumpInv

\* Nothing after the loader changes the table.
LEMMA TableStays ==
  ASSUME TableInv, UNCHANGED tableVars
  PROVE  TableInv'
BY DEF TableInv, tableVars, OnAnts, BaselinesOf, PairsOf, Enabled, Seconds

\* A step that stores no group keeps what was collected if the loops come by no
\* more groups, or by more when the limit has been reached.
LEMMA CollectStays ==
  ASSUME DumpInv, UNCHANGED <<tableVars, pairing, groups, capped>>,
         step # "pair" /\ step' # "pair",
         Made \subseteq Made', ~capped => Made' = Made,
         step' = "done" => (result' = 0 => groups # <<>>)
  PROVE  CollectInv'
<1>1. UNCHANGED <<baseline, sampler, phase, rr_list, ll_of>>
  BY DEF tableVars, pairing
<1>2. Paired /\ phase = "built" /\ Parts(groups, Made) /\ (~capped => Lists(groups, Made))
  BY DEF DumpInv, CollectInv
<1>3. Paired' /\ phase' = "built"
  BY <1>1, <1>2, PairedStays
<1>4. Parts(groups', Made') /\ (~capped' => Lists(groups', Made'))
  BY <1>2, PartsOfMore
<1> QED
  BY <1>3, <1>4 DEF CollectInv

\* Outside a slice all groups are passed.
LEMMA MadeOutside ==
  ASSUME ~InSlice
  PROVE  Made = All
BY DEF Made, Passed

\* The loop over records, in numbers.
LEMMA RecIsInt ==
  ASSUME WalkInv, InSlice
  PROVE  /\ RecPerSlice \in Nat \ {0} /\ slice \in Int /\ slice * RecPerSlice \in Int
         /\ r \in 0..RecPerSlice /\ Rec \in Int /\ Rec = slice * RecPerSlice + r
         /\ file \in 1..NFile
<1>1. RecPerSlice \in Nat \ {0} /\ slice \in Int /\ r \in 0..RecPerSlice /\ file \in 1..NFile
  BY DumpAssumption DEF WalkInv
<1>2. slice * RecPerSlice \in Int
  BY <1>1
<1> QED
  BY <1>1, <1>2 DEF Rec

\* What the loops know of a group of the file at hand.
LEMMA GroupAtHand ==
  ASSUME DumpInv, InSlice, NEW x \in All, x[1] = file
  PROVE  /\ x[2] \in Int /\ x[2] < slice * RecPerSlice + RecPerSlice
         /\ x[3] \in RRs /\ Key(x[3]) \in DOMAIN ll_of
         /\ \E k \in 1..Len(rr_list) : rr_list[k] = x[3]
         /\ x[5] \in Int
         /\ x[2] = Rec => /\ HasGroups /\ ChanStart <= x[5] /\ x[5] < ChanEnd
                          /\ x = <<file, Rec, x[3], ll_of[Key(x[3])], x[5]>>
<1>1. PICK p \in read, g \in Int, b \in RRs :
           /\ p[1] \in 1..NFile /\ p[2] \in Int /\ p = <<p[1], p[2]>>
           /\ g \in SelectedOf(p[1], p[2]) /\ IsGroup(x, p[1], g, b)
           /\ x[1] = p[1] /\ x[2] = g /\ x[3] = b /\ x[4] = ll_of[Key(b)]
           /\ x[5] \in Int /\ Track[<<p[1], g>>][1] <= x[5] /\ x[5] < Track[<<p[1], g>>][2]
           /\ x = <<p[1], g, b, ll_of[Key(b)], x[5]>>
           /\ g \div RecPerSlice = p[2]
  BY AllIs
<1>2. p[2] <= slice
  BY <1>1 DEF DumpInv, WalkInv, InSlice, InRecord
<1>3. /\ RecPerSlice \in Nat \ {0} /\ slice \in Int /\ slice * RecPerSlice \in Int
      /\ Rec \in Int
  BY RecIsInt DEF DumpInv
<1>4. g < slice * RecPerSlice + RecPerSlice
  <2>1. g <= p[2] * RecPerSlice + RecPerSlice - 1 /\ p[2] * RecPerSlice \in Int
    <3>1. p[2] * RecPerSlice \in Int
      BY <1>1, <1>3
    <3>2. g \in (p[2] * RecPerSlice)..(p[2] * RecPerSlice + RecPerSlice - 1)
      BY <1>1, <1>3, SliceOf
    <3> QED
      BY <1>3, <3>1, <3>2
  <2>2. p[2] * RecPerSlice <= slice * RecPerSlice
    BY <1>1, <1>2, <1>3
  <2> QED
    BY <1>3, <2>1, <2>2
<1>5. Selected(p[1], g)
  BY <1>1 DEF SelectedOf
<1>6. \E k \in 1..Len(rr_list) : rr_list[k] = b
  <2>1. step # "pair"
    BY DEF InSlice, InRecord
  <2> QED
    BY <2>1 DEF DumpInv, CollectInv, Paired, Lists
<1>7. x[2] = Rec => /\ HasGroups /\ ChanStart <= x[5] /\ x[5] < ChanEnd
                    /\ x = <<file, Rec, x[3], ll_of[Key(x[3])], x[5]>>
  <2> SUFFICES ASSUME x[2] = Rec
               PROVE  /\ HasGroups /\ ChanStart <= x[5] /\ x[5] < ChanEnd
                      /\ x = <<file, Rec, x[3], ll_of[Key(x[3])], x[5]>>
    OBVIOUS
  <2>1. g = Rec /\ p[1] = file
    BY <1>1
  <2>2. ChanStart <= x[5] /\ x[5] < ChanEnd /\ Selected(file, Rec)
    BY <1>1, <1>5, <2>1 DEF ChanStart, ChanEnd
  <2>3. ChanStart \in Nat /\ ChanEnd \in Nat
    BY <1>1, <2>1, SelectedHasTrack DEF ChanStart, ChanEnd
  <2>4. ChanStart < ChanEnd
    BY <1>1, <2>2, <2>3
  <2>5. x = <<file, Rec, x[3], ll_of[Key(x[3])], x[5]>>
    BY <1>1, <2>1
  <2> QED
    BY <2>2, <2>4, <2>5 DEF HasGroups
<1> QED
  BY <1>1, <1>4, <1>6, <1>7 DEF IsGroup

\* What a step inside a slice, that is one after it too, passes.
LEMMA MadeInside ==
  ASSUME UNCHANGED <<tableVars, pairing, read>>, NEW T, T \subseteq All,
         \A x \in All : Passed(x)' <=> Passed(x) \/ x \in T
  PROVE  Made' = Made \cup T
<1>1. All' = All
  BY AllStays DEF tableVars, pairing
<1>2. Made' = {x \in All : Passed(x)'}
  BY <1>1 DEF Made
<1>3. \A x : x \in Made' <=> x \in Made \cup T
  BY <1>2 DEF Made
<1> QED
  BY <1>3

\* A record that is passed over has no groups, and one that begins none yet.
LEMMA RecordBegins ==
  ASSUME DumpInv, SkipRecord \/ BeginRecord
  PROVE  Made' = Made
<1>1. /\ step = "record" /\ r' \in {r, r + 1} /\ r < RecPerSlice
      /\ UNCHANGED <<tableVars, pairing, file, slice, read>>
      /\ \/ step' = "record" /\ r' = r + 1 /\ ~HasGroups
         \/ step' = "row" /\ r' = r /\ row' = 1
  BY DEF SkipRecord, BeginRecord, collected
<1>2. InSlice /\ InSlice' /\ ~InRecord
  BY <1>1 DEF InSlice, InRecord
<1>3. ASSUME NEW x \in All PROVE Passed(x)' <=> Passed(x) \/ x \in {}
  <2>1. CASE x[1] # file
    BY <1>1, <2>1 DEF Passed
  <2>2. CASE x[1] = file
    <3>1. x[2] \in Int /\ (x[2] = Rec => HasGroups)
      BY <1>2, <2>2, GroupAtHand
    <3>2. Rec \in Int /\ Rec = slice * RecPerSlice + r /\ slice * RecPerSlice \in Int
          /\ r \in Int
      BY <1>2, RecIsInt DEF DumpInv
    <3>3. Passed(x) <=> x[2] < Rec
      BY <1>2, <2>2 DEF Passed, RowPassed
    <3>4. CASE step' = "record" /\ r' = r + 1 /\ ~HasGroups
      <4>1. Rec' = Rec + 1
        BY <1>1, <3>2, <3>4 DEF Rec
      <4>2. Passed(x)' <=> x[2] < Rec + 1
        BY <1>1, <1>2, <2>2, <3>4, <4>1 DEF Passed, RowPassed, InRecord
      <4> QED
        BY <3>1, <3>2, <3>3, <3>4, <4>2
    <3>5. CASE step' = "row" /\ r' = r /\ row' = 1
      <4>1. Rec' = Rec /\ Behind' = {}
        BY <1>1, <3>5 DEF Rec, Behind
      <4>2. Passed(x)' <=> x[2] < Rec
        BY <1>1, <1>2, <2>2, <3>5, <4>1 DEF Passed, RowPassed
      <4> QED
        BY <3>3, <4>2
    <3> QED
      BY <1>1, <3>4, <3>5
  <2> QED
    BY <2>1, <2>2
<1>4. Made' = Made \cup {}
  BY <1>1, <1>3, MadeInside
<1> QED
  BY <1>4

\* After the last baseline nothing of the record is left.
LEMMA RecordEnds ==
  ASSUME DumpInv, EndRecord
  PROVE  Made' = Made
<1>1. /\ step = "row" /\ row > Len(rr_list) /\ step' = "record" /\ r' = r + 1
      /\ UNCHANGED <<tableVars, pairing, file, slice, read>>
  BY DEF EndRecord, collected
<1>2. InSlice /\ InSlice' /\ InRecord /\ ~InRecord'
  BY <1>1 DEF InSlice, InRecord
<1>3. row \in Nat /\ Len(rr_list) \in Nat
  <2>1. rr_list \in Seq(RRs)
    BY <1>1 DEF DumpInv, CollectInv, Paired, Lists
  <2> QED
    BY <1>2, <2>1 DEF DumpInv, WalkInv
<1>4. ASSUME NEW x \in All PROVE Passed(x)' <=> Passed(x) \/ x \in {}
  <2>1. CASE x[1] # file
    BY <1>1, <2>1 DEF Passed
  <2>2. CASE x[1] = file
    <3>1. x[2] \in Int /\ \E k \in 1..Len(rr_list) : rr_list[k] = x[3]
      BY <1>2, <2>2, GroupAtHand
    <3>2. Rec \in Int /\ Rec = slice * RecPerSlice + r /\ slice * RecPerSlice \in Int
          /\ r \in Int
      BY <1>2, RecIsInt DEF DumpInv
    <3>3. Rec' = Rec + 1
      BY <1>1, <3>2 DEF Rec
    <3>4. x[3] \in Behind
      BY <1>1, <1>3, <3>1 DEF Behind
    <3>5. Passed(x) <=> x[2] < Rec \/ x[2] = Rec
      BY <1>2, <2>2, <3>4 DEF Passed, RowPassed
    <3>6. Passed(x)' <=> x[2] < Rec + 1
      BY <1>1, <1>2, <2>2, <3>3 DEF Passed, RowPassed
    <3> QED
      BY <3>1, <3>2, <3>5, <3>6
  <2> QED
    BY <2>1, <2>2
<1>5. Made' = Made \cup {}
  BY <1>1, <1>4, MadeInside
<1> QED
  BY <1>5

\* Steps from row to row and to a row's first and last channel pass no group.
LEMMA RowMoves ==
  ASSUME DumpInv,
         \/ SkipRow \/ BeginRow \/ EndChannels
         \/ EndRow /\ ~capped
  PROVE  Made' = Made
<1>1. /\ step \in {"row", "chan", "endrow"} /\ step' \in {"row", "chan", "endrow"}
      /\ UNCHANGED <<tableVars, pairing, file, slice, r, read>>
  BY DEF SkipRow, BeginRow, EndChannels, EndRow, LeaveRows, inner, collected
<1>2. InSlice /\ InSlice' /\ InRecord /\ InRecord'
  BY <1>1 DEF InSlice, InRecord
<1>3. row \in Nat \ {0}
  BY <1>2 DEF DumpInv, WalkInv
<1>4. Rec' = Rec /\ Rec \in Int
  BY <1>1, <1>2, RecIsInt DEF Rec, DumpInv
<1>5. row' = row => Behind' = Behind
  BY <1>1 DEF Behind, pairing
<1>6. row' = row + 1 => Behind' = Behind \cup {rr_list[row]}
  <2> SUFFICES ASSUME row' = row + 1 PROVE Behind' = Behind \cup {rr_list[row]}
    OBVIOUS
  <2>1. rr_list' = rr_list
    BY <1>1 DEF pairing
  <2>2. \A z : z \in Behind' <=> \E k \in 1..(row' - 1) : z = rr_list'[k]
    BY DEF Behind
  <2>3. \A z : z \in Behind <=> \E k \in 1..(row - 1) : z = rr_list[k]
    BY DEF Behind
  <2>4. \A k : k \in 1..(row' - 1) <=> k \in 1..(row - 1) \/ k = row
    BY <1>3
  <2>5. \A z : z \in Behind' <=> z \in Behind \/ z = rr_list[row]
    BY <2>1, <2>2, <2>3, <2>4, Zenon
  <2> QED
    BY <2>5
<1>7. ASSUME NEW x \in All PROVE Passed(x)' <=> Passed(x) \/ x \in {}
  <2>1. CASE x[1] # file
    BY <1>1, <2>1 DEF Passed
  <2>2. CASE x[1] = file /\ x[2] # Rec
    BY <1>1, <1>2, <1>4, <2>2 DEF Passed
  <2>3. CASE x[1] = file /\ x[2] = Rec
    <3>1. /\ x[5] \in Int /\ ChanStart <= x[5] /\ x[5] < ChanEnd
          /\ Key(x[3]) \in DOMAIN ll_of
      BY <1>2, <2>3, GroupAtHand
    <3>2. (Passed(x) <=> RowPassed(x)) /\ (Passed(x)' <=> RowPassed(x)')
      BY <1>1, <1>2, <1>4, <2>3 DEF Passed
    <3>3. ChanStart \in Int /\ ChanEnd \in Int
      <4>1. PICK p \in read, g \in Int :
              /\ p[1] \in 1..NFile /\ p[2] \in Int /\ g \in SelectedOf(p[1], p[2])
              /\ x[1] = p[1] /\ x[2] = g
        BY AllIs
      <4>2. Track[<<p[1], g>>][1] \in Nat /\ Track[<<p[1], g>>][2] \in Nat
        BY <4>1, SelectedHasTrack
      <4> QED
        BY <2>3, <4>1, <4>2 DEF ChanStart, ChanEnd
    <3>4. CASE SkipRow
      <4>1. step = "row" /\ step' = "row" /\ row' = row + 1 /\ ~Twinned
        BY <3>4 DEF SkipRow
      <4>2. x[3] # rr_list[row]
        BY <3>1, <4>1 DEF Twinned
      <4>3. RowPassed(x) <=> x[3] \in Behind
        BY <1>2, <4>1 DEF RowPassed
      <4>4. RowPassed(x)' <=> x[3] \in Behind'
        BY <1>2, <4>1 DEF RowPassed
      <4> QED
        BY <1>6, <3>2, <4>1, <4>2, <4>3, <4>4
    <3>5. CASE BeginRow
      <4>1. step = "row" /\ step' = "chan" /\ row' = row /\ chan' = ChanStart
        BY <3>5 DEF BeginRow
      <4>2. RowPassed(x) <=> x[3] \in Behind
        BY <1>2, <4>1 DEF RowPassed
      <4>3. ~(x[5] < chan')
        BY <3>1, <3>3, <4>1
      <4>4. RowPassed(x)' <=> x[3] \in Behind'
        BY <1>2, <4>1, <4>3 DEF RowPassed
      <4> QED
        BY <1>5, <3>2, <4>1, <4>2, <4>4
    <3>6. CASE EndChannels
      <4>1. /\ step = "chan" /\ step' = "endrow" /\ row' = row /\ chan' = chan
            /\ chan >= ChanEnd /\ rr_list' = rr_list
        BY <3>6 DEF EndChannels, inner, pairing
      <4>2. chan \in Int
        BY <4>1 DEF DumpInv, WalkInv
      <4>3. x[5] < chan
        BY <3>1, <3>3, <4>1, <4>2
      <4>4. RowPassed(x) <=> x[3] \in Behind \/ x[3] = rr_list[row]
        BY <1>2, <4>1, <4>3 DEF RowPassed
      <4>5. RowPassed(x)' <=> x[3] \in Behind' \/ x[3] = rr_list[row]
        BY <1>2, <4>1 DEF RowPassed
      <4> QED
        BY <1>5, <3>2, <4>1, <4>4, <4>5
    <3>7. CASE EndRow /\ ~capped
      <4>1. step = "endrow" /\ step' = "row" /\ row' = row + 1
        BY <3>7 DEF EndRow, LeaveRows
      <4>2. RowPassed(x) <=> x[3] \in Behind \/ x[3] = rr_list[row]
        BY <1>2, <4>1 DEF RowPassed
      <4>3. RowPassed(x)' <=> x[3] \in Behind'
        BY <1>2, <4>1 DEF RowPassed
      <4> QED
        BY <1>6, <3>2, <4>1, <4>2, <4>3
    <3> QED
      BY <3>4, <3>5, <3>6, <3>7
  <2> QED
    BY <2>1, <2>2, <2>3
<1>8. Made' = Made \cup {}
  BY <1>1, <1>7, MadeInside
<1> QED
  BY <1>8

\* Leaving the baselines for the limit passes what is left of the record.
LEMMA RowsLeft ==
  ASSUME DumpInv, EndRow, capped
  PROVE  Made \subseteq Made'
<1>1. /\ step = "endrow" /\ step' = "record" /\ r' = r + 1
      /\ UNCHANGED <<tableVars, pairing, file, slice, read>>
  BY DEF EndRow, LeaveRows, collected
<1>2. InSlice /\ InSlice'
  BY <1>1 DEF InSlice, InRecord
<1>3. All' = All
  BY <1>1, AllStays DEF tableVars, pairing
<1>4. ASSUME NEW x \in All, Passed(x) PROVE Passed(x)'
  <2>1. CASE x[1] # file
    BY <1>1, <2>1 DEF Passed
  <2>2. CASE x[1] = file
    <3>1. x[2] \in Int
      BY <1>2, <2>2, GroupAtHand
    <3>2. Rec \in Int /\ Rec = slice * RecPerSlice + r /\ slice * RecPerSlice \in Int
          /\ r \in Int
      BY <1>2, RecIsInt DEF DumpInv
    <3>3. Rec' = Rec + 1
      BY <1>1, <3>2 DEF Rec
    <3>4. x[2] < Rec \/ x[2] = Rec
      BY <1>2, <1>4, <2>2 DEF Passed
    <3> QED
      BY <3>1, <3>2, <3>3, <3>4 DEF Passed
  <2> QED
    BY <2>1, <2>2
<1> QED
  BY <1>3, <1>4 DEF Made

\* A slice that is read has all its groups ahead; the slices before are behind.
LEMMA SliceBegins ==
  ASSUME DumpInv, ReadSlice
  PROVE  Made' = Made
<1>1. /\ step = "slice" /\ step' = "record" /\ r' = 0 /\ read' = read \cup {<<file, slice>>}
      /\ UNCHANGED <<tableVars, pairing, file, slice>>
  BY DEF ReadSlice
<1>2. /\ file \in 1..NFile /\ slice \in Int /\ RecPerSlice \in Nat \ {0}
      /\ slice * RecPerSlice \in Int
  <2>1. file \in 1..NFile /\ slice \in Int /\ RecPerSlice \in Nat \ {0}
    BY <1>1, DumpAssumption DEF DumpInv, WalkInv
  <2> QED
    BY <2>1
<1>3. All' = All \cup SliceSet(file, slice)
  BY <1>1, AllGrows DEF tableVars, pairing
<1>4. Made = All
  BY <1>1, MadeOutside DEF InSlice, InRecord
<1>5. Rec' = slice * RecPerSlice /\ InSlice' /\ ~InRecord'
  BY <1>1, <1>2 DEF Rec, InSlice, InRecord
<1>6. \A x : Passed(x)' <=> x[1] # file \/ x[2] < slice * RecPerSlice
  BY <1>1, <1>5 DEF Passed, RowPassed
<1>7. ASSUME NEW x \in All PROVE Passed(x)'
  <2>1. PICK p \in read, g \in Int : /\ p[1] \in 1..NFile /\ p[2] \in Int /\ x[1] = p[1]
                                     /\ x[2] = g /\ g \div RecPerSlice = p[2]
    BY AllIs
  <2>2. CASE x[1] # file
    BY <1>6, <2>2
  <2>3. CASE x[1] = file
    <3>1. p[2] < slice
      <4>1. \/ p[1] < file
            \/ p[1] = file /\ step = "slice" /\ p[2] < slice
            \/ p[1] = file /\ InSlice /\ p[2] <= slice
        BY DEF DumpInv, WalkInv
      <4>2. p[1] = file /\ ~InSlice
        BY <1>1, <2>1, <2>3 DEF InSlice, InRecord
      <4> QED
        BY <1>2, <4>1, <4>2
    <3>2. /\ p[2] * RecPerSlice \in Int
          /\ g \in (p[2] * RecPerSlice)..(p[2] * RecPerSlice + RecPerSlice - 1)
      <4>1. p[2] * RecPerSlice \in Int
        BY <1>2, <2>1
      <4>2. p[2] \in Int /\ g \in Int /\ g \div RecPerSlice = p[2]
        BY <2>1
      <4>3. g \in (p[2] * RecPerSlice)..(p[2] * RecPerSlice + RecPerSlice - 1)
        BY <1>2, <4>2, SliceOf
      <4> QED
        BY <4>1, <4>3
    <3>3. (p[2] + 1) * RecPerSlice <= slice * RecPerSlice
          /\ (p[2] + 1) * RecPerSlice = p[2] * RecPerSlice + RecPerSlice
      BY <1>2, <2>1, <3>1
    <3>4. x[2] < slice * RecPerSlice
      BY <1>2, <2>1, <3>2, <3>3
    <3> QED
      BY <1>6, <3>4
  <2> QED
    BY <2>2, <2>3
<1>8. ASSUME NEW x \in SliceSet(file, slice) PROVE ~Passed(x)'
  <2>1. PICK g \in SelectedOf(file, slice) : x[1] = file /\ x[2] = g
    <3>1. PICK g \in SelectedOf(file, slice), b \in RRs : IsGroup(x, file, g, b)
      BY SliceSetIs
    <3> QED
      BY <3>1 DEF IsGroup
  <2>2. g \in (slice * RecPerSlice)..(slice * RecPerSlice + RecPerSlice - 1)
    BY <2>1 DEF SelectedOf
  <2>3. ~(x[2] < slice * RecPerSlice)
    BY <1>2, <2>1, <2>2
  <2> QED
    BY <1>6, <2>1, <2>3
<1>9. Made' = {x \in All \cup SliceSet(file, slice) : Passed(x)'}
  BY <1>3 DEF Made
<1> QED
  BY <1>4, <1>7, <1>8, <1>9

\* After the last record nothing of the slice is left; the limit leaves some of it.
LEMMA SliceEnds ==
  ASSUME DumpInv, NextSlice
  PROVE  Made \subseteq Made' /\ (~capped => Made' = Made)
<1>1. /\ step = "record" /\ (capped \/ r = RecPerSlice) /\ step' = "slice"
      /\ UNCHANGED <<tableVars, pairing, read>>
  BY DEF NextSlice, collected
<1>2. InSlice /\ ~InSlice' /\ ~InRecord
  BY <1>1 DEF InSlice, InRecord
<1>3. Made' = All
  <2>1. All' = All
    BY <1>1, AllStays DEF tableVars, pairing
  <2> QED
    BY <1>2, <2>1 DEF Made, Passed
<1>4. ASSUME ~capped, NEW x \in All PROVE Passed(x)
  <2>1. CASE x[1] # file
    BY <2>1 DEF Passed
  <2>2. CASE x[1] = file
    <3>1. x[2] \in Int /\ x[2] < slice * RecPerSlice + RecPerSlice
      BY <1>2, <2>2, GroupAtHand
    <3>2. Rec = slice * RecPerSlice + RecPerSlice
      BY <1>1, <1>4 DEF Rec
    <3> QED
      BY <3>1, <3>2 DEF Passed
  <2> QED
    BY <2>1, <2>2
<1> QED
  BY <1>3, <1>4 DEF Made

\* The group that is stored is one the loops had not come by.
LEMMA GroupStored ==
  ASSUME DumpInv, DumpGroup
  PROVE  CollectInv' /\ LimitInv'
<1> DEFINE b == rr_list[row]
           y == <<file, Rec, b, ll_of[Key(b)], chan>>
<1>1. /\ step = "chan" /\ chan < ChanEnd /\ groups' = Append(groups, y)
      /\ capped' = (Len(groups') >= max_groups)
      /\ UNCHANGED <<tableVars, pairing, max_groups, file, slice, r, row, read>>
      /\ capped' => step' = "endrow"
      /\ ~capped' => step' = "chan" /\ chan' = chan + 1
  BY DEF DumpGroup, inputs
<1>2. InSlice /\ InSlice' /\ InRecord /\ InRecord' /\ (step' = "endrow" \/ step' = "chan")
  BY <1>1 DEF InSlice, InRecord
<1>3. UNCHANGED <<baseline, sampler, phase, rr_list, ll_of>>
  BY <1>1 DEF tableVars, pairing
<1>4. ~capped /\ Len(groups) < Limit /\ Len(groups) \in Nat /\ Lists(groups, Made)
  BY <1>1 DEF DumpInv, LimitInv, CollectInv, Lists
<1>5. /\ row \in 1..Len(rr_list) /\ b \in RRs /\ Key(b) \in DOMAIN ll_of
      /\ chan \in Int /\ ChanStart <= chan /\ Selected(file, Rec)
      /\ Paired /\ phase = "built" /\ max_groups \in Int
      /\ \A i, k \in 1..Len(rr_list) : rr_list[i] = rr_list[k] => i = k
  <2>1. /\ row \in Nat \ {0} /\ row <= Len(rr_list) /\ Twinned /\ HasGroups
        /\ chan \in Int /\ ChanStart <= chan /\ max_groups \in Int
    BY <1>1, <1>2 DEF DumpInv, WalkInv
  <2>2. /\ rr_list \in Seq(RRs) /\ Paired /\ phase = "built"
        /\ \A i, k \in 1..Len(rr_list) : rr_list[i] = rr_list[k] => i = k
    BY <1>1 DEF DumpInv, CollectInv, Paired, Lists
  <2>3. row \in 1..Len(rr_list)
    BY <2>1, <2>2
  <2>4. b \in RRs
    BY <2>2, <2>3
  <2> QED
    BY <2>1, <2>2, <2>3, <2>4 DEF Twinned, HasGroups
<1>6. /\ Rec' = Rec /\ Rec \in Int /\ Behind' = Behind
      /\ Rec = slice * RecPerSlice + r /\ r \in 0..RecPerSlice /\ r < RecPerSlice
      /\ slice * RecPerSlice \in Int /\ slice \in Int /\ file \in 1..NFile
      /\ RecPerSlice \in Nat \ {0} /\ <<file, slice>> \in read
  BY <1>1, <1>2, <1>3, RecIsInt DEF Rec, Behind, DumpInv, WalkInv
<1>7. y \in All
  <2>1. Rec \in (slice * RecPerSlice)..(slice * RecPerSlice + RecPerSlice - 1)
    BY <1>6
  <2>2. Rec \in SelectedOf(file, slice)
    BY <1>5, <2>1 DEF SelectedOf
  <2>3. ChanStart \in Nat /\ ChanEnd \in Nat
    BY <1>6, <2>2, SelectedHasTrack DEF ChanStart, ChanEnd
  <2>4. chan \in ChanStart..(ChanEnd - 1)
    BY <1>1, <1>5, <2>3
  <2>5. IsGroup(y, file, Rec, b)
    BY <1>5, <2>4 DEF IsGroup, ChanStart, ChanEnd
  <2> HIDE DEF y, b
  <2>6. y \in SliceSet(file, slice)
    BY <1>5, <2>2, <2>5, SliceSetIs
  <2> DEFINE p == <<file, slice>>
  <2>7. p \in read /\ y \in SliceSet(p[1], p[2])
    BY <1>6, <2>6
  <2> HIDE DEF p
  <2> QED
    BY <2>7 DEF All
<1>8. y[1] = file /\ y[2] = Rec /\ y[3] = b /\ y[5] = chan
  OBVIOUS
<1>9. y \notin Made
  <2>1. b \notin Behind
    <3> SUFFICES ASSUME NEW k \in 1..(row - 1), rr_list[k] = rr_list[row] PROVE FALSE
      BY DEF Behind
    <3>1. k \in 1..Len(rr_list) /\ row \in 1..Len(rr_list) /\ k # row
      BY <1>5
    <3> QED
      BY <1>5, <3>1
  <2>2. ~RowPassed(y)
    BY <1>1, <1>5, <1>8, <2>1 DEF RowPassed
  <2>3. ~Passed(y)
    BY <1>2, <1>6, <1>8, <2>2 DEF Passed
  <2> QED
    BY <2>3 DEF Made
<1>10. ASSUME NEW x \in All
       PROVE  /\ Passed(x) \/ x = y => Passed(x)'
              /\ ~capped' /\ Passed(x)' => Passed(x) \/ x = y
  <2>1. CASE x[1] # file
    <3>1. Passed(x) /\ Passed(x)'
      BY <1>1, <2>1 DEF Passed
    <3> QED
      BY <3>1
  <2>2. CASE x[1] = file /\ x[2] # Rec
    <3>1. (Passed(x) <=> x[2] < Rec) /\ (Passed(x)' <=> x[2] < Rec) /\ x # y
      BY <1>1, <1>2, <1>6, <1>8, <2>2 DEF Passed
    <3> QED
      BY <3>1
  <2>3. CASE x[1] = file /\ x[2] = Rec
    <3>1. x[5] \in Int /\ x = <<file, Rec, x[3], ll_of[Key(x[3])], x[5]>>
      BY <1>2, <2>3, GroupAtHand
    <3>2. (Passed(x) <=> RowPassed(x)) /\ (Passed(x)' <=> RowPassed(x)')
      BY <1>1, <1>2, <1>6, <2>3 DEF Passed
    <3>3. RowPassed(x) <=> x[3] \in Behind \/ (x[3] = b /\ x[5] < chan)
      BY <1>1, <1>2 DEF RowPassed
    <3>4. x = y <=> x[3] = b /\ x[5] = chan
      BY <1>8, <3>1
    <3>5. CASE capped'
      <4>1. RowPassed(x)' <=> x[3] \in Behind \/ x[3] = b
        BY <1>1, <1>2, <1>3, <1>6, <3>5 DEF RowPassed
      <4> QED
        BY <3>2, <3>3, <3>4, <3>5, <4>1
    <3>6. CASE ~capped'
      <4>1. RowPassed(x)' <=> x[3] \in Behind \/ (x[3] = b /\ x[5] < chan + 1)
        BY <1>1, <1>2, <1>3, <1>6, <3>6 DEF RowPassed
      <4>2. x[5] < chan + 1 <=> x[5] < chan \/ x[5] = chan
        BY <1>5, <3>1
      <4> HIDE DEF b, y
      <4> QED
        BY <3>2, <3>3, <3>4, <4>1, <4>2
    <3> QED
      BY <3>5, <3>6
  <2> QED
    BY <2>1, <2>2, <2>3
<1> HIDE DEF y, b
<1>11. All' = All
  BY <1>1, <1>3, AllStays
<1>12. /\ Made \cup {y} \subseteq Made'
       /\ ~capped' => Made' = Made \cup {y}
  BY <1>7, <1>10, <1>11 DEF Made
<1>13. Lists(groups', Made \cup {y}) /\ Parts(groups', Made \cup {y})
  BY <1>1, <1>4, <1>9, OneMore, ListsParts
<1>14. Parts(groups', Made') /\ (~capped' => Lists(groups', Made'))
  BY <1>12, <1>13, PartsOfMore
<1>15. Paired' /\ phase' = "built" /\ step' # "pair" /\ step' # "done"
  BY <1>2, <1>3, <1>5, PairedStays
<1>16. CollectInv'
  BY <1>14, <1>15 DEF CollectInv
<1>17. Len(groups') = Len(groups) + 1
  BY <1>1, <1>4 DEF Lists
<1>18. LimitInv'
  <2>1. /\ Limit' = Limit /\ Limit \in Nat \ {0}
        /\ Limit = IF max_groups > 1 THEN max_groups ELSE 1
    BY <1>1, <1>5 DEF Limit
  <2>2. Len(groups') <= Limit /\ (Len(groups') >= max_groups <=> Len(groups') >= Limit)
    <3>1. \A n, m, g, l \in Int :
            /\ n >= 0 /\ n < l /\ m = n + 1 /\ l = IF g > 1 THEN g ELSE 1
            => m <= l /\ (m >= g <=> m >= l)
      OBVIOUS
    <3>2. Len(groups) \in Int /\ Len(groups') \in Int /\ max_groups \in Int /\ Limit \in Int
          /\ Len(groups) >= 0 /\ Len(groups) < Limit
      BY <1>4, <1>5, <1>17, <2>1
    <3> QED
      BY <1>17, <2>1, <3>1, <3>2
  <2>3. Len(groups') \in Nat /\ Limit \in Nat
    BY <1>4, <1>17, <2>1
  <2>4. capped' = (Len(groups') >= Limit)
    BY <1>1, <2>2
  <2>5. ASSUME capped' PROVE Len(groups') = Limit /\ step' \notin {"row", "chan"}
    <3>1. Len(groups') >= Limit
      BY <2>4, <2>5
    <3> QED
      BY <1>1, <2>2, <2>3, <2>5, <3>1
  <2>6. ASSUME ~capped' PROVE Len(groups') < Limit
    <3>1. ~(Len(groups') >= Limit)
      BY <2>4, <2>6
    <3> QED
      BY <2>3, <3>1
  <2> QED
    BY <2>1, <2>2, <2>5, <2>6 DEF LimitInv
<1> QED
  BY <1>16, <1>18

\* The loops keep their place.
LEMMA WalkSteps ==
  ASSUME DumpInv, UNCHANGED <<tableVars, max_groups>>,
         \/ Pair \/ BeginFile \/ ReadSlice \/ ReadFails \/ LeaveFile
         \/ NextSlice \/ SkipRecord \/ BeginRecord \/ EndRecord
         \/ SkipRow \/ BeginRow \/ DumpGroup \/ EndChannels \/ EndRow \/ Write
  PROVE  WalkInv'
<1> USE DEF DumpInv
<1>1. ASSUME Pair PROVE WalkInv'
  <2>1. step = "pair" /\ step' = "file" /\ file' = file /\ read' = read /\ read = {}
    BY <1>1 DEF Pair, collected, CollectInv
  <2> QED
    BY <2>1 DEF WalkInv, InSlice, InRecord
<1>2. ASSUME BeginFile PROVE WalkInv'
  <2>1. step = "file" /\ read' = read /\ file \in Nat \ {0}
    BY <1>2 DEF BeginFile, collected, WalkInv
  <2>2. CASE capped \/ file > NFile
    <3>1. step' = "write" /\ UNCHANGED <<file, slice>>
      BY <1>2, <2>2 DEF BeginFile
    <3> QED
      BY <2>1, <3>1 DEF WalkInv, InSlice, InRecord
  <2>3. CASE ~(capped \/ file > NFile) /\ Wanted(file)
    <3>1. step' = "slice" /\ slice' = Slice0(file) /\ file' = file
      BY <1>2, <2>3 DEF BeginFile
    <3>2. file \in 1..NFile
      BY <2>1, <2>3, DumpAssumption
    <3>3. Slice0(file) \in Int
      <4>1. StartRec[file] \in Nat /\ RecPerSlice \in Nat \ {0}
        BY <3>2, DumpAssumption
      <4> QED
        BY <4>1 DEF Slice0
    <3> QED
      BY <2>1, <3>1, <3>2, <3>3 DEF WalkInv, InSlice, InRecord
  <2>4. CASE ~(capped \/ file > NFile) /\ ~Wanted(file)
    <3>1. file' = file + 1 /\ UNCHANGED <<step, slice>>
      BY <1>2, <2>4 DEF BeginFile
    <3> QED
      BY <2>1, <3>1 DEF WalkInv, InSlice, InRecord
  <2> QED
    BY <2>2, <2>3, <2>4
<1>3. ASSUME ReadSlice PROVE WalkInv'
  <2>1. /\ step = "slice" /\ step' = "record" /\ r' = 0 /\ UNCHANGED <<file, slice>>
        /\ read' = read \cup {<<file, slice>>}
    BY <1>3 DEF ReadSlice
  <2>2. RecPerSlice \in Nat /\ slice \in Int
    BY <2>1, DumpAssumption DEF WalkInv
  <2> QED
    BY <2>1, <2>2 DEF WalkInv, InSlice, InRecord
<1>4. ASSUME ReadFails \/ LeaveFile PROVE WalkInv'
  <2>1. step = "slice" /\ step' = "file" /\ file' = file + 1 /\ read' = read
    BY <1>4 DEF ReadFails, LeaveFile, EndFile, collected
  <2> QED
    BY <2>1 DEF WalkInv, InSlice, InRecord
<1>5. ASSUME NextSlice PROVE WalkInv'
  <2>1. step = "record" /\ step' = "slice" /\ slice' = slice + 1 /\ UNCHANGED <<file, read>>
    BY <1>5 DEF NextSlice, collected
  <2> QED
    BY <2>1 DEF WalkInv, InSlice, InRecord
<1>6. ASSUME SkipRecord PROVE WalkInv'
  <2>1. /\ step = "record" /\ step' = "record" /\ r < RecPerSlice /\ r' = r + 1
        /\ UNCHANGED <<file, slice, read>> /\ RecPerSlice \in Nat
    BY <1>6, DumpAssumption DEF SkipRecord, collected
  <2> QED
    BY <2>1 DEF WalkInv, InSlice, InRecord
<1>7. ASSUME BeginRecord PROVE WalkInv'
  <2>1. /\ step = "record" /\ step' = "row" /\ row' = 1 /\ r < RecPerSlice /\ HasGroups
        /\ UNCHANGED <<file, slice, r, read>>
    BY <1>7 DEF BeginRecord, collected
  <2>2. HasGroups'
    BY <2>1 DEF HasGroups, Selected, ChanStart, ChanEnd, Rec
  <2> QED
    BY <2>1, <2>2 DEF WalkInv, InSlice, InRecord
<1>8. ASSUME EndRecord \/ (EndRow /\ LeaveRows) PROVE WalkInv'
  <2>1. /\ step \in {"row", "endrow"} /\ step' = "record" /\ r' = r + 1
        /\ UNCHANGED <<file, slice, read>> /\ RecPerSlice \in Nat
    BY <1>8, DumpAssumption DEF EndRecord, EndRow, collected
  <2> QED
    BY <2>1 DEF WalkInv, InSlice, InRecord
<1>9. ASSUME \/ SkipRow \/ BeginRow \/ DumpGroup \/ EndChannels
             \/ EndRow /\ ~LeaveRows
      PROVE  WalkInv'
  <2>1. /\ InRecord /\ InRecord' /\ InSlice /\ InSlice'
        /\ UNCHANGED <<file, slice, r, read, rr_list, ll_of, baseline, sampler>>
    BY <1>9 DEF SkipRow, BeginRow, DumpGroup, EndChannels, EndRow, inner, pairing, collected,
                InRecord, InSlice, tableVars
  <2>2. HasGroups /\ HasGroups' /\ ChanStart' = ChanStart
    BY <2>1 DEF WalkInv, HasGroups, Selected, ChanStart, ChanEnd, Rec
  <2>3. /\ row' \in Nat \ {0}
        /\ step' \in {"chan", "endrow"} => row' = row /\ row <= Len(rr_list) /\ Twinned
    BY <1>9, <2>1 DEF WalkInv, SkipRow, BeginRow, DumpGroup, EndChannels, EndRow, inner
  <2>4. step' \in {"chan", "endrow"} => Twinned'
    BY <2>1, <2>3 DEF Twinned, Key, AntsOf
  <2>5. step' = "chan" => chan' \in Int /\ ChanStart <= chan'
    <3>1. ChanStart \in Nat
      <4>1. slice \in Int /\ file \in 1..NFile /\ Rec = slice * RecPerSlice + r
            /\ slice * RecPerSlice \in Int /\ RecPerSlice \in Nat \ {0}
            /\ r \in 0..RecPerSlice /\ r < RecPerSlice
        BY <2>1, RecIsInt DEF WalkInv
      <4>2. Rec \in (slice * RecPerSlice)..(slice * RecPerSlice + RecPerSlice - 1)
        BY <4>1
      <4>3. Rec \in SelectedOf(file, slice)
        BY <2>2, <4>2 DEF SelectedOf, HasGroups
      <4> QED
        BY <4>1, <4>3, SelectedHasTrack DEF ChanStart
    <3>2. step' = "chan" => \/ chan' = ChanStart
                            \/ step = "chan" /\ (chan' = chan + 1 \/ chan' = chan)
      BY <1>9 DEF SkipRow, BeginRow, DumpGroup, EndChannels, EndRow, inner
    <3> QED
      BY <3>1, <3>2 DEF WalkInv
  <2>6. r < RecPerSlice
    BY <2>1 DEF WalkInv
  <2>7. step' \in {"row", "chan", "endrow"}
    BY <2>1 DEF InRecord
  <2>8. step # "slice" /\ step' # "slice"
    BY <2>1 DEF InRecord
  <2> QED
    BY <2>1, <2>2, <2>3, <2>4, <2>5, <2>6, <2>7, <2>8 DEF WalkInv
<1>10. ASSUME Write PROVE WalkInv'
  <2>1. step = "write" /\ step' = "done" /\ UNCHANGED <<file, read>>
    BY <1>10 DEF Write, collected
  <2> QED
    BY <2>1 DEF WalkInv, InSlice, InRecord
<1> QED
  BY <1>1, <1>2, <1>3, <1>4, <1>5, <1>6, <1>7, <1>8, <1>9, <1>10

\* Steps that store no group.
QuietStep ==
  \/ BeginFile \/ ReadSlice \/ ReadFails \/ LeaveFile
  \/ NextSlice \/ SkipRecord \/ BeginRecord \/ EndRecord
  \/ SkipRow \/ BeginRow \/ EndChannels \/ EndRow \/ Write

\* They come by no more groups, or by more once the limit was reached.
LEMMA QuietPasses ==
  ASSUME DumpInv, QuietStep
  PROVE  Made \subseteq Made' /\ (~capped => Made' = Made)
<1>1. ASSUME BeginFile \/ ReadFails \/ LeaveFile \/ Write PROVE Made' = Made
  <2>1. /\ step \in {"file", "slice", "write"} /\ step' \in {"file", "slice", "write", "done"}
        /\ UNCHANGED <<tableVars, pairing, read>>
    BY <1>1 DEF BeginFile, ReadFails, LeaveFile, EndFile, Write, collected
  <2>2. ~InSlice /\ ~InSlice'
    BY <2>1 DEF InSlice, InRecord
  <2>3. All' = All
    BY <2>1, AllStays DEF tableVars, pairing
  <2> QED
    BY <2>2, <2>3 DEF Made, Passed
<1>2. ASSUME EndRow /\ capped PROVE Made \subseteq Made'
  BY <1>2, RowsLeft
<1> QED
  BY <1>1, <1>2, SliceBegins, SliceEnds, RecordBegins, RecordEnds, RowMoves DEF QuietStep

\* What these steps leave alone.
LEMMA QuietKeeps ==
  ASSUME DumpInv, QuietStep
  PROVE  /\ UNCHANGED <<tableVars, pairing, groups, capped, max_groups>>
         /\ step # "pair" /\ step' # "pair"
         /\ step' = "done" => (result' = 0 => groups # <<>>)
         /\ capped => step' \notin {"row", "chan"}
<1> USE DEF collected, inputs
<1>1. ASSUME BeginFile \/ ReadSlice \/ ReadFails \/ LeaveFile \/ NextSlice
      PROVE  /\ UNCHANGED <<tableVars, pairing, groups, capped, max_groups>>
             /\ step \in {"file", "slice", "record"}
             /\ step' \in {"file", "slice", "record", "write"}
  BY <1>1 DEF BeginFile, ReadSlice, ReadFails, LeaveFile, NextSlice, EndFile
<1>2. ASSUME SkipRecord \/ BeginRecord \/ EndRecord \/ SkipRow \/ BeginRow \/ EndChannels
      PROVE  /\ UNCHANGED <<tableVars, pairing, groups, capped, max_groups>>
             /\ step \in {"record", "row", "chan"}
             /\ step' \in {"record", "row", "chan", "endrow"}
             /\ capped => step' \notin {"row", "chan"}
  <2>1. capped => step \notin {"row", "chan"}
    BY DEF DumpInv, LimitInv
  <2> QED
    BY <1>2, <2>1 DEF SkipRecord, BeginRecord, EndRecord, SkipRow, BeginRow, EndChannels
<1>3. ASSUME EndRow
      PROVE  /\ UNCHANGED <<tableVars, pairing, groups, capped, max_groups>>
             /\ step = "endrow" /\ step' \in {"record", "row"}
             /\ capped => step' = "record"
  BY <1>3 DEF EndRow, LeaveRows
<1>4. ASSUME Write
      PROVE  /\ UNCHANGED <<tableVars, pairing, groups, capped, max_groups>>
             /\ step = "write" /\ step' = "done" /\ (result' = 0 => groups # <<>>)
  BY <1>4 DEF Write
<1>5. CASE BeginFile \/ ReadSlice \/ ReadFails \/ LeaveFile \/ NextSlice
  BY <1>1, <1>5
<1>6. CASE SkipRecord \/ BeginRecord \/ EndRecord \/ SkipRow \/ BeginRow \/ EndChannels
  BY <1>2, <1>6
<1>7. CASE EndRow
  BY <1>3, <1>7
<1>8. CASE Write
  BY <1>4, <1>8
<1> QED
  BY <1>5, <1>6, <1>7, <1>8 DEF QuietStep

\* Every step keeps the invariant.
LEMMA DumpSteps ==
  ASSUME DumpInv, [Next]_vars
  PROVE  DumpInv'
<1> USE DEF DumpInv
<1>1. ASSUME TableNext, UNCHANGED dumpVars PROVE DumpInv'
  BY <1>1, LoaderStep
<1>2. ASSUME UNCHANGED tableVars PROVE TableInv'
  BY <1>2, TableStays
<1>3. ASSUME Pair PROVE DumpInv'
  <2>1. /\ phase = "built" /\ step = "pair" /\ step' = "file"
        /\ UNCHANGED <<tableVars, max_groups, read, groups, capped, result>>
    BY <1>3 DEF Pair, inputs, collected
  <2>2. read = {} /\ groups = <<>>
    BY <2>1 DEF CollectInv
  <2>3. Paired'
    BY <1>3, <2>1, RowsOfTable, PairStep
  <2>4. Lists(groups', Made')
    <3>1. read' = {} /\ groups' = <<>>
      BY <2>1, <2>2
    <3>2. Made' = {}
      BY <3>1 DEF Made, All
    <3> QED
      BY <3>1, <3>2, ListsNothing
  <2>5. phase' = "built"
    BY <2>1 DEF tableVars
  <2>6. CollectInv'
    BY <2>1, <2>3, <2>4, <2>5, ListsParts DEF CollectInv
  <2>7. LimitInv'
    BY <2>1 DEF LimitInv, Limit
  <2>8. WalkInv'
    BY <1>3, <2>1, WalkSteps
  <2> QED
    BY <1>2, <2>1, <2>6, <2>7, <2>8
<1>4. ASSUME QuietStep PROVE DumpInv'
  <2>1. /\ UNCHANGED <<tableVars, pairing, groups, capped, max_groups>>
        /\ step # "pair" /\ step' # "pair"
        /\ step' = "done" => (result' = 0 => groups # <<>>)
        /\ capped => step' \notin {"row", "chan"}
    BY <1>4, QuietKeeps
  <2>2. Made \subseteq Made' /\ (~capped => Made' = Made)
    BY <1>4, QuietPasses
  <2>3. CollectInv'
    BY <2>1, <2>2, CollectStays
  <2>4. LimitInv'
    BY <2>1 DEF LimitInv, Limit
  <2>5. WalkInv'
    <3>1. UNCHANGED <<tableVars, max_groups>>
      BY <2>1
    <3> QED
      BY <1>4, <3>1, WalkSteps DEF QuietStep
  <2> QED
    BY <1>2, <2>1, <2>3, <2>4, <2>5
<1>5. ASSUME DumpGroup PROVE DumpInv'
  <2>1. UNCHANGED <<tableVars, max_groups>>
    BY <1>5 DEF DumpGroup, inputs
  <2>2. WalkInv'
    BY <1>5, <2>1, WalkSteps
  <2>3. CollectInv' /\ LimitInv'
    BY <1>5, GroupStored
  <2> QED
    BY <1>2, <2>1, <2>2, <2>3
<1>6. ASSUME UNCHANGED vars PROVE DumpInv'
  <2>1. /\ UNCHANGED <<tableVars, pairing, groups, capped, max_groups, result>>
        /\ UNCHANGED <<baseline, sampler, phase, rr_list, ll_of>>
        /\ UNCHANGED <<step, file, slice, r, row, chan, read>>
    BY <1>6 DEF vars, tableVars, dumpVars, inputs, pairing, inner, collected
  <2>2. LimitInv'
    BY <2>1 DEF LimitInv, Limit
  <2>3. WalkInv'
    BY <2>1 DEF WalkInv, InSlice, InRecord, HasGroups, Selected, ChanStart, ChanEnd, Rec,
                Twinned, Key, AntsOf
  <2>4. CollectInv'
    <3>1. CASE step = "pair"
      <4>1. Made = {} /\ Made' = {}
        BY <2>1, <3>1 DEF CollectInv, Made, All
      <4> QED
        BY <2>1, <3>1, <4>1 DEF CollectInv
    <3>2. CASE step # "pair"
      <4>1. All' = All
        BY <2>1, AllStays
      <4>2. Made' = Made
        BY <2>1, <4>1 DEF Made, Passed, RowPassed, InSlice, InRecord, Behind, Rec
      <4> QED
        BY <2>1, <3>2, <4>2, CollectStays DEF CollectInv
    <3> QED
      BY <3>1, <3>2
  <2> QED
    BY <1>2, <2>1, <2>2, <2>3, <2>4
<1> QED
  BY <1>1, <1>3, <1>4, <1>5, <1>6 DEF Next, QuietStep

\* The table has the rows of the enabled antennas, the slices read lie behind the
\* loops, and the groups are what these slices hold, each group once.
THEOREM DumpInvariant == Spec => []DumpInv
<1>1. Init => DumpInv
  BY DumpStarts
<1>2. DumpInv /\ [Next]_vars => DumpInv'
  BY DumpSteps
<1> QED
  BY <1>1, <1>2, PTL DEF Spec

\* Whatever the header file and ANTMASK, any two enabled antennas have one row in
\* a record for each pair of their samplers, and RR rows precede LL rows.
THEOREM OneRowForEachPair == Spec => []OneRowPerPair
<1>1. DumpInv => OneRowPerPair
  BY OneRowFromRows DEF DumpInv
<1> QED
  BY <1>1, DumpInvariant, PTL

\* x is a group of record p of a slice that was read, on a baseline with a twin.
Holds(x, p, b) ==
  /\ p \in Records /\ b \in RRs /\ HasTwin(b)
  /\ <<p[1], p[2] \div RecPerSlice>> \in read
  /\ \E ch \in Track[p][1]..(Track[p][2] - 1) : x = <<p[1], p[2], b, ll_of[Key(b)], ch>>

\* Every group of the slices read is one.
LEMMA MadeIs ==
  ASSUME DumpInv, NEW x \in All
  PROVE  Paired /\ \E p, b : Holds(x, p, b)
<1>1. PICK q \in read, g \in Int, b \in RRs :
           /\ q[1] \in 1..NFile /\ q[2] \in Int /\ q = <<q[1], q[2]>>
           /\ g \in SelectedOf(q[1], q[2]) /\ IsGroup(x, q[1], g, b)
           /\ g \div RecPerSlice = q[2]
  BY AllIs
<1>2. step # "pair" /\ Paired
  BY <1>1 DEF DumpInv, CollectInv
<1>3. HasTwin(b)
  BY <1>1, <1>2 DEF Paired, IsGroup
<1> DEFINE p == <<q[1], g>>
<1>4. p[1] = q[1] /\ p[2] = g
  OBVIOUS
<1>5. <<p[1], p[2] \div RecPerSlice>> \in read
  BY <1>1, <1>4
<1>6. \E ch \in Track[p][1]..(Track[p][2] - 1) : x = <<p[1], p[2], b, ll_of[Key(b)], ch>>
  BY <1>1, <1>4 DEF IsGroup
<1>7. p \in Records
  BY <1>1, SelectedHasTrack
<1> HIDE DEF p
<1>8. Holds(x, p, b)
  BY <1>3, <1>5, <1>6, <1>7 DEF Holds
<1> QED
  BY <1>2, <1>8

\* The rows of a group are RR and LL of the same antennas in the same sense.
THEOREM TwinsOfOnePair == Spec => []TwinsAgree
<1>1. DumpInv => TwinsAgree
  <2> SUFFICES ASSUME DumpInv, NEW k \in DOMAIN groups
               PROVE  /\ BandOf(groups[k][3]) = 0 /\ BandOf(groups[k][4]) = 1
                      /\ AntsOf(groups[k][3]) = AntsOf(groups[k][4])
                      /\ Cross(groups[k][3])
    BY DEF TwinsAgree
  <2>1. groups[k] \in All
    <3>1. groups \in Seq(Made)
      BY DEF DumpInv, CollectInv, Parts
    <3>2. groups[k] \in Made
      BY <3>1
    <3> QED
      BY <3>2 DEF Made
  <2>2. Paired
    BY <2>1, MadeIs
  <2>3. PICK p, b : Holds(groups[k], p, b)
    BY <2>1, MadeIs
  <2>4. /\ b \in RRs /\ HasTwin(b)
        /\ groups[k][3] = b /\ groups[k][4] = ll_of[Key(b)]
    BY <2>3 DEF Holds
  <2> QED
    BY <2>2, <2>4 DEF Paired, RRs
<1> QED
  BY <1>1, DumpInvariant, PTL

\* What is wanted of a dump.
WantedOf == {x \in ImagedRR : HasTwin(x[3])}

\* The samples in a group.
SampleOf(x) == <<x[1], x[2], x[3], x[5]>>

\* What is imaged, unfolded.
LEMMA ImagedIs ==
  ASSUME NEW x
  PROVE  x \in ImagedRR <=>
           \E p \in Records :
             /\ <<p[1], p[2] \div RecPerSlice>> \in read
             /\ \E b \in RRs : \E ch \in Track[p][1]..(Track[p][2] - 1) :
                  x = <<p[1], p[2], b, ch>>
<1> DEFINE Of(p) == {<<p[1], p[2], b, ch>> :
                       b \in {b \in DOMAIN baseline : BandOf(b) = 0 /\ Cross(b)},
                       ch \in Track[p][1]..(Track[p][2] - 1)}
           Read(p) == <<p[1], p[2] \div RecPerSlice>> \in read
<1>1. \A p : x \in Of(p) <=> \E b \in RRs : \E ch \in Track[p][1]..(Track[p][2] - 1) :
                               x = <<p[1], p[2], b, ch>>
  BY DEF RRs
<1>2. ImagedRR = UNION {Of(p) : p \in {p \in Records : Read(p)}}
  BY DEF ImagedRR
<1> HIDE DEF Of, Read
<1>3. x \in ImagedRR <=> \E p \in Records : Read(p) /\ x \in Of(p)
  BY <1>2
<1> QED
  BY <1>1, <1>3 DEF Read

\* A group holds what is imaged, and its RR sample tells it from the others.
LEMMA MadeIsWanted ==
  ASSUME DumpInv, NEW x \in All, NEW y \in All
  PROVE  /\ SampleOf(x) \in WantedOf
         /\ SampleOf(x) = SampleOf(y) => x = y
<1>1. PICK p, b : Holds(x, p, b)
  BY MadeIs
<1>2. PICK ch \in Track[p][1]..(Track[p][2] - 1) : x = <<p[1], p[2], b, ll_of[Key(b)], ch>>
  BY <1>1 DEF Holds
<1>3. SampleOf(x) = <<p[1], p[2], b, ch>>
  BY <1>2 DEF SampleOf
<1>4. <<p[1], p[2], b, ch>> \in ImagedRR
  BY <1>1, ImagedIs DEF Holds
<1>5. SampleOf(x) \in WantedOf
  BY <1>1, <1>3, <1>4 DEF WantedOf, Holds
<1>6. PICK q, c : Holds(y, q, c)
  BY MadeIs
<1>7. PICK dh \in Track[q][1]..(Track[q][2] - 1) : y = <<q[1], q[2], c, ll_of[Key(c)], dh>>
  BY <1>6 DEF Holds
<1>8. SampleOf(x) = SampleOf(y) => x = y
  BY <1>2, <1>7 DEF SampleOf
<1> QED
  BY <1>5, <1>8

\* What is imaged of the slices read, where there is a twin, has a group.
LEMMA WantedIsMade ==
  ASSUME DumpInv, step # "pair", NEW x \in WantedOf
  PROVE  \E y \in All : SampleOf(y) = x
<1>1. PICK p \in Records :
        /\ <<p[1], p[2] \div RecPerSlice>> \in read
        /\ \E b \in RRs : \E ch \in Track[p][1]..(Track[p][2] - 1) : x = <<p[1], p[2], b, ch>>
  BY ImagedIs DEF WantedOf
<1>2. PICK b \in RRs : \E ch \in Track[p][1]..(Track[p][2] - 1) : x = <<p[1], p[2], b, ch>>
  BY <1>1
<1>3. PICK ch \in Track[p][1]..(Track[p][2] - 1) : x = <<p[1], p[2], b, ch>>
  BY <1>2
<1>4. HasTwin(b) /\ Key(b) \in DOMAIN ll_of
  BY <1>3 DEF WantedOf, DumpInv, CollectInv, Paired
<1> DEFINE f == p[1]
           g == p[2]
           sl == g \div RecPerSlice
           y == <<f, g, b, ll_of[Key(b)], ch>>
<1>5. p = <<f, g>> /\ f \in 1..NFile /\ g \in Nat /\ Selected(f, g)
  <2>1. PICK e \in 1..NFile : p \in {e} \X (StartRec[e]..(StartRec[e] + NRec[e] - 1))
    BY DEF Records
  <2>2. StartRec[e] \in Nat /\ NRec[e] \in Nat
    BY DumpAssumption
  <2>3. f = e /\ g \in StartRec[e]..(StartRec[e] + NRec[e] - 1) /\ p = <<f, g>>
    BY <2>1
  <2> QED
    BY <2>2, <2>3 DEF Selected
<1>6. sl \in Int /\ g \in SelectedOf(f, sl)
  <2>1. RecPerSlice \in Nat \ {0}
    BY DumpAssumption
  <2>2. sl \in Int
    BY <1>5, <2>1
  <2>3. g \in (sl * RecPerSlice)..(sl * RecPerSlice + RecPerSlice - 1)
    BY <1>5, <2>1, <2>2, SliceOf
  <2> QED
    BY <1>5, <2>2, <2>3 DEF SelectedOf
<1>7. <<f, sl>> \in read /\ ch \in Track[<<f, g>>][1]..(Track[<<f, g>>][2] - 1)
  BY <1>1, <1>5
<1>8. y \in SliceSet(f, sl)
  <2> HIDE DEF f, g, sl
  <2>1. IsGroup(y, f, g, b)
    BY <1>4, <1>7 DEF IsGroup
  <2> HIDE DEF y
  <2> QED
    BY <1>6, <2>1, SliceSetIs
<1>9. SampleOf(y) = x
  BY <1>3 DEF SampleOf
<1> HIDE DEF y
<1>10. y \in All
  <2> DEFINE q == <<f, sl>>
  <2>1. q \in read /\ y \in SliceSet(q[1], q[2])
    BY <1>7, <1>8
  <2> HIDE DEF q
  <2> QED
    BY <2>1 DEF All
<1> QED
  BY <1>9, <1>10

\* Each RR sample of the slices read that has an LL twin is dumped exactly once,
\* unless the limit cut the dump short; then part of them are, none twice.
THEOREM DumpHoldsImaged == Spec => []DumpIsWhatIsImaged
<1>1. DumpInv => DumpIsWhatIsImaged
  <2> DEFINE n == Len(groups)
             dumped == {<<groups[k][1], groups[k][2], groups[k][3], groups[k][5]>> :
                          k \in DOMAIN groups}
  <2> SUFFICES ASSUME DumpInv, step = "done"
               PROVE  /\ dumped \subseteq WantedOf /\ Cardinality(dumped) = n
                      /\ ~capped => dumped = WantedOf
                      /\ n <= Limit /\ (capped => n = Limit)
                      /\ result = 0 => groups # <<>>
    BY DEF DumpIsWhatIsImaged, WantedOf
  <2>0. Made = All
    BY MadeOutside DEF InSlice, InRecord
  <2>1. groups \in Seq(All) /\ (\A i, j \in 1..n : groups[i] = groups[j] => i = j)
    BY <2>0 DEF DumpInv, CollectInv, Parts
  <2>2. n \in Nat /\ DOMAIN groups = 1..n /\ \A k \in 1..n : groups[k] \in All
    BY <2>1
  <2> DEFINE h == [k \in 1..n |-> SampleOf(groups[k])]
  <2>3. \A x : x \in dumped <=> \E k \in 1..n : x = h[k]
    BY <2>2 DEF SampleOf
  <2>4. \A k \in 1..n : h[k] = SampleOf(groups[k])
    OBVIOUS
  <2>5. DOMAIN h = 1..n /\ h = [k \in 1..n |-> h[k]]
    OBVIOUS
  <2> HIDE DEF dumped, h, n
  <2>6. \A i, j \in 1..n : h[i] = h[j] => i = j
    BY <2>1, <2>2, <2>4, MadeIsWanted
  <2>7. Cardinality(dumped) = n
    <3>1. h \in [1..n -> dumped]
      BY <2>3, <2>5
    <3>2. h \in Bijection(1..n, dumped)
      BY <2>3, <2>6, <3>1 DEF Bijection, Injection, Surjection, IsInjective
    <3> QED
      BY <2>2, <3>2, FS_CountingElements DEF ExistsBijection
  <2>8. dumped \subseteq WantedOf
    BY <2>2, <2>3, <2>4, MadeIsWanted
  <2>9. ASSUME ~capped PROVE dumped = WantedOf
    <3>1. \A x \in All : \E k \in 1..n : groups[k] = x
      BY <2>0, <2>9 DEF DumpInv, CollectInv, Lists, n
    <3>2. ASSUME NEW x \in WantedOf PROVE x \in dumped
      <4>1. PICK y \in All : SampleOf(y) = x
        BY WantedIsMade
      <4>2. PICK k \in 1..n : groups[k] = y
        BY <3>1
      <4> QED
        BY <2>3, <2>4, <4>1, <4>2
    <3> QED
      BY <2>8, <3>2
  <2>10. result = 0 => groups # <<>>
    BY DEF DumpInv, CollectInv
  <2>11. n <= Limit /\ (capped => n = Limit)
    BY DEF DumpInv, LimitInv, n
  <2> QED
    BY <2>7, <2>8, <2>9, <2>10, <2>11 DEF n
<1> QED
  BY <1>1, DumpInvariant, PTL
=============================================================================
