----------------------------- MODULE ClipProofs -----------------------------
(***************************************************************************)
(* Proofs about the two users of the robust statistics.                    *)
(*                                                                         *)
(* global_clip_samples: for every bag length, every set of amplitudes and  *)
(* every threshold, the in-place compaction keeps the two bags aligned,    *)
(* leaves earlier slices alone, puts each survivor at its rank and returns *)
(* the bag without its outliers.                                           *)
(*                                                                         *)
(* make_bandpass: for any number of records and channels, any burst track  *)
(* and any pattern of unusable samples, what it leaves in abp and off_src. *)
(* Its inductive invariant says, phase by phase, which channels have their *)
(* final value and what the others still hold.                             *)
(***************************************************************************)
EXTENDS GlobalClip, Bandpass, RobustStatsProofs, SequenceTheorems

-----------------------------------------------------------------------------
(* The clip *)

IInv == TypeOK /\ Aligned /\ PrefixKept /\ UnreadIntact /\ Compacted

\* The survivors counted by Rank(j).
Upto(j) == {k \in (begin + 1)..j : k \notin drop}

-----------------------------------------------------------------------------
(* Facts about arrays and ranks *)

\* The other arrays, and with them the bags, are as long as dirty.c.
LEMMA SizeIs ==
  ASSUME IInv
  PROVE  /\ Size = Len(dirty) /\ Size \in Nat
         /\ \A x \in Beside : beside[x] \in Seq(1..MaxLen) /\ Len(beside[x]) = Len(dirty)
         /\ Len(beside["psf.u"]) = Len(dirty)
<1>1. "dirty.u" \in Beside /\ "psf.u" \in Beside
  BY DEF Beside
<1>2. dirty \in Seq(Sample) /\ beside \in [Beside -> Seq(1..MaxLen)]
  BY DEF IInv, TypeOK
<1>3. \A x \in Beside : Len(beside[x]) = Len(dirty)
  BY DEF IInv, Aligned
<1> QED
  BY <1>1, <1>2, <1>3 DEF Size

\* A rank is the start of the scope plus a natural number.
LEMMA RankType ==
  ASSUME begin \in Nat, NEW j \in Nat
  PROVE  /\ IsFiniteSet(Upto(j))
         /\ Cardinality(Upto(j)) \in Nat
         /\ Rank(j) = begin + Cardinality(Upto(j))
         /\ Rank(j) \in Nat
         /\ begin <= Rank(j)
<1>1. IsFiniteSet((begin + 1)..j)
  BY FS_Interval
<1>2. Upto(j) \in SUBSET ((begin + 1)..j)
  BY DEF Upto
<1>3. IsFiniteSet(Upto(j))
  BY <1>1, <1>2, FS_Subset
<1>4. Cardinality(Upto(j)) \in Nat
  BY <1>3, FS_CardinalityType
<1>5. Rank(j) = begin + Cardinality(Upto(j))
  BY DEF Rank, Upto
<1> QED
  BY <1>3, <1>4, <1>5

\* One more sample examined adds one to the rank exactly if it survives.
LEMMA RankStep ==
  ASSUME begin \in Nat, NEW j \in Nat, begin <= j
  PROVE  Rank(j + 1) = IF j + 1 \in drop THEN Rank(j) ELSE Rank(j) + 1
<1>1. CASE j + 1 \in drop
  <2>1. Upto(j + 1) = Upto(j)
    BY <1>1 DEF Upto
  <2> QED
    BY <1>1, <2>1, RankType
<1>2. CASE j + 1 \notin drop
  <2>1. Upto(j + 1) = Upto(j) \cup {j + 1}
    BY <1>2 DEF Upto
  <2>2. j + 1 \notin Upto(j)
    BY DEF Upto
  <2>3. Cardinality(Upto(j + 1)) = Cardinality(Upto(j)) + 1
    BY <2>1, <2>2, RankType, FS_AddElement
  <2> QED
    BY <1>2, <2>3, RankType
<1> QED
  BY <1>1, <1>2

\* Ranks grow with the index.
LEMMA RankMonotone ==
  ASSUME begin \in Nat, NEW i \in Nat, NEW j \in Nat, i <= j
  PROVE  Rank(i) <= Rank(j)
<1>1. Upto(i) \in SUBSET Upto(j)
  BY DEF Upto
<1>2. Cardinality(Upto(i)) <= Cardinality(Upto(j))
  BY <1>1, RankType, FS_Subset
<1> QED
  BY <1>2, RankType

\* A survivor's rank lies inside the part of the bag already compacted.
LEMMA RankOfSurvivor ==
  ASSUME begin \in Nat, NEW j \in Nat, NEW m \in Nat,
         begin < j, j <= m, j \notin drop
  PROVE  Rank(j) \in 1..Rank(m)
<1>1. j - 1 \in Nat /\ begin <= j - 1 /\ (j - 1) + 1 = j
  OBVIOUS
<1>2. Rank(j) = Rank(j - 1) + 1
  BY <1>1, RankStep
<1>3. Rank(j - 1) \in Nat /\ Rank(j) \in Nat /\ Rank(m) \in Nat
  BY <1>1, RankType
<1> QED
  BY <1>2, <1>3, RankMonotone

\* The scope is empty before its first sample.
LEMMA RankBegin ==
  ASSUME begin \in Nat
  PROVE  Rank(begin) = begin
<1>1. Upto(begin) = {}
  BY DEF Upto
<1> QED
  BY <1>1, RankType, FS_EmptySet

-----------------------------------------------------------------------------
(* The inductive invariant *)

\* The caller passes aligned bags and a scope inside them.
LEMMA InitInv == Init => IInv
<1> SUFFICES ASSUME Init PROVE IInv
  OBVIOUS
<1> USE ClipAssumption
<1>1. PICK n \in 0..MaxLen, a \in [1..MaxLen -> Amps], b \in 0..MaxLen :
        /\ b <= n
        /\ dirty = [k \in 1..n |-> [id |-> k, amp |-> a[k]]]
        /\ beside = [x \in Beside |-> [k \in 1..n |-> k]]
        /\ begin = b
  BY DEF Init
<1>2. /\ dirty \in Seq(Sample) /\ Len(dirty) = n
      /\ [k \in 1..n |-> k] \in Seq(1..MaxLen) /\ Len([k \in 1..n |-> k]) = n
      /\ beside \in [Beside -> Seq(1..MaxLen)]
  BY <1>1 DEF Sample
<1>3. src = begin /\ keep = begin /\ flagged = 0 /\ drop = {} /\ given = dirty
      /\ pc = "entry" /\ begin \in Nat /\ begin <= n
  BY <1>1 DEF Init
<1>4. TypeOK
  BY <1>2, <1>3 DEF TypeOK
<1>5. Aligned
  BY <1>1, <1>2 DEF Aligned
<1>6. PrefixKept /\ UnreadIntact
  BY <1>2, <1>3 DEF PrefixKept, UnreadIntact
<1>7. Compacted
  BY <1>3, RankBegin DEF Compacted
<1> QED
  BY <1>4, <1>5, <1>6, <1>7 DEF IInv

\* Return leaves every variable the invariant reads alone but pc.
LEMMA ReturnInv == IInv /\ Return => IInv'
<1> SUFFICES ASSUME IInv, Return PROVE IInv'
  OBVIOUS
<1>1. Rank(src)' = Rank(src) /\ \A j \in Nat : Rank(j)' = Rank(j)
  BY DEF Return, Rank
<1>2. TypeOK' /\ Aligned' /\ PrefixKept' /\ UnreadIntact'
  BY DEF IInv, Return, TypeOK, Aligned, PrefixKept, UnreadIntact
<1>3. Compacted'
  BY <1>1 DEF IInv, TypeOK, Return, Compacted
<1> QED
  BY <1>2, <1>3 DEF IInv

\* Taking the statistics moves nothing and flags only samples of the scope.
LEMMA TakeStatsInv == IInv /\ TakeStats => IInv'
<1> SUFFICES ASSUME IInv, TakeStats PROVE IInv'
  OBVIOUS
<1>1. drop' \subseteq Nat
  <2>1. drop' \subseteq (begin + 1)..Len(dirty)
    BY SizeIs DEF TakeStats, Outliers, Amplitude
  <2>2. begin \in Nat /\ Len(dirty) \in Nat
    BY DEF IInv, TypeOK
  <2> QED
    BY <2>1, <2>2
<1>2. TypeOK' /\ Aligned' /\ PrefixKept' /\ UnreadIntact'
  BY <1>1 DEF IInv, TakeStats, TypeOK, Aligned, PrefixKept, UnreadIntact
<1>3. src = begin /\ keep = begin /\ flagged = 0
  <2>1. src = begin
    BY DEF IInv, TakeStats, UnreadIntact
  <2>2. keep = begin /\ flagged = 0
    BY <2>1, RankBegin DEF IInv, TypeOK, Compacted
  <2> QED
    BY <2>1, <2>2
<1>4. Rank(begin)' = begin
  <2>1. Rank(begin)' = begin + Cardinality({k \in (begin + 1)..begin : k \notin drop'})
    BY DEF TakeStats, Rank
  <2>2. {k \in (begin + 1)..begin : k \notin drop'} = {}
    BY DEF IInv, TypeOK
  <2>3. Cardinality({k \in (begin + 1)..begin : k \notin drop'}) = 0
    BY <2>2, FS_EmptySet
  <2> QED
    BY <2>1, <2>3 DEF IInv, TypeOK
<1>5. Compacted'
  BY <1>3, <1>4 DEF IInv, TypeOK, TakeStats, Compacted
<1> QED
  BY <1>2, <1>5 DEF IInv

\* Skipping an outlier leaves both bags and the place of the next survivor.
LEMMA FlagInv == IInv /\ Flag => IInv'
<1> SUFFICES ASSUME IInv, Flag PROVE IInv'
  OBVIOUS
<1> USE DEF Flag, Skip
<1>1. TypeOK' /\ Aligned' /\ PrefixKept'
  BY DEF IInv, TypeOK, Aligned, PrefixKept
<1>2. UnreadIntact'
  BY SizeIs DEF IInv, TypeOK, UnreadIntact
<1>3. \A j : Rank(j)' = Rank(j)
  BY DEF Rank
<1>4. Rank(src + 1) = Rank(src)
  BY RankStep DEF IInv, TypeOK, UnreadIntact
<1>5. ASSUME NEW j \in (begin + 1)..(src + 1), j \notin drop
      PROVE  dirty[Rank(j)] = given[j]
  <2>1. j \in (begin + 1)..src
    BY <1>5 DEF IInv, TypeOK
  <2> QED
    BY <1>5, <2>1 DEF IInv, Compacted
<1>6. keep' = Rank(src + 1) /\ flagged' = src' - keep'
  BY <1>4 DEF IInv, TypeOK, Compacted
<1>7. Compacted'
  BY <1>3, <1>5, <1>6 DEF Compacted
<1> QED
  BY <1>1, <1>2, <1>7 DEF IInv

\* Moving a survivor down writes below every unread sample, in each array.
LEMMA KeepInv == IInv /\ Keep => IInv'
<1> SUFFICES ASSUME IInv, Keep PROVE IInv'
  OBVIOUS
<1> USE DEF Keep, Move
<1>1. /\ dirty \in Seq(Sample) /\ Len(dirty) \in Nat
      /\ \A x \in Beside : beside[x] \in Seq(1..MaxLen) /\ Len(beside[x]) = Len(dirty)
      /\ begin \in Nat /\ keep \in Nat /\ src \in Nat /\ flagged \in Nat
      /\ begin <= keep /\ keep <= src /\ src < Len(dirty)
      /\ Len(dirty) = Len(given)
  BY SizeIs DEF IInv, TypeOK, UnreadIntact
<1>2. keep + 1 \in 1..Len(dirty) /\ src + 1 \in 1..Len(dirty)
  BY <1>1
<1>3. dirty[src + 1] \in Sample
  BY <1>1, <1>2, ElementOfSeq
<1>4. /\ dirty' \in Seq(Sample) /\ Len(dirty') = Len(dirty)
      /\ \A k \in 1..Len(dirty) :
           dirty'[k] = IF k = keep + 1 THEN dirty[src + 1] ELSE dirty[k]
  BY <1>1, <1>2, <1>3, ExceptSeq
<1>5. ASSUME NEW x \in Beside
      PROVE  /\ beside'[x] \in Seq(1..MaxLen) /\ Len(beside'[x]) = Len(dirty)
             /\ \A k \in 1..Len(dirty) :
                  beside'[x][k] = IF k = keep + 1 THEN beside[x][src + 1] ELSE beside[x][k]
  <2> DEFINE f == beside[x]
             v == f[src + 1]
             g == [f EXCEPT ![keep + 1] = v]
  <2>1. beside'[x] = g
    OBVIOUS
  <2>2. f \in Seq(1..MaxLen) /\ Len(f) = Len(dirty)
    BY <1>1
  <2>3. v \in 1..MaxLen
    BY <1>2, <2>2, ElementOfSeq
  <2> HIDE DEF f, v
  <2>4. /\ g \in Seq(1..MaxLen) /\ Len(g) = Len(f)
        /\ \A k \in 1..Len(f) : g[k] = IF k = keep + 1 THEN v ELSE f[k]
    BY <1>2, <2>2, <2>3, ExceptSeq
  <2> QED
    BY <2>1, <2>2, <2>4 DEF f, v
<1>6. TypeOK'
  <2>1. beside' = [x \in Beside |-> beside'[x]]
    OBVIOUS
  <2>2. beside' \in [Beside -> Seq(1..MaxLen)]
    BY <1>5, <2>1
  <2> QED
    BY <1>1, <1>4, <2>2 DEF IInv, TypeOK
<1>7. Aligned'
  <2> SUFFICES ASSUME NEW x \in Beside
               PROVE  /\ Len(beside'[x]) = Len(dirty')
                      /\ \A k \in 1..Len(dirty') : beside'[x][k] = dirty'[k].id
    BY DEF Aligned
  <2>1. \A k \in 1..Len(dirty) : beside[x][k] = dirty[k].id
    BY DEF IInv, Aligned
  <2>2. /\ Len(beside'[x]) = Len(dirty)
        /\ \A k \in 1..Len(dirty) :
             beside'[x][k] = IF k = keep + 1 THEN beside[x][src + 1] ELSE beside[x][k]
    BY <1>5
  <2> QED
    BY <1>2, <1>4, <2>1, <2>2
<1>8. PrefixKept'
  BY <1>1, <1>4 DEF IInv, PrefixKept
<1>9. UnreadIntact'
  BY <1>1, <1>4 DEF IInv, UnreadIntact
<1>10. \A j : Rank(j)' = Rank(j)
  BY DEF Rank
<1>11. keep + 1 = Rank(src + 1)
  BY <1>1, RankStep DEF IInv, Compacted
<1>12. ASSUME NEW j \in (begin + 1)..(src + 1), j \notin drop
       PROVE  dirty'[Rank(j)] = given[j]
  <2>1. CASE j = src + 1
    BY <1>1, <1>2, <1>4, <1>11, <2>1 DEF IInv, UnreadIntact
  <2>2. CASE j # src + 1
    <3>1. j \in Nat /\ begin < j /\ j <= src
      BY <1>1, <2>2
    <3>2. Rank(j) \in 1..keep
      BY <1>1, <1>12, <3>1, RankOfSurvivor DEF IInv, Compacted
    <3>3. dirty[Rank(j)] = given[j]
      BY <1>12, <3>1 DEF IInv, TypeOK, Compacted
    <3> QED
      BY <1>1, <1>4, <3>2, <3>3
  <2> QED
    BY <2>1, <2>2
<1>13. Compacted'
  BY <1>1, <1>10, <1>11, <1>12 DEF IInv, Compacted
<1> QED
  BY <1>6, <1>7, <1>8, <1>9, <1>13 DEF IInv

\* A prefix of a sequence is a sequence over the same set.
LEMMA PrefixSeq ==
  ASSUME NEW S, NEW s \in Seq(S), NEW n \in Nat, n <= Len(s)
  PROVE  /\ SubSeq(s, 1, n) \in Seq(S)
         /\ Len(SubSeq(s, 1, n)) = n
         /\ \A k \in 1..n : SubSeq(s, 1, n)[k] = s[k]
<1>1. \A k \in 1..n : s[k] \in S
  BY ElementOfSeq
<1> QED
  BY <1>1, SubSeqProperties

\* Cutting the arrays to keep leaves the survivors in each.
LEMMA ResizeInv == IInv /\ Resize => IInv'
<1> SUFFICES ASSUME IInv, Resize PROVE IInv'
  OBVIOUS
<1> USE DEF Resize
<1>1. /\ dirty \in Seq(Sample) /\ Len(dirty) \in Nat
      /\ \A x \in Beside : beside[x] \in Seq(1..MaxLen) /\ Len(beside[x]) = Len(dirty)
      /\ begin \in Nat /\ keep \in Nat /\ src \in Nat
      /\ begin <= keep /\ keep <= src /\ src = Len(dirty)
      /\ Len(dirty) = Len(given)
  BY SizeIs DEF IInv, TypeOK, UnreadIntact
<1>2. /\ dirty' \in Seq(Sample) /\ Len(dirty') = keep
      /\ \A k \in 1..keep : dirty'[k] = dirty[k]
  BY <1>1, PrefixSeq
<1>3. ASSUME NEW x \in Beside
      PROVE  /\ beside'[x] \in Seq(1..MaxLen) /\ Len(beside'[x]) = keep
             /\ \A k \in 1..keep : beside'[x][k] = beside[x][k]
  <2> DEFINE s == beside[x]
  <2>1. beside'[x] = SubSeq(s, 1, keep)
    OBVIOUS
  <2>2. s \in Seq(1..MaxLen) /\ keep \in Nat /\ keep <= Len(s)
    BY <1>1
  <2> HIDE DEF s
  <2>3. /\ SubSeq(s, 1, keep) \in Seq(1..MaxLen)
        /\ Len(SubSeq(s, 1, keep)) = keep
        /\ \A k \in 1..keep : SubSeq(s, 1, keep)[k] = s[k]
    BY <2>2, PrefixSeq
  <2> QED
    BY <2>1, <2>3 DEF s
<1>4. TypeOK'
  <2>1. beside' = [x \in Beside |-> beside'[x]]
    OBVIOUS
  <2>2. beside' \in [Beside -> Seq(1..MaxLen)]
    BY <1>3, <2>1
  <2> QED
    BY <1>2, <2>2 DEF IInv, TypeOK
<1>5. Aligned'
  BY <1>1, <1>2, <1>3 DEF IInv, Aligned
<1>6. PrefixKept'
  BY <1>1, <1>2 DEF IInv, PrefixKept
<1>7. UnreadIntact'
  BY <1>1, <1>2 DEF UnreadIntact
<1>8. \A j : Rank(j)' = Rank(j)
  BY DEF Rank
<1>9. ASSUME NEW j \in (begin + 1)..src, j \notin drop
      PROVE  dirty'[Rank(j)] = given[j]
  <2>1. Rank(j) \in 1..keep
    BY <1>1, <1>9, RankOfSurvivor DEF IInv, Compacted
  <2> QED
    BY <1>1, <1>2, <1>9, <2>1 DEF IInv, Compacted
<1>10. Compacted'
  BY <1>8, <1>9 DEF IInv, Compacted
<1> QED
  BY <1>4, <1>5, <1>6, <1>7, <1>10 DEF IInv

\* Stuttering preserves the invariant.
LEMMA StutterInv == IInv /\ UNCHANGED vars => IInv'
  BY DEF IInv, vars, TypeOK, Aligned, PrefixKept, UnreadIntact, Compacted,
         Rank

\* Each step of global_clip_samples preserves the inductive invariant.
THEOREM ClipInvariant == Spec => []IInv
<1>1. IInv /\ [Next]_vars => IInv'
  BY ReturnInv, TakeStatsInv, FlagInv, KeepInv, ResizeInv, StutterInv DEF Next
<1> QED
  BY InitInv, <1>1, PTL DEF Spec

-----------------------------------------------------------------------------
(* What the function returns *)

\* The outliers of the scope the caller passed.
GivenOut ==
  Outliers([k \in (begin + 1)..Len(given) |-> given[k].amp], Thresh)

\* Before the loop nothing is dropped yet; in it, what is dropped was decided
\* from the bag as it was passed.
DropFixed ==
  /\ pc = "entry" => dirty = given /\ flagged = 0
  /\ pc = "loop" => begin < Len(given) /\ drop = GivenOut

ReturnInv2 == DropFixed /\ ReturnsClipped

\* Indices the clip keeps, by rank: those before the scope at their own place,
\* the survivors where the loop has put them.
LEMMA KeptByRank ==
  ASSUME begin \in Nat, NEW n \in Nat, begin <= n,
         drop \subseteq (begin + 1)..n
  PROVE  LET S == (1..n) \ drop
         IN  /\ S \in SUBSET (1..n)
             /\ Cardinality(S) = Rank(n)
             /\ \A k \in S : Cardinality(UpTo(S, k)) = IF k <= begin THEN k ELSE Rank(k)
<1> DEFINE S == (1..n) \ drop
<1>1. S \in SUBSET (1..n)
  OBVIOUS
<1>2. ASSUME NEW k \in begin..n
      PROVE  Cardinality(UpTo(S, k)) = Rank(k)
  <2>1. UpTo(S, k) = (1..begin) \cup Upto(k)
    <3>1. \A i \in S : i <= k => i \in 1..begin \/ i \in Upto(k)
      BY DEF Upto
    <3>2. \A i \in 1..begin : i \in S /\ i <= k
      OBVIOUS
    <3>3. \A i \in Upto(k) : i \in S /\ i <= k
      BY DEF Upto
    <3> QED
      BY <3>1, <3>2, <3>3, Zenon DEF UpTo
  <2>2. (1..begin) \cap Upto(k) = {}
    BY DEF Upto
  <2>3. /\ IsFiniteSet(1..begin) /\ Cardinality(1..begin) = begin
        /\ IsFiniteSet(Upto(k)) /\ Cardinality(Upto(k)) \in Nat
        /\ Rank(k) = begin + Cardinality(Upto(k))
    BY FS_Interval, RankType
  <2>4. Cardinality((1..begin) \cap Upto(k)) = 0
    BY <2>2, FS_EmptySet
  <2>5. Cardinality((1..begin) \cup Upto(k))
          = Cardinality(1..begin) + Cardinality(Upto(k))
              - Cardinality((1..begin) \cap Upto(k))
    BY <2>3, FS_Union
  <2>6. Cardinality((1..begin) \cup Upto(k)) = Rank(k)
    BY <2>3, <2>4, <2>5
  <2> QED
    BY <2>1, <2>6, Zenon
<1>3. UpTo(S, n) = S
  BY DEF UpTo
<1>4. ASSUME NEW k \in S
      PROVE  Cardinality(UpTo(S, k)) = IF k <= begin THEN k ELSE Rank(k)
  <2>1. CASE k <= begin
    <3>1. UpTo(S, k) = 1..k
      <4>1. \A i \in S : i <= k => i \in 1..k
        OBVIOUS
      <4>2. \A i \in 1..k : i \in S /\ i <= k
        BY <2>1
      <4> QED
        BY <4>1, <4>2, Zenon DEF UpTo
    <3> QED
      BY <2>1, <3>1, FS_Interval
  <2>2. CASE ~(k <= begin)
    BY <1>2, <2>2
  <2> QED
    BY <2>1, <2>2
<1>5. Cardinality(S) = Rank(n)
  <2>1. n \in begin..n
    OBVIOUS
  <2> QED
    BY <1>2, <1>3, <2>1
<1> QED
  BY <1>1, <1>4, <1>5

\* A bag with nothing dropped is listed as it is.
LEMMA NothingDropped ==
  ASSUME NEW s \in Seq(Sample)
  PROVE  LET kept == InOrder((1..Len(s)) \ {})
         IN  s = [j \in 1..Len(kept) |-> s[kept[j]]]
<1> DEFINE n == Len(s)
           S == (1..n) \ {}
           kept == InOrder(S)
<1>1. n \in Nat /\ S = 1..n /\ s = [j \in 1..n |-> s[j]]
  BY LenProperties
<1>2. Len(kept) = n
  <2>1. 1 \in Int /\ n \in Int /\ S \in SUBSET (1..n) /\ Cardinality(S) = n
    BY <1>1, FS_Interval
  <2> QED
    BY <2>1, InOrderType, Zenon
<1>3. \A j \in 1..n : kept[j] = j
  BY <1>1, InOrderPrefix
<1> QED
  BY <1>1, <1>2, <1>3

\* An early return gives back the bag it was given: there are no outliers to
\* drop.
LEMMA ReturnClips ==
  ASSUME IInv, DropFixed, Return
  PROVE  ReturnInv2'
<1> USE ClipAssumption
<1>1. /\ pc = "entry" /\ pc' = "done" /\ dirty = given /\ flagged = 0
      /\ UNCHANGED <<dirty, begin, flagged, drop, given>>
  BY DEF Return, DropFixed
<1>2. given \in Seq(Sample) /\ Len(given) \in Nat /\ begin \in Nat
      /\ Size = Len(given) /\ Len(beside["psf.u"]) = Len(given)
  BY <1>1, SizeIs, LenProperties DEF IInv, TypeOK
<1>3. begin < Len(given) => GivenOut = {}
  <2> SUFFICES ASSUME begin < Len(given) PROVE GivenOut = {}
    OBVIOUS
  <2> DEFINE I == (begin + 1)..Len(given)
             amp == [k \in I |-> given[k].amp]
  <2>1. amp \in [I -> Nat] /\ IsFiniteSet(I) /\ I # {}
    <3>1. \A k \in I : given[k] \in Sample
      BY <1>2, ElementOfSeq
    <3>2. \A k \in I : given[k].amp \in Nat
      BY <3>1 DEF Sample
    <3>3. IsFiniteSet(I)
      BY <1>2, FS_Interval
    <3>4. begin + 1 \in I
      BY <1>2
    <3> QED
      BY <3>2, <3>3, <3>4
  <2>2. Mad4(amp) \in Nat
    <3> HIDE DEF amp, I
    <3> QED
      BY <2>1, Mad4Type
  <2>3. ~(Mad4(amp) > 0)
    BY <1>1, <1>2 DEF Return, Clippable, Amplitude
  <2>4. Median2(Dev2(amp)) <= 0
    BY <2>2, <2>3 DEF Mad4
  <2> QED
    BY <2>4, Zenon DEF GivenOut, Outliers
<1>4. given = Clipped(given, begin)
  BY <1>2, <1>3, NothingDropped, Zenon DEF Clipped, GivenOut
<1>5. ReturnsClipped'
  BY <1>1, <1>2, <1>4 DEF ReturnsClipped
<1>6. DropFixed'
  BY <1>1 DEF DropFixed
<1> QED
  BY <1>5, <1>6 DEF ReturnInv2

\* The bag cut to keep is the one the function promises.
LEMMA ResizeClips ==
  ASSUME IInv, DropFixed, Resize
  PROVE  ReturnInv2'
<1> DEFINE n == Len(given)
           S == (1..n) \ drop
           kept == InOrder(S)
<1>1. /\ given \in Seq(Sample) /\ dirty \in Seq(Sample) /\ n \in Nat
      /\ begin \in Nat /\ keep \in Nat /\ begin <= keep /\ keep <= n
      /\ Len(dirty) = n /\ src = n /\ begin <= n
      /\ keep = Rank(n) /\ flagged = n - keep
  BY SizeIs, LenProperties DEF IInv, TypeOK, UnreadIntact, Compacted, Resize
<1>2. drop = GivenOut /\ begin < n
  BY DEF DropFixed, Resize
<1>3. drop \subseteq (begin + 1)..n
  <2> DEFINE amp == [k \in (begin + 1)..n |-> given[k].amp]
  <2>1. drop \subseteq DOMAIN amp
    BY <1>2, OutliersSubset, Zenon DEF GivenOut
  <2> QED
    BY <2>1
<1>4. /\ S \in SUBSET (1..n) /\ Cardinality(S) = keep
      /\ \A k \in S : Cardinality(UpTo(S, k)) = IF k <= begin THEN k ELSE Rank(k)
  BY <1>1, <1>3, KeptByRank
<1>5. /\ Len(kept) = keep
      /\ \A j \in 1..keep : kept[j] \in S /\ Cardinality(UpTo(S, kept[j])) = j
  <2>1. 1 \in Int /\ n \in Int
    BY <1>1
  <2> HIDE DEF S, n
  <2>2. /\ Len(InOrder(S)) = Cardinality(S)
        /\ \A j \in 1..Cardinality(S) :
             InOrder(S)[j] \in S /\ Cardinality(UpTo(S, InOrder(S)[j])) = j
    BY <1>4, <2>1, InOrderType, Zenon
  <2> QED
    BY <1>4, <2>2
<1>6. /\ dirty' = [j \in 1..keep |-> dirty[j]] /\ Len(dirty') = keep
      /\ UNCHANGED <<begin, flagged, drop, given>>
  <2>1. dirty' \in Seq(Sample) /\ Len(dirty') = keep /\ \A j \in 1..keep : dirty'[j] = dirty[j]
    BY <1>1, PrefixSeq DEF Resize
  <2>2. dirty' = [j \in 1..keep |-> dirty'[j]]
    BY <2>1, LenProperties
  <2> QED
    BY <2>1, <2>2 DEF Resize
<1>7. ASSUME NEW j \in 1..keep
      PROVE  dirty[j] = given[kept[j]]
  <2>1. kept[j] \in S /\ Cardinality(UpTo(S, kept[j])) = j
    BY <1>5
  <2>2. j = IF kept[j] <= begin THEN kept[j] ELSE Rank(kept[j])
    BY <1>4, <2>1
  <2>3. CASE kept[j] <= begin
    <3>1. kept[j] = j /\ j \in 1..begin
      BY <1>1, <2>2, <2>3
    <3> QED
      BY <3>1 DEF IInv, PrefixKept
  <2>4. CASE ~(kept[j] <= begin)
    <3>1. kept[j] \in (begin + 1)..n /\ kept[j] \notin drop /\ Rank(kept[j]) = j
      BY <1>1, <2>1, <2>2, <2>4
    <3> QED
      BY <1>1, <3>1 DEF IInv, Compacted
  <2> QED
    BY <2>3, <2>4
<1>8. dirty' = [j \in 1..Len(kept) |-> given[kept[j]]]
  BY <1>5, <1>6, <1>7
<1>9. dirty' = Clipped(given, begin)
  BY <1>2, <1>8, Zenon DEF Clipped, GivenOut
<1>10. flagged = Len(given) - Len(dirty')
  BY <1>1, <1>6
<1>11. ReturnsClipped'
  BY <1>6, <1>9, <1>10 DEF ReturnsClipped
<1>12. DropFixed'
  BY DEF DropFixed, Resize
<1> QED
  BY <1>11, <1>12 DEF ReturnInv2

\* The decision what to drop is made once, from the bag as it was passed, and
\* the loop does not touch it.
LEMMA LoopClips ==
  ASSUME IInv, DropFixed, TakeStats \/ Flag \/ Keep
  PROVE  ReturnInv2'
<1>1. pc' = "loop" /\ UNCHANGED <<begin, given>>
  BY DEF TakeStats, Flag, Skip, Keep, Move
<1>2. begin < Len(given) /\ drop' = GivenOut
  BY SizeIs DEF TakeStats, Flag, Skip, Keep, Move, Clippable, DropFixed, Amplitude, GivenOut
<1>3. DropFixed'
  BY <1>1, <1>2 DEF DropFixed, GivenOut
<1> QED
  BY <1>1, <1>3 DEF ReturnInv2, ReturnsClipped

-----------------------------------------------------------------------------
(* The properties the runs check *)

\* The arrays hold samples of the bags that were passed, whatever is clipped.
THEOREM ClipTypes == Spec => []TypeOK
<1>1. IInv => TypeOK
  BY DEF IInv
<1> QED
  BY <1>1, ClipInvariant, PTL

\* global_clip_samples keeps the eight arrays of the dirty and psf bags aligned at
\* every step, for every bag, scope and threshold.
THEOREM ClipAligned == Spec => []Aligned
<1>1. IInv => Aligned
  BY DEF IInv
<1> QED
  BY <1>1, ClipInvariant, PTL

\* A clip never alters the samples gathered from earlier slices.
THEOREM ClipPrefix == Spec => []PrefixKept
<1>1. IInv => PrefixKept
  BY DEF IInv
<1> QED
  BY <1>1, ClipInvariant, PTL

\* The compaction keeps exactly the survivors, each at its rank.
THEOREM ClipCompacts == Spec => []Compacted
<1>1. IInv => Compacted
  BY DEF IInv
<1> QED
  BY <1>1, ClipInvariant, PTL

\* global_clip_samples returns the prefix it was given followed by the samples
\* of the scope that are no outliers, in their order, and counts the others:
\* for every bag and scope, the early returns included.
THEOREM ClipReturnsClipped == Spec => []ReturnsClipped
<1>1. Init => ReturnInv2
  BY DEF Init, ReturnInv2, DropFixed, ReturnsClipped
<1>2. IInv /\ ReturnInv2 /\ [Next]_vars => ReturnInv2'
  <2>1. UNCHANGED vars /\ ReturnInv2 => ReturnInv2'
    BY DEF vars, ReturnInv2, DropFixed, ReturnsClipped, GivenOut, Clipped
  <2> QED
    BY <2>1, ReturnClips, ResizeClips, LoopClips DEF Next, ReturnInv2
<1>3. ReturnInv2 => ReturnsClipped
  BY DEF ReturnInv2
<1> QED
  BY <1>1, <1>2, <1>3, ClipInvariant, PTL DEF Spec

-----------------------------------------------------------------------------
(* The bandpass *)

\* Amplitude of a channel after the mean: its own if it was measured, else the
\* flag.
Raw(k) == IF OffSource(k) # {} THEN level[k] ELSE -1

\* Measured channels with a positive amplitude, and those at or below k.
Positive == {k \in Measured : level[k] > 0}
Below(k) == {j \in Measured : j <= k}

\* Amplitude of a channel after the fill.
Filled(k) ==
  IF Below(k) # {} THEN level[CHOOSE j \in Below(k) : \A q \in Below(k) : q <= j]
                   ELSE level[Least(Positive)]

\* The slice's data.
DataOK ==
  /\ do_band \in BOOLEAN /\ do_base \in BOOLEAN
  /\ level \in [Chans -> Levels] /\ track \in [Recs -> (0..NChan) \X (0..NChan)]

\* Phases the switches and the channel loops allow.
PhaseInv ==
  /\ phase = "mean" => (do_band \/ do_base) /\ chan \in Chans
  /\ phase \in {"carry", "fill"} => do_band
  /\ phase = "fill" => chan \in 1..NChan /\ \A k \in 0..(chan - 1) : abp[k] \in Nat
  /\ phase # "done" => norm2 = 0

\* The records to subtract: found so far, then all, then kept or dropped.
BaseInv ==
  /\ phase = "begin" => off_src = Nothing
  /\ phase = "mean" => \A k \in Chans : off_src[k] = IF k < chan THEN OffSource(k) ELSE {}
  /\ phase \in {"carry", "fill"} => \A k \in Chans : off_src[k] = OffSource(k)
  /\ phase = "done" /\ do_base => \A k \in Chans : off_src[k] = OffSource(k)
  /\ phase = "done" /\ ~do_base => off_src = Nothing

\* The amplitudes: raw up to the channel the mean is at, filled up to the one
\* the fill is at; the fill starts from a channel that has one.
BandInv ==
  /\ phase = "mean" => \A k \in Chans : abp[k] = IF k < chan THEN Raw(k) ELSE 1
  /\ phase = "carry" => \A k \in Chans : abp[k] = Raw(k)
  /\ phase = "fill" =>
       /\ 0 \in Measured \/ Positive # {}
       /\ \A k \in Chans : abp[k] = IF k < chan THEN Filled(k) ELSE Raw(k)
  /\ phase = "done" /\ do_band =>
       IF 0 \notin Measured /\ Positive = {} THEN abp = Nominal
       ELSE \A k \in Chans : abp[k] = Filled(k)
  /\ phase = "done" /\ ~do_band => abp = Nominal /\ norm2 = 0

PassInv == BandTypeOK /\ DataOK /\ PhaseInv /\ BaseInv /\ BandInv

-----------------------------------------------------------------------------
(* Facts about the amplitudes *)

\* Amplitudes are numbers, the flag is the one below zero.
LEMMA Amplitudes ==
  ASSUME DataOK, NEW k \in Chans
  PROVE  /\ level[k] \in Nat /\ Raw(k) \in Nat \cup {-1}
         /\ k \in Measured => Raw(k) = level[k]
         /\ k \notin Measured => Raw(k) = -1
         /\ OffSource(k) \in SUBSET Recs
<1>1. level[k] \in Levels
  BY DEF DataOK
<1>2. level[k] \in Nat
  BY <1>1, BandpassAssumption
<1>3. OffSource(k) \in SUBSET Recs
  BY DEF OffSource
<1> QED
  BY <1>2, <1>3 DEF Raw, Measured

\* A nonempty set of channels has a least one.
LEMMA LeastIs ==
  ASSUME NEW S \in SUBSET Chans, S # {}
  PROVE  Least(S) \in S
<1> USE BandpassAssumption
<1> DEFINE n == NChan - 1
<1>1. 0 \in Int /\ n \in Int /\ S \in SUBSET (0..n)
  BY DEF Chans
<1> HIDE DEF n
<1>2. Cardinality(S) \in Nat /\ Cardinality(S) # 0
  <2>1. IsFiniteSet(S)
    BY <1>1, FS_Interval, FS_Subset
  <2> QED
    BY <2>1, FS_CardinalityType, FS_EmptySet
<1>3. 1 \in 1..Cardinality(S)
  BY <1>2
<1>4. \E k \in S : Cardinality(UpTo(S, k)) = 1
  <2>1. \A j \in 1..Cardinality(S) :
          InOrder(S)[j] \in S /\ Cardinality(UpTo(S, InOrder(S)[j])) = j
    BY <1>1, InOrderType, Zenon
  <2> QED
    BY <1>3, <2>1
<1>5. PICK k \in S : Cardinality(UpTo(S, k)) = 1
  BY <1>4
<1>6. ASSUME NEW j \in S, ~(k <= j) PROVE FALSE
  <2>1. j < k
    BY <1>1, <1>6
  <2>2. Cardinality(UpTo(S, j)) < Cardinality(UpTo(S, k))
    BY <1>1, <2>1, RankGrows
  <2>3. Cardinality(UpTo(S, j)) \in 1..Cardinality(S)
    BY <1>1, InOrderAt, Zenon
  <2> QED
    BY <1>2, <1>5, <2>2, <2>3
<1>7. \E l \in S : \A j \in S : l <= j
  BY <1>6
<1> QED
  BY <1>7 DEF Least

\* A measured channel keeps its amplitude; another takes that of the channel
\* below.
LEMMA FilledStep ==
  ASSUME NEW k \in Chans
  PROVE  /\ k \in Measured => Filled(k) = level[k]
         /\ k \notin Measured /\ k # 0 => Filled(k) = Filled(k - 1)
         /\ k \notin Measured /\ k = 0 => Filled(k) = level[Least(Positive)]
<1> USE BandpassAssumption
<1>1. \A j \in Measured : j \in Chans
  BY DEF Measured
<1>2. ASSUME k \in Measured PROVE Filled(k) = level[k]
  <2>1. k \in Below(k)
    BY <1>2 DEF Below, Chans
  <2>2. \A j \in Below(k) : (\A q \in Below(k) : q <= j) <=> j = k
    BY <1>1, <2>1 DEF Below, Chans
  <2>3. (CHOOSE j \in Below(k) : \A q \in Below(k) : q <= j) = k
    BY <2>1, <2>2
  <2> QED
    BY <2>1, <2>3 DEF Filled
<1>3. ASSUME k \notin Measured, k # 0 PROVE Filled(k) = Filled(k - 1)
  <2>1. Below(k) = Below(k - 1)
    BY <1>1, <1>3 DEF Below, Chans
  <2> QED
    BY <2>1 DEF Filled
<1>4. ASSUME k \notin Measured, k = 0 PROVE Below(k) = {}
  BY <1>1, <1>4 DEF Below, Chans
<1> QED
  BY <1>2, <1>3, <1>4 DEF Filled

\* What was measured depends on the slice's data only.
LEMMA SameData ==
  ASSUME UNCHANGED <<do_band, do_base, data>>
  PROVE  /\ DataOK => DataOK' /\ Measured' = Measured /\ Positive' = Positive
         /\ \A k : OffSource(k)' = OffSource(k) /\ Raw(k)' = Raw(k) /\ Filled(k)' = Filled(k)
<1>1. \A k : OffSource(k)' = OffSource(k)
  BY DEF data, OffSource, Span
<1>2. Measured' = Measured
  BY <1>1 DEF Measured
<1>3. Positive' = Positive
  BY <1>2 DEF data, Positive
<1>4. \A k : Raw(k)' = Raw(k)
  BY <1>1 DEF data, Raw
<1>5. \A k : Filled(k)' = Filled(k)
  <2> SUFFICES ASSUME NEW k PROVE Filled(k)' = Filled(k)
    OBVIOUS
  <2>1. Below(k)' = Below(k)
    BY <1>2 DEF Below
  <2>2. Least(Positive)' = Least(Positive)
    BY <1>3 DEF Least
  <2>3. level' = level
    BY DEF data
  <2> QED
    BY <2>1, <2>2, <2>3 DEF Filled
<1>6. DataOK => DataOK'
  BY DEF data, DataOK
<1> QED
  BY <1>1, <1>2, <1>3, <1>4, <1>5, <1>6

-----------------------------------------------------------------------------
(* The inductive invariant *)

\* At first nothing is subtracted and nothing divided by.
LEMMA BandInitInv == BandInit => PassInv
<1> SUFFICES ASSUME BandInit PROVE PassInv
  OBVIOUS
<1> USE BandpassAssumption DEF BandInit
<1>1. BandTypeOK
  BY DEF BandTypeOK, Nominal, Nothing
<1>2. DataOK
  BY DEF DataOK, Recs
<1>3. PhaseInv /\ BaseInv /\ BandInv
  BY DEF PhaseInv, BaseInv, BandInv
<1> QED
  BY <1>1, <1>2, <1>3 DEF PassInv

\* With both switches off the object is as reset; else the mean starts.
LEMMA BeginInv ==
  ASSUME PassInv, Begin
  PROVE  PassInv'
<1> USE BandpassAssumption
<1>1. /\ phase = "begin" /\ abp' = Nominal /\ off_src' = Nothing /\ norm2' = 0 /\ chan' = 0
      /\ phase' = IF do_band \/ do_base THEN "mean" ELSE "done"
      /\ UNCHANGED <<do_band, do_base, data>>
  BY DEF Begin
<1>2. BandTypeOK'
  BY <1>1 DEF BandTypeOK, Nominal, Nothing
<1>3. DataOK'
  BY <1>1, SameData DEF PassInv
<1>4. 0 \in Chans /\ \A k \in Chans : ~(k < 0)
  BY DEF Chans
<1>5. PhaseInv' /\ BaseInv' /\ BandInv'
  BY <1>1, <1>4 DEF PhaseInv, BaseInv, BandInv, Nominal, Nothing
<1> QED
  BY <1>2, <1>3, <1>5 DEF PassInv

\* The mean gives channel c its records and its raw amplitude.
LEMMA MeanInv ==
  ASSUME PassInv, Mean
  PROVE  PassInv'
<1> USE BandpassAssumption
<1> DEFINE a == [abp EXCEPT ![chan] = Raw(chan)]
<1>1. /\ phase = "mean" /\ off_src' = [off_src EXCEPT ![chan] = OffSource(chan)]
      /\ abp' = IF chan = NChan - 1 /\ ~do_band THEN Nominal ELSE a
      /\ IF chan < NChan - 1 THEN chan' = chan + 1 /\ phase' = phase
         ELSE chan' = 0 /\ phase' = IF do_band THEN "carry" ELSE "done"
      /\ UNCHANGED <<do_band, do_base, data, norm2>>
  BY DEF Mean, Raw
<1>2. chan \in Chans /\ (do_band \/ do_base) /\ norm2 = 0 /\ DataOK
  BY <1>1 DEF PassInv, PhaseInv
<1>3. /\ DataOK' /\ \A k : OffSource(k)' = OffSource(k) /\ Raw(k)' = Raw(k)
  BY <1>1, <1>2, SameData
<1>4. Raw(chan) \in Nat \cup {-1} /\ OffSource(chan) \in SUBSET Recs
  BY <1>2, Amplitudes
<1>5. /\ a \in [Chans -> Nat \cup {-1}]
      /\ \A k \in Chans : a[k] = IF k < chan + 1 THEN Raw(k) ELSE 1
  <2>1. abp \in [Chans -> Nat \cup {-1}] /\ \A k \in Chans : abp[k] = IF k < chan THEN Raw(k) ELSE 1
    BY <1>1 DEF PassInv, BandTypeOK, BandInv
  <2>2. \A k \in Chans : k < chan + 1 <=> k < chan \/ k = chan
    BY <1>2 DEF Chans
  <2> QED
    BY <1>2, <1>4, <2>1, <2>2
<1>6. /\ off_src' \in [Chans -> SUBSET Recs]
      /\ \A k \in Chans : off_src'[k] = IF k < chan + 1 THEN OffSource(k) ELSE {}
  <2>1. off_src \in [Chans -> SUBSET Recs]
        /\ \A k \in Chans : off_src[k] = IF k < chan THEN OffSource(k) ELSE {}
    BY <1>1 DEF PassInv, BandTypeOK, BaseInv
  <2>2. \A k \in Chans : k < chan + 1 <=> k < chan \/ k = chan
    BY <1>2 DEF Chans
  <2> QED
    BY <1>1, <1>2, <1>4, <2>1, <2>2
<1> HIDE DEF a
<1>7. CASE chan < NChan - 1
  <2>1. chan' = chan + 1 /\ chan' \in Chans /\ phase' = "mean" /\ abp' = a
    BY <1>1, <1>2, <1>7 DEF Chans
  <2>2. BandTypeOK'
    BY <1>1, <1>2, <1>5, <1>6, <2>1 DEF BandTypeOK, Chans
  <2>3. PhaseInv' /\ BaseInv' /\ BandInv'
    BY <1>1, <1>2, <1>3, <1>5, <1>6, <2>1 DEF PhaseInv, BaseInv, BandInv
  <2> QED
    BY <1>3, <2>2, <2>3 DEF PassInv
<1>8. CASE ~(chan < NChan - 1)
  <2>1. chan = NChan - 1 /\ chan' = 0 /\ 0 \in 0..NChan
    BY <1>1, <1>2, <1>8 DEF Chans
  <2>2. \A k \in Chans : k < chan + 1
    BY <2>1 DEF Chans
  <2>3. \A k \in Chans : a[k] = Raw(k) /\ off_src'[k] = OffSource(k)
    BY <1>5, <1>6, <2>2
  <2>4. CASE do_band
    <3>1. phase' = "carry" /\ abp' = a
      BY <1>1, <1>8, <2>4
    <3>2. BandTypeOK'
      BY <1>1, <1>2, <1>5, <1>6, <2>1, <3>1 DEF BandTypeOK
    <3>3. PhaseInv' /\ BaseInv' /\ BandInv'
      BY <1>1, <1>2, <1>3, <2>3, <2>4, <3>1 DEF PhaseInv, BaseInv, BandInv
    <3> QED
      BY <1>3, <3>2, <3>3 DEF PassInv
  <2>5. CASE ~do_band
    <3>1. phase' = "done" /\ abp' = Nominal
      BY <1>1, <1>8, <2>1, <2>5
    <3>2. BandTypeOK'
      BY <1>1, <1>2, <1>6, <2>1, <3>1 DEF BandTypeOK, Nominal
    <3>3. PhaseInv' /\ BaseInv' /\ BandInv'
      BY <1>1, <1>2, <1>3, <2>3, <2>5, <3>1 DEF PhaseInv, BaseInv, BandInv
    <3> QED
      BY <1>3, <3>2, <3>3 DEF PassInv
  <2> QED
    BY <2>4, <2>5
<1> QED
  BY <1>7, <1>8

\* Channel 0 has its amplitude before the fill starts, its own or the first
\* positive one; with none to be had the bandpass is flat.
LEMMA CarryInv ==
  ASSUME PassInv, Carry
  PROVE  PassInv'
<1> USE BandpassAssumption
<1>1. /\ phase = "carry" /\ chan' = 1 /\ do_band /\ norm2 = 0 /\ DataOK
      /\ UNCHANGED <<do_band, do_base, data, norm2>>
  BY DEF Carry, PassInv, PhaseInv
<1>2. /\ DataOK' /\ Measured' = Measured /\ Positive' = Positive
      /\ \A k : OffSource(k)' = OffSource(k) /\ Raw(k)' = Raw(k) /\ Filled(k)' = Filled(k)
  BY <1>1, SameData
<1>3. /\ abp \in [Chans -> Nat \cup {-1}] /\ off_src \in [Chans -> SUBSET Recs]
      /\ \A k \in Chans : abp[k] = Raw(k) /\ off_src[k] = OffSource(k)
  BY <1>1 DEF PassInv, BandTypeOK, BandInv, BaseInv
<1>4. /\ 0 \in Chans /\ 1 \in 1..NChan /\ 0..(1 - 1) = {0}
      /\ \A k \in Chans : k < 1 <=> k = 0
  BY DEF Chans
<1>5. \A k \in Chans : /\ level[k] \in Nat
                       /\ k \in Measured => abp[k] = level[k]
                       /\ k \notin Measured => abp[k] = -1
  BY <1>1, <1>3, Amplitudes
<1>6. /\ 0 \in Measured => Filled(0) = level[0]
      /\ 0 \notin Measured => Filled(0) = level[Least(Positive)]
  BY <1>4, FilledStep
<1>7. CASE abp[0] >= 0
  <2>1. phase' = "fill" /\ abp' = abp /\ off_src' = off_src
    BY <1>3, <1>4, <1>7 DEF Carry
  <2>2. 0 \in Measured
    BY <1>4, <1>5, <1>7
  <2>3. abp[0] \in Nat /\ abp[0] = Filled(0)
    BY <1>4, <1>5, <1>6, <2>2
  <2>4. BandTypeOK'
    BY <1>1, <1>4, <2>1, <2>3 DEF PassInv, BandTypeOK
  <2>5. PhaseInv' /\ BaseInv'
    BY <1>1, <1>2, <1>3, <1>4, <2>1, <2>3 DEF PhaseInv, BaseInv
  <2>6. BandInv'
    BY <1>1, <1>2, <1>3, <1>4, <2>1, <2>2, <2>3 DEF BandInv
  <2> QED
    BY <1>2, <2>4, <2>5, <2>6 DEF PassInv
<1>8. CASE abp[0] < 0
  <2>1. 0 \notin Measured
    BY <1>4, <1>5, <1>8
  <2>2. Carriable = Positive
    <3>1. \A k \in Chans : k \in Carriable <=> k \in Positive
      BY <1>5, <2>1 DEF Carriable, Positive
    <3>2. Carriable \subseteq Chans /\ Positive \subseteq Chans
      BY DEF Carriable, Positive, Measured
    <3> QED
      BY <3>1, <3>2
  <2>3. CASE Carriable # {}
    <3>1. /\ phase' = "fill" /\ off_src' = off_src
          /\ abp' = [abp EXCEPT ![0] = abp[Least(Carriable)]]
      BY <1>3, <1>4, <1>8, <2>3 DEF Carry
    <3>2. Least(Carriable) \in Carriable
      BY <2>3, LeastIs DEF Carriable
    <3>3. /\ Least(Carriable) \in Positive /\ Least(Carriable) = Least(Positive)
          /\ Least(Positive) \in Chans
      BY <2>2, <3>2 DEF Carriable
    <3>4. abp[Least(Carriable)] = level[Least(Positive)] /\ level[Least(Positive)] \in Nat
      BY <1>5, <3>3 DEF Positive
    <3>5. /\ abp' \in [Chans -> Nat \cup {-1}] /\ abp'[0] \in Nat /\ abp'[0] = Filled(0)
          /\ \A k \in Chans : k # 0 => abp'[k] = Raw(k)
      BY <1>3, <1>4, <1>6, <2>1, <3>1, <3>4
    <3>6. BandTypeOK'
      BY <1>1, <1>4, <3>1, <3>5 DEF PassInv, BandTypeOK
    <3>7. PhaseInv' /\ BaseInv'
      BY <1>1, <1>2, <1>3, <1>4, <3>1, <3>5 DEF PhaseInv, BaseInv
    <3>8. BandInv'
      BY <1>1, <1>2, <1>4, <2>2, <2>3, <3>1, <3>5 DEF BandInv
    <3> QED
      BY <1>2, <3>6, <3>7, <3>8 DEF PassInv
  <2>4. CASE Carriable = {}
    <3>1. /\ phase' = "done" /\ abp' = Nominal
          /\ off_src' = IF ~do_base THEN Nothing ELSE off_src
      BY <1>3, <1>4, <1>8, <2>4 DEF Carry, Leave, DropOffSource
    <3>2. off_src' \in [Chans -> SUBSET Recs]
      BY <1>3, <3>1 DEF Nothing
    <3>3. BandTypeOK'
      BY <1>1, <1>4, <3>1, <3>2 DEF PassInv, BandTypeOK, Nominal
    <3>4. PhaseInv' /\ BaseInv' /\ BandInv'
      BY <1>1, <1>2, <1>3, <2>1, <2>2, <2>4, <3>1 DEF PhaseInv, BaseInv, BandInv
    <3> QED
      BY <1>2, <3>3, <3>4 DEF PassInv
  <2> QED
    BY <2>3, <2>4
<1> QED
  BY <1>3, <1>4, <1>7, <1>8

\* The fill gives channel c its own amplitude or that of the channel below,
\* which is filled already.
LEMMA FillInv ==
  ASSUME PassInv, Fill
  PROVE  PassInv'
<1> USE BandpassAssumption
<1>1. /\ phase = "fill" /\ phase' = "fill" /\ chan < NChan /\ chan' = chan + 1
      /\ abp' = [abp EXCEPT ![chan] = IF abp[chan] < 0 THEN abp[chan - 1] ELSE abp[chan]]
      /\ UNCHANGED <<do_band, do_base, data, off_src, norm2>>
  BY DEF Fill, FillFrom
<1>2. /\ chan \in 1..NChan /\ do_band /\ norm2 = 0 /\ DataOK
      /\ \A k \in 0..(chan - 1) : abp[k] \in Nat
      /\ abp \in [Chans -> Nat \cup {-1}]
  BY <1>1 DEF PassInv, BandTypeOK, PhaseInv
<1>3. /\ DataOK' /\ Measured' = Measured /\ Positive' = Positive
      /\ \A k : OffSource(k)' = OffSource(k) /\ Raw(k)' = Raw(k) /\ Filled(k)' = Filled(k)
  BY <1>1, <1>2, SameData
<1>4. /\ 0 \in Measured \/ Positive # {}
      /\ \A k \in Chans : abp[k] = IF k < chan THEN Filled(k) ELSE Raw(k)
  BY <1>1 DEF PassInv, BandInv
<1>5. chan \in Chans /\ chan - 1 \in Chans /\ chan - 1 \in 0..(chan - 1) /\ ~(chan < chan) /\ chan - 1 < chan /\ chan # 0
  BY <1>1, <1>2 DEF Chans
<1>6. abp'[chan] \in Nat /\ abp'[chan] = Filled(chan)
  <2>1. abp[chan] = Raw(chan) /\ abp[chan - 1] = Filled(chan - 1) /\ abp[chan - 1] \in Nat
    BY <1>2, <1>4, <1>5
  <2>2. abp'[chan] = IF abp[chan] < 0 THEN abp[chan - 1] ELSE abp[chan]
    BY <1>1, <1>2, <1>5
  <2>3. CASE chan \in Measured
    <3>1. Raw(chan) = level[chan] /\ level[chan] \in Nat
      BY <1>2, <1>5, <2>3, Amplitudes
    <3>2. Filled(chan) = level[chan]
      BY <1>5, <2>3, FilledStep
    <3> QED
      BY <2>1, <2>2, <3>1, <3>2
  <2>4. CASE chan \notin Measured
    <3>1. Raw(chan) = -1
      BY <1>2, <1>5, <2>4, Amplitudes
    <3>2. Filled(chan) = Filled(chan - 1)
      BY <1>5, <2>4, FilledStep
    <3> QED
      BY <2>1, <2>2, <3>1, <3>2
  <2> QED
    BY <2>3, <2>4
<1>7. \A k \in Chans : k # chan => abp'[k] = abp[k]
  BY <1>1, <1>2
<1>8. abp' \in [Chans -> Nat \cup {-1}]
  BY <1>1, <1>2, <1>5
<1>9. /\ \A k \in 0..(chan' - 1) : k \in Chans /\ (k = chan \/ (k # chan /\ k \in 0..(chan - 1)))
      /\ \A k \in Chans : k < chan' <=> k < chan \/ k = chan
  BY <1>1, <1>2 DEF Chans
<1>10. \A k \in 0..(chan' - 1) : abp'[k] \in Nat
  BY <1>2, <1>6, <1>7, <1>9
<1>11. \A k \in Chans : abp'[k] = IF k < chan' THEN Filled(k) ELSE Raw(k)
  BY <1>4, <1>5, <1>6, <1>7, <1>9
<1>12. chan' \in 1..NChan /\ chan' \in 0..NChan /\ 0 \in 0..(chan' - 1)
  BY <1>1, <1>2
<1>13. BandTypeOK'
  BY <1>1, <1>8, <1>10, <1>12 DEF PassInv, BandTypeOK
<1>14. PhaseInv' /\ BaseInv'
  BY <1>1, <1>2, <1>3, <1>10, <1>12 DEF PassInv, PhaseInv, BaseInv
<1>15. BandInv'
  BY <1>1, <1>3, <1>4, <1>11 DEF BandInv
<1> QED
  BY <1>3, <1>13, <1>14, <1>15 DEF PassInv

\* With every channel filled, the median is taken and the switches are obeyed.
LEMMA NormaliseInv ==
  ASSUME PassInv, Normalise
  PROVE  PassInv'
<1> USE BandpassAssumption
<1>1. /\ phase = "fill" /\ phase' = "done" /\ chan = NChan
      /\ norm2' = (IF Median2(abp) > 0 THEN Median2(abp) ELSE 0)
      /\ off_src' = IF ~do_base THEN Nothing ELSE off_src
      /\ UNCHANGED <<do_band, do_base, data, chan, abp>>
  BY DEF Normalise, Leave, DropOffSource
<1>2. /\ do_band /\ DataOK /\ \A k \in 0..(chan - 1) : abp[k] \in Nat
      /\ abp \in [Chans -> Nat \cup {-1}] /\ off_src \in [Chans -> SUBSET Recs]
  BY <1>1 DEF PassInv, BandTypeOK, PhaseInv
<1>3. /\ DataOK' /\ Measured' = Measured /\ Positive' = Positive
      /\ \A k : OffSource(k)' = OffSource(k) /\ Raw(k)' = Raw(k) /\ Filled(k)' = Filled(k)
  BY <1>1, <1>2, SameData
<1>4. abp \in [Chans -> Nat] /\ \A k \in Chans : k < chan
  BY <1>1, <1>2 DEF Chans
<1>5. norm2' \in Nat
  <2>1. IsFiniteSet(Chans) /\ Chans # {}
    <3>1. 0 \in Int /\ NChan - 1 \in Int /\ Chans = 0..(NChan - 1)
      BY DEF Chans
    <3>2. 0 \in Chans
      BY DEF Chans
    <3> QED
      BY <3>1, <3>2, FS_Interval
  <2>2. Median2(abp) \in Nat
    BY <1>4, <2>1, Median2Type
  <2> QED
    BY <1>1, <2>2
<1>6. off_src' \in [Chans -> SUBSET Recs]
  BY <1>1, <1>2 DEF Nothing
<1>7. BandTypeOK'
  BY <1>1, <1>2, <1>5, <1>6 DEF PassInv, BandTypeOK
<1>8. PhaseInv' /\ BaseInv'
  BY <1>1, <1>3 DEF PassInv, PhaseInv, BaseInv
<1>9. BandInv'
  BY <1>1, <1>2, <1>3, <1>4 DEF PassInv, BandInv
<1> QED
  BY <1>3, <1>7, <1>8, <1>9 DEF PassInv

\* Every step of make_bandpass preserves the invariant.
THEOREM BandpassInvariant == BandSpec => []PassInv
<1>1. PassInv /\ [BandNext]_bandVars => PassInv'
  <2> SUFFICES ASSUME PassInv, [BandNext]_bandVars PROVE PassInv'
    OBVIOUS
  <2>1. CASE UNCHANGED bandVars
    <3>1. UNCHANGED <<do_band, do_base, data>> /\ UNCHANGED <<phase, chan, abp, off_src, norm2>>
      BY <2>1 DEF bandVars, data
    <3>2. /\ DataOK' /\ Measured' = Measured /\ Positive' = Positive
          /\ \A k : OffSource(k)' = OffSource(k) /\ Raw(k)' = Raw(k) /\ Filled(k)' = Filled(k)
      BY <3>1, SameData DEF PassInv
    <3>3. BandTypeOK' /\ PhaseInv' /\ BaseInv' /\ BandInv'
      BY <3>1, <3>2 DEF PassInv, BandTypeOK, PhaseInv, BaseInv, BandInv
    <3> QED
      BY <3>2, <3>3 DEF PassInv
  <2> QED
    BY <2>1, BeginInv, MeanInv, CarryInv, FillInv, NormaliseInv DEF BandNext
<1> QED
  BY BandInitInv, <1>1, PTL DEF BandSpec

-----------------------------------------------------------------------------
(* The properties the run checks *)

\* Types of the state; the fill starts from a channel that is not flagged.
THEOREM BandpassTypes == BandSpec => []BandTypeOK
<1>1. PassInv => BandTypeOK
  BY DEF PassInv
<1> QED
  BY <1>1, BandpassInvariant, PTL

\* Each of do_band and do_base decides its own half of the result.
THEOREM BandpassSwitches == BandSpec => []SwitchesIndependent
<1>1. PassInv => SwitchesIndependent
  BY DEF PassInv, BaseInv, BandInv, SwitchesIndependent, Ready
<1> QED
  BY <1>1, BandpassInvariant, PTL

\* Each channel is divided by its own amplitude, else by that of the nearest
\* measured channel below, else by the first positive one.
THEOREM BandpassFilled == BandSpec => []FilledFromBelow
<1>1. PassInv => FilledFromBelow
  BY DEF PassInv, BandInv, FilledFromBelow, Ready, Positive, Filled, Below
<1> QED
  BY <1>1, BandpassInvariant, PTL
=============================================================================
