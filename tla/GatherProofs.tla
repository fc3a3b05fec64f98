---------------------------- MODULE GatherProofs ----------------------------
(***************************************************************************)
(* For any number of files, records, channels, baselines and threads,      *)
(* whatever is read and however the threads interleave: the main thread    *)
(* never runs ahead of its team, and the dirty and psf bags are            *)
(* index-aligned whenever no thread is inside the critical section (the    *)
(* invariant IInv).  With what the bags hold added to it (ContentInv), no  *)
(* sample is gathered twice, no step disturbs an earlier slice, and the    *)
(* threads implement the slice-at-a-time gathering of GatherSpec.          *)
(***************************************************************************)
EXTENDS Gather, RobustStatsProofs, SequenceTheorems

\* A parallel-for runs on a selected record of a file of the list.
InWindow ==
  /\ pc \in {"slice", "record", "parallel"} => file \in 1..NFile
  /\ pc = "parallel" => Selected(file, GlobalRec) /\ r < RecPerSlice

\* Outside a parallel-for the team is idle and has nothing left to do.
TeamJoined == pc # "parallel" => todo = {} /\ \A t \in Threads : at[t] = "idle"

IInv == TypeOK /\ TeamJoined /\ Aligned /\ InWindow

-----------------------------------------------------------------------------
(* Sequences and their twins *)

\* A sequence over any set is one over the set of its own elements.
LEMMA SeqIsSeq ==
  ASSUME NEW S, NEW s \in Seq(S)
  PROVE  /\ IsSeq(s) /\ Len(s) \in Nat /\ DOMAIN s = 1..Len(s)
<1>1. s \in [1..Len(s) -> S] /\ Len(s) \in Nat /\ DOMAIN s = 1..Len(s)
  BY LenProperties
<1> DEFINE R == {s[k] : k \in DOMAIN s}
<1>2. s \in [1..Len(s) -> R]
  BY <1>1
<1>3. s \in Seq(R)
  BY <1>1, <1>2, SeqDef
<1> QED
  BY <1>1, <1>3 DEF IsSeq

\* A sequence over the set of its elements has a length, and is a function on
\* its indices.
LEMMA IsSeqFacts ==
  ASSUME NEW s, IsSeq(s)
  PROVE  Len(s) \in Nat /\ DOMAIN s = 1..Len(s)
  BY SeqIsSeq DEF IsSeq

\* Two sequences are over a common set.
LEMMA CommonSet ==
  ASSUME NEW s, NEW t, IsSeq(s), IsSeq(t)
  PROVE  \E S : s \in Seq(S) /\ t \in Seq(S)
<1> DEFINE A == {s[k] : k \in DOMAIN s}
           B == {t[k] : k \in DOMAIN t}
<1>1. s \in Seq(A) /\ t \in Seq(B)
  BY DEF IsSeq
<1>2. s \in Seq(A \cup B) /\ t \in Seq(A \cup B)
  BY <1>1, SeqMonotonic
<1> QED
  BY <1>2

\* Concatenation keeps both operands as prefix and suffix.
LEMMA ConcatIsSeq ==
  ASSUME NEW s, NEW t, IsSeq(s), IsSeq(t)
  PROVE  /\ IsSeq(s \o t)
         /\ Len(s \o t) = Len(s) + Len(t)
         /\ \A k \in 1..(Len(s) + Len(t)) :
              (s \o t)[k] = IF k <= Len(s) THEN s[k] ELSE t[k - Len(s)]
<1>1. PICK S : s \in Seq(S) /\ t \in Seq(S)
  BY CommonSet
<1>2. s \o t \in Seq(S)
  BY <1>1, ConcatProperties
<1> QED
  BY <1>1, <1>2, ConcatProperties, SeqIsSeq

\* A function on 1..n is a sequence.
LEMMA FunctionIsSeq ==
  ASSUME NEW n \in Nat, NEW f, f = [k \in 1..n |-> f[k]]
  PROVE  IsSeq(f) /\ Len(f) = n
<1> DEFINE R == {f[k] : k \in 1..n}
<1>1. f \in [1..n -> R]
  OBVIOUS
<1>2. f \in Seq(R) /\ Len(f) = n
  BY <1>1
<1> QED
  BY <1>2, SeqIsSeq

\* The twins of a sequence are one per element, in its order.
LEMMA TwinsFacts ==
  ASSUME NEW s, IsSeq(s)
  PROVE  /\ IsSeq(Twins(s)) /\ Len(Twins(s)) = Len(s)
         /\ \A k \in 1..Len(s) : Twins(s)[k] = Twin(s[k])
<1>1. Len(s) \in Nat
  BY IsSeqFacts
<1>2. Twins(s) = [k \in 1..Len(s) |-> Twin(s[k])]
  BY DEF Twins
<1> QED
  BY <1>1, <1>2, FunctionIsSeq

\* Sequences of the same length with the same elements are equal.
LEMMA SameSeq ==
  ASSUME NEW s, NEW t, IsSeq(s), IsSeq(t), Len(s) = Len(t),
         \A k \in 1..Len(s) : s[k] = t[k]
  PROVE  s = t
<1>1. PICK S : s \in Seq(S) /\ t \in Seq(S)
  BY CommonSet
<1> QED
  BY <1>1, SeqEqual

\* Appending twins is the twin of appending.
LEMMA TwinsConcat ==
  ASSUME NEW s, NEW t, IsSeq(s), IsSeq(t)
  PROVE  Twins(s \o t) = Twins(s) \o Twins(t)
<1>1. /\ Len(s) \in Nat /\ Len(t) \in Nat
      /\ IsSeq(s \o t) /\ Len(s \o t) = Len(s) + Len(t)
  BY IsSeqFacts, ConcatIsSeq
<1>2. /\ IsSeq(Twins(s \o t)) /\ Len(Twins(s \o t)) = Len(s) + Len(t)
      /\ IsSeq(Twins(s)) /\ Len(Twins(s)) = Len(s)
      /\ IsSeq(Twins(t)) /\ Len(Twins(t)) = Len(t)
  BY <1>1, TwinsFacts
<1>3. /\ IsSeq(Twins(s) \o Twins(t))
      /\ Len(Twins(s) \o Twins(t)) = Len(s) + Len(t)
  BY <1>2, ConcatIsSeq
<1>4. ASSUME NEW k \in 1..(Len(s) + Len(t))
      PROVE  Twins(s \o t)[k] = (Twins(s) \o Twins(t))[k]
  <2>1. Twins(s \o t)[k] = Twin((s \o t)[k])
    BY <1>1, TwinsFacts
  <2>2. CASE k <= Len(s)
    <3>1. k \in 1..Len(s)
      BY <1>1, <2>2
    <3>2. (s \o t)[k] = s[k] /\ (Twins(s) \o Twins(t))[k] = Twins(s)[k]
      BY <1>2, <2>2, ConcatIsSeq
    <3> QED
      BY <2>1, <3>1, <3>2, TwinsFacts
  <2>3. CASE ~(k <= Len(s))
    <3>1. k - Len(s) \in 1..Len(t)
      BY <1>1, <2>3
    <3>2. /\ (s \o t)[k] = t[k - Len(s)]
          /\ (Twins(s) \o Twins(t))[k] = Twins(t)[k - Len(s)]
      BY <1>2, <2>3, ConcatIsSeq
    <3> QED
      BY <2>1, <3>1, <3>2, TwinsFacts
  <2> QED
    BY <2>2, <2>3
<1> QED
  BY <1>2, <1>3, <1>4, SameSeq

-----------------------------------------------------------------------------
(* The inductive invariant *)

\* Gathering starts with empty bags and an idle team.
LEMMA InitInv == Init => IInv
<1> SUFFICES ASSUME Init PROVE IInv
  OBVIOUS
<1> USE GatherAssumption DEF Init
<1>1. IsSeq(<<>>) /\ Len(<<>>) = 0
  BY EmptySeq DEF IsSeq
<1>2. TypeOK
  BY <1>1 DEF TypeOK
<1>3. Twins(<<>>) = <<>>
  BY DEF Twins
<1>4. TeamJoined /\ Aligned /\ InWindow
  BY <1>3 DEF TeamJoined, Aligned, InWindow
<1> QED
  BY <1>2, <1>4 DEF IInv

\* Steps of the main thread that touch neither the bags nor the team.
LEMMA QuietMainInv ==
  ASSUME IInv, BeginFile \/ ReadSlice \/ ReadFails \/ EndFile \/ SkipRecord \/ Finish
  PROVE  IInv'
<1> USE GatherAssumption
<1>1. UNCHANGED <<dirty, psf, teamVars>>
  BY DEF BeginFile, ReadSlice, ReadFails, EndFile, SkipRecord, Finish
<1>2. pc # "parallel" /\ pc' # "parallel"
  BY DEF BeginFile, ReadSlice, ReadFails, EndFile, SkipRecord, Finish,
         GotoFile, GiveUpFile
<1>3. Len(dirty) \in Nat
  BY IsSeqFacts DEF IInv, TypeOK
<1>4. /\ pc' \in {"file", "slice", "record", "parallel", "done"}
      /\ file' \in 1..(NFile + 1) /\ slice' \in Nat /\ r' \in 0..RecPerSlice
      /\ bag0' \in 0..Len(dirty)
      /\ pc' \in {"slice", "record"} => file' \in 1..NFile
  <2> USE DEF IInv, TypeOK, InWindow
  <2>1. CASE BeginFile
    <3>1. file \in 1..NFile
      BY <2>1 DEF BeginFile
    <3>2. Slice0(file) \in Nat
      <4>1. StartRec[file] \in Nat /\ RecPerSlice \in Nat /\ RecPerSlice > 0
        BY <3>1
      <4>2. \A a, b \in Nat : b > 0 => a \div b \in Nat
        BY SMTT(60)
      <4> QED
        BY <4>1, <4>2 DEF Slice0
    <3> QED
      BY <2>1, <3>1, <3>2 DEF BeginFile, GotoFile
  <2>2. CASE ReadSlice
    BY <1>3, <2>2 DEF ReadSlice
  <2>3. CASE ReadFails
    BY <2>3 DEF ReadFails, GiveUpFile, GotoFile
  <2>4. CASE EndFile
    BY <2>4 DEF EndFile, GotoFile
  <2>5. CASE SkipRecord
    BY <2>5 DEF SkipRecord, NextRecord
  <2>6. CASE Finish
    BY <2>6 DEF Finish
  <2> QED
    BY <2>1, <2>2, <2>3, <2>4, <2>5, <2>6
<1>5. TypeOK'
  BY <1>1, <1>4 DEF IInv, TypeOK, teamVars
<1>6. TeamJoined' /\ InWindow'
  BY <1>1, <1>2, <1>4 DEF IInv, TeamJoined, InWindow, teamVars
<1>7. Aligned'
  BY <1>1 DEF IInv, Aligned, teamVars
<1> QED
  BY <1>5, <1>6, <1>7 DEF IInv

\* Starting a parallel-for hands out every baseline to an idle team.
LEMMA BeginRecordInv ==
  ASSUME IInv, BeginRecord
  PROVE  IInv'
<1> USE GatherAssumption DEF BeginRecord
<1>1. TypeOK'
  BY DEF IInv, TypeOK
<1>2. TeamJoined' /\ Aligned'
  BY DEF IInv, TeamJoined, Aligned
<1>3. InWindow'
  BY DEF IInv, InWindow, Selected, GlobalRec
<1> QED
  BY <1>1, <1>2, <1>3 DEF IInv

\* A parallel-for ends only when its team has joined.
LEMMA EndRecordInv ==
  ASSUME IInv, EndRecord
  PROVE  IInv'
<1> USE GatherAssumption DEF EndRecord, TeamDone, NextRecord, teamVars
<1>1. r + 1 \in 0..RecPerSlice
  BY DEF IInv, InWindow, TypeOK
<1>2. TypeOK'
  BY <1>1 DEF IInv, TypeOK
<1>3. TeamJoined' /\ Aligned' /\ InWindow'
  BY DEF IInv, TeamJoined, Aligned, InWindow
<1> QED
  BY <1>2, <1>3 DEF IInv

\* What is left of the indices of a bag when indices after the first b are
\* dropped.
LEMMA ClipKeeps ==
  ASSUME NEW n \in Nat, NEW b \in Nat, b <= n, NEW out,
         out \subseteq (b + 1)..n
  PROVE  /\ Len(InOrder((1..n) \ out)) \in Nat
         /\ Len(InOrder((1..n) \ out)) >= b
         /\ \A j \in 1..Len(InOrder((1..n) \ out)) :
              InOrder((1..n) \ out)[j] \in 1..n
<1> DEFINE S == (1..n) \ out
<1>1. S \in SUBSET (1..n)
  OBVIOUS
<1>2. IsFiniteSet(S)
  <2>1. IsFiniteSet(1..n)
    BY FS_Interval
  <2> HIDE DEF S
  <2> QED
    BY <1>1, <2>1, FS_Subset
<1>3. /\ Cardinality(S) \in Nat /\ Len(InOrder(S)) = Cardinality(S)
      /\ \A j \in 1..Cardinality(S) : InOrder(S)[j] \in S
  <2>1. 1 \in Int /\ n \in Int
    OBVIOUS
  <2> HIDE DEF S
  <2> QED
    BY <1>1, <2>1, InOrderType, Zenon
<1>4. Cardinality(1..b) <= Cardinality(S)
  <2>1. 1..b \in SUBSET S
    OBVIOUS
  <2> QED
    BY <1>2, <2>1, FS_Subset
<1>5. Cardinality(1..b) = b
  BY FS_Interval
<1> QED
  BY <1>1, <1>3, <1>4, <1>5

\* The clip keeps the same indices of both bags, all of them before bag0 + 1.
LEMMA EndSliceInv ==
  ASSUME IInv, EndSlice
  PROVE  IInv'
<1> USE GatherAssumption DEF EndSlice
<1> DEFINE out == Outliers([k \in (ClipBegin + 1)..Len(dirty) |-> dirty[k].amp], Thresh)
           S == (1..Len(dirty)) \ out
           kept == InOrder(S)
<1>1. /\ IsSeq(dirty) /\ IsSeq(psf) /\ Len(dirty) \in Nat
      /\ bag0 \in Nat /\ bag0 <= Len(dirty)
  BY IsSeqFacts DEF IInv, TypeOK
<1>2. \A t \in Threads : at[t] = "idle"
  BY DEF IInv, TeamJoined
<1>3. psf = Twins(dirty)
  BY <1>2 DEF IInv, Aligned
<1>4. /\ Len(kept) \in Nat /\ Len(kept) >= bag0
      /\ \A j \in 1..Len(kept) : kept[j] \in 1..Len(dirty)
  <2> DEFINE amp == [k \in (ClipBegin + 1)..Len(dirty) |-> dirty[k].amp]
  <2>1. DOMAIN amp = (bag0 + 1)..Len(dirty)
    BY DEF ClipBegin
  <2>2. out \subseteq DOMAIN amp
    BY OutliersSubset, Zenon
  <2>3. out \subseteq (bag0 + 1)..Len(dirty)
    BY <2>1, <2>2, Zenon
  <2> QED
    BY <1>1, <2>3, ClipKeeps
<1>5. /\ IsSeq(dirty') /\ IsSeq(psf') /\ bag0 \in 0..Len(dirty')
      /\ psf' = Twins(dirty')
  <2>1. CASE UNCHANGED <<dirty, psf>>
    BY <1>1, <1>3, <2>1
  <2>2. CASE /\ dirty' = [j \in 1..Len(kept) |-> dirty[kept[j]]]
             /\ psf' = [j \in 1..Len(kept) |-> psf[kept[j]]]
    <3>1. IsSeq(dirty') /\ Len(dirty') = Len(kept)
      BY <1>4, <2>2, FunctionIsSeq
    <3>2. IsSeq(psf') /\ Len(psf') = Len(kept)
      BY <1>4, <2>2, FunctionIsSeq
    <3>3. ASSUME NEW j \in 1..Len(kept) PROVE psf'[j] = Twins(dirty')[j]
      <4>1. psf[kept[j]] = Twin(dirty[kept[j]])
        BY <1>1, <1>3, <1>4, TwinsFacts
      <4>2. Twins(dirty')[j] = Twin(dirty'[j])
        BY <3>1, TwinsFacts
      <4> QED
        BY <2>2, <4>1, <4>2
    <3>4. psf' = Twins(dirty')
      BY <3>1, <3>2, <3>3, TwinsFacts, SameSeq
    <3> QED
      BY <1>1, <1>4, <3>1, <3>2, <3>4
  <2> QED
    BY <2>1, <2>2
<1>6. TypeOK'
  BY <1>5 DEF IInv, TypeOK, teamVars
<1>7. TeamJoined' /\ InWindow'
  BY DEF IInv, TeamJoined, InWindow, teamVars
<1>8. Aligned'
  BY <1>2, <1>5 DEF IInv, Aligned, teamVars
<1> QED
  BY <1>6, <1>7, <1>8 DEF IInv

\* Skipping a self-pair takes it from the baselines to do and no more.
LEMMA SkipAutoInv ==
  ASSUME IInv, NEW t \in Threads, SkipAuto(t)
  PROVE  IInv'
<1> USE GatherAssumption DEF SkipAuto, Take, loopVars
<1>1. TypeOK'
  BY DEF IInv, TypeOK
<1>2. TeamJoined' /\ Aligned' /\ InWindow'
  BY DEF IInv, TeamJoined, Aligned, InWindow, GlobalRec
<1> QED
  BY <1>1, <1>2 DEF IInv

\* The samples of one baseline are a finite sequence.
LEMMA LocalBagIsSeq ==
  ASSUME IInv, pc = "parallel", NEW b \in Baselines
  PROVE  IsSeq(LocalBag(b)) /\ Len(LocalBag(b)) \in Nat
<1> USE GatherAssumption
<1>1. /\ file \in 1..NFile /\ Selected(file, GlobalRec)
      /\ slice \in Nat /\ r \in Nat
  BY DEF IInv, InWindow, TypeOK
<1>2. GlobalRec \in StartRec[file]..(StartRec[file] + NRec[file] - 1)
  BY <1>1 DEF Selected, GlobalRec
<1>3. cs \in Nat /\ ce \in Nat
  BY <1>1, <1>2 DEF cs, ce
<1> DEFINE S == {c \in cs..(ce - 1) : Calibrated(b, c).amp # BAD}
           good == InOrder(S)
<1>4. Len(good) \in Nat
  <2>1. S \in SUBSET (cs..(ce - 1))
    OBVIOUS
  <2> QED
    BY <1>3, <2>1, InOrderType
<1>5. LocalBag(b) = [k \in 1..Len(good) |-> Calibrated(b, good[k])]
  BY DEF LocalBag
<1> QED
  BY <1>4, <1>5, FunctionIsSeq

\* A thread fills its own local bag; the shared bags are not touched.
LEMMA CalibrateInv ==
  ASSUME IInv, NEW t \in Threads, Calibrate(t)
  PROVE  IInv'
<1> USE GatherAssumption
<1>1. PICK b \in todo \ Autos :
        /\ todo' = todo \ {b}
        /\ local' = [local EXCEPT ![t] = LocalBag(b)]
        /\ loaded' = [loaded EXCEPT ![t] = <<b, bl_n[b]>>]
  BY DEF Calibrate, Take, CounterOf
<1>2. /\ pc = "parallel" /\ at[t] = "idle"
      /\ at' = [at EXCEPT ![t] = "count"]
      /\ UNCHANGED <<disk, loopVars, dirty, psf, bl_n>>
  BY DEF Calibrate
<1>3. IsSeq(LocalBag(b)) /\ Len(LocalBag(b)) \in Nat
  BY <1>1, <1>2, LocalBagIsSeq DEF IInv, TypeOK
<1>4. TypeOK'
  <2>1. \A u \in Threads : IF at'[u] = "count" THEN loaded'[u] \in Baselines \X Nat
                                               ELSE loaded'[u] = <<>>
    BY <1>1, <1>2 DEF IInv, TypeOK
  <2>2. \A u \in Threads : IsSeq(local'[u]) /\ (at'[u] = "idle" => local'[u] = <<>>)
    BY <1>1, <1>2, <1>3 DEF IInv, TypeOK
  <2> QED
    BY <1>1, <1>2, <2>1, <2>2 DEF IInv, TypeOK, loopVars
<1>5. TeamJoined' /\ InWindow'
  BY <1>2 DEF IInv, TeamJoined, InWindow, GlobalRec, loopVars
<1>6. \A u \in Threads : at'[u] = "critical" <=> at[u] = "critical" /\ u # t
  BY <1>2 DEF IInv, TypeOK
<1>7. \A u \in Threads : u # t => local'[u] = local[u]
  BY <1>1 DEF IInv, TypeOK
<1>8. Aligned'
  BY <1>2, <1>6, <1>7 DEF IInv, Aligned
<1> QED
  BY <1>4, <1>5, <1>8 DEF IInv

\* Storing a counter touches no bag.
LEMMA StoreInv ==
  ASSUME IInv, NEW t \in Threads, Count(t)
  PROVE  IInv'
<1> USE GatherAssumption DEF Count, loopVars
<1>1. loaded[t] \in Baselines \X Nat /\ IsSeq(local[t]) /\ Len(local[t]) \in Nat
  BY IsSeqFacts DEF IInv, TypeOK
<1>2. bl_n' \in [Baselines -> Nat]
  BY <1>1 DEF IInv, TypeOK
<1>3. \A u \in Threads : IF at'[u] = "count" THEN loaded'[u] \in Baselines \X Nat
                                             ELSE loaded'[u] = <<>>
  BY DEF IInv, TypeOK
<1>4. TypeOK'
  BY <1>2, <1>3 DEF IInv, TypeOK
<1>5. \A u \in Threads : at'[u] = "critical" <=> at[u] = "critical"
  BY DEF IInv, TypeOK
<1>6. Aligned'
  BY <1>5 DEF IInv, Aligned
<1>7. TeamJoined' /\ InWindow'
  BY DEF IInv, TeamJoined, InWindow, GlobalRec
<1> QED
  BY <1>4, <1>6, <1>7 DEF IInv

\* Entering the critical section leaves psf behind dirty by the local bag of
\* the one thread inside.
LEMMA AppendDirtyInv ==
  ASSUME IInv, NEW t \in Threads, AppendDirty(t)
  PROVE  IInv'
<1> USE GatherAssumption DEF AppendDirty, CriticalFree
<1>1. IsSeq(dirty) /\ IsSeq(local[t]) /\ Len(dirty) \in Nat /\ Len(local[t]) \in Nat
  BY IsSeqFacts DEF IInv, TypeOK
<1>2. IsSeq(dirty') /\ Len(dirty') = Len(dirty) + Len(local[t])
  BY <1>1, ConcatIsSeq
<1>3. bag0 \in 0..Len(dirty')
  BY <1>1, <1>2 DEF IInv, TypeOK
<1>4. \A u \in Threads : /\ at'[u] = "critical" <=> u = t
                         /\ at'[u] = "idle" <=> at[u] = "idle"
  BY DEF IInv, TypeOK
<1>5. TypeOK'
  BY <1>2, <1>3, <1>4 DEF IInv, TypeOK, loopVars
<1>6. TeamJoined' /\ InWindow'
  BY <1>4 DEF IInv, TeamJoined, InWindow, GlobalRec, loopVars
<1>7. psf = Twins(dirty)
  BY DEF IInv, Aligned
<1>8. psf' \o Twins(local'[t]) = Twins(dirty')
  BY <1>1, <1>7, TwinsConcat
<1>9. Aligned'
  BY <1>4, <1>8 DEF Aligned
<1> QED
  BY <1>5, <1>6, <1>9 DEF IInv

\* Leaving it makes the bags twins again.
LEMMA AppendPsfInv ==
  ASSUME IInv, NEW t \in Threads, AppendPsf(t)
  PROVE  IInv'
<1> USE GatherAssumption DEF AppendPsf, DropLocal
<1>1. psf' = Twins(dirty)
  BY DEF IInv, Aligned
<1>2. IsSeq(psf')
  BY <1>1, TwinsFacts DEF IInv, TypeOK
<1>3. IsSeq(<<>>)
  BY EmptySeq DEF IsSeq
<1>4. \A u \in Threads : /\ at'[u] # "critical"
                         /\ u # t => at'[u] = at[u] /\ local'[u] = local[u]
  BY DEF IInv, TypeOK, Aligned
<1>5. at'[t] = "idle" /\ local'[t] = <<>>
  BY DEF IInv, TypeOK
<1>6. TypeOK'
  BY <1>2, <1>3, <1>4, <1>5 DEF IInv, TypeOK, loopVars
<1>7. TeamJoined' /\ InWindow'
  BY <1>4, <1>5 DEF IInv, TeamJoined, InWindow, GlobalRec, loopVars
<1>8. Aligned'
  BY <1>1, <1>4 DEF Aligned
<1> QED
  BY <1>6, <1>7, <1>8 DEF IInv

\* Stuttering preserves the invariant.
LEMMA StutterInv ==
  ASSUME IInv, UNCHANGED vars
  PROVE  IInv'
<1>1. TypeOK'
  BY DEF IInv, vars, loopVars, teamVars, TypeOK
<1>2. TeamJoined' /\ Aligned' /\ InWindow'
  BY DEF IInv, vars, loopVars, teamVars, TeamJoined, Aligned, InWindow,
         Selected, GlobalRec
<1> QED
  BY <1>1, <1>2 DEF IInv

\* Every step of the gathering loop preserves the inductive invariant.
THEOREM GatherInvariant == Spec => []IInv
<1>1. IInv /\ [Next]_vars => IInv'
  <2> SUFFICES ASSUME IInv, [Next]_vars PROVE IInv'
    OBVIOUS
  <2>1. CASE Main
    BY <2>1, QuietMainInv, BeginRecordInv, EndRecordInv, EndSliceInv DEF Main, Loop
  <2>2. ASSUME NEW t \in Threads, Thread(t) PROVE IInv'
    BY <2>2, SkipAutoInv, CalibrateInv, StoreInv, AppendDirtyInv, AppendPsfInv
       DEF Thread
  <2>3. CASE UNCHANGED vars
    BY <2>3, StutterInv
  <2> QED
    BY <2>1, <2>2, <2>3 DEF Next
<1> QED
  BY InitInv, <1>1, PTL DEF Spec

-----------------------------------------------------------------------------
(* The properties the runs check *)

\* Types of the gathering loop's state.
THEOREM GatherTypes == Spec => []TypeOK
<1>1. IInv => TypeOK
  BY DEF IInv
<1> QED
  BY <1>1, GatherInvariant, PTL

\* The bags run_pipeline grids are index-aligned, for every schedule of any
\* number of threads and whatever is clipped.
THEOREM GatherAligned == Spec => []Aligned
<1>1. IInv => Aligned
  BY DEF IInv
<1> QED
  BY <1>1, GatherInvariant, PTL

-----------------------------------------------------------------------------
(* What the bags hold *)

\* Channels the burst occupies in record q of slice s of file i, if selected.
BurstChans(i, s, q) ==
  LET g == s * RecPerSlice + q
  IN  IF Selected(i, g) THEN Track[<<i, g>>][1]..(Track[<<i, g>>][2] - 1) ELSE {}

\* The sample of one channel, read and calibrated as it should be.
RecSample(i, s, q, b, c) ==
  SampleOf(<<i, s, q>>, <<i, s, TRUE>>, IF DoCalib THEN <<i, s>> ELSE <<>>, b, c,
           disk[<<i, s, q, b, c>>])

\* The samples one baseline has to contribute.
BaseSamples(i, s, q, b) ==
  {RecSample(i, s, q, b, c) :
     c \in {c \in BurstChans(i, s, q) : disk[<<i, s, q, b, c>>] # BAD}}

\* The records and baselines of this slice that have been taken by a thread.
Due ==
  {d \in (0..(RecPerSlice - 1)) \X (Baselines \ Autos) :
     d[1] < r \/ (d[1] = r /\ pc = "parallel" /\ d[2] \notin todo)}

\* What the slice should have contributed by now, where it may be, and the
\* threads that have not appended theirs yet.
Wanted == UNION {BaseSamples(file, slice, d[1], d[2]) : d \in Due}
Scope == {dirty[k] : k \in (bag0 + 1)..Len(dirty)}
Holding == {t \in Threads : at[t] \in {"count", "local"}}

\* The slice at hand is one of the file, and the buffer and the bandpass are
\* of this slice.
OnBurst ==
  /\ pc \in {"slice", "record", "parallel"} => NRec[file] > 0 /\ Slice0(file) <= slice
  /\ pc \in {"record", "parallel"} =>
       /\ slice < Slice1(file) /\ buf = <<file, slice, TRUE>>
       /\ DoCalib => bp = <<file, slice>>

\* Between them, the bag after bag0 and the local bags hold exactly that.
Contents ==
  pc \in {"record", "parallel"} =>
    Scope \cup UNION {ToSet(local[t]) : t \in Holding} = Wanted

\* A sample of a slice before the one at hand.
WhenPast(w) ==
  /\ w \in Nat \X Nat \X Nat
  /\ \/ w[1] < file
     \/ pc \notin {"file", "done"} /\ w[1] = file /\ w[2] < slice

\* Samples up to bag0 are of earlier slices.
Earlier ==
  \A k \in 1..(IF pc \in {"record", "parallel"} THEN bag0 ELSE Len(dirty)) :
    WhenPast(dirty[k].when)

NoRepeats(s) == \A j, k \in 1..Len(s) : s[j] = s[k] => j = k

\* Nothing is in the bag twice, nothing a thread still holds is in the bag or
\* with another thread.
HeldDistinct ==
  \A t \in Holding :
    /\ NoRepeats(local[t])
    /\ ToSet(local[t]) \cap ToSet(dirty) = {}
    /\ \A u \in Holding : u # t => ToSet(local[t]) \cap ToSet(local[u]) = {}

ContentInv == OnBurst /\ Contents /\ Earlier /\ NoRepeats(dirty) /\ HeldDistinct

-----------------------------------------------------------------------------
(* Facts about sequences as sets *)

\* The elements of a sequence.
LEMMA ToSetOf ==
  ASSUME NEW s, IsSeq(s)
  PROVE  ToSet(s) = {s[k] : k \in 1..Len(s)}
  BY IsSeqFacts DEF ToSet

\* Concatenation holds the elements of both, and repeats nothing if neither
\* does and they share nothing.
LEMMA ConcatToSet ==
  ASSUME NEW s, NEW t, IsSeq(s), IsSeq(t)
  PROVE  /\ ToSet(s \o t) = ToSet(s) \cup ToSet(t)
         /\ NoRepeats(s) /\ NoRepeats(t) /\ ToSet(s) \cap ToSet(t) = {}
              => NoRepeats(s \o t)
<1> DEFINE m == Len(s)
           n == Len(t)
           st == s \o t
<1>1. m \in Nat /\ n \in Nat /\ IsSeq(st) /\ Len(st) = m + n
  BY IsSeqFacts, ConcatIsSeq
<1>2. \A k \in 1..(m + n) : st[k] = IF k <= m THEN s[k] ELSE t[k - m]
  BY ConcatIsSeq
<1>3. \A k \in 1..m : k \in 1..(m + n) /\ st[k] = s[k]
  BY <1>1, <1>2
<1>4. \A k \in 1..n : k + m \in 1..(m + n) /\ st[k + m] = t[k]
  <2> SUFFICES ASSUME NEW k \in 1..n PROVE k + m \in 1..(m + n) /\ st[k + m] = t[k]
    OBVIOUS
  <2>1. k + m \in 1..(m + n) /\ ~(k + m <= m) /\ (k + m) - m = k
    BY <1>1
  <2> HIDE DEF st
  <2> QED
    BY <1>2, <2>1
<1>5. \A k \in 1..(m + n) : k \in 1..m \/ k - m \in 1..n
  BY <1>1
<1>6. ToSet(s) = {s[k] : k \in 1..m} /\ ToSet(t) = {t[k] : k \in 1..n}
      /\ ToSet(st) = {st[k] : k \in 1..(m + n)}
  BY <1>1, ToSetOf
<1> HIDE DEF m, n, st
<1>7. \A k \in 1..(m + n) : (k \in 1..m /\ st[k] = s[k])
                            \/ (~(k \in 1..m) /\ k - m \in 1..n /\ st[k] = t[k - m])
  BY <1>1, <1>2
<1>8. ToSet(st) = ToSet(s) \cup ToSet(t)
  <2>1. \A x \in ToSet(st) : x \in ToSet(s) \cup ToSet(t)
    BY <1>6, <1>7
  <2>2. \A x \in ToSet(s) \cup ToSet(t) : x \in ToSet(st)
    BY <1>3, <1>4, <1>6
  <2> QED
    BY <2>1, <2>2
<1>9. ASSUME NoRepeats(s), NoRepeats(t), ToSet(s) \cap ToSet(t) = {}
      PROVE  NoRepeats(st)
  <2> SUFFICES ASSUME NEW j \in 1..(m + n), NEW k \in 1..(m + n), st[j] = st[k]
               PROVE  j = k
    BY <1>1 DEF NoRepeats
  <2>1. CASE j \in 1..m /\ k \in 1..m
    BY <1>7, <1>9, <2>1 DEF NoRepeats, m
  <2>2. CASE ~(j \in 1..m) /\ ~(k \in 1..m)
    <3>1. j - m \in 1..n /\ k - m \in 1..n /\ t[j - m] = t[k - m]
      BY <1>7, <2>2
    <3>2. j - m = k - m
      BY <1>9, <3>1 DEF NoRepeats, n
    <3> QED
      BY <1>1, <3>2
  <2>3. CASE ~(j \in 1..m <=> k \in 1..m)
    <3>1. st[j] \in ToSet(s) \cap ToSet(t)
      BY <1>6, <1>7, <2>3
    <3> QED
      BY <1>9, <3>1
  <2> QED
    BY <2>1, <2>2, <2>3
<1> QED
  BY <1>8, <1>9 DEF st

\* A prefix, as a set.
LEMMA PrefixToSet ==
  ASSUME NEW s, IsSeq(s), NEW b \in Nat, b <= Len(s)
  PROVE  /\ IsSeq(SubSeq(s, 1, b)) /\ Len(SubSeq(s, 1, b)) = b
         /\ \A k \in 1..b : SubSeq(s, 1, b)[k] = s[k]
         /\ ToSet(SubSeq(s, 1, b)) = {s[k] : k \in 1..b}
<1>1. Len(s) \in Nat /\ \A k \in 1..b : s[k] \in {s[j] : j \in DOMAIN s}
  BY IsSeqFacts
<1>2. /\ SubSeq(s, 1, b) \in Seq({s[j] : j \in DOMAIN s})
      /\ Len(SubSeq(s, 1, b)) = b
      /\ \A k \in 1..b : SubSeq(s, 1, b)[k] = s[k]
  BY <1>1, SubSeqProperties
<1>3. IsSeq(SubSeq(s, 1, b))
  BY <1>2, SeqIsSeq
<1>4. ToSet(SubSeq(s, 1, b)) = {s[k] : k \in 1..b}
  <2> DEFINE t == SubSeq(s, 1, b)
  <2>1. IsSeq(t) /\ Len(t) = b /\ \A k \in 1..b : t[k] = s[k]
    BY <1>2, <1>3
  <2> HIDE DEF t
  <2>2. ToSet(t) = {t[k] : k \in 1..b}
    BY <2>1, ToSetOf
  <2>3. ToSet(t) = {s[k] : k \in 1..b}
    BY <2>1, <2>2
  <2> QED
    BY <2>3 DEF t
<1> QED
  BY <1>2, <1>3, <1>4

\* Prefixes that agree element by element are equal.
LEMMA SamePrefix ==
  ASSUME NEW s, NEW t, IsSeq(s), IsSeq(t),
         NEW b \in Nat, b <= Len(s), b <= Len(t), \A k \in 1..b : s[k] = t[k]
  PROVE  SubSeq(s, 1, b) = SubSeq(t, 1, b)
<1>1. /\ IsSeq(SubSeq(s, 1, b)) /\ Len(SubSeq(s, 1, b)) = b
      /\ IsSeq(SubSeq(t, 1, b)) /\ Len(SubSeq(t, 1, b)) = b
      /\ \A k \in 1..b : SubSeq(s, 1, b)[k] = SubSeq(t, 1, b)[k]
  BY PrefixToSet
<1> QED
  BY <1>1, SameSeq

-----------------------------------------------------------------------------
(* Facts about samples *)

\* A sample names its record, its baseline and its channel.
LEMMA RecSampleFields ==
  ASSUME NEW i, NEW s, NEW q, NEW b, NEW c
  PROVE  /\ RecSample(i, s, q, b, c).when = <<i, s, q>>
         /\ RecSample(i, s, q, b, c).base = b
         /\ RecSample(i, s, q, b, c).chan = c
         /\ RecSample(i, s, q, b, c).amp = disk[<<i, s, q, b, c>>]
  BY DEF RecSample, SampleOf

\* So do the samples a baseline contributes.
LEMMA BaseSamplesFields ==
  ASSUME NEW i, NEW s, NEW q, NEW b, NEW x \in BaseSamples(i, s, q, b)
  PROVE  x.when = <<i, s, q>> /\ x.base = b
<1>1. PICK c : x = RecSample(i, s, q, b, c)
  BY DEF BaseSamples
<1> QED
  BY <1>1 DEF RecSample, SampleOf

\* What the slice has gathered was recorded in it.
LEMMA WantedWhen ==
  ASSUME NEW x \in Wanted
  PROVE  \E d \in Due : x.when = <<file, slice, d[1]>> /\ x.base = d[2]
<1>1. PICK d \in Due : x \in BaseSamples(file, slice, d[1], d[2])
  BY DEF Wanted
<1>2. x.when = <<file, slice, d[1]>> /\ x.base = d[2]
  BY <1>1, BaseSamplesFields
<1> QED
  BY <1>2

\* A local bag is one baseline's samples, each once.
LEMMA LocalBagContents ==
  ASSUME IInv, OnBurst, pc = "parallel", NEW b \in Baselines
  PROVE  /\ IsSeq(LocalBag(b))
         /\ ToSet(LocalBag(b)) = BaseSamples(file, slice, r, b)
         /\ NoRepeats(LocalBag(b))
<1> USE GatherAssumption
<1>1. /\ file \in 1..NFile /\ Selected(file, GlobalRec)
      /\ slice \in Nat /\ r \in Nat
  BY DEF IInv, InWindow, TypeOK
<1>2. GlobalRec \in StartRec[file]..(StartRec[file] + NRec[file] - 1)
  BY <1>1 DEF Selected, GlobalRec
<1>3. cs \in Nat /\ ce \in Nat
  BY <1>1, <1>2 DEF cs, ce
<1>4. BurstChans(file, slice, r) = cs..(ce - 1)
  BY <1>1 DEF BurstChans, GlobalRec, cs, ce
<1>5. \A c : Calibrated(b, c) = RecSample(file, slice, r, b, c)
  <2>1. buf = <<file, slice, TRUE>> /\ (DoCalib => bp = <<file, slice>>)
    BY DEF OnBurst
  <2>2. buf[1] = file /\ buf[2] = slice
    BY <2>1
  <2> QED
    BY <2>1, <2>2 DEF Calibrated, RecSample
<1> DEFINE S == {c \in cs..(ce - 1) : disk[<<file, slice, r, b, c>>] # BAD}
           good == InOrder(S)
           L == LocalBag(b)
<1>6. {c \in cs..(ce - 1) : Calibrated(b, c).amp # BAD} = S
  BY <1>5, RecSampleFields
<1>7. LocalBag(b) = [k \in 1..Len(good) |-> RecSample(file, slice, r, b, good[k])]
  BY <1>5, <1>6, Zenon DEF LocalBag
<1>8. /\ Len(good) = Cardinality(S) /\ Cardinality(S) \in Nat
      /\ \A k \in 1..Len(good) : good[k] \in S
      /\ \A j, k \in 1..Len(good) : good[j] = good[k] => j = k
      /\ \A c \in S : \E k \in 1..Len(good) : good[k] = c
  <2>1. S \in SUBSET (cs..(ce - 1)) /\ cs \in Int /\ ce - 1 \in Int
    BY <1>3
  <2> HIDE DEF S
  <2>2. Len(InOrder(S)) = Cardinality(S) /\ Cardinality(S) \in Nat
        /\ \A k \in 1..Cardinality(S) : InOrder(S)[k] \in S
    BY <2>1, InOrderType, Zenon
  <2>3. \A j, k \in 1..Cardinality(S) : InOrder(S)[j] = InOrder(S)[k] => j = k
    BY <2>1, InOrderLists, Zenon
  <2>4. \A c \in S : \E k \in 1..Cardinality(S) : InOrder(S)[k] = c
    <3> SUFFICES ASSUME NEW c \in S
                 PROVE  \E k \in 1..Cardinality(S) : InOrder(S)[k] = c
      OBVIOUS
    <3>1. /\ Cardinality(UpTo(S, c)) \in 1..Cardinality(S)
          /\ InOrder(S)[Cardinality(UpTo(S, c))] = c
      BY <2>1, InOrderAt, Zenon
    <3> QED
      BY <3>1
  <2> QED
    BY <2>2, <2>3, <2>4
<1> HIDE DEF good, S
<1>9. IsSeq(L) /\ Len(L) = Len(good)
      /\ \A k \in 1..Len(good) : L[k] = RecSample(file, slice, r, b, good[k])
  BY <1>7, <1>8, FunctionIsSeq
<1>10. BaseSamples(file, slice, r, b) = {RecSample(file, slice, r, b, c) : c \in S}
  BY <1>4 DEF BaseSamples, S
<1> HIDE DEF L
<1>11. ToSet(L) = BaseSamples(file, slice, r, b)
  <2>1. ToSet(L) = {L[k] : k \in 1..Len(good)}
    BY <1>9, ToSetOf
  <2>2. \A x \in ToSet(L) : x \in BaseSamples(file, slice, r, b)
    BY <1>8, <1>9, <1>10, <2>1
  <2>3. \A x \in BaseSamples(file, slice, r, b) : x \in ToSet(L)
    BY <1>8, <1>9, <1>10, <2>1
  <2> QED
    BY <2>2, <2>3
<1>12. NoRepeats(L)
  <2> SUFFICES ASSUME NEW j \in 1..Len(good), NEW k \in 1..Len(good), L[j] = L[k]
               PROVE  j = k
    BY <1>9 DEF NoRepeats
  <2>1. RecSample(file, slice, r, b, good[j]).chan
          = RecSample(file, slice, r, b, good[k]).chan
    BY <1>9
  <2>2. \A c : RecSample(file, slice, r, b, c).chan = c
    BY DEF RecSample, SampleOf
  <2>3. good[j] = good[k]
    BY <2>1, <2>2, Zenon
  <2> QED
    BY <1>8, <2>3
<1> QED
  BY <1>9, <1>11, <1>12 DEF L

-----------------------------------------------------------------------------
(* Every step keeps the account *)

\* At first there is nothing to account for.
LEMMA ContentInit == Init => ContentInv
<1> SUFFICES ASSUME Init PROVE ContentInv
  OBVIOUS
<1> USE DEF Init
<1>1. OnBurst /\ Contents
  BY DEF OnBurst, Contents
<1>2. Len(dirty) = 0 /\ \A k \in 1..Len(dirty) : FALSE
  BY EmptySeq
<1>3. Earlier /\ NoRepeats(dirty)
  BY <1>2 DEF Earlier, NoRepeats
<1>4. Holding = {}
  BY DEF Holding
<1>5. HeldDistinct
  BY <1>4 DEF HeldDistinct
<1> QED
  BY <1>1, <1>3, <1>5 DEF ContentInv

\* Outside the parallel-for no thread holds samples.
LEMMA NoneHeld ==
  ASSUME IInv, pc # "parallel"
  PROVE  Holding = {}
  BY DEF IInv, TeamJoined, Holding

\* What is wanted depends on the files, the slice and what has been taken.
LEMMA WantedSame ==
  ASSUME UNCHANGED <<disk, file, slice>>, Due' = Due
  PROVE  Wanted' = Wanted
  BY DEF Wanted, BaseSamples, RecSample

\* A step within a slice that moves no sample and asks for none.
LEMMA QuietContent ==
  ASSUME IInv, ContentInv, pc \in {"record", "parallel"}, pc' \in {"record", "parallel"},
         UNCHANGED <<disk, file, slice, buf, bp, bag0, dirty>>,
         Holding' = Holding, \A t \in Holding : local'[t] = local[t],
         Wanted' = Wanted
  PROVE  ContentInv'
<1>1. OnBurst'
  BY DEF ContentInv, OnBurst
<1>2. Contents'
  <2>1. Scope' = Scope
    BY DEF Scope
  <2>2. UNION {ToSet(local'[t]) : t \in Holding'} = UNION {ToSet(local[t]) : t \in Holding}
    BY Zenon
  <2> QED
    BY <2>1, <2>2 DEF ContentInv, Contents
<1>3. Earlier'
  BY DEF ContentInv, Earlier, WhenPast
<1>4. NoRepeats(dirty)'
  BY DEF ContentInv, NoRepeats
<1>5. HeldDistinct'
  BY DEF ContentInv, HeldDistinct, NoRepeats
<1> QED
  BY <1>1, <1>2, <1>3, <1>4, <1>5 DEF ContentInv

\* Steps between slices and files find every sample in an earlier slice.
LEMMA BetweenContent ==
  ASSUME IInv, ContentInv, BeginFile \/ ReadFails \/ EndFile \/ Finish
  PROVE  ContentInv'
<1> USE GatherAssumption
<1>1. /\ pc \in {"file", "slice"} /\ pc' \in {"file", "slice", "done"}
      /\ UNCHANGED <<dirty, local, at>>
  BY DEF BeginFile, ReadFails, EndFile, Finish, GotoFile, GiveUpFile, teamVars
<1>2. Holding' = {}
  <2>1. Holding' = Holding
    BY <1>1 DEF Holding
  <2> QED
    BY <1>1, <2>1, NoneHeld
<1>3. HeldDistinct' /\ Contents' /\ NoRepeats(dirty)'
  BY <1>1, <1>2 DEF HeldDistinct, Contents, ContentInv, NoRepeats
<1>4. OnBurst'
  <2>1. CASE BeginFile
    <3>1. CASE NRec[file] = 0
      BY <2>1, <3>1 DEF BeginFile, GotoFile, OnBurst
    <3>2. CASE NRec[file] # 0
      <4>1. file \in 1..NFile
        BY <2>1 DEF BeginFile, IInv, TypeOK
      <4>2. NRec[file] > 0 /\ Slice0(file) \in Int
        BY <3>2, <4>1 DEF Slice0
      <4>3. pc' = "slice" /\ slice' = Slice0(file) /\ file' = file
        BY <2>1, <3>2 DEF BeginFile
      <4> QED
        BY <4>2, <4>3 DEF OnBurst
    <3> QED
      BY <3>1, <3>2
  <2>2. CASE ReadFails \/ EndFile \/ Finish
    BY <2>2 DEF ReadFails, EndFile, Finish, GotoFile, GiveUpFile, OnBurst
  <2> QED
    BY <2>1, <2>2
<1>5. Earlier'
  <2>1. file \in Nat
    BY DEF IInv, TypeOK
  <2>2. \A w : WhenPast(w) => WhenPast(w)'
    <3>1. \/ pc = "file" /\ file' \in {file, file + 1}
          \/ pc = "slice" /\ pc' = "file" /\ file' = file + 1
      BY DEF BeginFile, ReadFails, EndFile, Finish, GotoFile, GiveUpFile
    <3> SUFFICES ASSUME NEW w \in Nat \X Nat \X Nat, WhenPast(w) PROVE WhenPast(w)'
      BY DEF WhenPast
    <3>2. w[1] \in Nat
      OBVIOUS
    <3> QED
      BY <2>1, <3>1, <3>2 DEF WhenPast
  <2>3. \A k \in 1..Len(dirty) : WhenPast(dirty[k].when)
    BY <1>1 DEF ContentInv, Earlier
  <2> QED
    BY <1>1, <2>2, <2>3 DEF Earlier
<1> QED
  BY <1>3, <1>4, <1>5 DEF ContentInv

\* The scope of a new slice is empty, and so is what it has to show.
LEMMA ReadSliceContent ==
  ASSUME IInv, ContentInv, ReadSlice
  PROVE  ContentInv'
<1> USE GatherAssumption
<1>1. /\ pc = "slice" /\ slice < Slice1(file) /\ pc' = "record" /\ r' = 0
      /\ buf' = <<file, slice, TRUE>> /\ bag0' = Len(dirty)
      /\ bp' = IF DoCalib THEN <<file, slice>> ELSE bp
      /\ UNCHANGED <<disk, file, slice, dirty, local, at>>
  BY DEF ReadSlice, teamVars
<1>2. Holding' = {}
  <2>1. Holding' = Holding
    BY <1>1 DEF Holding
  <2> QED
    BY <1>1, <2>1, NoneHeld
<1>3. HeldDistinct' /\ NoRepeats(dirty)'
  BY <1>1, <1>2 DEF HeldDistinct, ContentInv, NoRepeats
<1>4. OnBurst'
  BY <1>1 DEF ContentInv, OnBurst
<1>5. Contents'
  <2>1. Len(dirty) \in Nat
    BY IsSeqFacts DEF IInv, TypeOK
  <2>2. Scope' = {}
    BY <1>1, <2>1 DEF Scope
  <2>3. Due' = {}
    BY <1>1 DEF Due
  <2>4. Wanted' = {}
    BY <2>3 DEF Wanted
  <2>5. UNION {ToSet(local'[t]) : t \in Holding'} = {}
    BY <1>2
  <2> QED
    BY <2>2, <2>4, <2>5 DEF Contents
<1>6. Earlier'
  BY <1>1 DEF ContentInv, Earlier, WhenPast
<1> QED
  BY <1>3, <1>4, <1>5, <1>6 DEF ContentInv

\* A record outside the window, or without a channel on the track, has nothing
\* to contribute.
LEMMA SkipRecordContent ==
  ASSUME IInv, ContentInv, SkipRecord
  PROVE  ContentInv'
<1> USE GatherAssumption
<1>1. /\ pc = "record" /\ pc' = "record" /\ r < RecPerSlice /\ r' = r + 1
      /\ ~Selected(file, GlobalRec) \/ cs >= ce
      /\ UNCHANGED <<disk, file, slice, buf, bp, bag0, dirty, local, at, todo>>
  BY DEF SkipRecord, NextRecord, teamVars
<1>2. file \in 1..NFile /\ slice \in Nat /\ r \in 0..RecPerSlice
  BY <1>1 DEF IInv, InWindow, TypeOK
<1>3. BurstChans(file, slice, r) = {}
  <2>1. CASE ~Selected(file, GlobalRec)
    BY <2>1 DEF BurstChans, GlobalRec
  <2>2. CASE Selected(file, GlobalRec)
    <3>1. GlobalRec \in StartRec[file]..(StartRec[file] + NRec[file] - 1)
      BY <1>2, <2>2 DEF Selected, GlobalRec
    <3>2. cs \in Nat /\ ce \in Nat
      BY <1>2, <3>1 DEF cs, ce
    <3>3. BurstChans(file, slice, r) = cs..(ce - 1)
      BY <2>2 DEF BurstChans, GlobalRec, cs, ce
    <3> QED
      BY <1>1, <2>2, <3>2, <3>3
  <2> QED
    BY <2>1, <2>2
<1>4. \A b : BaseSamples(file, slice, r, b) = {}
  BY <1>3 DEF BaseSamples
<1>5. Due' = Due \cup ({r} \X (Baselines \ Autos))
  <2>1. \A q \in 0..(RecPerSlice - 1) : q < r + 1 <=> q < r \/ q = r
    BY <1>2
  <2>2. r \in 0..(RecPerSlice - 1)
    BY <1>1, <1>2
  <2> QED
    BY <1>1, <2>1, <2>2 DEF Due
<1>6. Wanted' = Wanted
  <2>1. Wanted' = UNION {BaseSamples(file, slice, d[1], d[2]) : d \in Due'}
    BY <1>1 DEF Wanted, BaseSamples, RecSample
  <2>2. \A d \in Due' : d \in Due \/ BaseSamples(file, slice, d[1], d[2]) = {}
    BY <1>4, <1>5
  <2>3. Due \subseteq Due'
    BY <1>5
  <2> QED
    BY <2>1, <2>2, <2>3 DEF Wanted
<1>7. Holding' = Holding
  BY <1>1 DEF Holding
<1> QED
  BY <1>1, <1>6, <1>7, QuietContent

\* Handing out the baselines of a record takes none of them.
LEMMA BeginRecordContent ==
  ASSUME IInv, ContentInv, BeginRecord
  PROVE  ContentInv'
<1>1. /\ pc = "record" /\ pc' = "parallel" /\ todo' = Baselines
      /\ UNCHANGED <<disk, file, slice, r, buf, bp, bag0, dirty, local, at>>
  BY DEF BeginRecord
<1>2. Due' = Due
  BY <1>1 DEF Due
<1>3. Wanted' = Wanted
  BY <1>1, <1>2, WantedSame
<1>4. Holding' = Holding
  BY <1>1 DEF Holding
<1> QED
  BY <1>1, <1>3, <1>4, QuietContent

\* When the team has joined, every baseline of the record has been taken.
LEMMA EndRecordContent ==
  ASSUME IInv, ContentInv, EndRecord
  PROVE  ContentInv'
<1> USE GatherAssumption
<1>1. /\ pc = "parallel" /\ pc' = "record" /\ todo = {} /\ r' = r + 1
      /\ UNCHANGED <<disk, file, slice, buf, bp, bag0, dirty, local, at>>
  BY DEF EndRecord, TeamDone, NextRecord, teamVars
<1>2. Due' = Due
  <2>1. r \in 0..RecPerSlice
    BY DEF IInv, TypeOK
  <2>2. \A q \in 0..(RecPerSlice - 1) : q < r + 1 <=> q < r \/ q = r
    BY <2>1
  <2> QED
    BY <1>1, <2>2 DEF Due
<1>3. Wanted' = Wanted
  BY <1>1, <1>2, WantedSame
<1>4. Holding' = Holding
  BY <1>1 DEF Holding
<1> QED
  BY <1>1, <1>3, <1>4, QuietContent

\* A self-pair has nothing to contribute.
LEMMA SkipAutoContent ==
  ASSUME IInv, ContentInv, NEW t \in Threads, SkipAuto(t)
  PROVE  ContentInv'
<1>1. /\ pc = "parallel" /\ \E b \in todo \cap Autos : todo' = todo \ {b}
      /\ UNCHANGED <<disk, pc, file, slice, r, buf, bp, bag0, dirty, local, at>>
  BY DEF SkipAuto, Take, loopVars
<1>2. Due' = Due
  BY <1>1 DEF Due
<1>3. Wanted' = Wanted
  BY <1>1, <1>2, WantedSame
<1>4. Holding' = Holding
  BY <1>1 DEF Holding
<1> QED
  BY <1>1, <1>3, <1>4, QuietContent

\* The psf bag holds no sample of its own.
LEMMA AppendPsfContent ==
  ASSUME IInv, ContentInv, NEW t \in Threads, AppendPsf(t)
  PROVE  ContentInv'
<1>1. /\ at[t] = "critical" /\ at' = [at EXCEPT ![t] = "idle"]
      /\ local' = [local EXCEPT ![t] = <<>>]
      /\ UNCHANGED <<disk, pc, file, slice, r, buf, bp, bag0, dirty, todo>>
  BY DEF AppendPsf, DropLocal, loopVars
<1>2. pc = "parallel"
  BY <1>1 DEF IInv, TeamJoined
<1>3. Holding' = Holding /\ \A u \in Holding : local'[u] = local[u]
  BY <1>1 DEF Holding, IInv, TypeOK
<1>4. Due' = Due
  BY <1>1 DEF Due
<1>5. Wanted' = Wanted
  BY <1>1, <1>4, WantedSame
<1> QED
  BY <1>1, <1>2, <1>3, <1>5, QuietContent

\* Storing a counter moves no sample.
LEMMA StoreContent ==
  ASSUME IInv, ContentInv, NEW t \in Threads, Count(t)
  PROVE  ContentInv'
<1>1. /\ at[t] = "count" /\ at' = [at EXCEPT ![t] = "local"]
      /\ UNCHANGED <<disk, pc, file, slice, r, buf, bp, bag0, dirty, todo, local>>
  BY DEF Count, loopVars
<1>2. pc = "parallel"
  BY <1>1 DEF IInv, TeamJoined
<1>3. Holding' = Holding
  BY <1>1 DEF Holding, IInv, TypeOK
<1>4. Due' = Due
  BY <1>1 DEF Due
<1>5. Wanted' = Wanted
  BY <1>1, <1>4, WantedSame
<1> QED
  BY <1>1, <1>2, <1>3, <1>5, QuietContent

\* A thread takes samples nobody has: no other iteration is of this baseline in
\* this record, and samples of earlier records and slices say so.
LEMMA CalibrateContent ==
  ASSUME IInv, ContentInv, NEW t \in Threads, Calibrate(t)
  PROVE  ContentInv'
<1> USE GatherAssumption
<1>1. PICK b \in todo \ Autos :
        todo' = todo \ {b} /\ local' = [local EXCEPT ![t] = LocalBag(b)]
  BY DEF Calibrate, Take
<1>2. /\ pc = "parallel" /\ at[t] = "idle"
      /\ at' = [at EXCEPT ![t] = "count"]
      /\ UNCHANGED <<disk, pc, file, slice, r, buf, bp, bag0, dirty>>
  BY DEF Calibrate, loopVars
<1>3. /\ b \in Baselines \ Autos /\ b \in todo
      /\ r \in 0..(RecPerSlice - 1)
      /\ bag0 \in 0..Len(dirty) /\ Len(dirty) \in Nat
  BY <1>1, <1>2, IsSeqFacts DEF IInv, TypeOK, InWindow
<1> DEFINE B == BaseSamples(file, slice, r, b)
<1>4. /\ IsSeq(LocalBag(b)) /\ ToSet(LocalBag(b)) = B
      /\ NoRepeats(LocalBag(b))
  BY <1>2, <1>3, LocalBagContents DEF ContentInv
<1>5. /\ t \notin Holding /\ Holding' = Holding \cup {t}
      /\ local'[t] = LocalBag(b) /\ \A u \in Holding : local'[u] = local[u]
  BY <1>1, <1>2 DEF Holding, IInv, TypeOK
<1>6. Due' = Due \cup {<<r, b>>} /\ <<r, b>> \notin Due
  <2>1. <<r, b>> \notin Due
    BY <1>3 DEF Due
  <2>2. \A d \in (0..(RecPerSlice - 1)) \X (Baselines \ Autos) :
          d \in Due' <=> d \in Due \/ d = <<r, b>>
    BY <1>1, <1>2, <1>3 DEF Due
  <2>3. Due' \subseteq (0..(RecPerSlice - 1)) \X (Baselines \ Autos)
    BY <1>1, <1>2 DEF Due
  <2>4. Due \subseteq (0..(RecPerSlice - 1)) \X (Baselines \ Autos)
    BY DEF Due
  <2>5. <<r, b>> \in (0..(RecPerSlice - 1)) \X (Baselines \ Autos)
    BY <1>3
  <2> QED
    BY <2>1, <2>2, <2>3, <2>4, <2>5
<1>7. Wanted' = Wanted \cup B
  <2>1. Wanted' = UNION {BaseSamples(file, slice, d[1], d[2]) : d \in Due'}
    BY <1>2 DEF Wanted, BaseSamples, RecSample
  <2> QED
    BY <1>6, <2>1 DEF Wanted
<1>8. B \cap Wanted = {}
  <2> SUFFICES ASSUME NEW x \in B, x \in Wanted PROVE FALSE
    OBVIOUS
  <2>1. x.when = <<file, slice, r>> /\ x.base = b
    BY BaseSamplesFields
  <2>2. PICK d \in Due : x.when = <<file, slice, d[1]>> /\ x.base = d[2]
    BY WantedWhen
  <2>3. d = <<r, b>>
    BY <2>1, <2>2 DEF Due
  <2> QED
    BY <1>6, <2>3
<1>9. Scope \cup UNION {ToSet(local[u]) : u \in Holding} = Wanted
  BY <1>2 DEF ContentInv, Contents
<1>10. B \cap ToSet(dirty) = {}
  <2> SUFFICES ASSUME NEW k \in 1..Len(dirty), dirty[k] \in B PROVE FALSE
    BY ToSetOf DEF IInv, TypeOK
  <2>1. CASE k <= bag0
    <3>1. WhenPast(dirty[k].when)
      BY <1>2, <1>3, <2>1 DEF ContentInv, Earlier
    <3>2. dirty[k].when = <<file, slice, r>>
      BY BaseSamplesFields
    <3>3. file \in Nat /\ slice \in Nat
      BY DEF IInv, TypeOK
    <3> QED
      BY <3>1, <3>2, <3>3 DEF WhenPast
  <2>2. CASE ~(k <= bag0)
    <3>1. k \in (bag0 + 1)..Len(dirty)
      BY <1>3, <2>2
    <3>2. dirty[k] \in Scope
      BY <3>1 DEF Scope
    <3> QED
      BY <1>8, <1>9, <3>2
  <2> QED
    BY <2>1, <2>2
<1>11. \A u \in Holding : ToSet(local[u]) \cap B = {}
  BY <1>8, <1>9
<1>12. OnBurst'
  BY <1>2 DEF ContentInv, OnBurst
<1>13. Contents'
  <2>1. Scope' = Scope
    BY <1>2 DEF Scope
  <2>2. UNION {ToSet(local'[u]) : u \in Holding'}
          = B \cup UNION {ToSet(local[u]) : u \in Holding}
    <3>1. \A u \in Holding : ToSet(local'[u]) = ToSet(local[u])
      BY <1>5
    <3>2. ToSet(local'[t]) = B
      BY <1>4, <1>5
    <3> HIDE DEF B
    <3> QED
      BY <1>5, <3>1, <3>2
  <2> QED
    BY <1>7, <1>9, <2>1, <2>2 DEF Contents
<1>14. Earlier' /\ NoRepeats(dirty)'
  BY <1>2 DEF ContentInv, Earlier, WhenPast, NoRepeats
<1>15. HeldDistinct'
  <2> SUFFICES ASSUME NEW u \in Holding'
               PROVE  /\ NoRepeats(local'[u])
                      /\ ToSet(local'[u]) \cap ToSet(dirty) = {}
                      /\ \A v \in Holding' : v # u =>
                           ToSet(local'[u]) \cap ToSet(local'[v]) = {}
    BY <1>2 DEF HeldDistinct, NoRepeats
  <2>1. \A v \in Holding : /\ NoRepeats(local[v])
                           /\ ToSet(local[v]) \cap ToSet(dirty) = {}
                           /\ \A w \in Holding : w # v =>
                                ToSet(local[v]) \cap ToSet(local[w]) = {}
    BY DEF ContentInv, HeldDistinct
  <2>2. ToSet(local'[t]) = B /\ NoRepeats(local'[t])
    BY <1>4, <1>5
  <2> HIDE DEF B
  <2>3. CASE u = t
    BY <1>5, <1>10, <1>11, <2>2, <2>3
  <2>4. CASE u # t
    BY <1>5, <1>11, <2>1, <2>2, <2>4
  <2> QED
    BY <2>3, <2>4
<1> QED
  BY <1>12, <1>13, <1>14, <1>15 DEF ContentInv

\* Appending moves the samples a thread holds into the bag, once.
LEMMA AppendDirtyContent ==
  ASSUME IInv, ContentInv, NEW t \in Threads, AppendDirty(t)
  PROVE  ContentInv'
<1> USE GatherAssumption
<1>1. /\ at[t] = "local" /\ at' = [at EXCEPT ![t] = "critical"]
      /\ dirty' = dirty \o local[t]
      /\ UNCHANGED <<disk, pc, file, slice, r, buf, bp, bag0, todo, local>>
  BY DEF AppendDirty, loopVars
<1>2. pc = "parallel"
  BY <1>1 DEF IInv, TeamJoined
<1>3. t \in Holding /\ Holding' = Holding \ {t}
  BY <1>1 DEF Holding, IInv, TypeOK
<1>4. /\ IsSeq(dirty) /\ IsSeq(local[t]) /\ bag0 \in 0..Len(dirty)
      /\ Len(dirty) \in Nat /\ Len(local[t]) \in Nat
  BY IsSeqFacts DEF IInv, TypeOK
<1> DEFINE m == Len(dirty)
           n == Len(local[t])
<1>5. /\ Len(dirty') = m + n
      /\ \A k \in 1..(m + n) : dirty'[k] = IF k <= m THEN dirty[k] ELSE local[t][k - m]
  BY <1>1, <1>4, ConcatIsSeq
<1>6. ToSet(dirty') = ToSet(dirty) \cup ToSet(local[t])
  BY <1>1, <1>4, ConcatToSet
<1>7. \A v \in Holding : /\ NoRepeats(local[v])
                         /\ ToSet(local[v]) \cap ToSet(dirty) = {}
                         /\ \A w \in Holding : w # v =>
                              ToSet(local[v]) \cap ToSet(local[w]) = {}
  BY DEF ContentInv, HeldDistinct
<1>8. NoRepeats(dirty')
  <2>1. NoRepeats(dirty) /\ NoRepeats(local[t])
    BY <1>3, <1>7 DEF ContentInv
  <2>2. ToSet(dirty) \cap ToSet(local[t]) = {}
    BY <1>3, <1>7
  <2> QED
    BY <1>1, <1>4, <2>1, <2>2, ConcatToSet
<1>9. OnBurst'
  BY <1>1 DEF ContentInv, OnBurst
<1>10. Scope' = Scope \cup ToSet(local[t])
  <2>1. Scope' = {dirty'[k] : k \in (bag0 + 1)..(m + n)}
    BY <1>1, <1>5 DEF Scope
  <2>2. ToSet(local[t]) = {local[t][k] : k \in 1..n}
    BY <1>4, ToSetOf
  <2>3. \A k \in (bag0 + 1)..(m + n) :
          \/ k \in (bag0 + 1)..m /\ dirty'[k] = dirty[k]
          \/ k - m \in 1..n /\ dirty'[k] = local[t][k - m]
    BY <1>4, <1>5
  <2>4. \A k \in (bag0 + 1)..m : k \in (bag0 + 1)..(m + n) /\ dirty'[k] = dirty[k]
    BY <1>4, <1>5
  <2>5. ASSUME NEW k \in 1..n
        PROVE  k + m \in (bag0 + 1)..(m + n) /\ dirty'[k + m] = local[t][k]
    <3>1. /\ k + m \in (bag0 + 1)..(m + n) /\ k + m \in 1..(m + n)
          /\ ~(k + m <= m) /\ (k + m) - m = k
      BY <1>4
    <3> QED
      BY <1>5, <3>1
  <2>6. Scope = {dirty[k] : k \in (bag0 + 1)..m}
    BY DEF Scope
  <2> HIDE DEF m, n
  <2>7. ASSUME NEW k \in (bag0 + 1)..(m + n)
        PROVE  dirty'[k] \in Scope \cup ToSet(local[t])
    <3>1. CASE k \in (bag0 + 1)..m /\ dirty'[k] = dirty[k]
      BY <2>6, <3>1
    <3>2. CASE k - m \in 1..n /\ dirty'[k] = local[t][k - m]
      BY <2>2, <3>2
    <3> QED
      BY <2>3, <3>1, <3>2
  <2>8. \A x \in Scope : x \in Scope'
    BY <2>1, <2>4, <2>6
  <2>9. \A x \in ToSet(local[t]) : x \in Scope'
    BY <2>1, <2>2, <2>5
  <2> QED
    BY <2>1, <2>7, <2>8, <2>9
<1>11. Wanted' = Wanted
  <2>1. Due' = Due
    BY <1>1 DEF Due
  <2> QED
    BY <1>1, <2>1, WantedSame
<1>12. Contents'
  <2>1. UNION {ToSet(local[u]) : u \in Holding}
          = ToSet(local[t]) \cup UNION {ToSet(local[u]) : u \in Holding \ {t}}
    BY <1>3
  <2>2. Scope \cup UNION {ToSet(local[u]) : u \in Holding} = Wanted
    BY <1>2 DEF ContentInv, Contents
  <2>3. Contents' <=> Scope' \cup UNION {ToSet(local[u]) : u \in Holding \ {t}} = Wanted'
    BY <1>1, <1>2, <1>3 DEF Contents
  <2> QED
    BY <1>10, <1>11, <2>1, <2>2, <2>3
<1>13. Earlier'
  <2>1. \A k \in 1..bag0 : dirty'[k] = dirty[k]
    BY <1>4, <1>5
  <2> QED
    BY <1>1, <1>2, <2>1 DEF ContentInv, Earlier, WhenPast
<1>14. HeldDistinct'
  <2> SUFFICES ASSUME NEW u \in Holding \ {t}
               PROVE  /\ NoRepeats(local[u])
                      /\ ToSet(local[u]) \cap ToSet(dirty') = {}
                      /\ \A v \in Holding \ {t} : v # u =>
                           ToSet(local[u]) \cap ToSet(local[v]) = {}
    BY <1>1, <1>3 DEF HeldDistinct, NoRepeats
  <2> QED
    BY <1>3, <1>6, <1>7
<1>15. NoRepeats(dirty)'
  BY <1>8 DEF NoRepeats
<1> QED
  BY <1>9, <1>12, <1>13, <1>14, <1>15 DEF ContentInv

\* The clip keeps the samples up to bag0, in place, and some of the rest.
LEMMA EndSliceEffect ==
  ASSUME IInv, EndSlice
  PROVE  LET out == Outliers([k \in (bag0 + 1)..Len(dirty) |-> dirty[k].amp], Thresh)
             kept == InOrder((1..Len(dirty)) \ out)
         IN  /\ out \subseteq (bag0 + 1)..Len(dirty)
             /\ IsSeq(dirty') /\ bag0 <= Len(dirty')
             /\ \A k \in 1..bag0 : dirty'[k] = dirty[k]
             /\ NoRepeats(dirty) => NoRepeats(dirty')
             /\ \A k \in 1..Len(dirty') : \E j \in 1..Len(dirty) : dirty'[k] = dirty[j]
             /\ IF DoFlag /\ bag0 < Len(dirty)
                  THEN ToSet(dirty') = {dirty[k] : k \in (1..Len(dirty)) \ out}
                  ELSE dirty' = dirty
<1> USE GatherAssumption
<1> DEFINE n == Len(dirty)
           out == Outliers([k \in (bag0 + 1)..n |-> dirty[k].amp], Thresh)
           S == (1..n) \ out
           kept == InOrder(S)
<1>1. /\ IsSeq(dirty) /\ n \in Nat /\ bag0 \in Nat /\ bag0 <= n
  BY IsSeqFacts DEF IInv, TypeOK
<1>2. out \subseteq (bag0 + 1)..n
  <2> DEFINE amp == [k \in (bag0 + 1)..n |-> dirty[k].amp]
  <2>1. DOMAIN amp = (bag0 + 1)..n
    OBVIOUS
  <2>2. out \subseteq DOMAIN amp
    BY OutliersSubset, Zenon
  <2> QED
    BY <2>1, <2>2, Zenon
<1>3. Len(psf) = n
  <2>1. \A t \in Threads : at[t] # "critical"
    BY DEF EndSlice, IInv, TeamJoined
  <2>2. psf = Twins(dirty)
    BY <2>1 DEF IInv, Aligned
  <2> QED
    BY <1>1, <2>2, TwinsFacts
<1>4. IF DoFlag /\ bag0 < n THEN dirty' = [j \in 1..Len(kept) |-> dirty[kept[j]]]
                            ELSE dirty' = dirty
  <2>1. (ClipBegin + 1)..Len(dirty) = (bag0 + 1)..n
    BY DEF ClipBegin
  <2>2. (bag0 + 1)..n # {} <=> bag0 < n
    <3> HIDE DEF n, kept, out, S
    <3>1. bag0 < n => bag0 + 1 \in (bag0 + 1)..n
      BY <1>1
    <3>2. ~(bag0 < n) => (bag0 + 1)..n = {}
      BY <1>1
    <3> QED
      BY <3>1, <3>2
  <2>3. IF DoFlag /\ (bag0 + 1)..n # {} /\ Len(psf) = Len(dirty)
          THEN dirty' = [j \in 1..Len(kept) |-> dirty[kept[j]]]
          ELSE dirty' = dirty
    <3> HIDE DEF n
    <3>1. (ClipBegin + 1)..Len(dirty) = (bag0 + 1)..n
      BY <2>1
    <3> QED
      BY <3>1, Zenon DEF EndSlice, n
  <2> HIDE DEF kept
  <2> QED
    BY <1>3, <2>2, <2>3
<1>5. S \in SUBSET (1..n) /\ 1..bag0 \subseteq S /\ 1 \in Int /\ n \in Int
  <2> HIDE DEF out
  <2> QED
    BY <1>1, <1>2
<1> HIDE DEF out
<1>6. /\ Len(kept) = Cardinality(S) /\ Cardinality(S) \in Nat
      /\ \A j \in 1..Len(kept) : kept[j] \in S
  <2> HIDE DEF S
  <2> QED
    BY <1>5, InOrderType, Zenon
<1>7. /\ \A i, j \in 1..Len(kept) : kept[i] = kept[j] => i = j
      /\ \A k \in S : \E j \in 1..Len(kept) : kept[j] = k
  <2> HIDE DEF S
  <2>1. \A i, j \in 1..Cardinality(S) : InOrder(S)[i] = InOrder(S)[j] => i = j
    BY <1>5, InOrderLists, Zenon
  <2>2. ASSUME NEW k \in S PROVE \E j \in 1..Cardinality(S) : InOrder(S)[j] = k
    <3> HIDE DEF n
    <3>1. /\ Cardinality(UpTo(S, k)) \in 1..Cardinality(S)
          /\ InOrder(S)[Cardinality(UpTo(S, k))] = k
      BY <1>5, InOrderAt, Zenon
    <3> QED
      BY <3>1
  <2> QED
    BY <1>6, <2>1, <2>2
<1>8. \A j \in 1..bag0 : j \in 1..Len(kept) /\ kept[j] = j
  <2> HIDE DEF S
  <2> QED
    BY <1>1, <1>5, <1>6, InOrderPrefix, Zenon
<1>9. bag0 <= Len(kept)
  <2> HIDE DEF kept
  <2>1. CASE bag0 = 0
    BY <1>6, <2>1
  <2>2. CASE bag0 # 0
    <3>1. bag0 \in 1..Len(kept)
      BY <1>1, <1>8, <2>2
    <3> QED
      BY <1>6, <3>1
  <2> QED
    BY <2>1, <2>2
<1> DEFINE Goal == /\ IsSeq(dirty') /\ bag0 <= Len(dirty')
                   /\ \A k \in 1..bag0 : dirty'[k] = dirty[k]
                   /\ NoRepeats(dirty) => NoRepeats(dirty')
                   /\ \A k \in 1..Len(dirty') : \E j \in 1..n : dirty'[k] = dirty[j]
                   /\ IF DoFlag /\ bag0 < n THEN ToSet(dirty') = {dirty[k] : k \in S}
                                            ELSE dirty' = dirty
<1>10. CASE ~(DoFlag /\ bag0 < n)
  <2>1. dirty' = dirty
    BY <1>4, <1>10
  <2> HIDE DEF S, kept
  <2>2. Goal
    BY <1>1, <1>10, <2>1
  <2> QED
    BY <1>2, <2>2 DEF out, S, kept
<1>11. CASE DoFlag /\ bag0 < n
  <2> HIDE DEF S, kept, n
  <2>1. dirty' = [j \in 1..Len(kept) |-> dirty[kept[j]]]
    BY <1>4, <1>11
  <2>2. IsSeq(dirty') /\ Len(dirty') = Len(kept)
    BY <1>6, <2>1, FunctionIsSeq
  <2>3. \A j \in 1..Len(kept) : dirty'[j] = dirty[kept[j]] /\ kept[j] \in 1..n
    BY <1>5, <1>6, <2>1
  <2>4. ToSet(dirty') = {dirty[k] : k \in S}
    <3>1. ToSet(dirty') = {dirty'[j] : j \in 1..Len(kept)}
      BY <2>2, ToSetOf
    <3>2. \A x \in ToSet(dirty') : x \in {dirty[k] : k \in S}
      BY <1>6, <2>3, <3>1
    <3>3. \A x \in {dirty[k] : k \in S} : x \in ToSet(dirty')
      BY <1>7, <2>3, <3>1
    <3> QED
      BY <3>2, <3>3
  <2>5. NoRepeats(dirty) => NoRepeats(dirty')
    BY <1>7, <2>2, <2>3 DEF NoRepeats, n
  <2>6. \A k \in 1..bag0 : dirty'[k] = dirty[k]
    BY <1>8, <2>3
  <2>7. Goal
    BY <1>9, <1>11, <2>2, <2>3, <2>4, <2>5, <2>6
  <2> QED
    BY <1>2, <2>7 DEF out, S, kept, n
<1> QED
  BY <1>10, <1>11

\* What the clip leaves of the slice is of an earlier slice from then on.
LEMMA EndSliceContent ==
  ASSUME IInv, ContentInv, EndSlice
  PROVE  ContentInv'
<1> USE GatherAssumption
<1>1. /\ pc = "record" /\ r = RecPerSlice /\ pc' = "slice" /\ slice' = slice + 1
      /\ UNCHANGED <<disk, file, r, buf, bp, bag0, at, local>>
  BY DEF EndSlice, teamVars
<1>2. Holding = {} /\ Holding' = {}
  BY <1>1, NoneHeld DEF Holding
<1>3. /\ slice \in Nat /\ file \in 1..NFile /\ Len(dirty) \in Nat
      /\ bag0 \in 0..Len(dirty)
  BY <1>1, IsSeqFacts DEF IInv, TypeOK, InWindow
<1>4. NRec[file] > 0 /\ Slice0(file) <= slice /\ Slice0(file) \in Int
  BY <1>1, <1>3 DEF ContentInv, OnBurst, Slice0
<1>5. OnBurst'
  BY <1>1, <1>3, <1>4 DEF OnBurst, Slice0
<1>6. Contents' /\ HeldDistinct'
  BY <1>1, <1>2 DEF Contents, HeldDistinct
<1>7. /\ NoRepeats(dirty) => NoRepeats(dirty')
      /\ \A k \in 1..Len(dirty') : \E j \in 1..Len(dirty) : dirty'[k] = dirty[j]
  BY EndSliceEffect
<1>8. NoRepeats(dirty)'
  BY <1>7 DEF ContentInv, NoRepeats
<1>9. ASSUME NEW j \in 1..Len(dirty), NEW w, w = dirty[j].when
      PROVE  WhenPast(w)'
  <2>1. CASE j <= bag0
    <3>1. WhenPast(w)
      BY <1>1, <1>3, <1>9, <2>1 DEF ContentInv, Earlier
    <3>2. w \in Nat \X Nat \X Nat /\ (w[1] < file \/ (w[1] = file /\ w[2] < slice))
      BY <3>1 DEF WhenPast
    <3>3. w[2] \in Nat
      BY <3>2
    <3> QED
      BY <1>1, <1>3, <3>2, <3>3 DEF WhenPast
  <2>2. CASE ~(j <= bag0)
    <3>1. j \in (bag0 + 1)..Len(dirty)
      BY <1>3, <2>2
    <3>2. dirty[j] \in Wanted
      BY <1>1, <3>1 DEF ContentInv, Contents, Scope
    <3>3. PICK d \in Due : w = <<file, slice, d[1]>>
      BY <1>9, <3>2, WantedWhen
    <3>4. d[1] \in Nat
      BY DEF Due
    <3>5. w[1] = file /\ w[2] = slice /\ w \in Nat \X Nat \X Nat
      BY <1>3, <3>3, <3>4
    <3> QED
      BY <1>1, <1>3, <3>5 DEF WhenPast
  <2> QED
    BY <2>1, <2>2
<1>10. Earlier'
  <2>1. ASSUME NEW k \in 1..Len(dirty'), NEW w, w = dirty'[k].when
        PROVE  WhenPast(w)'
    <3>1. PICK j \in 1..Len(dirty) : dirty'[k] = dirty[j]
      BY <1>7
    <3> QED
      BY <1>9, <2>1, <3>1
  <2> QED
    BY <1>1, <2>1 DEF Earlier, WhenPast
<1> QED
  BY <1>5, <1>6, <1>8, <1>10 DEF ContentInv

\* Stuttering keeps it too.
LEMMA StutterContent ==
  ASSUME ContentInv, UNCHANGED vars
  PROVE  ContentInv'
<1>1. UNCHANGED <<disk, pc, file, slice, r, buf, bp, bag0, dirty, todo, at, local>>
  BY DEF vars, loopVars, teamVars
<1>2. Due' = Due /\ Scope' = Scope /\ Holding' = Holding
  BY <1>1 DEF Due, Scope, Holding
<1>3. Wanted' = Wanted
  BY <1>1, <1>2, WantedSame
<1>4. OnBurst' /\ Contents'
  BY <1>1, <1>2, <1>3 DEF ContentInv, OnBurst, Contents
<1>5. Earlier' /\ NoRepeats(dirty)' /\ HeldDistinct'
  BY <1>1, <1>2 DEF ContentInv, Earlier, WhenPast, NoRepeats, HeldDistinct
<1> QED
  BY <1>4, <1>5 DEF ContentInv

-----------------------------------------------------------------------------
(* What follows for the dirty bag *)

\* Whichever threads ran in which order, the slice's part of the bag together
\* with the local bags holds, each once, exactly the calibrated samples of the
\* baselines taken so far, read from this slice's buffer.
THEOREM GatherContents == Spec => []ContentInv
<1>1. IInv /\ ContentInv /\ [Next]_vars => ContentInv'
  <2> SUFFICES ASSUME IInv, ContentInv, [Next]_vars PROVE ContentInv'
    OBVIOUS
  <2>1. CASE Main
    BY <2>1, BetweenContent, ReadSliceContent, SkipRecordContent, BeginRecordContent,
       EndRecordContent, EndSliceContent DEF Main, Loop
  <2>2. ASSUME NEW t \in Threads, Thread(t) PROVE ContentInv'
    BY <2>2, SkipAutoContent, CalibrateContent, StoreContent, AppendDirtyContent,
       AppendPsfContent DEF Thread
  <2>3. CASE UNCHANGED vars
    BY <2>3, StutterContent
  <2> QED
    BY <2>1, <2>2, <2>3 DEF Next
<1> QED
  BY ContentInit, <1>1, GatherInvariant, PTL DEF Spec

\* A sequence without repeats has as many elements as positions.
LEMMA NoRepeatsCount ==
  ASSUME NEW s, IsSeq(s), NoRepeats(s)
  PROVE  Cardinality(ToSet(s)) = Len(s)
<1> DEFINE J == 1..Len(s)
<1>1. Len(s) \in Nat /\ IsFiniteSet(J) /\ Cardinality(J) = Len(s)
  <2>1. Len(s) \in Nat
    BY IsSeqFacts
  <2>2. \A n \in Nat : IsFiniteSet(1..n) /\ Cardinality(1..n) = n
    BY FS_Interval
  <2> QED
    BY <2>1, <2>2
<1>2. ToSet(s) = {s[k] : k \in J}
  BY ToSetOf
<1>3. Renumbers(s, J, ToSet(s))
  <2>1. s \in [J -> {s[k] : k \in DOMAIN s}] /\ DOMAIN s = J
    BY IsSeqFacts, LenProperties DEF IsSeq
  <2>2. s \in [J -> ToSet(s)]
    BY <1>2, <2>1
  <2>3. \A i, j \in J : s[i] = s[j] => i = j
    BY DEF NoRepeats
  <2> QED
    BY <1>2, <2>2, <2>3 DEF Renumbers
<1>4. Cardinality({j \in J : s[j] \in ToSet(s)}) = Cardinality(ToSet(s))
  BY <1>1, <1>3, SameCount
<1>5. {j \in J : s[j] \in ToSet(s)} = J
  BY <1>2
<1> QED
  BY <1>1, <1>4, <1>5

\* No sample is gathered twice, whichever threads ran in which order and
\* whatever was clipped before.
THEOREM GatherNoDuplicates == Spec => []NoDuplicates
<1>1. IInv /\ ContentInv => NoDuplicates
  BY NoRepeatsCount DEF IInv, TypeOK, ContentInv, NoDuplicates
<1> QED
  BY <1>1, GatherInvariant, GatherContents, PTL

\* What an earlier slice left in the bag.
Settled == IF pc \in {"record", "parallel"} THEN bag0 ELSE Len(dirty)

\* A step keeps the samples of earlier slices where they are.
LEMMA StepKeepsEarlier ==
  ASSUME IInv, [Next]_vars
  PROVE  SubSeq(dirty', 1, Settled) = SubSeq(dirty, 1, Settled)
<1>1. /\ IsSeq(dirty) /\ Len(dirty) \in Nat
      /\ Settled \in Nat /\ Settled <= Len(dirty)
  BY IsSeqFacts DEF IInv, TypeOK, Settled
<1>2. CASE UNCHANGED dirty
  BY <1>2
<1>3. CASE EndSlice
  <2>1. Settled = bag0
    BY <1>3 DEF EndSlice, Settled
  <2>2. IsSeq(dirty') /\ bag0 <= Len(dirty') /\ \A k \in 1..bag0 : dirty'[k] = dirty[k]
    BY <1>3, EndSliceEffect
  <2> QED
    BY <1>1, <2>1, <2>2, SamePrefix
<1>4. ASSUME NEW t \in Threads, AppendDirty(t)
      PROVE  SubSeq(dirty', 1, Settled) = SubSeq(dirty, 1, Settled)
  <2>1. dirty' = dirty \o local[t] /\ IsSeq(local[t]) /\ Len(local[t]) \in Nat
    BY <1>4, IsSeqFacts DEF AppendDirty, IInv, TypeOK
  <2>2. /\ IsSeq(dirty') /\ Len(dirty') = Len(dirty) + Len(local[t])
        /\ \A k \in 1..(Len(dirty) + Len(local[t])) :
             dirty'[k] = IF k <= Len(dirty) THEN dirty[k] ELSE local[t][k - Len(dirty)]
    BY <1>1, <2>1, ConcatIsSeq
  <2>3. Settled <= Len(dirty') /\ \A k \in 1..Settled : dirty'[k] = dirty[k]
    BY <1>1, <2>1, <2>2
  <2> QED
    BY <1>1, <2>2, <2>3, SamePrefix
<1>5. \/ UNCHANGED dirty \/ EndSlice
      \/ \E t \in Threads : AppendDirty(t)
  BY DEF Next, Main, Loop, Thread, BeginFile, ReadSlice, ReadFails, EndFile, SkipRecord,
         BeginRecord, EndRecord, Finish, SkipAuto, Calibrate, Count, AppendPsf, vars
<1> QED
  BY <1>2, <1>3, <1>4, <1>5

\* No step, the clip of the present slice included, alters, moves or drops a
\* sample of an earlier slice.
THEOREM GatherKeepsEarlier == Spec => EarlierSlicesKept
<1>1. IInv /\ [Next]_vars =>
        [LET n == IF pc \in {"record", "parallel"} THEN bag0 ELSE Len(dirty)
         IN  SubSeq(dirty', 1, n) = SubSeq(dirty, 1, n)]_vars
  BY StepKeepsEarlier DEF Settled
<1> QED
  BY <1>1, GatherInvariant, PTL DEF Spec, EarlierSlicesKept

-----------------------------------------------------------------------------
(* The threads gather what the specification says, a slice at a time *)

\* The clip of GatherSpec is this module's.
LEMMA SpecOutliers ==
  ASSUME NEW f, NEW thresh
  PROVE  BySlice!Outliers(f, thresh) = Outliers(f, thresh)
<1>1. \A S : BySlice!Cardinality(S) = Cardinality(S)
  BY DEF BySlice!Cardinality, Cardinality
<1>2. \A x : BySlice!Abs(x) = Abs(x)
  BY DEF BySlice!Abs, Abs
<1>3. \A g, k : BySlice!OrderStat(g, k) = OrderStat(g, k)
  BY <1>1, Zenon DEF BySlice!OrderStat, OrderStat
<1>4. \A g : BySlice!Median2(g) = Median2(g)
  BY <1>1, <1>3, Zenon DEF BySlice!Median2, Median2
<1>5. \A g : BySlice!Dev2(g) = Dev2(g)
  BY <1>2, <1>4, Zenon DEF BySlice!Dev2, Dev2
<1> QED
  BY <1>4, <1>5, Zenon DEF BySlice!Outliers, Outliers

\* GatherSpec's slices, and those of them still to image.
PlannedSlices ==
  UNION { {i} \X (Slice0(i)..(Slice1(i) - 1)) : i \in {i \in 1..NFile : NRec[i] > 0} }
Pending ==
  {p \in PlannedSlices : \/ p[1] > file
                         \/ p[1] = file /\ (pc = "file" \/ p[2] >= slice)}
Bag == IF pc \in {"record", "parallel"} THEN ToSet(SubSeq(dirty, 1, bag0))
                                        ELSE ToSet(dirty)

\* A planned slice lies in the window of a file with selected records.
LEMMA PlannedIs ==
  ASSUME NEW p
  PROVE  p \in PlannedSlices <=>
           /\ p \in (1..NFile) \X Int /\ NRec[p[1]] > 0
           /\ Slice0(p[1]) <= p[2] /\ p[2] < Slice1(p[1])
<1> USE GatherAssumption
<1>1. \A i \in 1..NFile : Slice0(i) \in Int /\ Slice1(i) \in Int
  BY DEF Slice0, Slice1
<1>2. ASSUME p \in PlannedSlices
      PROVE  /\ p \in (1..NFile) \X Int /\ NRec[p[1]] > 0
             /\ Slice0(p[1]) <= p[2] /\ p[2] < Slice1(p[1])
  <2>1. PICK i \in 1..NFile : NRec[i] > 0 /\ p \in {i} \X (Slice0(i)..(Slice1(i) - 1))
    BY <1>2 DEF PlannedSlices
  <2>2. p[1] = i /\ p[2] \in Slice0(i)..(Slice1(i) - 1) /\ p = <<p[1], p[2]>>
    BY <2>1
  <2> QED
    BY <1>1, <2>1, <2>2
<1>3. ASSUME p \in (1..NFile) \X Int, NRec[p[1]] > 0,
             Slice0(p[1]) <= p[2], p[2] < Slice1(p[1])
      PROVE  p \in PlannedSlices
  <2>1. p[1] \in 1..NFile /\ p[2] \in Slice0(p[1])..(Slice1(p[1]) - 1)
        /\ p = <<p[1], p[2]>>
    BY <1>1, <1>3
  <2>2. p \in {p[1]} \X (Slice0(p[1])..(Slice1(p[1]) - 1))
    BY <2>1
  <2> QED
    BY <1>3, <2>1, <2>2 DEF PlannedSlices
<1> QED
  BY <1>2, <1>3

\* All slices are pending at first, and the bag is empty.
LEMMA SpecInit == Init => BySlice!Init
<1> SUFFICES ASSUME Init PROVE BySlice!Init
  OBVIOUS
<1> USE GatherAssumption DEF Init
<1>1. Pending = PlannedSlices
  <2>1. \A p \in PlannedSlices : p[1] > file \/ p[1] = file
    BY PlannedIs
  <2> QED
    BY <2>1 DEF Pending
<1>2. BySlice!Planned = PlannedSlices
  BY DEF BySlice!Planned, PlannedSlices, BySlice!Slice0, BySlice!Slice1, Slice0, Slice1
<1>3. Bag = {}
  <2>1. IsSeq(<<>>) /\ Len(<<>>) = 0
    BY EmptySeq DEF IsSeq
  <2> QED
    BY <2>1, ToSetOf DEF Bag
<1> QED
  BY <1>1, <1>2, <1>3 DEF BySlice!Init, Pending, PlannedSlices, Bag

\* A file or a slice done with has nothing pending.
LEMMA PendingSame ==
  ASSUME IInv, ContentInv, BeginFile \/ EndFile \/ Finish
  PROVE  Pending' = Pending
<1> USE GatherAssumption
<1>1. file \in 1..(NFile + 1) /\ slice \in Nat /\ PlannedSlices' = PlannedSlices
  BY DEF IInv, TypeOK, PlannedSlices
<1>2. ASSUME NEW p \in PlannedSlices
      PROVE  (p[1] > file' \/ (p[1] = file' /\ (pc' = "file" \/ p[2] >= slice')))
             <=> (p[1] > file \/ (p[1] = file /\ (pc = "file" \/ p[2] >= slice)))
  <2>1. /\ p[1] \in 1..NFile /\ p[2] \in Int /\ NRec[p[1]] > 0
        /\ Slice0(p[1]) <= p[2] /\ p[2] < Slice1(p[1])
    BY PlannedIs
  <2>2. Slice0(p[1]) \in Int /\ Slice1(p[1]) \in Int
    BY <2>1 DEF Slice0, Slice1
  <2>3. CASE BeginFile
    <3>1. CASE NRec[file] = 0
      BY <1>1, <2>1, <2>3, <3>1 DEF BeginFile, GotoFile
    <3>2. CASE NRec[file] # 0
      BY <1>1, <2>1, <2>2, <2>3, <3>2 DEF BeginFile
    <3> QED
      BY <3>1, <3>2
  <2>4. CASE EndFile
    BY <1>1, <2>1, <2>2, <2>4, SMTT(30) DEF EndFile, GotoFile
  <2>5. CASE Finish
    BY <1>1, <2>1, <2>5, SMTT(30) DEF Finish
  <2> QED
    BY <2>3, <2>4, <2>5
<1> QED
  BY <1>1, <1>2 DEF Pending

\* Only the end of a slice, or of a file that cannot be read, is visible.
LEMMA QuietStutters ==
  ASSUME IInv, ContentInv, [Next]_vars, ~ReadFails, ~EndSlice
  PROVE  disk' = disk /\ Pending' = Pending /\ Bag' = Bag
<1>1. \/ BeginFile \/ EndFile \/ Finish
      \/ ReadSlice
      \/ /\ UNCHANGED <<disk, file, slice, bag0>>
         /\ pc \in {"record", "parallel"} /\ pc' \in {"record", "parallel"}
      \/ UNCHANGED vars
  <2>1. CASE Main
    BY <2>1 DEF Main, Loop, SkipRecord, BeginRecord, EndRecord
  <2>2. ASSUME NEW t \in Threads, Thread(t)
        PROVE  /\ UNCHANGED <<disk, pc, file, slice, bag0>>
               /\ pc = "parallel"
    <3>1. UNCHANGED <<disk, pc, file, slice, bag0>>
      BY <2>2 DEF Thread, SkipAuto, Calibrate, Count, AppendDirty, AppendPsf, loopVars
    <3>2. pc = "parallel"
      BY <2>2 DEF Thread, SkipAuto, Calibrate, Count, AppendDirty, AppendPsf, IInv,
                  TeamJoined
    <3> QED
      BY <3>1, <3>2
  <2> QED
    BY <2>1, <2>2 DEF Next
<1>2. IsSeq(dirty) /\ Len(dirty) \in Nat
  BY IsSeqFacts DEF IInv, TypeOK
<1>3. CASE BeginFile \/ EndFile \/ Finish
  <2>1. /\ UNCHANGED <<disk, dirty>>
        /\ pc \notin {"record", "parallel"} /\ pc' \notin {"record", "parallel"}
    BY <1>3 DEF BeginFile, EndFile, Finish, GotoFile
  <2> QED
    BY <1>3, <2>1, PendingSame DEF Bag
<1>4. CASE ReadSlice
  <2>1. /\ pc = "slice" /\ pc' = "record" /\ bag0' = Len(dirty)
        /\ UNCHANGED <<disk, file, slice, dirty>>
    BY <1>4 DEF ReadSlice
  <2>2. ToSet(SubSeq(dirty, 1, Len(dirty))) = ToSet(dirty)
    <3>1. Len(dirty) <= Len(dirty)
      BY <1>2
    <3>2. ToSet(SubSeq(dirty, 1, Len(dirty))) = {dirty[k] : k \in 1..Len(dirty)}
      BY <1>2, <3>1, PrefixToSet
    <3> QED
      BY <1>2, <3>2, ToSetOf
  <2> QED
    BY <2>1, <2>2 DEF Pending, PlannedSlices, Bag
<1>5. CASE /\ UNCHANGED <<disk, file, slice, bag0>>
           /\ pc \in {"record", "parallel"} /\ pc' \in {"record", "parallel"}
  <2>1. SubSeq(dirty', 1, bag0) = SubSeq(dirty, 1, bag0)
    BY <1>5, StepKeepsEarlier DEF Settled
  <2> QED
    BY <1>5, <2>1 DEF Pending, PlannedSlices, Bag
<1>6. CASE UNCHANGED vars
  BY <1>6 DEF vars, loopVars, Pending, PlannedSlices, Bag
<1> QED
  BY <1>1, <1>3, <1>4, <1>5, <1>6

\* In the slice loop the slice at hand is pending, and no pending slice goes
\* before it.
LEMMA SliceIsNext ==
  ASSUME IInv, ContentInv, pc \in {"slice", "record"}, slice < Slice1(file)
  PROVE  /\ <<file, slice>> \in Pending
         /\ \A q \in Pending : file < q[1] \/ (file = q[1] /\ slice <= q[2])
<1> USE GatherAssumption
<1>1. file \in 1..NFile /\ slice \in Nat /\ NRec[file] > 0 /\ Slice0(file) <= slice
  BY DEF IInv, InWindow, TypeOK, ContentInv, OnBurst
<1>2. <<file, slice>> \in PlannedSlices
  <2> DEFINE p == <<file, slice>>
  <2>1. p[1] = file /\ p[2] = slice /\ p \in (1..NFile) \X Int
    BY <1>1
  <2> HIDE DEF p
  <2>2. p \in PlannedSlices
    BY <1>1, <2>1, PlannedIs
  <2> QED
    BY <2>2 DEF p
<1>3. \A q \in PlannedSlices : q[1] \in Int /\ q[2] \in Int
  BY PlannedIs
<1> QED
  BY <1>1, <1>2, <1>3 DEF Pending

\* A read that fails loses the rest of its file and no other.
LEMMA ReadFailsLoses ==
  ASSUME IInv, ContentInv, ReadFails
  PROVE  /\ disk' = disk /\ Bag' = Bag
         /\ Pending' = {q \in Pending : q[1] # file}
<1> USE GatherAssumption
<1>1. /\ pc = "slice" /\ pc' = "file" /\ file' = file + 1
      /\ UNCHANGED <<disk, slice, dirty, bag0>>
  BY DEF ReadFails, GiveUpFile, GotoFile
<1>2. file \in Nat /\ slice \in Nat /\ PlannedSlices' = PlannedSlices
  BY DEF IInv, TypeOK, PlannedSlices
<1>3. \A q \in PlannedSlices : q[1] \in Int /\ q[2] \in Int
  BY PlannedIs
<1>4. Pending' = {q \in Pending : q[1] # file}
  BY <1>1, <1>2, <1>3 DEF Pending
<1> QED
  BY <1>1, <1>4 DEF Bag

\* When the records of a slice are through, what it should have contributed is
\* what GatherSpec says.
LEMMA SliceWanted ==
  ASSUME IInv, pc = "record", r = RecPerSlice
  PROVE  BySlice!SliceSamples(file, slice) = Wanted
<1> USE GatherAssumption
<1>1. Due = (0..(RecPerSlice - 1)) \X (Baselines \ Autos)
  BY DEF Due
<1>2. ASSUME NEW q
      PROVE  BySlice!RecordSamples(file, slice, q)
               = {RecSample(file, slice, q, b, c) :
                    b \in Baselines \ Autos, c \in BurstChans(file, slice, q)}
  BY DEF BySlice!RecordSamples, RecSample, BurstChans, BySlice!Selected, Selected,
         BySlice!SampleOf, SampleOf
<1>3. \A x : x \in BySlice!SliceSamples(file, slice) <=>
         /\ x.amp # BAD
         /\ \E q \in 0..(RecPerSlice - 1) : \E b \in Baselines \ Autos :
              \E c \in BurstChans(file, slice, q) : x = RecSample(file, slice, q, b, c)
  BY <1>2 DEF BySlice!SliceSamples
<1>4. \A q, b, c : RecSample(file, slice, q, b, c).amp = disk[<<file, slice, q, b, c>>]
  BY RecSampleFields
<1>5. \A x \in BySlice!SliceSamples(file, slice) : x \in Wanted
  <2> SUFFICES ASSUME NEW x \in BySlice!SliceSamples(file, slice) PROVE x \in Wanted
    OBVIOUS
  <2>1. PICK q \in 0..(RecPerSlice - 1), b \in Baselines \ Autos :
           \E c \in BurstChans(file, slice, q) : x = RecSample(file, slice, q, b, c)
    BY <1>3
  <2>2. x \in BaseSamples(file, slice, q, b)
    BY <1>3, <1>4, <2>1 DEF BaseSamples
  <2>3. <<q, b>> \in Due
    BY <1>1
  <2> QED
    BY <2>2, <2>3 DEF Wanted
<1>6. \A x \in Wanted : x \in BySlice!SliceSamples(file, slice)
  <2> SUFFICES ASSUME NEW x \in Wanted PROVE x \in BySlice!SliceSamples(file, slice)
    OBVIOUS
  <2>1. PICK d \in Due : x \in BaseSamples(file, slice, d[1], d[2])
    BY DEF Wanted
  <2>2. PICK c \in BurstChans(file, slice, d[1]) :
           /\ disk[<<file, slice, d[1], d[2], c>>] # BAD
           /\ x = RecSample(file, slice, d[1], d[2], c)
    BY <2>1 DEF BaseSamples
  <2>3. d[1] \in 0..(RecPerSlice - 1) /\ d[2] \in Baselines \ Autos
    BY <1>1
  <2> QED
    BY <1>3, <1>4, <2>2, <2>3
<1> QED
  BY <1>5, <1>6

\* Numbering the slice's samples by their place in the bag does not change which
\* of them are outliers.
LEMMA ScopeOutliers ==
  ASSUME IInv, NoRepeats(dirty)
  PROVE  Outliers([k \in (bag0 + 1)..Len(dirty) |-> dirty[k].amp], Thresh)
           = {k \in (bag0 + 1)..Len(dirty) :
                dirty[k] \in Outliers([x \in Scope |-> x.amp], Thresh)}
<1> DEFINE J == (bag0 + 1)..Len(dirty)
           h == [k \in J |-> dirty[k]]
           f == [x \in Scope |-> x.amp]
<1>1. Len(dirty) \in Nat /\ bag0 \in Nat
  BY IsSeqFacts DEF IInv, TypeOK
<1>2. IsFiniteSet(J)
  BY <1>1, FS_Interval
<1>3. Renumbers(h, J, Scope)
  <2>1. \A k \in J : k \in 1..Len(dirty)
    BY <1>1
  <2>2. Scope = {dirty[k] : k \in J}
    BY DEF Scope
  <2> HIDE DEF J
  <2>3. h \in [J -> Scope]
    BY <2>2
  <2>4. \A i, j \in J : h[i] = h[j] => i = j
    BY <2>1 DEF NoRepeats
  <2>5. \A x \in Scope : \E j \in J : h[j] = x
    BY <2>2
  <2> HIDE DEF h
  <2> QED
    BY <2>3, <2>4, <2>5 DEF Renumbers
<1>4. Renumbered(f, h, J) = [k \in J |-> dirty[k].amp]
  <2>1. \A k \in J : dirty[k] \in Scope
    BY DEF Scope
  <2> QED
    BY <2>1 DEF Renumbered
<1>5. DOMAIN f = Scope
  OBVIOUS
<1> HIDE DEF J, h, f
<1>6. Outliers(Renumbered(f, h, J), Thresh) = {k \in J : h[k] \in Outliers(f, Thresh)}
  BY <1>2, <1>3, <1>5, OutliersRenumbered
<1>7. \A k \in J : h[k] = dirty[k]
  BY DEF h
<1> QED
  BY <1>4, <1>6, <1>7 DEF J, f

\* The clip at the end of a slice leaves its samples less their outliers.
LEMMA EndSliceImages ==
  ASSUME IInv, ContentInv, EndSlice
  PROVE  /\ disk' = disk
         /\ Pending' = Pending \ {<<file, slice>>}
         /\ Bag' = Bag \cup BySlice!Survivors(BySlice!SliceSamples(file, slice))
<1> USE GatherAssumption
<1>1. /\ pc = "record" /\ r = RecPerSlice /\ pc' = "slice" /\ slice' = slice + 1
      /\ UNCHANGED <<disk, file, bag0>>
  BY DEF EndSlice
<1>2. /\ file \in Nat /\ slice \in Nat /\ PlannedSlices' = PlannedSlices
      /\ Len(dirty) \in Nat /\ bag0 \in 0..Len(dirty) /\ IsSeq(dirty)
  BY IsSeqFacts DEF IInv, TypeOK, PlannedSlices
<1>3. Pending' = Pending \ {<<file, slice>>}
  <2>1. \A q \in PlannedSlices : q[1] \in Int /\ q[2] \in Int
          /\ (q = <<file, slice>> <=> q[1] = file /\ q[2] = slice)
    <3> SUFFICES ASSUME NEW q \in PlannedSlices
                 PROVE  /\ q[1] \in Int /\ q[2] \in Int
                        /\ q = <<file, slice>> <=> q[1] = file /\ q[2] = slice
      OBVIOUS
    <3>1. q \in (1..NFile) \X Int
      BY PlannedIs
    <3> QED
      BY <3>1
  <2> QED
    BY <1>1, <1>2, <2>1 DEF Pending
<1>4. Scope = BySlice!SliceSamples(file, slice)
  <2>1. Holding = {}
    BY <1>1, NoneHeld
  <2>2. Scope = Wanted
    BY <1>1, <2>1 DEF ContentInv, Contents
  <2> QED
    BY <1>1, <2>2, SliceWanted
<1> DEFINE J == (bag0 + 1)..Len(dirty)
           out == Outliers([k \in J |-> dirty[k].amp], Thresh)
           bad == Outliers([x \in Scope |-> x.amp], Thresh)
<1>5. out = {k \in J : dirty[k] \in bad}
  BY ScopeOutliers DEF ContentInv
<1>6. BySlice!Survivors(Scope) = IF DoFlag /\ Scope # {} THEN Scope \ bad ELSE Scope
  BY SpecOutliers DEF BySlice!Survivors
<1>7. IF DoFlag /\ bag0 < Len(dirty)
        THEN ToSet(dirty') = {dirty[k] : k \in (1..Len(dirty)) \ out}
        ELSE dirty' = dirty
  BY EndSliceEffect
<1>8. Bag = {dirty[k] : k \in 1..bag0} /\ Bag' = ToSet(dirty')
  BY <1>1, <1>2, PrefixToSet DEF Bag
<1>9. /\ Scope = {dirty[k] : k \in J}
      /\ Scope # {} <=> bag0 < Len(dirty)
  <2>1. Scope = {dirty[k] : k \in J}
    BY DEF Scope
  <2>2. J # {} <=> bag0 < Len(dirty)
    <3>1. bag0 < Len(dirty) => bag0 + 1 \in J
      BY <1>2
    <3>2. ~(bag0 < Len(dirty)) => J = {}
      BY <1>2
    <3> HIDE DEF J
    <3> QED
      BY <3>1, <3>2
  <2> HIDE DEF J
  <2> QED
    BY <2>1, <2>2
<1>10. \A k : k \in 1..Len(dirty) <=> k \in 1..bag0 \/ k \in J
  BY <1>2
<1>11. \A k \in J : k \notin 1..bag0
  BY <1>2
<1> HIDE DEF out, bad, J
<1>12. Bag' = Bag \cup BySlice!Survivors(Scope)
  <2>1. CASE DoFlag /\ bag0 < Len(dirty)
    <3>1. BySlice!Survivors(Scope) = Scope \ bad
      BY <1>6, <1>9, <2>1
    <3>2. Bag' = {dirty[k] : k \in (1..Len(dirty)) \ out}
      BY <1>7, <1>8, <2>1
    <3>3. \A k : k \in (1..Len(dirty)) \ out
             <=> k \in 1..bag0 \/ (k \in J /\ dirty[k] \notin bad)
      BY <1>5, <1>10, <1>11
    <3>4. \A x \in Bag' : x \in Bag \cup (Scope \ bad)
      BY <1>8, <1>9, <3>2, <3>3
    <3>5. \A x \in Bag : x \in Bag'
      BY <1>8, <3>2, <3>3
    <3>6. \A x \in Scope \ bad : x \in Bag'
      BY <1>9, <3>2, <3>3
    <3> QED
      BY <3>1, <3>4, <3>5, <3>6
  <2>2. CASE ~(DoFlag /\ bag0 < Len(dirty))
    <3>1. BySlice!Survivors(Scope) = Scope
      BY <1>6, <1>9, <2>2
    <3>2. Bag' = {dirty[k] : k \in 1..Len(dirty)}
      BY <1>2, <1>7, <1>8, <2>2, ToSetOf
    <3> QED
      BY <1>8, <1>9, <1>10, <3>1, <3>2
  <2> QED
    BY <2>1, <2>2
<1> QED
  BY <1>1, <1>3, <1>4, <1>12

\* Every step of the threads and of the main loop is a step of GatherSpec or
\* leaves its state alone.
LEMMA SpecStep ==
  ASSUME IInv, ContentInv, [Next]_vars
  PROVE  [BySlice!Next]_(BySlice!vars)
<1>1. /\ BySlice!vars = <<disk, Pending, Bag>>
      /\ (BySlice!vars)' = <<disk', Pending', Bag'>>
  BY DEF BySlice!vars, Pending, PlannedSlices, Bag
<1>2. CASE ~ReadFails /\ ~EndSlice
  BY <1>1, <1>2, QuietStutters
<1>3. CASE ReadFails
  <2>1. pc = "slice" /\ slice < Slice1(file)
    BY <1>3 DEF ReadFails
  <2> DEFINE p == <<file, slice>>
  <2>2. p \in Pending /\ BySlice!IsNext(p)
    BY <2>1, SliceIsNext DEF BySlice!IsNext, Pending, PlannedSlices
  <2>3. BySlice!LoseRest(p)
    BY <1>3, ReadFailsLoses DEF BySlice!LoseRest, Pending, PlannedSlices, Bag
  <2> HIDE DEF p
  <2>4. BySlice!Next
    BY <2>2, <2>3, Zenon
       DEF BySlice!Next, BySlice!IsNext, BySlice!LoseRest, Pending, PlannedSlices
  <2> QED
    BY <2>4
<1>4. CASE EndSlice
  <2>1. pc = "record" /\ slice < Slice1(file)
    BY <1>4 DEF EndSlice, ContentInv, OnBurst
  <2> DEFINE p == <<file, slice>>
  <2>2. p \in Pending /\ BySlice!IsNext(p)
    BY <2>1, SliceIsNext DEF BySlice!IsNext, Pending, PlannedSlices
  <2>3. BySlice!ImageSlice(p)
    BY <1>4, EndSliceImages DEF BySlice!ImageSlice, Pending, PlannedSlices, Bag
  <2> HIDE DEF p
  <2>4. BySlice!Next
    BY <2>2, <2>3
       DEF BySlice!Next, BySlice!IsNext, BySlice!ImageSlice, BySlice!LoseRest,
           Pending, PlannedSlices
  <2> QED
    BY <2>4
<1> QED
  BY <1>2, <1>3, <1>4

\* The threads implement slice-at-a-time gathering.
THEOREM GatherImplements == Spec => ImplementsGatherSpec
<1>1. IInv /\ ContentInv /\ [Next]_vars => [BySlice!Next]_(BySlice!vars)
  BY SpecStep
<1> QED
  BY <1>1, SpecInit, GatherInvariant, GatherContents, PTL
     DEF Spec, ImplementsGatherSpec, BySlice!Spec

-----------------------------------------------------------------------------
(* The DC diagnostic's counters.  A sum of naturals is the number of pairs  *)
(* of an index and a unit of its number.                                    *)

Units(I, n) == {u \in I \X Nat : 1 <= u[2] /\ u[2] <= n[u[1]]}

\* Finitely many naturals have finitely many units.
LEMMA UnitsFinite ==
  ASSUME NEW I, IsFiniteSet(I), NEW n \in [I -> Nat]
  PROVE  IsFiniteSet(Units(I, n)) /\ Cardinality(Units(I, n)) \in Nat
<1>1. PICK d \in Nat : \A i \in I : n[i] <= d
  BY FiniteIsBounded
<1>2. IsFiniteSet(1..d)
  BY FS_Interval
<1>3. IsFiniteSet(I \X (1..d))
  BY <1>2, FS_Product
<1>4. Units(I, n) \subseteq I \X (1..d)
  <2>1. ASSUME NEW u \in Units(I, n) PROVE u \in I \X (1..d)
    <3>1. u = <<u[1], u[2]>> /\ u[1] \in I /\ u[2] \in Nat /\ 1 <= u[2] /\ u[2] <= n[u[1]]
      BY DEF Units
    <3>2. n[u[1]] \in Nat /\ n[u[1]] <= d
      BY <1>1, <3>1
    <3>3. u[2] \in 1..d
      BY <3>1, <3>2
    <3> QED
      BY <3>1, <3>3
  <2> QED
    BY <2>1
<1> QED
  BY <1>3, <1>4, FS_Subset, FS_CardinalityType

\* A column of units.
LEMMA ColumnSize ==
  ASSUME NEW x, NEW J, IsFiniteSet(J)
  PROVE  IsFiniteSet({x} \X J) /\ Cardinality({x} \X J) = Cardinality(J)
<1>1. IsFiniteSet({x}) /\ Cardinality({x}) = 1
  BY FS_Singleton
<1>2. /\ IsFiniteSet({x} \X J)
      /\ Cardinality({x} \X J) = Cardinality({x}) * Cardinality(J)
  BY <1>1, FS_Product
<1>3. Cardinality(J) \in Nat
  BY FS_CardinalityType
<1> QED
  BY <1>1, <1>2, <1>3

\* The sizes of two disjoint sets add up.
LEMMA CardDisjoint ==
  ASSUME NEW A, NEW B, IsFiniteSet(A), IsFiniteSet(B), A \cap B = {}
  PROVE  /\ IsFiniteSet(A \cup B)
         /\ Cardinality(A \cup B) = Cardinality(A) + Cardinality(B)
<1>1. Cardinality(A \cap B) = 0
  BY FS_EmptySet
<1>2. Cardinality(A) \in Nat /\ Cardinality(B) \in Nat
  BY FS_CardinalityType
<1>3. /\ IsFiniteSet(A \cup B)
      /\ Cardinality(A \cup B) = Cardinality(A) + Cardinality(B) - Cardinality(A \cap B)
  BY FS_Union
<1> QED
  BY <1>1, <1>2, <1>3

\* m has k more at x than n, and the same elsewhere.
Grows(I, n, m, x, k) ==
  /\ x \in I /\ k \in Nat /\ n \in [I -> Nat] /\ m \in [I -> Nat]
  /\ m[x] = n[x] + k /\ \A i \in I : i # x => m[i] = n[i]

\* Adding k to one number adds k units.
LEMMA UnitsGrow ==
  ASSUME NEW I, NEW n, NEW m, NEW x, NEW k,
         Grows(I, n, m, x, k), IsFiniteSet(Units(I, n))
  PROVE  /\ IsFiniteSet(Units(I, m))
         /\ Cardinality(Units(I, m)) = Cardinality(Units(I, n)) + k
<1> DEFINE New == {x} \X ((n[x] + 1)..(n[x] + k))
<1>1. /\ x \in I /\ k \in Nat /\ n \in [I -> Nat] /\ m \in [I -> Nat]
      /\ n[x] \in Nat /\ m[x] = n[x] + k /\ \A i \in I : i # x => m[i] = n[i]
  BY DEF Grows
<1>2. IsFiniteSet(New) /\ Cardinality(New) = k
  <2> DEFINE J == (n[x] + 1)..(n[x] + k)
  <2>1. IsFiniteSet(J) /\ Cardinality(J) = k
    <3> DEFINE lo == n[x] + 1
               hi == n[x] + k
    <3>1. lo \in Int /\ hi \in Int /\ (lo > hi <=> k = 0) /\ hi - lo + 1 = k
      BY <1>1
    <3> HIDE DEF lo, hi
    <3>2. /\ IsFiniteSet(lo..hi)
          /\ Cardinality(lo..hi) = IF lo > hi THEN 0 ELSE hi - lo + 1
      BY <3>1, FS_Interval
    <3>3. IsFiniteSet(lo..hi) /\ Cardinality(lo..hi) = k
      BY <3>1, <3>2
    <3> QED
      BY <3>3 DEF lo, hi
  <2> HIDE DEF J
  <2>2. IsFiniteSet({x} \X J) /\ Cardinality({x} \X J) = k
    BY <2>1, ColumnSize
  <2> QED
    BY <2>2 DEF J
<1>3. ASSUME NEW i \in I, NEW v \in Nat
      PROVE  <<i, v>> \in Units(I, m) <=> <<i, v>> \in Units(I, n) \cup New
  <2>1. /\ <<i, v>> \in Units(I, m) <=> 1 <= v /\ v <= m[i]
        /\ <<i, v>> \in Units(I, n) <=> 1 <= v /\ v <= n[i]
    BY DEF Units
  <2>2. <<i, v>> \in New <=> i = x /\ n[x] + 1 <= v /\ v <= n[x] + k
    BY <1>1
  <2> HIDE DEF New
  <2> QED
    BY <1>1, <2>1, <2>2
<1>4. Units(I, m) \subseteq I \X Nat /\ Units(I, n) \cup New \subseteq I \X Nat
  BY <1>1 DEF Units
<1>5. Units(I, m) = Units(I, n) \cup New
  <2> HIDE DEF New
  <2>1. ASSUME NEW u \in I \X Nat
        PROVE  u \in Units(I, m) <=> u \in Units(I, n) \cup New
    <3>1. u = <<u[1], u[2]>> /\ u[1] \in I /\ u[2] \in Nat
      OBVIOUS
    <3> QED
      BY <1>3, <3>1, Zenon
  <2> QED
    BY <1>4, <2>1
<1>6. Units(I, n) \cap New = {}
  <2>1. ASSUME NEW u \in New PROVE u \notin Units(I, n)
    <3>1. u[1] = x /\ u[2] \in (n[x] + 1)..(n[x] + k)
      OBVIOUS
    <3>2. ~(u[2] <= n[u[1]])
      BY <1>1, <3>1
    <3> QED
      BY <3>2 DEF Units
  <2> QED
    BY <2>1
<1> HIDE DEF New
<1> QED
  BY <1>2, <1>5, <1>6, CardDisjoint

\* FoldFunction adds up, in whatever order it chooses: a subset of the indices on
\* which it does not count the units would have a smaller one.
LEMMA FoldIsCount ==
  ASSUME NEW I, IsFiniteSet(I), NEW n \in [I -> Nat]
  PROVE  FoldFunction(LAMBDA x, y : x + y, 0, n) = Cardinality(Units(I, n))
<1> DEFINE Pick(S) == CHOOSE x \in S : TRUE
           P(f) == f = [S \in SUBSET I |-> IF S = {} THEN 0
                                           ELSE n[Pick(S)] + f[S \ {Pick(S)}]]
           iter == CHOOSE f : P(f)
           G == [S \in SUBSET I |-> Cardinality(Units(S, n))]
<1>1. FoldFunction(LAMBDA x, y : x + y, 0, n) = iter[I]
  BY DEF FoldFunction, FoldFunctionOnSet, MapThenFoldSet
<1>2. ASSUME NEW S \in SUBSET I
      PROVE  G[S] = IF S = {} THEN 0 ELSE n[Pick(S)] + G[S \ {Pick(S)}]
  <2>1. CASE S = {}
    <3>1. Units(S, n) = {}
      BY <2>1 DEF Units
    <3> QED
      BY <2>1, <3>1, FS_EmptySet
  <2>2. CASE S # {}
    <3> DEFINE x == Pick(S)
               R == S \ {x}
               New == {x} \X (1..n[x])
    <3>1. x \in S /\ x \in I /\ n[x] \in Nat /\ R \in SUBSET I
      BY <2>2
    <3> HIDE DEF x
    <3>2. IsFiniteSet(R) /\ [i \in R |-> n[i]] \in [R -> Nat]
      BY <3>1, FS_Subset
    <3>3. Units(R, [i \in R |-> n[i]]) = Units(R, n)
      BY DEF Units
    <3>4. IsFiniteSet(Units(R, n)) /\ Cardinality(Units(R, n)) \in Nat
      <4> HIDE DEF R
      <4>1. /\ IsFiniteSet(Units(R, [i \in R |-> n[i]]))
            /\ Cardinality(Units(R, [i \in R |-> n[i]])) \in Nat
        BY <3>2, UnitsFinite
      <4> QED
        BY <3>3, <4>1
    <3>5. IsFiniteSet(New) /\ Cardinality(New) = n[x]
      <4> DEFINE J == 1..n[x]
      <4>1. IsFiniteSet(J) /\ Cardinality(J) = n[x]
        BY <3>1, FS_Interval
      <4> HIDE DEF J
      <4>2. IsFiniteSet({x} \X J) /\ Cardinality({x} \X J) = n[x]
        BY <4>1, ColumnSize
      <4> QED
        BY <4>2 DEF J
    <3>6. Units(S, n) = Units(R, n) \cup New
      <4>1. ASSUME NEW i \in S, NEW v \in Nat
            PROVE  <<i, v>> \in Units(S, n) <=> <<i, v>> \in Units(R, n) \cup New
        <5>1. i \in I /\ n[i] \in Nat
          OBVIOUS
        <5>2. <<i, v>> \in Units(S, n) <=> 1 <= v /\ v <= n[i]
          BY DEF Units
        <5>3. <<i, v>> \in Units(R, n) <=> i # x /\ 1 <= v /\ v <= n[i]
          BY DEF Units
        <5>4. <<i, v>> \in New <=> i = x /\ 1 <= v /\ v <= n[x]
          BY <3>1
        <5> HIDE DEF New
        <5> QED
          BY <5>2, <5>3, <5>4
      <4>2. Units(S, n) \subseteq S \X Nat /\ Units(R, n) \cup New \subseteq S \X Nat
        BY <3>1 DEF Units
      <4>3. \A u \in S \X Nat : u \in Units(S, n) <=> u \in Units(R, n) \cup New
        <5> HIDE DEF New, R
        <5> QED
          BY <4>1
      <4> HIDE DEF New, R
      <4> QED
        BY <4>2, <4>3
    <3>7. Units(R, n) \cap New = {}
      BY DEF Units
    <3>8. Cardinality(Units(S, n)) = Cardinality(Units(R, n)) + n[x]
      <4> HIDE DEF New
      <4> QED
        BY <3>4, <3>5, <3>6, <3>7, CardDisjoint
    <3>9. G[S] = n[x] + G[R]
      BY <3>1, <3>4, <3>8
    <3> QED
      BY <2>2, <3>9 DEF x
  <2> QED
    BY <2>1, <2>2
<1>3. P(G)
  <2> HIDE DEF Pick
  <2>1. G = [S \in SUBSET I |-> G[S]]
    OBVIOUS
  <2> HIDE DEF G
  <2> QED
    BY <1>2, <2>1
<1>4. P(iter)
  <2> HIDE DEF P, G
  <2> QED
    BY <1>3
<1> DEFINE T == {S \in SUBSET I : iter[S] # G[S]}
<1>5. SUFFICES ASSUME T # {} PROVE FALSE
  BY <1>1
<1>6. PICK S \in T : \A R \in T : <<R, S>> \notin StrictSubsetOrdering(I)
  <2>1. T \subseteq FiniteSubsetsOf(I)
    BY FS_FiniteSubsetsOfFinite
  <2> HIDE DEF T
  <2> QED
    BY <1>5, <2>1, FS_StrictSubsetOrderingWellFounded, WFMin
<1>7. S \in SUBSET I /\ iter[S] # G[S]
  OBVIOUS
<1>8. iter[S] = IF S = {} THEN 0 ELSE n[Pick(S)] + iter[S \ {Pick(S)}]
  <2> HIDE DEF iter, G, Pick
  <2> QED
    BY <1>4, <1>7
<1>9. S # {} => iter[S \ {Pick(S)}] = G[S \ {Pick(S)}]
  <2> HIDE DEF iter, G
  <2>1. ASSUME S # {} PROVE S \ {Pick(S)} \notin T
    <3>1. Pick(S) \in S
      BY <2>1
    <3>2. <<S \ {Pick(S)}, S>> \in StrictSubsetOrdering(I)
      BY <1>7, <3>1 DEF StrictSubsetOrdering
    <3> QED
      BY <1>6, <3>2
  <2> QED
    BY <1>7, <2>1
<1> HIDE DEF iter, G, Pick
<1> QED
  BY <1>2, <1>7, <1>8, <1>9

\* Samples a thread has counted and not yet appended.
Waiting == [t \in Threads |-> IF at[t] = "local" THEN Len(local[t]) ELSE 0]

\* Within the slices that found the bag empty, what has been counted is in the bag or
\* waits in a local one; between them an empty bag means that nothing was counted.
CountInv ==
  IF pc \in {"record", "parallel"}
    THEN bag0 = 0 => /\ IsFiniteSet(Units(Threads, Waiting))
                     /\ Cardinality(Units(Baselines, bl_n))
                          = Len(dirty) + Cardinality(Units(Threads, Waiting))
    ELSE Len(dirty) = 0 => Cardinality(Units(Baselines, bl_n)) = 0

\* Its types, as the lemmas on units want them.
LEMMA CountTypes ==
  ASSUME IInv
  PROVE  /\ Waiting \in [Threads -> Nat]
         /\ bl_n \in [Baselines -> Nat]
         /\ IsFiniteSet(Units(Baselines, bl_n))
         /\ Cardinality(Units(Baselines, bl_n)) \in Nat
         /\ Len(dirty) \in Nat
<1> USE GatherAssumption
<1>1. bl_n \in [Baselines -> Nat] /\ \A t \in Threads : IsSeq(local[t]) /\ IsSeq(dirty)
  BY DEF IInv, TypeOK
<1>2. \A t \in Threads : Len(local[t]) \in Nat
  BY <1>1, IsSeqFacts
<1>3. Waiting \in [Threads -> Nat]
  BY <1>2 DEF Waiting
<1>4. Len(dirty) \in Nat
  BY IsSeqFacts DEF IInv, TypeOK
<1> QED
  BY <1>1, <1>3, <1>4, UnitsFinite

\* Outside the parallel-for nothing waits.
LEMMA NoneWaiting ==
  ASSUME IInv, pc # "parallel"
  PROVE  /\ IsFiniteSet(Units(Threads, Waiting))
         /\ Cardinality(Units(Threads, Waiting)) = 0
<1>1. \A t \in Threads : Waiting[t] = 0
  BY DEF IInv, TeamJoined, Waiting
<1>2. Units(Threads, Waiting) = {}
  <2>1. ASSUME NEW u \in Units(Threads, Waiting) PROVE FALSE
    <3>1. u[1] \in Threads /\ u[2] \in Nat /\ 1 <= u[2] /\ u[2] <= Waiting[u[1]]
      BY DEF Units
    <3> QED
      BY <1>1, <3>1
  <2> QED
    BY <2>1
<1> QED
  BY <1>2, FS_EmptySet

\* With a threshold of at least one, the clip leaves something of what it is
\* given: the smaller of the two deviations whose mean is the median deviation
\* does not exceed it.
LEMMA SomeKept ==
  ASSUME NEW I, IsFiniteSet(I), I # {}, NEW f \in [I -> Nat],
         NEW thresh \in Nat, thresh >= 1
  PROVE  \E i \in I : i \notin Outliers(f, thresh)
<1> DEFINE dev == Dev2(f)
           n == Cardinality(I)
<1>1. DOMAIN f = I /\ Median2(f) \in Nat
  BY Median2Type
<1>2. dev \in [I -> Nat]
  <2>1. dev = [i \in I |-> Abs(2 * f[i] - Median2(f))]
    BY <1>1, Zenon DEF Dev2
  <2>2. \A i \in I : f[i] \in Nat
    OBVIOUS
  <2>3. \A i \in I : Abs(2 * f[i] - Median2(f)) \in Nat
    BY <1>1, <2>2 DEF Abs
  <2> QED
    BY <2>1, <2>3
<1> HIDE DEF dev
<1>3. n \in Nat /\ n > 0
  BY FS_CardinalityType, FS_EmptySet
<1>4. /\ n \div 2 \in Nat /\ n \div 2 < n
      /\ (n - 1) \div 2 \in Nat /\ (n - 1) \div 2 < n
  <2> HIDE DEF n
  <2> QED
    BY <1>3
<1> DEFINE p == OrderStat(dev, n \div 2)
           q == OrderStat(dev, (n - 1) \div 2)
<1>5. Median2(dev) = p + q
  <2>1. DOMAIN dev = I
    BY <1>2
  <2> QED
    BY <2>1, Zenon DEF Median2
<1>6. ASSUME NEW k \in Nat, k < n PROVE OrderStat(dev, k) \in {dev[i] : i \in I}
  BY <1>2, <1>6, OrderStatType
<1>7. p \in {dev[i] : i \in I} /\ q \in {dev[i] : i \in I}
  <2> HIDE DEF n
  <2> QED
    BY <1>4, <1>6
<1> HIDE DEF p, q, n
<1>8. PICK i \in I : dev[i] \in Nat /\ 2 * dev[i] <= p + q
  <2>1. PICK a \in I : dev[a] = p
    BY <1>7
  <2>2. PICK b \in I : dev[b] = q
    BY <1>7
  <2>3. dev[a] \in Nat /\ dev[b] \in Nat
    BY <1>2
  <2>4. CASE p <= q
    BY <2>1, <2>2, <2>3, <2>4
  <2>5. CASE ~(p <= q)
    BY <2>1, <2>2, <2>3, <2>5
  <2> QED
    BY <2>4, <2>5
<1>9. p + q \in Nat
  BY <1>2, <1>7
<1>10. p + q <= thresh * (p + q)
  <2>1. \A a, b \in Nat : a >= 1 => b <= a * b
    OBVIOUS
  <2> QED
    BY <1>9, <2>1
<1>11. thresh * (p + q) \in Nat
  BY <1>9
<1>12. ~(2 * dev[i] > thresh * Median2(dev))
  BY <1>5, <1>8, <1>9, <1>10, <1>11
<1>13. Outliers(f, thresh) \subseteq {j \in I : 2 * dev[j] > thresh * Median2(dev)}
  BY <1>1, Zenon DEF Outliers, dev
<1> QED
  BY <1>8, <1>12, <1>13

\* A clip that may drop samples drops only if it can be trusted to keep some.
ClipKeepsSome == DoFlag => Thresh >= 1

\* The samples of the slice at hand have amplitudes.
LEMMA ScopeAmps ==
  ASSUME IInv, ContentInv, disk \in Disks, pc = "record", NEW x \in Scope
  PROVE  x.amp \in Nat
<1> USE GatherAssumption
<1>1. x \in Wanted
  BY DEF ContentInv, Contents
<1>2. PICK d \in Due : x \in BaseSamples(file, slice, d[1], d[2])
  BY <1>1 DEF Wanted
<1>3. PICK c \in BurstChans(file, slice, d[1]) :
        /\ disk[<<file, slice, d[1], d[2], c>>] # BAD
        /\ x = RecSample(file, slice, d[1], d[2], c)
  BY <1>2 DEF BaseSamples
<1>4. d[1] \in 0..(RecPerSlice - 1) /\ d[2] \in Baselines
  BY DEF Due
<1>5. file \in 1..NFile /\ slice \in Slice0(file)..(Slice1(file) - 1)
  <2>1. file \in 1..NFile /\ slice \in Nat
    BY DEF IInv, InWindow, TypeOK
  <2>2. StartRec[file] \in Nat /\ NRec[file] \in Nat
    BY <2>1
  <2>3. Slice0(file) \in Int /\ Slice1(file) \in Int
    BY <2>2 DEF Slice0, Slice1
  <2> QED
    BY <2>1, <2>3 DEF ContentInv, OnBurst
<1>6. /\ Selected(file, slice * RecPerSlice + d[1])
      /\ c \in Track[<<file, slice * RecPerSlice + d[1]>>][1]
               ..(Track[<<file, slice * RecPerSlice + d[1]>>][2] - 1)
  BY <1>3 DEF BurstChans
<1>7. disk[<<file, slice, d[1], d[2], c>>] \in Nat \cup {BAD}
  BY <1>4, <1>5, <1>6, DiskAssumption, Zenon
<1> QED
  BY <1>3, <1>7, RecSampleFields

\* The clip empties no bag.
LEMMA ClipLeavesSome ==
  ASSUME IInv, ContentInv, disk \in Disks, ClipKeepsSome, EndSlice, Len(dirty) # 0
  PROVE  Len(dirty') # 0
<1> USE GatherAssumption DEF EndSlice
<1> DEFINE scope == (bag0 + 1)..Len(dirty)
           amp == [k \in scope |-> dirty[k].amp]
           out == Outliers(amp, Thresh)
           S == (1..Len(dirty)) \ out
           kept == InOrder(S)
<1>1. /\ IsSeq(dirty) /\ Len(dirty) \in Nat /\ bag0 \in Nat /\ bag0 <= Len(dirty)
      /\ pc = "record"
  BY IsSeqFacts DEF IInv, TypeOK
<1>2. CASE UNCHANGED dirty
  BY <1>2
<1>3. CASE DoFlag /\ scope # {} /\ dirty' = [j \in 1..Len(kept) |-> dirty[kept[j]]]
  <2>1. IsFiniteSet(scope)
    <3> DEFINE lo == bag0 + 1
               hi == Len(dirty)
    <3>1. lo \in Int /\ hi \in Int
      BY <1>1
    <3> HIDE DEF lo, hi
    <3>2. IsFiniteSet(lo..hi)
      BY <3>1, FS_Interval
    <3> QED
      BY <3>2 DEF lo, hi
  <2>2. \A k \in scope : dirty[k] \in Scope
    BY DEF Scope
  <2>3. amp \in [scope -> Nat]
    BY <1>1, <2>2, ScopeAmps
  <2>4. PICK i \in scope : i \notin out
    <3>1. Thresh \in Nat /\ Thresh >= 1
      BY <1>3 DEF ClipKeepsSome
    <3> HIDE DEF scope, amp
    <3> QED
      BY <1>3, <2>1, <2>3, <3>1, SomeKept
  <2>5. i \in S /\ S \in SUBSET (1..Len(dirty))
    BY <1>1, <2>4
  <2> HIDE DEF S
  <2>6. 1 \in Int /\ Len(dirty) \in Int
    BY <1>1
  <2>7. Cardinality(S) \in Nat /\ Len(kept) = Cardinality(S)
    BY <2>5, <2>6, InOrderType, Zenon
  <2>8. IsFiniteSet(S)
    <3>1. IsFiniteSet(1..Len(dirty))
      BY <2>6, FS_Interval
    <3> QED
      BY <2>5, <3>1, FS_Subset
  <2>9. Cardinality(S) # 0
    BY <2>5, <2>8, FS_EmptySet
  <2>10. Len(dirty') = Len(kept)
    <3> HIDE DEF kept
    <3> QED
      BY <1>3, <2>7, FunctionIsSeq
  <2> QED
    BY <2>7, <2>9, <2>10
<1>4. \/ UNCHANGED dirty
      \/ DoFlag /\ scope # {} /\ dirty' = [j \in 1..Len(kept) |-> dirty[kept[j]]]
  BY DEF ClipBegin
<1> QED
  BY <1>2, <1>3, <1>4

\* Threads between the load and the store of a counter.
Counting == {t \in Threads : at[t] = "count"}

\* What such a thread loaded is still in the counter, which no other thread is at.
CountersOwned ==
  \A t \in Counting :
    /\ loaded[t][1] \notin todo
    /\ loaded[t][2] = bl_n[loaded[t][1]]
    /\ \A u \in Counting : u # t => loaded[u][1] # loaded[t][1]

\* A counter belongs to the thread that took its baseline, until it is stored.
LEMMA CountersOwnedStep ==
  ASSUME IInv, CountersOwned, [Next]_vars
  PROVE  CountersOwned'
<1>1. \A t \in Counting : loaded[t] \in Baselines \X Nat
  BY DEF IInv, TypeOK, Counting
<1>2. CASE BeginRecord
  <2>1. pc = "record" /\ UNCHANGED at
    BY <1>2 DEF BeginRecord
  <2>2. Counting' = {}
    BY <2>1 DEF IInv, TeamJoined, Counting
  <2> QED
    BY <2>2 DEF CountersOwned
<1>3. ASSUME NEW t \in Threads, Calibrate(t) PROVE CountersOwned'
  <2>1. PICK b \in todo \ Autos :
          todo' = todo \ {b} /\ loaded' = [loaded EXCEPT ![t] = <<b, bl_n[b]>>]
    BY <1>3 DEF Calibrate, Take, CounterOf
  <2>2. at[t] = "idle" /\ at' = [at EXCEPT ![t] = "count"] /\ UNCHANGED bl_n
    BY <1>3 DEF Calibrate
  <2>3. Counting' = Counting \cup {t} /\ t \notin Counting
    BY <2>2 DEF Counting, IInv, TypeOK
  <2>4. loaded'[t] = <<b, bl_n[b]>> /\ \A u \in Counting : loaded'[u] = loaded[u]
    BY <2>1, <2>3 DEF IInv, TypeOK, Counting
  <2>5. \A u \in Counting : loaded[u][1] # b
    BY <2>1 DEF CountersOwned
  <2> QED
    BY <2>1, <2>2, <2>3, <2>4, <2>5 DEF CountersOwned
<1>4. ASSUME NEW t \in Threads, Count(t) PROVE CountersOwned'
  <2>1. /\ at[t] = "count" /\ at' = [at EXCEPT ![t] = "local"]
        /\ bl_n' = [bl_n EXCEPT ![loaded[t][1]] = loaded[t][2] + Len(local[t])]
        /\ loaded' = [loaded EXCEPT ![t] = <<>>] /\ UNCHANGED todo
    BY <1>4 DEF Count
  <2>2. Counting' = Counting \ {t} /\ t \in Counting
    BY <2>1 DEF Counting, IInv, TypeOK
  <2>3. \A u \in Counting' : loaded'[u] = loaded[u] /\ loaded[u][1] # loaded[t][1]
    BY <2>1, <2>2 DEF IInv, TypeOK, Counting, CountersOwned
  <2>4. \A u \in Counting' : bl_n'[loaded[u][1]] = bl_n[loaded[u][1]]
    BY <1>1, <2>1, <2>2, <2>3 DEF IInv, TypeOK
  <2> QED
    BY <2>1, <2>2, <2>3, <2>4 DEF CountersOwned
<1>5. CASE \/ BeginFile \/ ReadSlice \/ ReadFails \/ EndFile \/ SkipRecord \/ EndRecord
           \/ EndSlice \/ Finish \/ UNCHANGED vars
           \/ \E t \in Threads : SkipAuto(t) \/ AppendDirty(t) \/ AppendPsf(t)
  <2>1. UNCHANGED <<loaded, bl_n>> /\ todo' \subseteq todo
    BY <1>5 DEF BeginFile, ReadSlice, ReadFails, EndFile, SkipRecord, EndRecord, EndSlice,
                Finish, SkipAuto, Take, AppendDirty, AppendPsf, vars, teamVars
  <2>2. Counting' = Counting
    <3>1. CASE UNCHANGED at
      BY <3>1 DEF Counting
    <3>2. CASE \E t \in Threads : AppendDirty(t) \/ AppendPsf(t)
      BY <3>2 DEF AppendDirty, AppendPsf, Counting, IInv, TypeOK
    <3> QED
      BY <1>5, <3>1, <3>2
         DEF BeginFile, ReadSlice, ReadFails, EndFile, SkipRecord, EndRecord, EndSlice,
             Finish, SkipAuto, vars, teamVars
  <2> QED
    BY <2>1, <2>2 DEF CountersOwned
<1> QED
  BY <1>2, <1>3, <1>4, <1>5 DEF Next, Main, Loop, Thread

\* The counters follow the bag.
LEMMA CountStep ==
  ASSUME IInv, IInv', ContentInv, disk \in Disks, CountersOwned, CountInv, ClipKeepsSome,
         [Next]_vars
  PROVE  CountInv'
<1> USE GatherAssumption
<1> DEFINE U == Units(Threads, Waiting)
           C == Cardinality(Units(Baselines, bl_n))
<1>1. /\ Waiting \in [Threads -> Nat] /\ bl_n \in [Baselines -> Nat]
      /\ IsFiniteSet(Units(Baselines, bl_n)) /\ C \in Nat /\ Len(dirty) \in Nat
  BY CountTypes
<1>2. CASE BeginFile \/ ReadFails \/ EndFile \/ Finish
  <2>1. /\ pc \in {"file", "slice"} /\ pc' \in {"file", "slice", "done"}
        /\ UNCHANGED <<dirty, bl_n>>
    BY <1>2 DEF BeginFile, ReadFails, EndFile, Finish, GotoFile, GiveUpFile, teamVars
  <2> QED
    BY <2>1 DEF CountInv
<1>3. CASE ReadSlice
  <2>1. pc = "slice" /\ pc' = "record" /\ bag0' = Len(dirty) /\ UNCHANGED <<dirty, bl_n, at, local>>
    BY <1>3 DEF ReadSlice, teamVars
  <2>2. Waiting' = Waiting
    BY <2>1 DEF Waiting
  <2>3. IsFiniteSet(U) /\ Cardinality(U) = 0
    BY <2>1, NoneWaiting
  <2>4. Len(dirty) = 0 => C = 0
    BY <2>1 DEF CountInv
  <2> QED
    BY <2>1, <2>2, <2>3, <2>4 DEF CountInv
<1>4. CASE SkipRecord \/ BeginRecord \/ EndRecord \/ UNCHANGED vars
           \/ \E t \in Threads : SkipAuto(t) \/ Calibrate(t)
  <2>1. /\ UNCHANGED <<dirty, bl_n, bag0>>
        /\ pc \in {"record", "parallel"} <=> pc' \in {"record", "parallel"}
    BY <1>4 DEF SkipRecord, BeginRecord, EndRecord, SkipAuto, Calibrate, vars, loopVars,
                teamVars
  <2>2. Waiting' = Waiting
    <3>1. CASE UNCHANGED <<at, local>>
      BY <3>1 DEF Waiting
    <3>2. ASSUME NEW t \in Threads, Calibrate(t) PROVE Waiting' = Waiting
      <4>1. /\ at[t] = "idle" /\ at' = [at EXCEPT ![t] = "count"]
            /\ \A u \in Threads : u # t => local'[u] = local[u]
        BY <3>2 DEF Calibrate, IInv, TypeOK
      <4>2. \A u \in Threads : (at'[u] = "local" <=> at[u] = "local")
                               /\ (at[u] = "local" => local'[u] = local[u])
        BY <4>1 DEF IInv, TypeOK
      <4> QED
        BY <4>2 DEF Waiting
    <3> QED
      BY <1>4, <3>1, <3>2 DEF SkipRecord, BeginRecord, EndRecord, SkipAuto, vars, teamVars
  <2> QED
    BY <2>1, <2>2 DEF CountInv
<1>5. CASE EndSlice
  <2>1. pc = "record" /\ pc' = "slice" /\ UNCHANGED bl_n
    BY <1>5 DEF EndSlice, teamVars
  <2>2. SUFFICES ASSUME Len(dirty') = 0 PROVE C = 0
    BY <2>1 DEF CountInv
  <2>3. Len(dirty) = 0
    BY <1>5, <2>2, ClipLeavesSome
  <2>4. bag0 = 0
    BY <2>3 DEF IInv, TypeOK
  <2>5. Cardinality(U) = 0
    BY <2>1, NoneWaiting
  <2> QED
    BY <2>1, <2>3, <2>4, <2>5 DEF CountInv
<1>6. ASSUME NEW t \in Threads, Count(t) PROVE CountInv'
  <2> DEFINE k == Len(local[t])
             b == loaded[t][1]
  <2>1. /\ at[t] = "count" /\ at' = [at EXCEPT ![t] = "local"]
        /\ bl_n' = [bl_n EXCEPT ![b] = loaded[t][2] + k]
        /\ UNCHANGED <<pc, bag0, dirty, local>>
    BY <1>6 DEF Count, loopVars
  <2>2. pc = "parallel"
    BY <2>1 DEF IInv, TeamJoined
  <2>3. b \in Baselines /\ k \in Nat /\ loaded[t][2] = bl_n[b]
    BY <2>1, IsSeqFacts DEF IInv, TypeOK, CountersOwned, Counting
  <2> HIDE DEF k
  <2>4. /\ Waiting' \in [Threads -> Nat] /\ Waiting'[t] = Waiting[t] + k
        /\ \A u \in Threads : u # t => Waiting'[u] = Waiting[u]
    <3>1. Waiting[t] = 0
      BY <2>1 DEF Waiting
    <3>2. local'[t] = local[t] /\ at'[t] = "local"
      BY <2>1 DEF IInv, TypeOK
    <3>3. Waiting'[t] = k
      BY <3>2 DEF Waiting, k
    <3>4. \A u \in Threads : u # t => Waiting'[u] = Waiting[u]
      BY <2>1 DEF Waiting, IInv, TypeOK
    <3>5. Waiting' = [u \in Threads |-> Waiting'[u]]
      BY DEF Waiting
    <3> QED
      BY <1>1, <2>3, <3>1, <3>3, <3>4, <3>5
  <2>5. SUFFICES ASSUME bag0 = 0
                 PROVE  /\ IsFiniteSet(Units(Threads, Waiting'))
                        /\ Cardinality(Units(Baselines, bl_n'))
                             = Len(dirty) + Cardinality(Units(Threads, Waiting'))
    BY <2>1, <2>2 DEF CountInv, Units
  <2>6. IsFiniteSet(U) /\ C = Len(dirty) + Cardinality(U)
    BY <2>2, <2>5 DEF CountInv
  <2>7. Cardinality(U) \in Nat
    BY <2>6, FS_CardinalityType
  <2>8. /\ IsFiniteSet(Units(Threads, Waiting'))
        /\ Cardinality(Units(Threads, Waiting')) = Cardinality(U) + k
    <3> DEFINE W == Waiting
               V == Waiting'
    <3>1. Grows(Threads, W, V, t, k) /\ IsFiniteSet(Units(Threads, W))
      BY <1>1, <2>3, <2>4, <2>6 DEF Grows
    <3> HIDE DEF W, V
    <3>2. /\ IsFiniteSet(Units(Threads, V))
          /\ Cardinality(Units(Threads, V)) = Cardinality(Units(Threads, W)) + k
      BY <3>1, UnitsGrow
    <3> QED
      BY <3>2 DEF W, V
  <2>9. Cardinality(Units(Baselines, bl_n')) = C + k
    <3> DEFINE W == bl_n
               V == bl_n'
    <3>1. Grows(Baselines, W, V, b, k) /\ IsFiniteSet(Units(Baselines, W))
      BY <1>1, <2>1, <2>3 DEF k, Grows
    <3> HIDE DEF W, V
    <3>2. Cardinality(Units(Baselines, V)) = Cardinality(Units(Baselines, W)) + k
      BY <3>1, UnitsGrow
    <3> QED
      BY <3>2 DEF W, V
  <2> QED
    BY <1>1, <2>3, <2>6, <2>7, <2>8, <2>9
<1>7. ASSUME NEW t \in Threads, AppendDirty(t) PROVE CountInv'
  <2>1. /\ at[t] = "local" /\ at' = [at EXCEPT ![t] = "critical"]
        /\ dirty' = dirty \o local[t] /\ UNCHANGED <<pc, bag0, local, bl_n>>
    BY <1>7 DEF AppendDirty, loopVars
  <2> DEFINE k == Len(local[t])
  <2>2. k \in Nat /\ Len(dirty') = Len(dirty) + k
    BY <2>1, IsSeqFacts, ConcatIsSeq DEF IInv, TypeOK
  <2>3. pc = "parallel"
    BY <2>1 DEF IInv, TeamJoined
  <2>4. /\ Waiting' \in [Threads -> Nat] /\ Waiting[t] = Waiting'[t] + k
        /\ \A u \in Threads : u # t => Waiting'[u] = Waiting[u]
    <3>1. Waiting[t] = k
      BY <2>1 DEF Waiting
    <3>2. Waiting'[t] = 0
      BY <2>1 DEF Waiting, IInv, TypeOK
    <3>3. \A u \in Threads : u # t => Waiting'[u] = Waiting[u]
      BY <2>1 DEF Waiting, IInv, TypeOK
    <3>4. Waiting' = [u \in Threads |-> Waiting'[u]]
      BY DEF Waiting
    <3> HIDE DEF k
    <3> QED
      BY <1>1, <2>2, <3>1, <3>2, <3>3, <3>4
  <2> HIDE DEF k
  <2>5. SUFFICES ASSUME bag0 = 0
                 PROVE  /\ IsFiniteSet(Units(Threads, Waiting'))
                        /\ C = Len(dirty') + Cardinality(Units(Threads, Waiting'))
    BY <2>1, <2>3 DEF CountInv, Units
  <2>6. IsFiniteSet(U) /\ C = Len(dirty) + Cardinality(U)
    BY <2>3, <2>5 DEF CountInv
  <2>7. IsFiniteSet(Units(Threads, Waiting'))
    <3>1. Units(Threads, Waiting') \subseteq U
      <4>1. ASSUME NEW u \in Threads
            PROVE  Waiting'[u] \in Nat /\ Waiting[u] \in Nat /\ Waiting'[u] <= Waiting[u]
        <5>1. Waiting'[u] \in Nat /\ Waiting[u] \in Nat
          BY <1>1, <2>4
        <5>2. u # t => Waiting'[u] = Waiting[u]
          BY <2>4
        <5>3. u = t => Waiting[u] = Waiting'[u] + k
          BY <2>4
        <5> QED
          BY <2>2, <5>1, <5>2, <5>3 DEF k
      <4>2. ASSUME NEW x \in Units(Threads, Waiting') PROVE x \in Units(Threads, Waiting)
        <5>1. x \in Threads \X Nat /\ x[1] \in Threads /\ 1 <= x[2] /\ x[2] <= Waiting'[x[1]]
          BY DEF Units
        <5>2. x[2] \in Nat /\ x[2] <= Waiting[x[1]]
          BY <4>1, <5>1
        <5> QED
          BY <5>1, <5>2 DEF Units
      <4> QED
        BY <4>2
    <3> QED
      BY <2>6, <3>1, FS_Subset
  <2>8. Cardinality(Units(Threads, Waiting)) = Cardinality(Units(Threads, Waiting')) + k
    <3> DEFINE W == Waiting
               V == Waiting'
    <3>1. Grows(Threads, V, W, t, k) /\ IsFiniteSet(Units(Threads, V))
      BY <1>1, <2>2, <2>4, <2>7 DEF k, Grows
    <3> HIDE DEF W, V
    <3>2. Cardinality(Units(Threads, W)) = Cardinality(Units(Threads, V)) + k
      BY <3>1, UnitsGrow
    <3> QED
      BY <3>2 DEF W, V
  <2>9. Cardinality(Units(Threads, Waiting')) \in Nat
    BY <2>7, FS_CardinalityType
  <2> QED
    BY <1>1, <2>2, <2>6, <2>7, <2>8, <2>9
<1>8. ASSUME NEW t \in Threads, AppendPsf(t) PROVE CountInv'
  <2>1. /\ at[t] = "critical" /\ at' = [at EXCEPT ![t] = "idle"]
        /\ local' = [local EXCEPT ![t] = <<>>]
        /\ UNCHANGED <<pc, bag0, dirty, bl_n>>
    BY <1>8 DEF AppendPsf, DropLocal, loopVars
  <2>2. \A u \in Threads : (at'[u] = "local" <=> at[u] = "local")
                           /\ (at[u] = "local" => local'[u] = local[u])
    BY <2>1 DEF IInv, TypeOK
  <2>3. Waiting' = Waiting
    BY <2>2 DEF Waiting
  <2> QED
    BY <2>1, <2>3 DEF CountInv
<1> QED
  BY <1>2, <1>3, <1>4, <1>5, <1>6, <1>7, <1>8 DEF Next, Main, Loop, Thread

\* Between records the counters of the DC diagnostic, written without a lock, add up
\* to what is gridded, until the first clip.  (With a threshold below one a clip
\* could empty the bag, after which bag0 = 0 would not mean that none has been.)
THEOREM GatherCounts ==
  ASSUME ClipKeepsSome
  PROVE  Spec => []DiagnosticCountsGridded
<1> USE GatherAssumption
<1> DEFINE Inv == disk \in Disks /\ CountersOwned /\ CountInv
<1>1. Init => Inv
  <2> SUFFICES ASSUME Init PROVE Inv
    OBVIOUS
  <2>1. /\ disk \in Disks /\ bl_n = [b \in Baselines |-> 0] /\ pc = "file"
        /\ Counting = {}
    BY DEF Init, Counting
  <2>2. Units(Baselines, bl_n) = {}
    BY <2>1 DEF Units
  <2> QED
    BY <2>1, <2>2, FS_EmptySet DEF CountInv, CountersOwned
<1>2. IInv /\ IInv' /\ ContentInv /\ Inv /\ [Next]_vars => Inv'
  <2> SUFFICES ASSUME IInv, IInv', ContentInv, Inv, [Next]_vars PROVE Inv'
    OBVIOUS
  <2>1. disk' = disk
    BY DEF Next, Main, Loop, Thread, BeginFile, ReadSlice, ReadFails, EndFile, SkipRecord,
           BeginRecord, EndRecord, Finish, EndSlice, SkipAuto, Calibrate, Count,
           AppendDirty, AppendPsf, vars
  <2> QED
    BY <2>1, CountStep, CountersOwnedStep
<1>3. IInv /\ Inv => DiagnosticCountsGridded
  <2> SUFFICES ASSUME IInv, Inv, pc = "record", bag0 = 0
               PROVE  FoldFunction(LAMBDA x, y : x + y, 0, bl_n) = Len(dirty)
    BY DEF DiagnosticCountsGridded
  <2>1. /\ bl_n \in [Baselines -> Nat] /\ Len(dirty) \in Nat
    BY CountTypes
  <2>2. Cardinality(Units(Baselines, bl_n)) = Len(dirty)
    BY <2>1, NoneWaiting DEF CountInv
  <2>3. FoldFunction(LAMBDA x, y : x + y, 0, bl_n) = Cardinality(Units(Baselines, bl_n))
    BY <2>1, FoldIsCount
  <2> QED
    BY <2>2, <2>3
<1> HIDE DEF Inv
<1> QED
  BY <1>1, <1>2, <1>3, GatherInvariant, GatherContents, PTL DEF Spec
=============================================================================
