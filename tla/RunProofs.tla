------------------------------ MODULE RunProofs ------------------------------
(***************************************************************************)
(* Proofs about a run and about the reader of its input files.             *)
(*                                                                         *)
(* Run: whatever is read, whichever stage or write fails and wherever the  *)
(* run is killed, a run that reports success wrote all its products, one   *)
(* that had nothing to image left the earlier run's alone, and in between  *)
(* the products are cut at one place only.                                 *)
(*                                                                         *)
(* Reader: for any number of files, any sizes of header and slice, and any *)
(* way positional reads are cut, interrupted, ended or refused, files are  *)
(* anchored in time by what the recorder wrote in them, and with the       *)
(* embedded index a read that succeeds has filled the buffer with exactly  *)
(* the slice asked for.                                                    *)
(***************************************************************************)
EXTENDS Pipeline, RawIO, TLAPS

-----------------------------------------------------------------------------
(* The run *)

\* Stages that come before the samples are known to exist, and before any
\* product is touched.
Gatherings == {"config", "antsamp", "open", "dump", "gather"}
Griddings == {"grid_dirty", "grid_psf", "clean"}
Writings == {"remove", "create", "fill"}

\* What each stage can rely on.  An image is made in the stage before the one
\* that names it, so a stage says which images exist, and a run past the dirty
\* image has samples.
StageInv ==
  /\ pc \in Gatherings => samples = FALSE /\ dirty = "none" /\ psf = "none"
  /\ pc = "grid_dirty" => dirty = "none" /\ psf = "none"
  /\ pc = "grid_psf" => dirty # "none"
  /\ pc \in {"grid_psf", "clean"} \cup Writings => samples = TRUE
  /\ pc = "dump" => dump = TRUE
  /\ pc \in {"gather"} \cup Griddings \cup Writings => dump = FALSE
  /\ pc \in Gatherings \cup Griddings => disk = before /\ next = 1 /\ rc = 0

IInv == TypeOK /\ StageInv /\ SuccessIsComplete /\ OldKeptUntilImaged /\ CutAtOnePlace

\* There are five products, each with its own file.
LEMMA ProductsDiffer ==
  /\ DOMAIN Products = 1..5 /\ Len(Products) = 5
  /\ \A k \in 1..5 : Products[k] \in Names
  /\ \A j, k \in 1..5 : Products[j] = Products[k] => j = k
  /\ \A f \in Names : \E k \in 1..5 : f = Products[k]
  BY DEF Products, Names

\* A run begins with no image and the products of an earlier run.
LEMMA InitInv == Init => IInv
<1> SUFFICES ASSUME Init PROVE IInv
  OBVIOUS
<1> USE DEF Init
<1>1. TypeOK
  <2>1. disk \in [Names -> {"absent", "old", "partial", "new"}]
    OBVIOUS
  <2>2. next \in DOMAIN Products
    BY ProductsDiffer
  <2>3. dump \in BOOLEAN /\ opened \in BOOLEAN /\ samples \in BOOLEAN
    BY Zenon
  <2> QED
    BY <2>1, <2>2, <2>3 DEF TypeOK
<1>2. StageInv /\ SuccessIsComplete /\ OldKeptUntilImaged
  BY DEF StageInv, SuccessIsComplete, OldKeptUntilImaged, Gatherings, Griddings,
         Writings
<1>3. CutAtOnePlace
  BY ProductsDiffer DEF CutAtOnePlace
<1> QED
  BY <1>1, <1>2, <1>3 DEF IInv

\* A stage that touches no product, and reports success only after a dump,
\* leaves the products as the properties want them.
LEMMA QuietInv ==
  ASSUME IInv, pc \in Gatherings \cup Griddings,
         UNCHANGED <<before, dump, disk, next, rc>>,
         TypeOK', StageInv', status' = 0 => dump = TRUE
  PROVE  IInv'
<1>1. disk' = before'
  BY DEF IInv, StageInv
<1>2. SuccessIsComplete' /\ OldKeptUntilImaged'
  BY <1>1 DEF SuccessIsComplete, OldKeptUntilImaged
<1>3. next' = 1
  BY DEF IInv, StageInv
<1>4. CutAtOnePlace'
  BY <1>1, <1>3, ProductsDiffer DEF CutAtOnePlace
<1> QED
  BY <1>2, <1>4 DEF IInv

\* Reading the configuration, the antenna table or the files' headers goes on
\* or fails.
LEMMA ReadingInv ==
  ASSUME IInv, Config \/ AntSamp \/ OpenRaw
  PROVE  IInv'
<1>1. /\ pc \in {"config", "antsamp", "open"} /\ opened' \in BOOLEAN
      /\ \/ status' = status /\ pc' \in {"antsamp", "open"}
         \/ status' = status /\ pc' = "dump" /\ dump = TRUE
         \/ status' = status /\ pc' = "gather" /\ dump = FALSE
         \/ status' = 1 /\ pc' = "exit"
      /\ UNCHANGED <<before, dump, samples, dirty, psf, peak, disk, next, rc>>
  <2> USE DEF Goto, Exit, images
  <2>1. dump \in BOOLEAN /\ opened \in BOOLEAN
    BY DEF IInv, TypeOK
  <2>2. CASE Config \/ AntSamp
    BY <2>1, <2>2 DEF Config, AntSamp
  <2>3. CASE OpenRaw
    <3>1. \/ opened' = TRUE /\ Goto(IF dump THEN "dump" ELSE "gather")
          \/ Exit(-1) /\ UNCHANGED opened
      BY <2>3 DEF OpenRaw
    <3>2. opened' \in BOOLEAN
      BY <2>1, <3>1
    <3> QED
      BY <2>1, <2>3, <3>1, <3>2 DEF OpenRaw
  <2> QED
    BY <2>2, <2>3
<1>2. TypeOK'
  BY <1>1 DEF IInv, TypeOK
<1>3. StageInv'
  BY <1>1 DEF IInv, StageInv, Gatherings, Griddings, Writings
<1>4. status' = 0 => dump = TRUE
  BY <1>1 DEF IInv, TypeOK
<1> QED
  BY <1>1, <1>2, <1>3, <1>4, QuietInv DEF Gatherings

\* The debug dump is the only way to leave early with success.
LEMMA DumpInv ==
  ASSUME IInv, Dump
  PROVE  IInv'
<1>1. /\ pc = "dump" /\ dump = TRUE /\ opened' = FALSE
      /\ pc' = "exit" /\ status' \in {0, 1}
      /\ UNCHANGED <<before, dump, samples, dirty, psf, peak, disk, next, rc>>
  BY DEF Dump, Exit, Closed, images, IInv, StageInv
<1>2. TypeOK'
  <2>1. opened' \in BOOLEAN
    BY <1>1
  <2> QED
    BY <1>1, <2>1 DEF IInv, TypeOK
<1>3. StageInv'
  BY <1>1 DEF IInv, StageInv, Gatherings, Griddings, Writings
<1> QED
  BY <1>1, <1>2, <1>3, QuietInv DEF Gatherings

\* Gathering decides whether there are samples.
LEMMA GatheringInv ==
  ASSUME IInv, Gathering
  PROVE  IInv'
<1>1. /\ pc = "gather" /\ pc' = "grid_dirty" /\ status' = status
      /\ samples' \in BOOLEAN /\ opened' = FALSE
      /\ UNCHANGED <<before, dump, dirty, psf, peak, disk, next, rc>>
  BY DEF Gathering, Goto, Closed, images
<1>2. TypeOK' /\ StageInv'
  BY <1>1 DEF IInv, TypeOK, StageInv, Gatherings, Griddings, Writings
<1> QED
  BY <1>1, <1>2, QuietInv DEF IInv, TypeOK, Gatherings

\* The dirty image goes on to the PSF only if there were samples to grid.
LEMMA GridDirtyInv ==
  ASSUME IInv, GridDirty
  PROVE  IInv'
<1>1. PICK img \in {"none", "zero", "made"}, r \in Codes :
        /\ Gridded(img, r)
        /\ dirty' = img
        /\ IF r < 0 THEN Exit(-1) ELSE Goto("grid_psf")
  BY DEF GridDirty
<1>2. /\ pc = "grid_dirty"
      /\ UNCHANGED <<before, dump, opened, samples, psf, peak, disk, next, rc>>
  BY DEF GridDirty
<1>3. \/ pc' = "exit" /\ status' = 1
      \/ pc' = "grid_psf" /\ status' = status /\ samples = TRUE /\ dirty' # "none"
  BY <1>1 DEF Gridded, Codes, Exit, Goto, IInv, TypeOK
<1>status. status = -1 /\ psf = "none"
  BY <1>2 DEF IInv, TypeOK, StageInv
<1>4. TypeOK'
  BY <1>1, <1>2, <1>3, <1>status DEF IInv, TypeOK
<1>5. StageInv'
  BY <1>2, <1>3 DEF IInv, StageInv, Gatherings, Griddings, Writings
<1>6. status' = 0 => dump = TRUE
  BY <1>3, <1>status
<1>7. pc \in Gatherings \cup Griddings /\ UNCHANGED <<before, dump, disk, next, rc>>
  BY <1>2 DEF Griddings
<1> QED
  BY <1>4, <1>5, <1>6, <1>7, QuietInv

\* The PSF is gridded from the same samples.
LEMMA GridPsfInv ==
  ASSUME IInv, GridPsf
  PROVE  IInv'
<1>1. PICK img \in {"none", "zero", "made"}, r \in Codes :
        /\ Gridded(img, r)
        /\ psf' = img
        /\ IF r < 0 THEN Exit(-1) ELSE Goto("clean")
  BY DEF GridPsf
<1>2. /\ pc = "grid_psf" /\ peak' \in {0, 1}
      /\ UNCHANGED <<before, dump, opened, samples, dirty, disk, next, rc>>
  BY DEF GridPsf
<1>3. \/ pc' = "exit" /\ status' = 1
      \/ pc' = "clean" /\ status' = status
  BY <1>1 DEF Exit, Goto
<1>status. status = -1 /\ dirty # "none"
  BY <1>2 DEF IInv, TypeOK, StageInv
<1>4. TypeOK'
  BY <1>1, <1>2, <1>3, <1>status DEF IInv, TypeOK
<1>5. StageInv'
  BY <1>2, <1>3 DEF IInv, StageInv, Gatherings, Griddings, Writings
<1>6. status' = 0 => dump = TRUE
  BY <1>3, <1>status
<1>7. pc \in Gatherings \cup Griddings /\ UNCHANGED <<before, dump, disk, next, rc>>
  BY <1>2 DEF Griddings
<1> QED
  BY <1>4, <1>5, <1>6, <1>7, QuietInv

\* CLEAN works on the images alone.
LEMMA CleanInv ==
  ASSUME IInv, CleanStage
  PROVE  IInv'
<1>1. /\ pc = "clean" /\ pc' = "remove" /\ status' = status
      /\ UNCHANGED <<before, dump, opened, samples, dirty, psf, peak, disk, next, rc>>
  BY DEF CleanStage, Goto, images
<1>2. TypeOK' /\ StageInv'
  BY <1>1 DEF IInv, TypeOK, StageInv, Gatherings, Griddings, Writings
<1> QED
  BY <1>1, <1>2, QuietInv DEF IInv, TypeOK, Griddings

-----------------------------------------------------------------------------
(* The products *)

\* What a step of the product writer leaves alone.
LEMMA WriterFrame ==
  ASSUME IInv, Remove \/ Create \/ FillFile
  PROVE  /\ pc \in Writings /\ samples = TRUE /\ dump = FALSE /\ status = -1
         /\ next \in 1..5
         /\ UNCHANGED <<before, dump, opened, samples, dirty, psf, peak>>
<1>1. pc \in Writings
  BY DEF Remove, Create, FillFile, Writings
<1>2. UNCHANGED <<before, dump, opened, samples, dirty, psf, peak>>
  BY DEF Remove, Create, FillFile, images
<1> QED
  BY <1>1, <1>2, ProductsDiffer DEF IInv, TypeOK, StageInv, Writings

\* Working on the product at hand changes no other file.
LEMMA AtHandInv ==
  ASSUME IInv, Remove \/ Create \/ FillFile,
         NEW v \in {"absent", "partial"}, pc' \in Writings,
         disk' = [disk EXCEPT ![Products[next]] = v],
         UNCHANGED <<next, rc, status>>
  PROVE  IInv'
<1>frame. /\ pc \in Writings /\ samples = TRUE /\ dump = FALSE /\ status = -1
         /\ next \in 1..5
         /\ UNCHANGED <<before, dump, opened, samples, dirty, psf, peak>>
  BY WriterFrame
<1>1. TypeOK' /\ StageInv'
  BY <1>frame DEF IInv, TypeOK, StageInv, Gatherings, Griddings, Writings
<1>2. SuccessIsComplete' /\ OldKeptUntilImaged'
  BY <1>frame DEF SuccessIsComplete, OldKeptUntilImaged
<1>3. \A k \in 1..5 : k # next => disk'[Products[k]] = disk[Products[k]]
  BY <1>frame, ProductsDiffer DEF IInv, TypeOK
<1>4. CutAtOnePlace'
  BY <1>3, <1>frame, ProductsDiffer DEF IInv, CutAtOnePlace
<1> QED
  BY <1>1, <1>2, <1>4 DEF IInv

\* A file that is done, new or failed and then reported, is behind the place of
\* the cut; the last one decides the exit status with the others.
LEMMA FileDoneInv ==
  ASSUME IInv, Remove \/ Create \/ FillFile,
         NEW res \in {0, -1}, FileDone(res),
         disk' = IF res = 0 THEN [disk EXCEPT ![Products[next]] = "new"] ELSE disk
  PROVE  IInv'
<1>frame. /\ pc \in Writings /\ samples = TRUE /\ dump = FALSE /\ status = -1
         /\ next \in 1..5
         /\ UNCHANGED <<before, dump, opened, samples, dirty, psf, peak>>
  BY WriterFrame
<1>1. /\ rc' = IF rc # 0 THEN rc ELSE res
      /\ \/ next = 5 /\ next' = next /\ pc' = "exit"
            /\ status' = IF rc' = 0 THEN 0 ELSE 1
         \/ next # 5 /\ next' = next + 1 /\ pc' = "remove" /\ status' = status
  BY ProductsDiffer DEF FileDone, Together, Exit, Goto
<1>2. rc \in {-1, 0} /\ rc' \in {-1, 0} /\ (rc' = 0 => rc = 0 /\ res = 0)
  BY <1>1 DEF IInv, TypeOK
<1>3. \A k \in 1..5 : k # next => disk'[Products[k]] = disk[Products[k]]
  BY <1>frame, ProductsDiffer DEF IInv, TypeOK
<1>4. res = 0 => disk'[Products[next]] = "new"
  BY <1>frame, ProductsDiffer DEF IInv, TypeOK
<1>5. disk' \in [Names -> {"absent", "old", "partial", "new"}]
  BY <1>frame, ProductsDiffer DEF IInv, TypeOK
<1>6. TypeOK'
  <2>1. next' \in DOMAIN Products
    BY <1>1, <1>frame, ProductsDiffer
  <2>2. (pc' = "exit" <=> status' # -1) /\ status' \in {-1, 0, 1}
    BY <1>1, <1>frame
  <2> QED
    BY <1>1, <1>2, <1>5, <1>frame, <2>1, <2>2 DEF IInv, TypeOK
<1>7. StageInv'
  BY <1>1, <1>frame DEF IInv, StageInv, Gatherings, Griddings, Writings
<1>8. OldKeptUntilImaged'
  BY <1>frame DEF OldKeptUntilImaged
<1>9. \A k \in 1..5 : k < next => (disk[Products[k]] = "new" \/ rc = -1)
  BY ProductsDiffer DEF IInv, CutAtOnePlace
<1>10. \A k \in 1..5 : k <= next => (disk'[Products[k]] = "new" \/ rc' = -1)
  BY <1>1, <1>2, <1>3, <1>4, <1>9, <1>frame
<1>11. CutAtOnePlace'
  <2>1. \A k \in 1..5 : k > next' => disk'[Products[k]] = before'[Products[k]]
    BY <1>1, <1>3, <1>frame, ProductsDiffer DEF IInv, CutAtOnePlace
  <2>2. \A k \in 1..5 : k < next' /\ disk'[Products[k]] # "new" => rc' = -1
    BY <1>1, <1>10, <1>frame
  <2> QED
    BY <2>1, <2>2, ProductsDiffer DEF CutAtOnePlace
<1>12. SuccessIsComplete'
  <2> SUFFICES ASSUME status' = 0, NEW f \in Names PROVE disk'[f] = "new"
    BY DEF SuccessIsComplete
  <2>1. next = 5 /\ rc' = 0
    BY <1>1, <1>frame
  <2>2. PICK k \in 1..5 : f = Products[k]
    BY ProductsDiffer
  <2> QED
    BY <1>10, <2>1, <2>2
<1> QED
  BY <1>6, <1>7, <1>8, <1>11, <1>12 DEF IInv

\* Each step of write_image_file.
LEMMA WriterInv ==
  ASSUME IInv, Remove \/ Create \/ FillFile
  PROVE  IInv'
<1>1. CASE Remove
  BY <1>1, AtHandInv DEF Remove, Goto, Writings
<1>2. CASE Create
  <2>1. CASE FileDone(-1) /\ UNCHANGED disk
    BY <1>2, <2>1, FileDoneInv
  <2>2. CASE ~(FileDone(-1) /\ UNCHANGED disk)
    BY <1>2, <2>2, AtHandInv DEF Create, Goto, Writings
  <2> QED
    BY <2>1, <2>2
<1>3. CASE FillFile
  <2>1. CASE FileDone(-1) /\ UNCHANGED disk
    BY <1>3, <2>1, FileDoneInv
  <2>2. CASE ~(FileDone(-1) /\ UNCHANGED disk)
    BY <1>3, <2>2, FileDoneInv DEF FillFile
  <2> QED
    BY <2>1, <2>2
<1> QED
  BY <1>1, <1>2, <1>3

\* A kill leaves everything as it is.
LEMMA KillInv ==
  ASSUME IInv, Kill
  PROVE  IInv'
<1>1. /\ pc' = "killed" /\ status = -1 /\ status' = -1
      /\ UNCHANGED <<before, dump, opened, samples, dirty, psf, peak, disk, next, rc>>
  BY DEF Kill, Goto, images, IInv, TypeOK
<1>2. TypeOK' /\ StageInv'
  BY <1>1 DEF IInv, TypeOK, StageInv, Gatherings, Griddings, Writings
<1>3. SuccessIsComplete' /\ OldKeptUntilImaged' /\ CutAtOnePlace'
  BY <1>1 DEF IInv, SuccessIsComplete, OldKeptUntilImaged, CutAtOnePlace
<1> QED
  BY <1>2, <1>3 DEF IInv

\* Stuttering preserves the invariant.
LEMMA StutterInv ==
  ASSUME IInv, UNCHANGED vars
  PROVE  IInv'
<1> USE DEF vars, run, images
<1>1. TypeOK' /\ StageInv'
  BY DEF IInv, TypeOK, StageInv
<1>2. SuccessIsComplete' /\ OldKeptUntilImaged' /\ CutAtOnePlace'
  BY DEF IInv, SuccessIsComplete, OldKeptUntilImaged, CutAtOnePlace
<1> QED
  BY <1>1, <1>2 DEF IInv

\* Every stage of a run, every failure and every kill preserve the invariant.
THEOREM RunInvariant == Spec => []IInv
<1>1. IInv /\ [Next]_vars => IInv'
  BY ReadingInv, DumpInv, GatheringInv, GridDirtyInv, GridPsfInv, CleanInv,
     WriterInv, KillInv, StutterInv DEF Next
<1> QED
  BY InitInv, <1>1, PTL DEF Spec

-----------------------------------------------------------------------------
(* The properties the runs check *)

\* Exit status 0 without a dump means that all five products are this run's and
\* complete.
THEOREM RunSuccessIsComplete == Spec => []SuccessIsComplete
<1>1. IInv => SuccessIsComplete
  BY DEF IInv
<1> QED
  BY <1>1, RunInvariant, PTL

\* A run without a sample to image, however it ends, leaves the products of an
\* earlier run as they were.
THEOREM RunKeepsOld == Spec => []OldKeptUntilImaged
<1>1. IInv => OldKeptUntilImaged
  BY DEF IInv
<1> QED
  BY <1>1, RunInvariant, PTL

\* At every point of the run the products before the one at hand are new or
\* their failure is on record, and those after it are the earlier run's.
THEOREM RunCutAtOnePlace == Spec => []CutAtOnePlace
<1>1. IInv => CutAtOnePlace
  BY DEF IInv
<1> QED
  BY <1>1, RunInvariant, PTL

-----------------------------------------------------------------------------
(* The reader: what its invariant says *)

\* What the files hold.
DiskOK ==
  /\ unix \in [Files -> Stamps] /\ idx \in [Files -> 0..(NFile + 1)]
  /\ len \in [Files -> Lengths \cup {-1}]

\* The time of a file, from its first timestamp and its slot of the round.
TimeOf(f) == (unix[f] - unix[1]) + SlotOf(f) * TSlice

\* The anchor loop has done files up to i - 1; after it all of them.
AnchorInv ==
  /\ mode = "anchor" => /\ i > 1 => mjd_ref = unix[1]
                      /\ \A f \in 1..(i - 1) : t_start[f] = TimeOf(f)
  /\ mode \in {"check", "ready", "reading", "closed"} =>
       /\ mjd_ref = unix[1]
       /\ \A f \in Files : t_start[f] = TimeOf(f)

\* While a read goes on the first got words of the buffer are the slice's; once
\* it has succeeded all of them are.
ReadInv ==
  /\ mode = "reading" => /\ result = 1
                       /\ \A k \in 0..(got - 1) : dst[k] = <<req[1], req[2], k>>
  /\ ReadsTheSlice

RawInv == RawTypeOK /\ DiskOK /\ AnchorInv

-----------------------------------------------------------------------------
(* Types and anchors *)

\* The program starts with nothing open and nothing anchored.
LEMMA RawInitInv == RawInit => RawInv
<1> SUFFICES ASSUME RawInit PROVE RawInv
  OBVIOUS
<1> USE RawAssumption DEF RawInit
<1>1. RawTypeOK
  BY DEF RawTypeOK, Files
<1>2. DiskOK /\ AnchorInv
  BY DEF DiskOK, AnchorInv
<1> QED
  BY <1>1, <1>2 DEF RawInv

\* Opening a file anchors none.
LEMMA RawOpenInv ==
  ASSUME RawInv, Open
  PROVE  RawInv'
<1> USE RawAssumption DEF Open, RawInv, content, reader, anchors, Fail, Files
<1>1. RawTypeOK'
  <2>1. fd' \in [Files -> BOOLEAN]
    BY DEF RawTypeOK
  <2>2. i' \in Files /\ mode' \in {"open", "anchor", "failed"}
    BY DEF RawTypeOK
  <2> QED
    BY <2>1, <2>2 DEF RawTypeOK
<1>2. DiskOK'
  BY DEF DiskOK
<1>3. AnchorInv'
  BY SMTT(30) DEF RawTypeOK, AnchorInv, TimeOf, SlotOf
<1> QED
  BY <1>1, <1>2, <1>3

\* A file is anchored by its own timestamp and slot, the first also setting the
\* origin.
LEMMA AnchorStepInv ==
  ASSUME RawInv, Anchor
  PROVE  RawInv'
<1> USE RawAssumption DEF Files
<1>1. /\ mode = "anchor" /\ UNCHANGED <<unix, idx, len, second, req, got, dst, result, reads>>
  BY DEF Anchor, content, reader
<1>2. /\ i \in 1..NFile /\ fd \in [Files -> BOOLEAN] /\ t_start \in [Files -> Int]
      /\ mjd_ref \in Int /\ unix \in [Files -> Stamps] /\ idx \in [Files -> 0..(NFile + 1)]
  BY DEF RawInv, RawTypeOK, DiskOK
<1>3. \A f \in Files : TimeOf(f) \in Int /\ TimeOf(f)' = TimeOf(f)
  <2>1. \A f \in Files : unix[f] \in Int /\ SlotOf(f) \in Int
    <3>1. \A f \in Files : unix[f] \in Stamps /\ idx[f] \in Int /\ f \in Int
      BY <1>2
    <3>2. \A f \in Files : unix[f] \in Int
      BY <3>1, Zenon DEF RawAssumption
    <3>3. \A f \in Files : SlotOf(f) \in Int
      BY <3>1 DEF SlotOf
    <3> QED
      BY <3>2, <3>3
  <2>2. 1 \in Files
    OBVIOUS
  <2>3. \A f \in Files : SlotOf(f) * TSlice \in Int
    BY <2>1
  <2> QED
    BY <1>1, <2>1, <2>2, <2>3 DEF TimeOf, SlotOf
<1>4. DiskOK'
  BY <1>1 DEF RawInv, DiskOK
<1>5. CASE Fail
  <2>1. RawTypeOK'
    BY <1>1, <1>5 DEF Fail, RawInv, RawTypeOK, anchors
  <2>2. AnchorInv'
    BY <1>5 DEF Fail, AnchorInv
  <2> QED
    BY <1>4, <2>1, <2>2 DEF RawInv
<1>6. CASE /\ mjd_ref' = IF i = 1 THEN unix[1] ELSE mjd_ref
           /\ t_start' = [t_start EXCEPT ![i] = TimeOf(i)]
           /\ i' = IF i = NFile THEN 1 ELSE i + 1
           /\ mode' = IF i = NFile THEN "check" ELSE mode
           /\ UNCHANGED fd
  <2>1. mjd_ref' \in Int /\ t_start' \in [Files -> Int] /\ i' \in Files
        /\ mode' \in {"anchor", "check"}
    BY <1>1, <1>2, <1>3, <1>6
  <2>2. RawTypeOK'
    BY <1>1, <1>6, <2>1 DEF RawInv, RawTypeOK
  <2>3. mjd_ref' = unix[1]
    BY <1>1, <1>2, <1>6 DEF RawInv, AnchorInv
  <2>4. \A f \in 1..i : t_start'[f] = TimeOf(f)
    BY <1>1, <1>2, <1>6 DEF RawInv, AnchorInv
  <2>5. AnchorInv'
    BY <1>1, <1>2, <1>3, <1>6, <2>1, <2>3, <2>4 DEF AnchorInv
  <2> QED
    BY <1>4, <2>2, <2>5 DEF RawInv
<1> QED
  BY <1>5, <1>6 DEF Anchor, TimeOf

\* Checking the clock, reading and closing move no anchor.
LEMMA LaterInv ==
  ASSUME RawInv,
         Check \/ Call \/ Chunk \/ Interrupted \/ EndOfFile \/ ReadError \/ Complete \/ Close
  PROVE  RawInv'
<1> USE RawAssumption DEF Files
<1>1. /\ mode \in {"check", "ready", "reading"}
      /\ UNCHANGED <<unix, idx, len, i, t_start, mjd_ref>>
      /\ mode' \in {"ready", "reading", "closed", "failed"}
  BY DEF Check, Call, Chunk, Interrupted, EndOfFile, ReadError, Complete, Close, Return,
         Fail, content, anchors, rawVars
<1>2. /\ fd' \in [Files -> BOOLEAN] /\ req' \in Files \X (0..MaxSlice)
      /\ got' \in 0..SliceWords /\ result' \in {-1, 0, 1} /\ reads' \in 0..MaxReads
  <2> USE DEF RawInv, RawTypeOK
  <2>1. CASE Check
    BY <2>1 DEF Check, Fail, reader
  <2>2. CASE Call
    BY <2>2 DEF Call
  <2>3. CASE Chunk
    BY <2>3 DEF Chunk, Wanted, Advanced
  <2>4. CASE Interrupted
    BY <2>4 DEF Interrupted, rawVars, reader
  <2>5. CASE EndOfFile \/ ReadError \/ Complete
    BY <2>5 DEF EndOfFile, ReadError, Complete, Return, AtEnd
  <2>6. CASE Close
    BY <2>6 DEF Close, reader
  <2> QED
    BY <2>1, <2>2, <2>3, <2>4, <2>5, <2>6
<1>3. RawTypeOK'
  BY <1>1, <1>2 DEF RawInv, RawTypeOK
<1>4. DiskOK' /\ AnchorInv'
  BY <1>1 DEF RawInv, DiskOK, AnchorInv, TimeOf, SlotOf
<1> QED
  BY <1>3, <1>4 DEF RawInv

\* Every step of opening, reading and closing preserves the invariant.
THEOREM RawInvariant == RawSpec => []RawInv
<1>1. RawInv /\ [RawNext]_rawVars => RawInv'
  <2> SUFFICES ASSUME RawInv, [RawNext]_rawVars PROVE RawInv'
    OBVIOUS
  <2>1. CASE UNCHANGED rawVars
    BY <2>1 DEF rawVars, content, anchors, reader, RawInv, RawTypeOK, DiskOK, AnchorInv, TimeOf, SlotOf
  <2> QED
    BY <2>1, RawOpenInv, AnchorStepInv, LaterInv DEF RawNext
<1> QED
  BY RawInitInv, <1>1, PTL DEF RawSpec

\* Types of the state: a read never writes outside the buffer.
THEOREM RawTypes == RawSpec => []RawTypeOK
<1>1. RawInv => RawTypeOK
  BY DEF RawInv
<1> QED
  BY <1>1, RawInvariant, PTL

\* Wherever INPUT lists a file, it is placed in time by its own timestamp and
\* embedded index.
THEOREM RawAnchored == RawSpec => []AnchoredByContent
<1>1. RawInv => AnchoredByContent
  <2> SUFFICES ASSUME RawInv, Opened, HaveIdx, NEW f \in Files
               PROVE  mjd_ref + t_start[f] = unix[f] + (idx[f] - 1) * TSlice
    BY DEF AnchoredByContent
  <2>1. mjd_ref = unix[1] /\ t_start[f] = (unix[f] - unix[1]) + (idx[f] - 1) * TSlice
    BY DEF RawInv, AnchorInv, Opened, TimeOf, SlotOf
  <2>2. unix[1] \in Int /\ unix[f] \in Int
    <3>1. unix[1] \in Stamps /\ unix[f] \in Stamps
      BY RawAssumption DEF RawInv, DiskOK, Files
    <3> QED
      BY <3>1, RawAssumption
  <2>3. (idx[f] - 1) * TSlice \in Int
    BY RawAssumption DEF RawInv, DiskOK
  <2> QED
    BY <2>1, <2>2, <2>3
<1> QED
  BY <1>1, RawInvariant, PTL

-----------------------------------------------------------------------------
(* Reading *)

\* Division of an offset into whole slices and a position within one.
LEMMA Divide ==
  ASSUME NEW s \in Nat, NEW per \in Nat, NEW q \in Nat, q < per
  PROVE  (s * per + q) \div per = s /\ (s * per + q) % per = q
  OBVIOUS

\* The words of slice s start after its timestamp and index.
LEMMA WordOf ==
  ASSUME HaveIdx, NEW f \in Files, NEW s \in Nat, NEW k \in Slots
  PROVE  Word(f, DataOffset(s) + k) = <<f, s, k>>
<1> USE RawAssumption
<1> DEFINE per == TimeWords + 1 + SliceWords
           q == TimeWords + 1 + k
           o == s * per + q
<1>1. /\ per \in Nat /\ q \in Nat /\ q < per /\ k \in Nat
      /\ q - TimeWords - 1 = k
  BY DEF Slots
<1>2. s * per \in Nat
  BY <1>1
<1>3. DataOffset(s) + k = o
  <2>1. \A x \in Nat : (x + TimeWords + 1) + k = x + (TimeWords + 1 + k)
    BY <1>1
  <2> QED
    BY <1>2, <2>1 DEF DataOffset
<1>4. o \div per = s /\ o % per = q
  BY <1>1, Divide
<1> HIDE DEF o, q
<1>5. Word(f, o) = <<f, s, k>>
  BY <1>1, <1>4 DEF Word, IndexWords
<1> QED
  BY <1>3, <1>5

\* Before the first call, and between calls that failed, nothing is claimed.
LEMMA ReadInit == RawInit => ReadInv
  BY DEF RawInit, ReadInv, ReadsTheSlice

\* A piece of the slice lands where it belongs, and the pieces before it stay.
LEMMA ChunkRead ==
  ASSUME HaveIdx, RawInv, ReadInv, Chunk
  PROVE  ReadInv'
<1> USE RawAssumption
<1>1. /\ mode = "reading" /\ mode' = "reading" /\ result = 1 /\ result' = 1 /\ req' = req
  BY DEF Chunk, ReadInv
<1>2. /\ req[1] \in Files /\ req[2] \in Nat /\ got \in Nat
  BY DEF RawInv, RawTypeOK
<1>3. PICK n \in 1..Wanted :
        /\ got' = got + n
        /\ dst' = [k \in Slots |-> IF k \in got..(got + n - 1)
                                     THEN Word(req[1], Position(req[2]) + k - got)
                                     ELSE dst[k]]
  BY DEF Chunk, Advanced
<1>4. got + n <= SliceWords /\ n \in Nat
  BY <1>2, <1>3 DEF Wanted
<1>5. ASSUME NEW k \in 0..(got' - 1)
      PROVE  dst'[k] = <<req'[1], req'[2], k>>
  <2>1. k \in Slots /\ k \in Nat /\ k <= got + n - 1
    BY <1>2, <1>3, <1>4, <1>5 DEF Slots
  <2>2. CASE k < got
    <3>1. dst'[k] = dst[k]
      BY <1>2, <1>3, <2>1, <2>2
    <3> QED
      BY <1>1, <1>2, <2>1, <2>2, <3>1 DEF ReadInv
  <2>3. CASE ~(k < got)
    <3>1. dst'[k] = Word(req[1], Position(req[2]) + k - got)
      BY <1>2, <1>3, <2>1, <2>3
    <3>2. Position(req[2]) + k - got = DataOffset(req[2]) + k
      <4>1. DataOffset(req[2]) \in Int
        <5>1. req[2] * (TimeWords + 1 + SliceWords) \in Int
          BY <1>2
        <5> QED
          BY <5>1 DEF DataOffset
      <4> QED
        BY <1>2, <2>1, <4>1 DEF Position
    <3>3. Word(req[1], DataOffset(req[2]) + k) = <<req[1], req[2], k>>
      BY <1>2, <2>1, WordOf
    <3> QED
      BY <1>1, <3>1, <3>2, <3>3
  <2> QED
    BY <2>2, <2>3
<1> QED
  BY <1>1, <1>5 DEF ReadInv, ReadsTheSlice

\* Success is only reported with the whole slice in place; every other end of a
\* read reports failure.
LEMMA OtherRead ==
  ASSUME RawInv, ReadInv,
         \/ Open \/ Anchor \/ Check \/ Call \/ EndOfFile \/ ReadError \/ Complete \/ Close
         \/ UNCHANGED rawVars
  PROVE  ReadInv'
<1> USE RawAssumption
<1>1. CASE Open \/ Anchor \/ Check \/ Close
  <2>1. mode' # "reading" /\ UNCHANGED <<result, dst, req>>
    BY <1>1 DEF Open, Anchor, Check, Close, Fail, reader
  <2> QED
    BY <2>1 DEF ReadInv, ReadsTheSlice
<1>2. CASE Call
  BY <1>2 DEF Call, ReadInv, ReadsTheSlice
<1>3. CASE EndOfFile \/ ReadError
  BY <1>3 DEF EndOfFile, ReadError, Return, AtEnd, ReadInv, ReadsTheSlice
<1>4. CASE Complete
  <2>1. mode = "reading" /\ got = SliceWords /\ mode' = "ready" /\ UNCHANGED <<dst, req>>
    BY <1>4 DEF Complete, Return
  <2> QED
    BY <2>1 DEF ReadInv, ReadsTheSlice, Slots
<1>5. CASE UNCHANGED rawVars
  BY <1>5 DEF rawVars, reader, ReadInv, ReadsTheSlice
<1> QED
  BY <1>1, <1>2, <1>3, <1>4, <1>5

\* With the embedded index a read that succeeds has filled the buffer with the
\* slice asked for, whatever pieces it came in and whatever a failed read left
\* there.  (Without the index the offsets are those of a file with one.)
THEOREM RawReads ==
  ASSUME HaveIdx
  PROVE  RawSpec => []ReadsTheSlice
<1>1. RawInv /\ ReadInv /\ [RawNext]_rawVars => ReadInv'
  <2>1. Interrupted => UNCHANGED rawVars
    BY DEF Interrupted
  <2> QED
    BY <2>1, ChunkRead, OtherRead DEF RawNext
<1>2. ReadInv => ReadsTheSlice
  BY DEF ReadInv
<1> QED
  BY ReadInit, RawInvariant, <1>1, <1>2, PTL DEF RawSpec
=============================================================================
