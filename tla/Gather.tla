------------------------------- MODULE Gather -------------------------------
(***************************************************************************)
(* The gathering loop of run_pipeline (pipeline.cpp): files, slices and    *)
(* records in series, and within a record the baselines in an OpenMP       *)
(* parallel-for.  Each iteration builds a local pair of bags, adds to its  *)
(* baseline's diagnostic counters and, in a critical section, appends the  *)
(* local dirty bag and then the local psf bag to the shared ones.  After   *)
(* the last record of a slice the samples it added are clipped.            *)
(*                                                                         *)
(* The counters are plain memory written without a lock.  The increments   *)
(* of an iteration are a load and, later, a store, between which a store   *)
(* of another thread to the same counter would be lost.                    *)
(*                                                                         *)
(* OpenMP is external: an idle thread may take any baseline not yet taken  *)
(* (a superset of every schedule), the critical section admits one thread, *)
(* and the end of the parallel-for waits for all of them.                  *)
(***************************************************************************)
EXTENDS GatherParams, SequencesExt

CONSTANT Threads   \* the num_threads threads of the parallel-for

VARIABLES
  disk,              \* what the files hold
  pc,                \* the main thread: "file", "slice", "record",
                     \* "parallel" or "done"
  file, slice, r,    \* its loop counters
  buf,               \* file and slice rbuf was read from, and if completely
  bp,                \* file and slice the Bandpass was made from
  bag0,              \* size of the bag before this slice
  dirty, psf,        \* the shared bags
  todo,              \* baselines of the parallel-for no thread has taken
  at,                \* [Threads -> "idle", "count", "local" or "critical"]
  local,             \* [Threads -> the local dirty bag]
  loaded,            \* [Threads -> the counter it is at and what it held, or <<>>]
  bl_n               \* [Baselines -> samples counted by the DC diagnostic]

loopVars == <<pc, file, slice, r, buf, bp, bag0>>
teamVars == <<todo, at, local, loaded, bl_n>>
vars == <<disk, loopVars, dirty, psf, teamVars>>

\* The psf sample pushed beside a dirty sample: same (u, v), value (1, 0).
Twin(x) == [when |-> x.when, base |-> x.base, chan |-> x.chan]
Twins(s) == [k \in 1..Len(s) |-> Twin(s[k])]

Init ==
  /\ disk \in Disks
  /\ pc = "file" /\ file = 1 /\ slice = 0 /\ r = 0
  /\ buf = <<0, 0, FALSE>> /\ bp = <<>> /\ bag0 = 0
  /\ dirty = <<>> /\ psf = <<>>
  /\ todo = {}
  /\ at = [t \in Threads |-> "idle"]
  /\ local = [t \in Threads |-> <<>>]
  /\ loaded = [t \in Threads |-> <<>>]
  /\ bl_n = [b \in Baselines |-> 0]

-----------------------------------------------------------------------------
(* The main thread *)

GotoFile(i) ==
  /\ file' = i
  /\ pc' = "file"

\* Start the slice loop of a file with a fresh Bandpass, or skip a file with no
\* selected records.
BeginFile ==
  /\ pc = "file"
  /\ file <= NFile
  /\ IF NRec[file] = 0
       THEN GotoFile(file + 1) /\ UNCHANGED <<slice, bp>>
       ELSE pc' = "slice" /\ slice' = Slice0(file) /\ bp' = <<>> /\ UNCHANGED file
  /\ UNCHANGED <<disk, r, buf, bag0, dirty, psf, teamVars>>

\* read_slice fills rbuf, make_bandpass calibrates from it, and bag0 marks the
\* scope of this slice's clip.
ReadSlice ==
  /\ pc = "slice"
  /\ slice < Slice1(file)
  /\ buf' = <<file, slice, TRUE>>
  /\ bp' = IF DoCalib THEN <<file, slice>> ELSE bp
  /\ bag0' = Len(dirty)
  /\ r' = 0
  /\ pc' = "record"
  /\ UNCHANGED <<disk, file, slice, dirty, psf, teamVars>>

\* break
GiveUpFile == GotoFile(file + 1) /\ UNCHANGED slice

\* read_slice fails after overwriting part of rbuf: the rest of the file is
\* given up.
ReadFails ==
  /\ pc = "slice"
  /\ slice < Slice1(file)
  /\ buf' = <<file, slice, FALSE>>
  /\ GiveUpFile
  /\ UNCHANGED <<disk, r, bp, bag0, dirty, psf, teamVars>>

EndFile ==
  /\ pc = "slice"
  /\ slice >= Slice1(file)
  /\ GotoFile(file + 1)
  /\ UNCHANGED <<disk, slice, r, buf, bp, bag0, dirty, psf, teamVars>>

\* The record the serial loop is at, counted from the start of the file, and
\* the channels the burst occupies in it.
GlobalRec == slice * RecPerSlice + r
cs == Track[<<file, GlobalRec>>][1]
ce == Track[<<file, GlobalRec>>][2]

\* Variant: the loop counter left alone on continue.
SameRecord == UNCHANGED r

NextRecord == r' = r + 1

\* Records outside the window, or with no channel on the burst track.
SkipRecord ==
  /\ pc = "record"
  /\ r < RecPerSlice
  /\ ~Selected(file, GlobalRec) \/ cs >= ce
  /\ NextRecord
  /\ UNCHANGED <<disk, pc, file, slice, buf, bp, bag0, dirty, psf, teamVars>>

BeginRecord ==
  /\ pc = "record"
  /\ r < RecPerSlice
  /\ Selected(file, GlobalRec) /\ cs < ce
  /\ todo' = Baselines
  /\ pc' = "parallel"
  /\ UNCHANGED <<disk, file, slice, r, buf, bp, bag0, dirty, psf, at, local, loaded, bl_n>>

\* Variant: the parallel-for made nowait.
NoWait == todo = {}

\* The implicit barrier at the end of the parallel-for.
TeamDone == todo = {} /\ \A t \in Threads : at[t] = "idle"

EndRecord ==
  /\ pc = "parallel"
  /\ TeamDone
  /\ NextRecord
  /\ pc' = "record"
  /\ UNCHANGED <<disk, file, slice, buf, bp, bag0, dirty, psf, teamVars>>

\* Variant: the clip's statistics taken over the whole bag.
WholeBag == 0

\* Where the clip begins.
ClipBegin == bag0

\* global_clip_samples over this slice's samples, then the next slice.
EndSlice ==
  /\ pc = "record"
  /\ r = RecPerSlice
  /\ LET scope == (ClipBegin + 1)..Len(dirty)
         out == Outliers([k \in scope |-> dirty[k].amp], Thresh)
         kept == InOrder((1..Len(dirty)) \ out)
     IN  IF DoFlag /\ scope # {} /\ Len(psf) = Len(dirty)
           THEN /\ dirty' = [j \in 1..Len(kept) |-> dirty[kept[j]]]
                /\ psf' = [j \in 1..Len(kept) |-> psf[kept[j]]]
           ELSE UNCHANGED <<dirty, psf>>
  /\ slice' = slice + 1
  /\ pc' = "slice"
  /\ UNCHANGED <<disk, file, r, buf, bp, bag0, teamVars>>

\* The loop over files ends (close_raw_set follows).
Finish ==
  /\ pc = "file"
  /\ file > NFile
  /\ pc' = "done"
  /\ UNCHANGED <<disk, file, slice, r, buf, bp, bag0, dirty, psf, teamVars>>

-----------------------------------------------------------------------------
(* The threads of the parallel-for *)

\* The sample of baseline b, channel c in this record, decoded from rbuf and
\* calibrated by bp.
Calibrated(b, c) ==
  SampleOf(<<file, slice, r>>, buf, IF DoCalib THEN bp ELSE <<>>, b, c,
           disk[<<buf[1], buf[2], r, b, c>>])

\* Those of the channels [cs, ce) that are still finite and unflagged.
LocalBag(b) ==
  LET good == InOrder({c \in cs..(ce - 1) : Calibrated(b, c).amp # BAD})
  IN  [k \in 1..Len(good) |-> Calibrated(b, good[k])]

\* Variant: a parallel region without the for, every thread running every
\* iteration.
NotShared(b) == UNCHANGED todo

\* The parallel-for gives each iteration to one thread.
Take(b) == todo' = todo \ {b}

\* Iteration over a self-pair: continue.
SkipAuto(t) ==
  /\ pc = "parallel"
  /\ at[t] = "idle"
  /\ \E b \in todo \cap Autos : Take(b)
  /\ UNCHANGED <<disk, loopVars, dirty, psf, at, local, loaded, bl_n>>

\* Variant: one counter for all baselines.
OneCounter(b) == CHOOSE c \in Baselines : TRUE

\* The counter that an iteration over b writes: its baseline's own.
CounterOf(b) == b

\* Decode, calibrate and test one baseline into a local pair of bags, and load
\* its counter ...
Calibrate(t) ==
  /\ pc = "parallel"
  /\ at[t] = "idle"
  /\ \E b \in todo \ Autos :
       /\ Take(b)
       /\ local' = [local EXCEPT ![t] = LocalBag(b)]
       /\ loaded' = [loaded EXCEPT ![t] = <<CounterOf(b), bl_n[CounterOf(b)]>>]
  /\ at' = [at EXCEPT ![t] = "count"]
  /\ UNCHANGED <<disk, loopVars, dirty, psf, bl_n>>

\* ... and store it with the samples kept added.
Count(t) ==
  /\ at[t] = "count"
  /\ bl_n' = [bl_n EXCEPT ![loaded[t][1]] = loaded[t][2] + Len(local[t])]
  /\ loaded' = [loaded EXCEPT ![t] = <<>>]
  /\ at' = [at EXCEPT ![t] = "local"]
  /\ UNCHANGED <<disk, loopVars, dirty, psf, todo, local>>

\* Variant: no critical section.
AnyTime == TRUE

\* omp critical: one thread inside.
CriticalFree == \A u \in Threads : at[u] # "critical"

\* Enter the critical section and append the local dirty bag ...
AppendDirty(t) ==
  /\ at[t] = "local"
  /\ CriticalFree
  /\ dirty' = dirty \o local[t]
  /\ at' = [at EXCEPT ![t] = "critical"]
  /\ UNCHANGED <<disk, loopVars, psf, todo, local, loaded, bl_n>>

\* Variant: local bags declared outside the loop.
KeepLocal(t) == UNCHANGED local

\* local_d and local_p live for one iteration.
DropLocal(t) == local' = [local EXCEPT ![t] = <<>>]

\* ... then the local psf bag, and leave it.
AppendPsf(t) ==
  /\ at[t] = "critical"
  /\ psf' = psf \o Twins(local[t])
  /\ at' = [at EXCEPT ![t] = "idle"]
  /\ DropLocal(t)
  /\ UNCHANGED <<disk, loopVars, dirty, todo, loaded, bl_n>>

-----------------------------------------------------------------------------

Loop ==
  \/ BeginFile \/ ReadSlice \/ ReadFails \/ EndFile \/ SkipRecord
  \/ BeginRecord \/ EndRecord \/ Finish

Main == Loop \/ EndSlice

Thread(t) ==
  SkipAuto(t) \/ Calibrate(t) \/ Count(t) \/ AppendDirty(t) \/ AppendPsf(t)

Next == Main \/ \E t \in Threads : Thread(t)

Spec == Init /\ [][Next]_vars

\* EndSlice by its effect on the loop, with which TLC decides cheaply whether it
\* is enabled.
ClipReturns == pc = "record" /\ r = RecPerSlice /\ slice' = slice + 1

\* Every thread is scheduled, the clip returns, and neither the main loop nor a
\* critical section ever blocks for good.
Fairness ==
  /\ WF_vars(Loop) /\ WF_slice(ClipReturns)
  /\ \A t \in Threads : WF_vars(Thread(t))

FairSpec == Spec /\ Fairness

-----------------------------------------------------------------------------
(* Properties *)

IsSeq(s) == s \in Seq({s[k] : k \in DOMAIN s})

\* Types of the state.
TypeOK ==
  /\ pc \in {"file", "slice", "record", "parallel", "done"}
  /\ file \in 1..(NFile + 1) /\ slice \in Nat /\ r \in 0..RecPerSlice
  /\ IsSeq(dirty) /\ IsSeq(psf)
  /\ bag0 \in 0..Len(dirty)
  /\ todo \subseteq Baselines
  /\ at \in [Threads -> {"idle", "count", "local", "critical"}]
  /\ DOMAIN local = Threads
  /\ \A t \in Threads : IsSeq(local[t]) /\ (at[t] = "idle" => local[t] = <<>>)
  /\ DOMAIN loaded = Threads
  /\ \A t \in Threads : IF at[t] = "count" THEN loaded[t] \in Baselines \X Nat
                                           ELSE loaded[t] = <<>>
  /\ bl_n \in [Baselines -> Nat]

\* With no thread inside the critical section, each dirty sample has its psf
\* twin at the same index; inside it there is one thread, and the psf bag lacks
\* exactly its local bag.  The unified keep test and the single critical section
\* exist for this: one unpaired append desynchronises the clip and the PSF for
\* good.
Aligned ==
  LET inside == {t \in Threads : at[t] = "critical"}
  IN  /\ \A t, u \in inside : t = u
      /\ inside = {} => psf = Twins(dirty)
      /\ \A t \in inside : psf \o Twins(local[t]) = Twins(dirty)

\* No sample is gathered twice, whichever threads ran in which order.
NoDuplicates == Cardinality(ToSet(dirty)) = Len(dirty)

\* No step alters, moves or drops a sample of an earlier slice.
EarlierSlicesKept ==
  [][LET n == IF pc \in {"record", "parallel"} THEN bag0 ELSE Len(dirty)
     IN  SubSeq(dirty', 1, n) = SubSeq(dirty, 1, n)]_vars

\* The threads implement slice-at-a-time gathering: whatever the interleaving,
\* the slice finally contributes the samples GatherSpec says.
BySlice == INSTANCE GatherSpec WITH
  pending <- {p \in UNION { {i} \X (Slice0(i)..(Slice1(i) - 1)) :
                              i \in {i \in 1..NFile : NRec[i] > 0} } :
                \/ p[1] > file
                \/ p[1] = file /\ (pc = "file" \/ p[2] >= slice)},
  bag <- IF pc \in {"record", "parallel"} THEN ToSet(SubSeq(dirty, 1, bag0))
                                          ELSE ToSet(dirty)

ImplementsGatherSpec == BySlice!Spec

\* Gathering ends, whatever is read and whichever thread is slow.
Terminates == <>(pc = "done")

\* Until the first clip the DC diagnostic counts what is gridded: between records
\* its counters add up to the bag, although the threads load and store them
\* without a lock.  (They go on counting samples that a clip removes.)
DiagnosticCountsGridded ==
  pc = "record" /\ bag0 = 0 => FoldFunction(LAMBDA x, y : x + y, 0, bl_n) = Len(dirty)
=============================================================================
