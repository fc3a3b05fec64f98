------------------------------ MODULE Pipeline ------------------------------
(***************************************************************************)
(* One run of pico_image (main.cpp, run_pipeline in pipeline.cpp,          *)
(* run_finufft_dirty in grid.cpp, write_fits_images in fits_out.cpp): the  *)
(* stages in order, what each return value leads to, and the product files *)
(* on disk, where the products of an earlier run may lie.  The run may be  *)
(* killed at any point.                                                    *)
(*                                                                         *)
(* Images are "zero" or "made" (from the gathered samples); what happens   *)
(* inside the gathering stage and inside CLEAN is in Gather and Clean.     *)
(***************************************************************************)
EXTENDS Integers, Sequences

\* The products in the order they are written.
Products == <<"dirty", "psf", "image", "residual", "model">>

Names == {Products[k] : k \in DOMAIN Products}

VARIABLES
  pc,        \* stage; "exit" or "killed" at the end
  dump,      \* PICO_DUMP_UVFITS is set
  opened,    \* the raw files are open
  samples,   \* the bags hold samples
  dirty, psf,\* "none", "zero" or "made"
  peak,      \* largest magnitude of the PSF after normalisation: 0 or 1
  before,    \* the products on disk when the run began
  disk,      \* [Names -> {"absent", "old", "partial", "new"}]
  next,      \* product being written
  rc,        \* what the stages have returned so far
  status     \* exit status, -1 before exit

run == <<pc, dump, opened, samples>>
images == <<dirty, psf, peak>>
vars == <<run, images, before, disk, next, rc, status>>

Init ==
  /\ pc = "config" /\ dump \in BOOLEAN /\ opened = FALSE /\ samples = FALSE
  /\ dirty = "none" /\ psf = "none" /\ peak = 0
  /\ before \in [Names -> {"absent", "old"}] /\ disk = before
  /\ next = 1 /\ rc = 0 /\ status = -1

Goto(stage) == pc' = stage /\ UNCHANGED status

\* main returns: 0 only if run_pipeline did.
Exit(r) == pc' = "exit" /\ status' = IF r = 0 THEN 0 ELSE 1

\* load_config, load_antsamp and open_raw_set: each may fail; descriptors a
\* failed open_raw_set leaves are the process's to close.
Config ==
  /\ pc = "config"
  /\ Goto("antsamp") \/ Exit(-1)
  /\ UNCHANGED <<before, dump, opened, samples, images, disk, next, rc>>

AntSamp ==
  /\ pc = "antsamp"
  /\ Goto("open") \/ Exit(-1)
  /\ UNCHANGED <<before, dump, opened, samples, images, disk, next, rc>>

OpenRaw ==
  /\ pc = "open"
  /\ \/ opened' = TRUE /\ Goto(IF dump THEN "dump" ELSE "gather")
     \/ Exit(-1) /\ UNCHANGED opened
  /\ UNCHANGED <<before, dump, samples, images, disk, next, rc>>

\* close_raw_set.
Closed == FALSE

\* PICO_DUMP_UVFITS: dump, close and return without imaging.
Dump ==
  /\ pc = "dump"
  /\ opened' = Closed
  /\ \E r \in {0, -1} : Exit(r)
  /\ UNCHANGED <<before, dump, samples, images, disk, next, rc>>

\* The gathering loops, which end without error whatever could be read.
Gathering ==
  /\ pc = "gather"
  /\ samples' \in BOOLEAN
  /\ opened' = Closed
  /\ Goto("grid_dirty")
  /\ UNCHANGED <<before, dump, images, disk, next, rc>>

\* Variant: no test for an empty bag.
GridAnything(img, r) ==
  \/ img = "zero" /\ r > 0
  \/ img = "made" /\ r = 0

\* What run_finufft_dirty leaves and returns: -1 without samples and then no
\* image; FINUFFT's code, with the image still zero, if that is not 0.
Gridded(img, r) ==
  \/ ~samples /\ img = "none" /\ r = -1
  \/ samples /\ img = "zero" /\ r > 0
  \/ samples /\ img = "made" /\ r = 0

Codes == {-1, 0, 1}

GridDirty ==
  /\ pc = "grid_dirty"
  /\ \E img \in {"none", "zero", "made"}, r \in Codes :
       /\ Gridded(img, r)
       /\ dirty' = img
       /\ IF r < 0 THEN Exit(-1) ELSE Goto("grid_psf")
  /\ UNCHANGED <<before, dump, opened, samples, psf, peak, disk, next, rc>>

GridPsf ==
  /\ pc = "grid_psf"
  /\ \E img \in {"none", "zero", "made"}, r \in Codes :
       /\ Gridded(img, r)
       /\ psf' = img
       /\ IF r < 0 THEN Exit(-1) ELSE Goto("clean")
  /\ peak' = IF psf' = "made" THEN 1 ELSE 0
  /\ UNCHANGED <<before, dump, opened, samples, dirty, disk, next, rc>>

\* CLEAN: both images have the size it asks for.
CleanStage ==
  /\ pc = "clean"
  /\ Goto("remove")
  /\ UNCHANGED <<before, dump, opened, samples, images, disk, next, rc>>

\* Variant: all old products removed before the first is written.
RemoveAll ==
  /\ pc = "remove"
  /\ disk' = [f \in Names |-> IF disk[f] = "old" THEN "absent" ELSE disk[f]]
  /\ Goto("create")
  /\ UNCHANGED <<before, dump, opened, samples, images, next, rc>>

\* write_image_file, first of all: the old file goes.
Remove ==
  /\ pc = "remove"
  /\ disk' = [disk EXCEPT ![Products[next]] = "absent"]
  /\ Goto("create")
  /\ UNCHANGED <<before, dump, opened, samples, images, next, rc>>

\* Variant: only the last file's result is returned.
LastResult(r) == r

\* The results of the files are or-ed together.
Together(r) == IF rc # 0 THEN rc ELSE r

\* write_image_file returns r: on to the next product, or the run's end.
FileDone(r) ==
  /\ rc' = Together(r)
  /\ IF next = Len(Products)
       THEN Exit(rc') /\ UNCHANGED next
       ELSE next' = next + 1 /\ Goto("remove")

\* The file is created, with nothing in it yet, or cannot be.
Create ==
  /\ pc = "create"
  /\ \/ /\ disk' = [disk EXCEPT ![Products[next]] = "partial"]
        /\ Goto("fill")
        /\ UNCHANGED <<next, rc>>
     \/ FileDone(-1) /\ UNCHANGED disk
  /\ UNCHANGED <<before, dump, opened, samples, images>>

\* Header and pixels are written and the file closed, or one of them fails.
FillFile ==
  /\ pc = "fill"
  /\ \/ /\ disk' = [disk EXCEPT ![Products[next]] = "new"]
        /\ FileDone(0)
     \/ FileDone(-1) /\ UNCHANGED disk
  /\ UNCHANGED <<before, dump, opened, samples, images>>

\* The process is killed.
Kill ==
  /\ pc \notin {"exit", "killed"}
  /\ Goto("killed")
  /\ UNCHANGED <<before, dump, opened, samples, images, disk, next, rc>>

Next ==
  Config \/ AntSamp \/ OpenRaw \/ Dump \/ Gathering \/ GridDirty \/ GridPsf
    \/ CleanStage \/ Remove \/ Create \/ FillFile \/ Kill

Spec == Init /\ [][Next]_vars

-----------------------------------------------------------------------------
(* Properties *)

\* Types of the state; images come into being in order.
TypeOK ==
  /\ pc \in {"config", "antsamp", "open", "dump", "gather", "grid_dirty",
             "grid_psf", "clean", "remove", "create", "fill", "exit", "killed"}
  /\ dump \in BOOLEAN /\ opened \in BOOLEAN /\ samples \in BOOLEAN
  /\ dirty \in {"none", "zero", "made"} /\ psf \in {"none", "zero", "made"}
  /\ psf # "none" => dirty # "none"
  /\ (pc = "exit" <=> status # -1) /\ status \in {-1, 0, 1}
  /\ peak \in {0, 1} /\ next \in DOMAIN Products /\ rc \in {-1, 0}
  /\ disk \in [Names -> {"absent", "old", "partial", "new"}]
  /\ before \in [Names -> {"absent", "old"}]

\* A run that imaged and reports success has written every product: none is an
\* earlier run's, missing or cut short, whichever of the writes failed.
SuccessIsComplete ==
  status = 0 /\ ~dump => \A f \in Names : disk[f] = "new"

\* A run that never gets to an image leaves an earlier run's products alone:
\* one is only missing, cut or new if there was a sample to image.
OldKeptUntilImaged ==
  ~samples => disk = before

\* Wherever the run is killed or fails, no more than the product at hand is cut
\* by the kill, all later ones are still the earlier run's, and the files that
\* failed on their own were reported.
CutAtOnePlace ==
  /\ \A k \in DOMAIN Products : k > next => disk[Products[k]] = before[Products[k]]
  /\ \A k \in DOMAIN Products : k < next /\ disk[Products[k]] # "new" => rc = -1

\* clean.hpp:30 requires a PSF with peak 1, and pipeline.cpp:501 sees to it, so
\* CLEAN and the products after it start from one.
PsfHasUnitPeak == pc \in {"clean", "remove"} => peak = 1
=============================================================================
