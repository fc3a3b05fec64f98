----------------------------- MODULE GatherSpec -----------------------------
(***************************************************************************)
(* What gathering promises, with no threads, no buffers and no order of    *)
(* samples: the bag of samples to image grows by one whole slice at a      *)
(* time, in file order, each slice contributing exactly the calibrated     *)
(* cross-correlation samples on the burst track of its selected records,   *)
(* less the outliers of that slice; a slice that cannot be read ends its   *)
(* own file and no other.                                                  *)
(***************************************************************************)
EXTENDS GatherParams

VARIABLES
  disk,     \* what the files hold
  pending,  \* slices still to image
  bag       \* the samples to image

vars == <<disk, pending, bag>>

Planned ==
  UNION { {i} \X (Slice0(i)..(Slice1(i) - 1)) : i \in {i \in 1..NFile : NRec[i] > 0} }

\* The samples record r of slice s of file i has to contribute.
RecordSamples(i, s, r) ==
  LET g == s * RecPerSlice + r
      chans == IF Selected(i, g)
               THEN Track[<<i, g>>][1]..(Track[<<i, g>>][2] - 1) ELSE {}
      cal == IF DoCalib THEN <<i, s>> ELSE <<>>
  IN  { SampleOf(<<i, s, r>>, <<i, s, TRUE>>, cal, b, c, disk[<<i, s, r, b, c>>]) :
          b \in Baselines \ Autos, c \in chans }

\* The samples of slice s that are finite after calibration.
SliceSamples(i, s) ==
  {x \in UNION {RecordSamples(i, s, r) : r \in 0..(RecPerSlice - 1)} : x.amp # BAD}

\* A slice's samples less its outliers.
Survivors(S) ==
  IF DoFlag /\ S # {} THEN S \ Outliers([x \in S |-> x.amp], Thresh) ELSE S

Init ==
  /\ disk \in Disks
  /\ pending = Planned
  /\ bag = {}

\* Slices go in file order, and in time order within a file.
IsNext(p) == \A q \in pending : p[1] < q[1] \/ (p[1] = q[1] /\ p[2] <= q[2])

ImageSlice(p) ==
  /\ bag' = bag \cup Survivors(SliceSamples(p[1], p[2]))
  /\ pending' = pending \ {p}
  /\ UNCHANGED disk

LoseRest(p) ==
  /\ pending' = {q \in pending : q[1] # p[1]}
  /\ UNCHANGED <<disk, bag>>

Next == \E p \in pending : IsNext(p) /\ (ImageSlice(p) \/ LoseRest(p))

Spec == Init /\ [][Next]_vars
=============================================================================
