---------------------------- MODULE GatherParams ----------------------------
(***************************************************************************)
(* What the gathering loop of run_pipeline is given: the selected records  *)
(* of each file, the burst's channels in each record, the baselines, the   *)
(* contents of the files and the switches of the configuration.            *)
(***************************************************************************)
EXTENDS RobustStats

CONSTANTS
  NFile,        \* files, imaged in the order listed
  RecPerSlice,  \* records per slice
  Baselines,    \* baseline numbers of a record
  Autos,        \* the self-pairs among them
  StartRec,     \* [1..NFile -> Nat]  RawFile::start_rec
  NRec,         \* [1..NFile -> Nat]  RawFile::n_rec
  Track,        \* [<<file, record>> -> <<cs, ce>>]  burst_chans_for_record
  Disks,        \* possible contents of the files, each a function from
                \* <<file, slice, rec, baseline, chan>> to an amplitude
  BAD,          \* amplitude of a sample calibration leaves non-finite, which
                \* the keep test drops (none is with the decoder of half.hpp)
  DoCalib,      \* do_band || do_base
  DoFlag,       \* do_flag
  Thresh        \* thresh

ASSUME GatherAssumption ==
  /\ NFile \in Nat /\ RecPerSlice \in Nat \ {0}
  /\ Autos \subseteq Baselines /\ IsFiniteSet(Baselines)
  /\ StartRec \in [1..NFile -> Nat] /\ NRec \in [1..NFile -> Nat]
  /\ \A i \in 1..NFile : \A g \in StartRec[i]..(StartRec[i] + NRec[i] - 1) :
       Track[<<i, g>>] \in Nat \X Nat
  /\ DoCalib \in BOOLEAN /\ DoFlag \in BOOLEAN /\ Thresh \in Nat
  /\ BAD \notin Nat

\* Slices [slice0, slice1) of file i, the ones its selected records lie in.
Slice0(i) == StartRec[i] \div RecPerSlice
Slice1(i) == (StartRec[i] + NRec[i] + RecPerSlice - 1) \div RecPerSlice

\* Is record g of file i (counted from the start of the file) selected?
Selected(i, g) == StartRec[i] <= g /\ g < StartRec[i] + NRec[i]

\* The channels of a selected record hold amplitudes, or samples to drop.
ASSUME DiskAssumption ==
  \A d \in Disks : \A i \in 1..NFile :
    \A s \in Slice0(i)..(Slice1(i) - 1), q \in 0..(RecPerSlice - 1) :
      Selected(i, s * RecPerSlice + q) =>
      LET track == Track[<<i, s * RecPerSlice + q>>]
      IN  \A b \in Baselines, c \in track[1]..(track[2] - 1) :
            d[<<i, s, q, b, c>>] \in Nat \cup {BAD}

\* A gathered sample: the file, slice and record whose time gave its (u, v);
\* the file and slice its visibility was read from, and whether that read was
\* complete; the slice whose bandpass calibrated it; and its amplitude.
SampleOf(when, from, cal, b, c, amp) ==
  [when |-> when, from |-> from, cal |-> cal, base |-> b, chan |-> c,
   amp |-> amp]
=============================================================================
