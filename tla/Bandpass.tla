------------------------------ MODULE Bandpass ------------------------------
(***************************************************************************)
(* make_bandpass (calib.cpp): from a slice just read, the mean of records  *)
(* off the burst's track, per channel, to subtract (off_src), and the      *)
(* normalised amplitude to divide by (abp).  One cross baseline: baselines *)
(* are independent, and self-pairs are skipped (lines 88, 139).            *)
(*                                                                         *)
(* Data is abstracted to what the function tells apart: which decoded      *)
(* samples are finite, and one amplitude per channel.  off_src is          *)
(* represented by the set of records whose mean it is ({} for zero), abp   *)
(* by the amplitude before the division by the median, which norm2 holds   *)
(* twice (0: not divided).                                                 *)
(*                                                                         *)
(* half_to_float (half.hpp) decodes every bit pattern to a finite number,  *)
(* so the isfinite guard of line 98 never fires with it and bad = {} is    *)
(* the case met in practice; the guard is modelled as it stands.           *)
(***************************************************************************)
EXTENDS RobustStats

CONSTANTS
  NRec, NChan,
  Tracks,    \* possible [cs, ce) of the records: in [0..NRec-1 -> Nat \X Nat]
  Levels,    \* amplitudes
  BadSets    \* sets of samples <<r, c>> that decode to NaN or infinity

ASSUME BandpassAssumption ==
  /\ NRec \in Nat \ {0} /\ NChan \in Nat \ {0}
  /\ Levels \subseteq Nat
  /\ \A t \in Tracks : t \in [0..(NRec - 1) -> (0..NChan) \X (0..NChan)]

Recs == 0..(NRec - 1)
Chans == 0..(NChan - 1)

VARIABLES
  do_band, do_base,       \* Config
  track, level, bad,      \* the slice's data
  phase,                  \* "begin", "mean", "carry", "fill" or "done"
  chan,                   \* the channel loops are at
  abp, off_src, norm2

data == <<track, level, bad>>
bandVars == <<do_band, do_base, track, level, bad, phase, chan, abp, off_src, norm2>>

Nominal == [k \in Chans |-> 1]
Nothing == [k \in Chans |-> {}]

BandInit ==
  /\ do_band \in BOOLEAN /\ do_base \in BOOLEAN
  /\ phase = "begin" /\ chan = 0
  /\ track \in Tracks /\ level \in [Chans -> Levels] /\ bad \in BadSets
  /\ abp = Nominal /\ off_src = Nothing /\ norm2 = 0

\* Records of channel k's burst span: all between the first and the last whose
\* range has k strictly inside.
Span(k) ==
  LET burst == {r \in Recs : track[r][1] < k /\ k < track[r][2]}
  IN  {r \in Recs : \E p, q \in burst : p <= r /\ r <= q}

\* Records averaged for channel k.
OffSource(k) == {r \in Recs \ Span(k) : <<r, k>> \notin bad}

\* The object is reset; with both switches off that is all.
Begin ==
  /\ phase = "begin"
  /\ abp' = Nominal /\ off_src' = Nothing /\ norm2' = 0
  /\ chan' = 0
  /\ phase' = IF do_band \/ do_base THEN "mean" ELSE "done"
  /\ UNCHANGED <<do_band, do_base, data>>

\* Variant: do_base never looked at.
SubtractAnyway == FALSE

\* off_src is dropped only with do_band on: the return for do_band off comes
\* first, and a run with both off has returned before.
DropOffSource == ~do_base

\* Mean of channel c; with do_band off the bandpass ends flat after the last.
Mean ==
  /\ phase = "mean"
  /\ off_src' = [off_src EXCEPT ![chan] = OffSource(chan)]
  /\ LET a == [abp EXCEPT ![chan] = IF OffSource(chan) # {} THEN level[chan] ELSE -1]
     IN  abp' = IF chan = NChan - 1 /\ ~do_band THEN Nominal ELSE a
  /\ IF chan < NChan - 1 THEN chan' = chan + 1 /\ phase' = phase
     ELSE chan' = 0 /\ phase' = IF do_band THEN "carry" ELSE "done"
  /\ UNCHANGED <<do_band, do_base, data, norm2>>

\* Channels whose value may be carried back to channel 0.
Carriable == {k \in Chans \ {0} : abp[k] > 0}

Least(S) == CHOOSE k \in S : \A j \in S : k <= j

\* What the baseline leaves behind when it is done.
Leave ==
  /\ off_src' = IF DropOffSource THEN Nothing ELSE off_src
  /\ phase' = "done"

\* Channel 0 flagged: the first positive amplitude is carried back, and without
\* one the whole bandpass is flat.
Carry ==
  /\ phase = "carry"
  /\ \/ /\ abp[0] >= 0
        /\ phase' = "fill"
        /\ UNCHANGED <<abp, off_src>>
     \/ /\ abp[0] < 0 /\ Carriable # {}
        /\ abp' = [abp EXCEPT ![0] = abp[Least(Carriable)]]
        /\ phase' = "fill"
        /\ UNCHANGED off_src
     \/ /\ abp[0] < 0 /\ Carriable = {}
        /\ abp' = Nominal
        /\ Leave
  /\ chan' = 1
  /\ UNCHANGED <<do_band, do_base, data, norm2>>

\* Variant: filled from the next channel.
FromAbove(k) == IF k < NChan - 1 THEN k + 1 ELSE k - 1

\* The channel a flagged channel k takes its value from.
FillFrom(k) == k - 1

\* Forward fill of channel c.
Fill ==
  /\ phase = "fill"
  /\ chan < NChan
  /\ abp' = [abp EXCEPT ![chan] = IF abp[chan] < 0 THEN abp[FillFrom(chan)] ELSE abp[chan]]
  /\ chan' = chan + 1
  /\ UNCHANGED <<do_band, do_base, data, phase, off_src, norm2>>

\* Division by the median over the channels, if that is positive.
Normalise ==
  /\ phase = "fill"
  /\ chan = NChan
  /\ norm2' = IF Median2(abp) > 0 THEN Median2(abp) ELSE 0
  /\ Leave
  /\ UNCHANGED <<do_band, do_base, data, chan, abp>>

BandNext == Begin \/ Mean \/ Carry \/ Fill \/ Normalise

BandSpec == BandInit /\ [][BandNext]_bandVars

-----------------------------------------------------------------------------
(* Properties *)

\* Types of the state; a flag is an amplitude of -1, and the forward fill starts
\* from a channel that is not flagged.
BandTypeOK ==
  /\ phase \in {"begin", "mean", "carry", "fill", "done"}
  /\ chan \in 0..NChan
  /\ abp \in [Chans -> Nat \cup {-1}] /\ (phase = "fill" => abp[0] \in Nat)
  /\ off_src \in [Chans -> SUBSET Recs]
  /\ norm2 \in Nat

Ready == phase = "done"

\* Channels with at least one finite record off the burst.
Measured == {k \in Chans : OffSource(k) # {}}

\* What each channel is divided by is its own amplitude if it was measured, else
\* that of the nearest measured channel below it, and below all of those the
\* first positive one; with none positive to start from, the bandpass is flat.
FilledFromBelow ==
  Ready /\ do_band =>
    LET positive == {k \in Measured : level[k] > 0}
        below(k) == {j \in Measured : j <= k}
    IN  IF 0 \notin Measured /\ positive = {}
          THEN abp = Nominal
          ELSE \A k \in Chans :
                 abp[k] = IF below(k) # {}
                            THEN level[CHOOSE j \in below(k) : \A i \in below(k) : i <= j]
                            ELSE level[Least(positive)]

\* do_base alone still subtracts, do_band alone does not: each switch decides
\* its own half although do_band's return comes before do_base is looked at.
SwitchesIndependent ==
  Ready =>
    /\ ~do_base => off_src = Nothing
    /\ do_base => \A k \in Chans : off_src[k] = OffSource(k)
    /\ ~do_band => abp = Nominal /\ norm2 = 0
=============================================================================
