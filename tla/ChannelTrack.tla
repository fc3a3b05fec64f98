---------------------------- MODULE ChannelTrack ----------------------------
(***************************************************************************)
(* burst_chans_for_record (dm.cpp): the channel range [cs, ce) a record    *)
(* contributes to the image as the burst, delayed by DispK / f^2, sweeps   *)
(* down the band.                                                          *)
(*                                                                         *)
(* Arithmetic is exact: the code's fn = 1/fb^2 + a / (K0 DM) is the        *)
(* fraction (DispK + a FB2) / (DispK FB2), and the channel of f = 1/sqrt   *)
(* (fn) is found by comparing squares, without roots.  Channel numbers the *)
(* code would compute below -1 or above NChan are cut to -1 and NChan,     *)
(* which its own clamps and the empty loops over [cs, ce) make equivalent. *)
(***************************************************************************)
EXTENDS Integers, FiniteSets

CONSTANTS
  NChan,      \* channels
  CW,         \* channel width
  Integ,      \* duration of a record
  Bands       \* possible bands: <<freq of channel 0's outer edge, whether
              \* frequency rises with the channel number (USB)>>

ASSUME BandAssumption ==
  /\ NChan \in Nat \ {0} /\ CW \in Nat \ {0} /\ Integ \in Nat \ {0}
  /\ Bands \subseteq (Nat \ {0}) \X BOOLEAN
  /\ \A b \in Bands : ~b[2] => b[1] > NChan * CW

VARIABLES
  F0, Upper,  \* the band observed
  FB2,        \* burst.freq squared
  DispK,      \* K0 * burst.DM
  halfwd,     \* burst.int_wd / 2
  bt          \* burst.t

Channels == 0..(NChan - 1)

\* Edge c of the band in frequency: channel c lies between edges c and c + 1.
Edge(c) == IF Upper THEN F0 + c * CW ELSE F0 - c * CW

\* Numerator of fn for the time t.
Fn(t) == DispK + (t - bt) * FB2

\* Edge frequency f is at most / at least the burst's frequency 1/sqrt(fn).
AtMost(f, n) == f * f * n <= DispK * FB2
AtLeast(f, n) == f * f * n >= DispK * FB2

\* floor((1/sqrt(fn) - freq) / df): the last edge the burst frequency is not
\* before, counted along the band; -1 if it is before edge 0.
ChannelOf(n) ==
  LET behind == {c \in 0..NChan : IF Upper THEN AtMost(Edge(c), n)
                                           ELSE AtLeast(Edge(c), n)}
  IN  Cardinality(behind) - 1

\* Variant: the ends as they come.
Unordered(c0, c1) == <<c0, c1>>

\* dm.cpp swaps c0 and c1 when the band is upper sideband.
Ordered(c0, c1) == IF c0 > c1 THEN <<c1, c0>> ELSE <<c0, c1>>

\* Variant: the end channel is imaged too.
ThroughLast(c1) == IF c1 + 1 < NChan THEN c1 + 1 ELSE NChan

\* The end of the range.
UpTo(c1) == IF c1 < NChan THEN c1 ELSE NChan

\* Variant: the caller's default, the whole band, kept for a track that ends
\* before channel 0.
DefaultBand(c0, c1) ==
  IF c1 < 0 THEN <<0, NChan>> ELSE <<IF c0 > 0 THEN c0 ELSE 0, UpTo(c1)>>

\* The clamps; a track entirely before channel 0 is no range at all.
InBand(c0, c1) ==
  IF c1 < 0 THEN <<NChan, NChan>>
  ELSE <<IF c0 > 0 THEN c0 ELSE 0, UpTo(c1)>>

\* Times whose delays give the highest and the lowest burst frequency of the
\* record that starts at t.
FirstTime(t) == t - halfwd

LastTime(t) == t + Integ + halfwd

\* [cs, ce) for the record that starts at t.  With DM = 0 the division gives an
\* infinity or NaN for fn, and one of fs > 0, fe > 0 fails.
BurstChans(t) ==
  LET n1 == Fn(FirstTime(t))
      n2 == Fn(LastTime(t))
      o == IF DispK > 0 /\ n1 > 0 /\ n2 > 0
             THEN Ordered(ChannelOf(n1), ChannelOf(n2))
             ELSE <<NChan, NChan>>
  IN  InBand(o[1], o[2])

\* The channels of the record: the loops from cs to ce.
Imaged(t) == LET rg == BurstChans(t) IN rg[1]..(rg[2] - 1)
=============================================================================
