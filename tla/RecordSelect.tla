---------------------------- MODULE RecordSelect ----------------------------
(***************************************************************************)
(* update_burst (pipeline.cpp) and compute_record_ranges (dm.cpp): the     *)
(* window [t_burst, t_end] in which the burst crosses the band, and for    *)
(* each file the first record the window touches and how many to take,     *)
(* found by walking record times forward.  Files hold every NFile-th slice *)
(* of the observation; record g of file f is observed at RecTime(f, g).    *)
(*                                                                         *)
(* Times are integers (ticks, counted from mjd_ref), a record lasting      *)
(* Integ of them, so a window may start or end inside a record; delays at  *)
(* the band's edges and at burst.freq are taken to be whole ticks.         *)
(* rec_per_slice is 50 (raw_io.cpp:42).  One record per slice and one file *)
(* would make the jump zero and the walk endless, so the model asks for at *)
(* least two.                                                              *)
(***************************************************************************)
EXTENDS ChannelTrack

CONSTANTS
  NFile,        \* files
  RecPerSlice,  \* RawSet::rec_per_slice
  Layouts,      \* possible t_start of the files, each in [1..NFile -> Int]
  Bursts,       \* possible bursts: records of arrival at burst.freq (mjd), FB2,
                \* DispK, halfwd
  Widths        \* values of BURST_WIDTH in a config with UPDATE_BURST 0

ASSUME SelectAssumption ==
  /\ NFile \in Nat \ {0} /\ RecPerSlice \in Nat \ {0, 1}
  /\ \A l \in Layouts : l \in [1..NFile -> Int]
  /\ Bursts \subseteq [mjd : Int, FB2 : Nat \ {0}, DispK : Nat, halfwd : Nat]
  /\ Widths \subseteq Nat

t_slice == RecPerSlice * Integ
slice_interval == NFile * t_slice

VARIABLES
  t_start,     \* RawFile::t_start of each file
  update,      \* UPDATE_BURST
  mjd,         \* burst.mjd
  width,       \* burst.width
  i,           \* the file the loop is at
  pc,          \* "update", "locate", "walk", "image" or "done"
  start_rec,   \* [1..NFile -> Nat], set when the file's walk ends
  n_rec,       \* [1..NFile -> Nat], likewise
  first,       \* start_rec of file i
  rec_num, t_rec,
  r            \* records taken so far

burstVars == <<F0, Upper, FB2, DispK, halfwd, bt, update, mjd, width, t_start>>
walkVars == <<first, rec_num, t_rec, r>>
selectVars == <<burstVars, walkVars, i, pc, start_rec, n_rec>>

\* Delay at frequency squared f2, in whole ticks.
Delay(f2) == DispK \div f2

LowEnd == IF Upper THEN F0 ELSE Edge(NChan)
HighEnd == IF Upper THEN Edge(NChan) ELSE F0

\* The ticks are fine enough for the delays the window is computed from.
ASSUME TickAssumption ==
  \A k \in Bursts : \A b \in Bands :
    LET other == IF b[2] THEN b[1] + NChan * CW ELSE b[1] - NChan * CW
    IN  \A f2 \in {k.FB2, b[1] * b[1], other * other} : k.DispK % f2 = 0

SelectInit ==
  /\ \E b \in Bands : F0 = b[1] /\ Upper = b[2]
  /\ t_start \in Layouts
  /\ \E b \in Bursts : FB2 = b.FB2 /\ DispK = b.DispK /\ halfwd = b.halfwd /\ mjd = b.mjd
  /\ update \in BOOLEAN
  /\ IF update THEN bt = 0 /\ width = 0 ELSE bt = mjd /\ width \in Widths
  /\ i = 1 /\ pc = "update"
  /\ start_rec = [f \in 1..NFile |-> 0] /\ n_rec = [f \in 1..NFile |-> 0]
  /\ first = 0 /\ rec_num = 0 /\ t_rec = 0 /\ r = 0

\* Variant: the intrinsic width on one side only.
HalfSweep == Delay(LowEnd * LowEnd) - Delay(HighEnd * HighEnd) + halfwd

\* tl - th: the sweep across the band and the intrinsic width.
Sweep == Delay(LowEnd * LowEnd) - Delay(HighEnd * HighEnd) + 2 * halfwd

\* update_burst: the width from the dispersion, the time from the MJD.
UpdateBurst ==
  /\ pc = "update"
  /\ IF update THEN width' = Sweep /\ bt' = mjd
               ELSE UNCHANGED <<width, bt>>
  /\ pc' = "locate"
  /\ UNCHANGED <<F0, Upper, FB2, DispK, halfwd, update, mjd, t_start, walkVars,
                 i, start_rec, n_rec>>

\* The window: the burst's leading edge at the top of the band, and on.
t_burst == bt - halfwd + Delay(HighEnd * HighEnd) - Delay(FB2)
t_end == t_burst + width

Clamp(x) == IF x < 0 THEN 0 ELSE x

\* The slice of file i the window starts in, or the next one if it starts in
\* the time of other files, and the record within it.
Locate ==
  /\ pc = "locate"
  /\ LET s == Clamp((t_burst - t_start[i]) \div slice_interval)
         into == t_burst - (t_start[i] + s * slice_interval)
         slice == IF into > t_slice THEN s + 1 ELSE s
         rec == IF into > t_slice THEN 0 ELSE Clamp(into \div Integ)
     IN  /\ first' = slice * RecPerSlice + rec
         /\ rec_num' = rec
         /\ t_rec' = t_start[i] + slice * slice_interval + rec * Integ
  /\ r' = 0
  /\ pc' = "walk"
  /\ UNCHANGED <<burstVars, i, start_rec, n_rec>>

\* Variant: jump a whole interval from the slice's last record.
JumpWhole == slice_interval

\* How far t_rec jumps from the last record of a slice.
Jump == slice_interval - t_slice

\* The condition of the walk's loop.
InWindow == t_rec <= t_end

\* Take one more record.
Walk ==
  /\ pc = "walk"
  /\ InWindow
  /\ IF rec_num = RecPerSlice - 1
       THEN t_rec' = t_rec + Jump /\ rec_num' = 0
       ELSE t_rec' = t_rec + Integ /\ rec_num' = rec_num + 1
  /\ r' = r + 1
  /\ UNCHANGED <<burstVars, i, pc, start_rec, n_rec, first>>

\* The window is passed: record the file's range and go on.
Store ==
  /\ pc = "walk"
  /\ ~InWindow
  /\ start_rec' = [start_rec EXCEPT ![i] = first]
  /\ n_rec' = [n_rec EXCEPT ![i] = r]
  /\ i' = IF i = NFile THEN 1 ELSE i + 1
  /\ pc' = IF i = NFile THEN "image" ELSE "locate"
  /\ UNCHANGED <<burstVars, walkVars>>

SelectNext == UpdateBurst \/ Locate \/ Walk \/ Store

\* When record g of file f is observed, as the gathering loop places it
\* (t_slice_start + r * dt_rec in pipeline.cpp).
RecTime(f, g) ==
  t_start[f] + (g \div RecPerSlice) * slice_interval + (g % RecPerSlice) * Integ

\* The test of the gathering loop, on the record's number in its file.
Selected(f, g) == start_rec[f] <= g /\ g < start_rec[f] + n_rec[f]
=============================================================================
