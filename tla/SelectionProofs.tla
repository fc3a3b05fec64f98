-------------------------- MODULE SelectionProofs ---------------------------
(***************************************************************************)
(* For any files, band, burst and window: the records selected are those   *)
(* the window touches, and the channels the burst crosses are imaged, each *)
(* of them, and once when the pulse has no width.                          *)
(*                                                                         *)
(* Two facts carry the proofs.  A walk's clock may fall behind the record  *)
(* it stands for and never runs ahead of it (WalkInv), so the walk ends    *)
(* past the window.  And a record images channel c exactly if the burst    *)
(* crosses the far edge of c during it (ImagedIff), which turns statements *)
(* about ranges of channels into statements about instants.                *)
(***************************************************************************)
EXTENDS Selection, FiniteSetTheorems, TLAPS

\* The window's parameters, as configured and, after update_burst, as computed.
BurstInv ==
  /\ <<F0, Upper>> \in Bands /\ t_start \in Layouts
  /\ \E b \in Bursts : FB2 = b.FB2 /\ DispK = b.DispK /\ halfwd = b.halfwd
  /\ bt \in Int /\ mjd \in Int /\ width \in Int /\ update \in BOOLEAN
  /\ update /\ pc # "update" => width = Sweep

\* Types, and the file the loops are at.
LoopInv ==
  /\ pc \in {"update", "locate", "walk", "image", "done"}
  /\ i \in 1..(NFile + 1) /\ (pc = "update" => i = 1) /\ (pc = "done" <=> i = NFile + 1)
  /\ start_rec \in [1..NFile -> Nat] /\ n_rec \in [1..NFile -> Nat]
  /\ first \in Nat /\ rec_num \in Nat /\ t_rec \in Int /\ r \in Nat
  /\ sl \in Nat \cup {-1} /\ seen \in [Channels -> Nat]

\* Records before file f's record g end before the window begins; record g and
\* those after it begin after the window has ended.
AllBefore(f, g) == \A h \in Nat : h < g => RecTime(f, h) + Integ <= t_burst
AllAfter(f, g) == \A h \in Nat : h >= g => RecTime(f, h) > t_end

\* The walk: the clock is behind or right, and from a window that starts exactly
\* at the end of a slice on, the counter has passed the test that resets it.
WalkInv ==
  pc = "walk" =>
    /\ rec_num = (first + r) % RecPerSlice \/ rec_num >= RecPerSlice
    /\ t_rec <= RecTime(i, first + r)
    /\ AllBefore(i, first)

\* What a walk that has ended left.
RangeInv ==
  \A f \in Walked :
    AllBefore(f, start_rec[f]) /\ AllAfter(f, start_rec[f] + n_rec[f])

\* Records the pass over the files has gone by.
Passed(f, g) == f < i \/ (f = i /\ g < sl * RecPerSlice)

\* The count of a channel is zero, or some record gone by was on it; and it is
\* not zero once a selected record on it has gone by.
SeenInv ==
  /\ pc \notin {"image", "done"} => sl = -1 /\ seen = [c \in Channels |-> 0]
  /\ \A c \in Channels :
       /\ halfwd = 0 => seen[c] \in {0, 1}
       /\ seen[c] # 0 => \E f \in 1..NFile, g \in Nat :
                           Passed(f, g) /\ c \in Imaged(RecTime(f, g))
       /\ pc \in {"image", "done"} =>
            \A f \in 1..NFile, g \in Nat :
              Passed(f, g) /\ Selected(f, g) /\ c \in Imaged(RecTime(f, g)) => seen[c] # 0

IInv == BurstInv /\ LoopInv /\ WalkInv /\ RangeInv /\ SeenInv

-----------------------------------------------------------------------------
(* Record times *)

\* The number of a record in its slice, and that of its slice.
LEMMA Divide ==
  ASSUME NEW per \in Nat \ {0}, NEW s \in Int, NEW q \in 0..(per - 1)
  PROVE  (s * per + q) \div per = s /\ (s * per + q) % per = q
OBVIOUS

\* The same, from the record's number in its file.
LEMMA Split ==
  ASSUME NEW per \in Nat \ {0}, NEW g \in Int
  PROVE  /\ g \div per \in Int /\ g % per \in 0..(per - 1)
         /\ g = (g \div per) * per + (g % per)
         /\ g >= 0 => g \div per >= 0
OBVIOUS

\* Products keep an order, and the sign of their factors.
LEMMA TimesUp ==
  ASSUME NEW a \in Int, NEW b \in Int, NEW k \in Nat, a <= b
  PROVE  a * k <= b * k
OBVIOUS

LEMMA TimesType ==
  ASSUME NEW a \in Nat, NEW b \in Nat
  PROVE  a * b \in Nat /\ (a # 0 /\ b # 0 => a * b # 0)
OBVIOUS

\* A slice lasts two records at least, and a file's slices do not overlap.
LEMMA Durations ==
  /\ Integ \in Nat \ {0} /\ NFile \in Nat \ {0} /\ RecPerSlice \in Nat \ {0, 1}
  /\ t_slice \in Nat \ {0} /\ slice_interval \in Nat \ {0} /\ Jump \in Nat
  /\ t_slice = (RecPerSlice - 1) * Integ + Integ
  /\ slice_interval = Jump + t_slice
<1>1. Integ \in Nat \ {0} /\ NFile \in Nat \ {0} /\ RecPerSlice \in Nat \ {0, 1}
  BY BandAssumption, SelectAssumption
<1>2. t_slice \in Nat \ {0}
  BY <1>1, TimesType DEF t_slice
<1>3. t_slice = (RecPerSlice - 1) * Integ + Integ
  BY <1>1 DEF t_slice
<1>4. slice_interval \in Nat \ {0}
  BY <1>1, <1>2, TimesType DEF slice_interval
<1>5. 1 * t_slice <= NFile * t_slice
  BY <1>1, <1>2, TimesUp
<1> QED
  BY <1>1, <1>2, <1>3, <1>4, <1>5 DEF slice_interval, Jump

\* Record times are numbers.
LEMMA RecTimeType ==
  ASSUME NEW f \in 1..NFile, NEW g \in Int, t_start[f] \in Int
  PROVE  RecTime(f, g) \in Int
<1>1. g \div RecPerSlice \in Int /\ g % RecPerSlice \in Int
  BY Durations, Split
<1> QED
  BY <1>1, Durations DEF RecTime

\* The time of record q of slice s.
LEMMA RecTimeAt ==
  ASSUME NEW f \in 1..NFile, NEW s \in Int, NEW q \in 0..(RecPerSlice - 1),
         t_start[f] \in Int
  PROVE  RecTime(f, s * RecPerSlice + q) = t_start[f] + s * slice_interval + q * Integ
<1>1. /\ (s * RecPerSlice + q) \div RecPerSlice = s
      /\ (s * RecPerSlice + q) % RecPerSlice = q
  BY Durations, Divide
<1> QED
  BY <1>1 DEF RecTime

\* A record of a file ends before the next one begins.
LEMMA RecTimeGrows ==
  ASSUME NEW f \in 1..NFile, NEW g \in Int, NEW h \in Int, g < h, t_start[f] \in Int
  PROVE  RecTime(f, g) + Integ <= RecTime(f, h)
<1> DEFINE sg == g \div RecPerSlice
           qg == g % RecPerSlice
           sh == h \div RecPerSlice
           qh == h % RecPerSlice
<1>1. /\ sg \in Int /\ qg \in 0..(RecPerSlice - 1) /\ g = sg * RecPerSlice + qg
      /\ sh \in Int /\ qh \in 0..(RecPerSlice - 1) /\ h = sh * RecPerSlice + qh
  BY Durations, Split
<1>2. /\ RecTime(f, g) = t_start[f] + sg * slice_interval + qg * Integ
      /\ RecTime(f, h) = t_start[f] + sh * slice_interval + qh * Integ
  BY DEF RecTime
<1> HIDE DEF sg, qg, sh, qh
<1>3. /\ sg * slice_interval \in Int /\ sh * slice_interval \in Int
      /\ qg * Integ \in Int /\ qh * Integ \in Int
  BY <1>1, Durations
<1>4. CASE sg = sh
  <2>1. qg + 1 <= qh
    BY <1>1, <1>4, Durations
  <2>2. (qg + 1) * Integ <= qh * Integ
    BY <1>1, <2>1, Durations, TimesUp
  <2>3. (qg + 1) * Integ = qg * Integ + Integ
    BY <1>1, Durations
  <2> QED
    BY <1>2, <1>3, <1>4, <2>2, <2>3, Durations
<1>5. CASE sg < sh
  <2>1. (sg + 1) * slice_interval <= sh * slice_interval
    BY <1>1, <1>5, Durations, TimesUp
  <2>2. (sg + 1) * slice_interval = sg * slice_interval + slice_interval
    BY <1>1, Durations
  <2>3. qg * Integ <= (RecPerSlice - 1) * Integ
    BY <1>1, Durations, TimesUp
  <2>4. 0 * Integ <= qh * Integ
    BY <1>1, Durations, TimesUp
  <2>5. (RecPerSlice - 1) * Integ \in Int
    BY Durations
  <2> QED
    BY <1>2, <1>3, <2>1, <2>2, <2>3, <2>4, <2>5, Durations
<1>6. CASE sh < sg
  <2>1. (sh + 1) * RecPerSlice <= sg * RecPerSlice
    BY <1>1, <1>6, Durations, TimesUp
  <2>2. (sh + 1) * RecPerSlice = sh * RecPerSlice + RecPerSlice
    BY <1>1, Durations
  <2> QED
    BY <1>1, <2>1, <2>2, Durations
<1> QED
  BY <1>1, <1>4, <1>5, <1>6

\* From a record to the next: Integ, or the rest of the interval at a slice's end.
LEMMA RecTimeNext ==
  ASSUME NEW f \in 1..NFile, NEW g \in Nat, t_start[f] \in Int
  PROVE  /\ g % RecPerSlice = RecPerSlice - 1 =>
              /\ RecTime(f, g + 1) = RecTime(f, g) + Jump + Integ
              /\ (g + 1) % RecPerSlice = 0
         /\ g % RecPerSlice # RecPerSlice - 1 =>
              /\ RecTime(f, g + 1) = RecTime(f, g) + Integ
              /\ (g + 1) % RecPerSlice = (g % RecPerSlice) + 1
<1> DEFINE s == g \div RecPerSlice
           q == g % RecPerSlice
<1>1. s \in Int /\ q \in 0..(RecPerSlice - 1) /\ g = s * RecPerSlice + q
  BY Durations, Split
<1>2. RecTime(f, g) = t_start[f] + s * slice_interval + q * Integ
  BY DEF RecTime
<1> HIDE DEF s
<1>3. CASE q = RecPerSlice - 1
  <2> HIDE DEF q
  <2>1. g + 1 = (s + 1) * RecPerSlice + 0 /\ s + 1 \in Int /\ 0 \in 0..(RecPerSlice - 1)
    BY <1>1, <1>3, Durations
  <2>2. RecTime(f, g + 1) = t_start[f] + (s + 1) * slice_interval + 0 * Integ
    BY <2>1, RecTimeAt
  <2>3. (g + 1) % RecPerSlice = 0
    <3>1. ((s + 1) * RecPerSlice + 0) % RecPerSlice = 0
      BY <2>1, Durations, Divide
    <3> QED
      BY <2>1, <3>1
  <2>4. (s + 1) * slice_interval = s * slice_interval + slice_interval
    BY <1>1, Durations
  <2>5. s * slice_interval \in Int /\ q * Integ \in Int /\ q * Integ = (RecPerSlice - 1) * Integ
    BY <1>1, <1>3, Durations
  <2>6. RecTime(f, g + 1) = RecTime(f, g) + Jump + Integ
    BY <1>2, <2>2, <2>4, <2>5, Durations
  <2> QED
    BY <1>3, <2>3, <2>6 DEF q
<1>4. CASE q # RecPerSlice - 1
  <2> HIDE DEF q
  <2>1. g + 1 = s * RecPerSlice + (q + 1) /\ q + 1 \in 0..(RecPerSlice - 1)
    BY <1>1, <1>4, Durations
  <2>2. RecTime(f, g + 1) = t_start[f] + s * slice_interval + (q + 1) * Integ
    BY <1>1, <2>1, RecTimeAt
  <2>3. (g + 1) % RecPerSlice = q + 1
    <3>1. (s * RecPerSlice + (q + 1)) % RecPerSlice = q + 1
      BY <1>1, <2>1, Durations, Divide
    <3> QED
      BY <2>1, <3>1
  <2>4. (q + 1) * Integ = q * Integ + Integ /\ q * Integ \in Int /\ s * slice_interval \in Int
    BY <1>1, Durations
  <2>5. RecTime(f, g + 1) = RecTime(f, g) + Integ
    BY <1>2, <2>2, <2>4, Durations
  <2> QED
    BY <1>4, <2>3, <2>5 DEF q
<1> QED
  BY <1>3, <1>4

-----------------------------------------------------------------------------
(* The band and the window *)

\* Types of the burst's parameters, and of the frequencies of the band's edges.
LEMMA BurstTypes ==
  ASSUME BurstInv
  PROVE  /\ F0 \in Nat \ {0} /\ Upper \in BOOLEAN /\ (~Upper => F0 > NChan * CW)
         /\ FB2 \in Nat \ {0} /\ DispK \in Nat /\ halfwd \in Nat
         /\ t_start \in [1..NFile -> Int]
<1>1. <<F0, Upper>> \in (Nat \ {0}) \X BOOLEAN /\ (~Upper => F0 > NChan * CW)
  <2>1. <<F0, Upper>> \in Bands
    BY DEF BurstInv
  <2>2. ~<<F0, Upper>>[2] => <<F0, Upper>>[1] > NChan * CW
    BY <2>1, BandAssumption
  <2> QED
    BY <2>1, <2>2, BandAssumption
<1>2. PICK b \in Bursts : FB2 = b.FB2 /\ DispK = b.DispK /\ halfwd = b.halfwd
  BY DEF BurstInv
<1>3. b \in [mjd : Int, FB2 : Nat \ {0}, DispK : Nat, halfwd : Nat]
  BY SelectAssumption
<1>4. t_start \in [1..NFile -> Int]
  BY SelectAssumption DEF BurstInv
<1> QED
  BY <1>1, <1>2, <1>3, <1>4

\* Edges have positive frequencies, which grow along an upper sideband and fall
\* along a lower one; the ends are the lowest and the highest of them.
LEMMA Edges ==
  ASSUME BurstInv, NEW c \in 0..NChan
  PROVE  /\ Edge(c) \in Nat \ {0}
         /\ LowEnd \in Nat \ {0} /\ HighEnd \in Nat \ {0}
         /\ LowEnd <= Edge(c) /\ Edge(c) <= HighEnd
         /\ \A d \in 0..NChan : c < d => IF Upper THEN Edge(c) < Edge(d)
                                                  ELSE Edge(d) < Edge(c)
         /\ IF Upper THEN LowEnd = Edge(0) /\ HighEnd = Edge(NChan)
                     ELSE LowEnd = Edge(NChan) /\ HighEnd = Edge(0)
<1>1. /\ F0 \in Nat \ {0} /\ Upper \in BOOLEAN /\ (~Upper => F0 > NChan * CW)
      /\ NChan \in Nat \ {0} /\ CW \in Nat \ {0}
  BY BurstTypes, BandAssumption
<1>2. c * CW \in Nat /\ NChan * CW \in Nat /\ c * CW <= NChan * CW /\ 0 * CW = 0
  BY <1>1, TimesUp, TimesType
<1>3. ASSUME NEW d \in 0..NChan, c < d PROVE c * CW < d * CW
  <2>1. (c + 1) * CW <= d * CW /\ (c + 1) * CW = c * CW + CW
    BY <1>1, <1>3, TimesUp
  <2> QED
    BY <1>1, <1>2, <2>1
<1>4. \A d \in 0..NChan : d * CW \in Int
  BY <1>1
<1> QED
  BY <1>1, <1>2, <1>3, <1>4 DEF Edge, LowEnd, HighEnd

\* A quotient that leaves no remainder.
LEMMA Exact ==
  ASSUME NEW a \in Nat, NEW b \in Nat \ {0}, a % b = 0
  PROVE  a \div b \in Nat /\ (a \div b) * b = a
<1>1. a \div b \in Int /\ a = (a \div b) * b + (a % b) /\ a \div b >= 0
  BY Split
<1> QED
  BY <1>1

\* Delays at the ends of the band and at burst.freq are exact.
LEMMA Delays ==
  ASSUME BurstInv,
         NEW f2 \in {FB2, LowEnd * LowEnd, HighEnd * HighEnd}
  PROVE  f2 \in Nat \ {0} /\ Delay(f2) \in Nat /\ Delay(f2) * f2 = DispK
<1>1. FB2 \in Nat \ {0} /\ DispK \in Nat /\ 0 \in 0..NChan
  BY BurstTypes, BandAssumption
<1>2. LowEnd \in Nat \ {0} /\ HighEnd \in Nat \ {0}
  BY <1>1, Edges
<1>3. LowEnd * LowEnd \in Nat \ {0} /\ HighEnd * HighEnd \in Nat \ {0}
  BY <1>2, TimesType
<1>4. PICK b \in Bursts : FB2 = b.FB2 /\ DispK = b.DispK
  BY DEF BurstInv
<1> DEFINE band == <<F0, Upper>>
           other == IF band[2] THEN band[1] + NChan * CW ELSE band[1] - NChan * CW
<1>5. band \in Bands
  BY DEF BurstInv
<1>6. \A g2 \in {b.FB2, band[1] * band[1], other * other} : b.DispK % g2 = 0
  BY <1>5, TickAssumption, Zenon
<1>7. IF Upper THEN LowEnd = band[1] /\ HighEnd = other
               ELSE LowEnd = other /\ HighEnd = band[1]
  BY DEF LowEnd, HighEnd, Edge
<1>8. DispK % f2 = 0
  <2> HIDE DEF band, other
  <2> QED
    BY <1>4, <1>6, <1>7
<1> QED
  BY <1>1, <1>3, <1>8, Exact DEF Delay

\* The window's ends are numbers.
LEMMA Window ==
  ASSUME BurstInv
  PROVE  t_burst \in Int /\ t_end \in Int /\ Sweep \in Int
<1>1. /\ FB2 \in Nat \ {0} /\ DispK \in Nat /\ halfwd \in Nat
      /\ bt \in Int /\ width \in Int
  BY BurstTypes DEF BurstInv
<1>2. Delay(FB2) \in Nat /\ Delay(HighEnd * HighEnd) \in Nat /\ Delay(LowEnd * LowEnd) \in Nat
  BY Delays
<1> QED
  BY <1>1, <1>2 DEF t_burst, t_end, Sweep

-----------------------------------------------------------------------------
(* Selecting the records *)

\* After update_burst the window, the record times and the channels of a record
\* stay as they are.
LEMMA SameWindow ==
  ASSUME BurstInv, pc # "update", UNCHANGED burstVars
  PROVE  /\ BurstInv' /\ t_burst' = t_burst /\ t_end' = t_end
         /\ \A f, g : RecTime(f, g)' = RecTime(f, g)
         /\ \A f, g : Imaged(RecTime(f, g))' = Imaged(RecTime(f, g))
<1> USE DEF burstVars
<1>1. /\ F0' = F0 /\ Upper' = Upper /\ FB2' = FB2 /\ DispK' = DispK /\ halfwd' = halfwd
      /\ bt' = bt /\ t_start' = t_start /\ width' = width /\ update' = update /\ mjd' = mjd
  OBVIOUS
<1>2. /\ HighEnd' = HighEnd /\ LowEnd' = LowEnd
      /\ \A f2 : Delay(f2)' = Delay(f2)
      /\ \A n : Edge(n)' = Edge(n)
  BY <1>1 DEF HighEnd, LowEnd, Delay, Edge
<1>3. t_burst' = t_burst /\ Sweep' = Sweep
  BY <1>1, <1>2 DEF t_burst, Sweep, Delay
<1>4. t_end' = t_end
  BY <1>1, <1>3 DEF t_end
<1>5. BurstInv'
  BY <1>1, <1>3 DEF BurstInv
<1>6. \A f, g : RecTime(f, g)' = RecTime(f, g)
  BY <1>1 DEF RecTime
<1>7. \A n : ChannelOf(n)' = ChannelOf(n)
  <2>1. \A n : \A c : /\ AtMost(Edge(c), n)' <=> AtMost(Edge(c), n)
                      /\ AtLeast(Edge(c), n)' <=> AtLeast(Edge(c), n)
    BY <1>1, <1>2 DEF AtMost, AtLeast
  <2>2. \A n : {c \in 0..NChan : IF Upper THEN AtMost(Edge(c), n) ELSE AtLeast(Edge(c), n)}'
             = {c \in 0..NChan : IF Upper THEN AtMost(Edge(c), n) ELSE AtLeast(Edge(c), n)}
    BY <1>1, <2>1
  <2> QED
    BY <2>2 DEF ChannelOf
<1>8. /\ \A t : Fn(t)' = Fn(t)
      /\ \A t : FirstTime(t)' = FirstTime(t)
      /\ \A t : LastTime(t)' = LastTime(t)
  BY <1>1 DEF Fn, FirstTime, LastTime
<1>9. \A t : BurstChans(t)' = BurstChans(t)
  BY <1>1, <1>7, <1>8 DEF BurstChans
<1>10. \A f, g : Imaged(RecTime(f, g))' = Imaged(RecTime(f, g))
  BY <1>6, <1>9 DEF Imaged
<1> QED
  BY <1>3, <1>4, <1>5, <1>6, <1>10

\* Initially nothing is selected or imaged.
LEMMA InitInv ==
  ASSUME Init
  PROVE  IInv
<1> USE DEF Init, SelectInit
<1>1. PICK b \in Bursts :
        FB2 = b.FB2 /\ DispK = b.DispK /\ halfwd = b.halfwd /\ mjd = b.mjd
  OBVIOUS
<1>2. b \in [mjd : Int, FB2 : Nat \ {0}, DispK : Nat, halfwd : Nat]
  BY SelectAssumption
<1>3. bt \in Int /\ mjd \in Int /\ width \in Int /\ update \in BOOLEAN
  <2>1. mjd \in Int
    BY <1>1, <1>2
  <2>2. (bt = 0 /\ width = 0) \/ (bt = mjd /\ width \in Widths)
    BY Zenon
  <2>3. bt \in Int /\ width \in Int
    <3> HIDE DEF Init, SelectInit
    <3>1. Widths \subseteq Nat
      BY SelectAssumption
    <3>2. CASE bt = 0 /\ width = 0
      BY <3>2
    <3>3. CASE bt = mjd /\ width \in Widths
      BY <2>1, <3>1, <3>3
    <3> QED
      BY <2>2, <3>2, <3>3, Zenon
  <2> QED
    BY <2>1, <2>3, Zenon
<1>4. <<F0, Upper>> \in Bands
  <2>1. PICK d \in Bands : F0 = d[1] /\ Upper = d[2]
    OBVIOUS
  <2>2. d \in (Nat \ {0}) \X BOOLEAN
    BY BandAssumption
  <2>3. d = <<d[1], d[2]>>
    BY <2>2
  <2> QED
    BY <2>1, <2>3
<1>5. BurstInv
  BY <1>1, <1>3, <1>4 DEF BurstInv
<1>6. LoopInv
  BY Durations DEF LoopInv
<1>7. WalkInv /\ RangeInv
  BY DEF WalkInv, RangeInv, Walked
<1>8. SeenInv
  BY DEF SeenInv
<1> QED
  BY <1>5, <1>6, <1>7, <1>8 DEF IInv

\* update_burst sets the window before any file is looked at.
LEMMA UpdateBurstInv ==
  ASSUME IInv, UpdateBurst, UNCHANGED <<sl, seen>>
  PROVE  IInv'
<1> USE DEF UpdateBurst
<1>1. Sweep \in Int /\ Sweep' = Sweep
  BY Window DEF IInv, Sweep, Delay, LowEnd, HighEnd, Edge
<1>2. BurstInv'
  <2>1. update \in BOOLEAN /\ mjd \in Int /\ bt \in Int /\ width \in Int
    BY DEF IInv, BurstInv
  <2>2. width' \in Int /\ bt' \in Int /\ update' = update /\ (update => width' = Sweep)
    BY <1>1, <2>1
  <2> QED
    BY <1>1, <2>1, <2>2 DEF IInv, BurstInv
<1>3. LoopInv'
  BY DEF IInv, LoopInv, walkVars
<1>4. WalkInv' /\ RangeInv'
  BY DEF IInv, LoopInv, WalkInv, RangeInv, Walked
<1>5. SeenInv'
  BY DEF IInv, SeenInv
<1> QED
  BY <1>2, <1>3, <1>4, <1>5 DEF IInv

\* The last record of a run of records ends last.
LEMMA EndsBy ==
  ASSUME NEW f \in 1..NFile, t_start[f] \in Int, NEW h \in Int, NEW n \in Int,
         NEW q \in 0..(RecPerSlice - 1), h <= n * RecPerSlice + q
  PROVE  RecTime(f, h) + Integ <= t_start[f] + n * slice_interval + (q * Integ + Integ)
<1> DEFINE last == n * RecPerSlice + q
           begins == t_start[f] + n * slice_interval + q * Integ
<1>1. last \in Int /\ begins \in Int /\ Integ \in Nat
  BY Durations
<1>2. RecTime(f, last) = begins
  BY RecTimeAt
<1>3. begins + Integ = t_start[f] + n * slice_interval + (q * Integ + Integ)
  BY Durations
<1>4. h <= last
  OBVIOUS
<1> HIDE DEF last, begins
<1>5. h < last => RecTime(f, h) + Integ <= begins
  BY <1>1, <1>2, RecTimeGrows
<1>6. RecTime(f, h) + Integ <= begins + Integ
  <2>1. RecTime(f, h) \in Int
    BY RecTimeType
  <2> QED
    BY <1>1, <1>2, <1>4, <1>5, <2>1
<1> QED
  BY <1>3, <1>6

\* What Locate promises of the record (slice, rec) it finds in file f for a
\* window that begins at t: every record before it ends by t, and the clock is
\* started at its time, except at the exact end of a slice, when the record is
\* the first of the file's next slice.
Located(f, t, slice, rec) ==
  LET g == slice * RecPerSlice + rec
  IN  /\ g \in Nat
      /\ rec = g % RecPerSlice \/ rec >= RecPerSlice
      /\ t_start[f] + slice * slice_interval + rec * Integ <= RecTime(f, g)
      /\ \A h \in Nat : h < g => RecTime(f, h) + Integ <= t

\* The window begins in the time of other files: the next slice is taken.
LEMMA LocatedNext ==
  ASSUME NEW f \in 1..NFile, t_start[f] \in Int, NEW t \in Int, NEW s \in Nat,
         t - (t_start[f] + s * slice_interval) > t_slice
  PROVE  Located(f, t, s + 1, 0)
<1>1. /\ s * RecPerSlice \in Nat /\ s * slice_interval \in Int
      /\ (s + 1) * RecPerSlice + 0 = s * RecPerSlice + (RecPerSlice - 1) + 1
  BY Durations, TimesType
<1>2. 0 \in 0..(RecPerSlice - 1) /\ RecPerSlice - 1 \in 0..(RecPerSlice - 1) /\ s + 1 \in Int
  BY Durations
<1>3. (s + 1) * RecPerSlice + 0 \in Nat
  BY <1>1, Durations
<1>4. /\ RecTime(f, (s + 1) * RecPerSlice + 0)
           = t_start[f] + (s + 1) * slice_interval + 0 * Integ
      /\ ((s + 1) * RecPerSlice + 0) % RecPerSlice = 0
  BY <1>2, Durations, RecTimeAt, Divide
<1>5. RecTime(f, (s + 1) * RecPerSlice + 0) \in Int
  BY <1>3, RecTimeType
<1>6. ASSUME NEW h \in Nat, h < (s + 1) * RecPerSlice + 0
      PROVE  RecTime(f, h) + Integ <= t
  <2>1. h <= s * RecPerSlice + (RecPerSlice - 1)
    BY <1>1, <1>6, Durations
  <2>2. RecTime(f, h) + Integ
          <= t_start[f] + s * slice_interval + ((RecPerSlice - 1) * Integ + Integ)
    BY <1>2, <2>1, EndsBy
  <2>3. RecTime(f, h) \in Int
    BY RecTimeType
  <2> QED
    BY <1>1, <2>2, <2>3, Durations
<1> QED
  BY <1>3, <1>4, <1>5, <1>6 DEF Located

\* The window begins before the file, or in the first record of a slice.
LEMMA LocatedStart ==
  ASSUME NEW f \in 1..NFile, t_start[f] \in Int, NEW t \in Int, NEW s \in Nat,
         s = 0 \/ t - (t_start[f] + s * slice_interval) >= 0
  PROVE  Located(f, t, s, 0)
<1>1. s * RecPerSlice + 0 \in Nat /\ 0 \in 0..(RecPerSlice - 1)
  BY Durations, TimesType
<1>2. /\ RecTime(f, s * RecPerSlice + 0) = t_start[f] + s * slice_interval + 0 * Integ
      /\ (s * RecPerSlice + 0) % RecPerSlice = 0
  <2>1. s \in Int
    OBVIOUS
  <2>2. RecTime(f, s * RecPerSlice + 0) = t_start[f] + s * slice_interval + 0 * Integ
    BY <1>1, <2>1, RecTimeAt
  <2>3. (s * RecPerSlice + 0) % RecPerSlice = 0
    BY <1>1, <2>1, Durations, Divide
  <2> QED
    BY <2>2, <2>3
<1>3. RecTime(f, s * RecPerSlice + 0) \in Int
  BY <1>1, RecTimeType
<1>4. ASSUME NEW h \in Nat, h < s * RecPerSlice + 0
      PROVE  RecTime(f, h) + Integ <= t
  <2>1. s # 0
    BY <1>4, Durations
  <2>2. /\ s - 1 \in Int /\ RecPerSlice - 1 \in 0..(RecPerSlice - 1)
        /\ (s - 1) * RecPerSlice = s * RecPerSlice - RecPerSlice
        /\ (s - 1) * slice_interval = s * slice_interval - slice_interval
        /\ s * slice_interval \in Int
    BY Durations
  <2>3. h <= (s - 1) * RecPerSlice + (RecPerSlice - 1)
    BY <1>1, <1>4, <2>2, Durations
  <2>4. RecTime(f, h) + Integ
          <= t_start[f] + (s - 1) * slice_interval + ((RecPerSlice - 1) * Integ + Integ)
    BY <2>2, <2>3, EndsBy
  <2>5. RecTime(f, h) \in Int
    BY RecTimeType
  <2> QED
    BY <2>1, <2>2, <2>4, <2>5, Durations
<1> QED
  BY <1>1, <1>2, <1>3, <1>4 DEF Located

\* The window begins in, or at the end of, a record of the slice.
LEMMA LocatedInside ==
  ASSUME NEW f \in 1..NFile, t_start[f] \in Int, NEW t \in Int, NEW s \in Nat,
         NEW into \in Int, into = t - (t_start[f] + s * slice_interval),
         into <= t_slice, NEW rec \in Nat, rec > 0, rec * Integ <= into
  PROVE  Located(f, t, s, rec)
<1>1. s * RecPerSlice + rec \in Nat /\ s * slice_interval \in Int /\ rec * Integ \in Int
  BY Durations, TimesType
<1>2. rec <= RecPerSlice
  <2>1. ASSUME rec >= RecPerSlice + 1 PROVE FALSE
    <3>1. /\ (RecPerSlice + 1) * Integ <= rec * Integ
          /\ (RecPerSlice + 1) * Integ = RecPerSlice * Integ + Integ
          /\ RecPerSlice * Integ \in Int
      BY <2>1, Durations, TimesUp
    <3> QED
      BY <1>1, <3>1, Durations DEF t_slice
  <2> QED
    BY <2>1, Durations
<1>3. ASSUME NEW h \in Nat, h < s * RecPerSlice + rec
      PROVE  RecTime(f, h) + Integ <= t
  <2>1. h <= s * RecPerSlice + (rec - 1) /\ rec - 1 \in 0..(RecPerSlice - 1)
    BY <1>1, <1>2, <1>3, Durations
  <2>2. RecTime(f, h) + Integ
          <= t_start[f] + s * slice_interval + ((rec - 1) * Integ + Integ)
    BY <2>1, EndsBy
  <2>3. (rec - 1) * Integ = rec * Integ - Integ
    BY Durations
  <2>4. RecTime(f, h) \in Int
    BY RecTimeType
  <2> QED
    BY <1>1, <2>2, <2>3, <2>4, Durations
<1>4. RecTime(f, s * RecPerSlice + rec) \in Int
  BY <1>1, RecTimeType
<1>5. CASE rec < RecPerSlice
  <2>1. rec \in 0..(RecPerSlice - 1)
    BY <1>5, Durations
  <2>2. /\ RecTime(f, s * RecPerSlice + rec) = t_start[f] + s * slice_interval + rec * Integ
        /\ (s * RecPerSlice + rec) % RecPerSlice = rec
    <3>1. s \in Int
      OBVIOUS
    <3>2. RecTime(f, s * RecPerSlice + rec) = t_start[f] + s * slice_interval + rec * Integ
      BY <2>1, <3>1, RecTimeAt
    <3>3. (s * RecPerSlice + rec) % RecPerSlice = rec
      BY <2>1, <3>1, Durations, Divide
    <3> QED
      BY <3>2, <3>3
  <2> QED
    BY <1>1, <1>3, <1>4, <2>2 DEF Located
<1>6. CASE rec = RecPerSlice
  <2>1. /\ (s + 1) * RecPerSlice + 0 = s * RecPerSlice + rec
        /\ (s + 1) * slice_interval = s * slice_interval + slice_interval
        /\ s + 1 \in Int /\ 0 \in 0..(RecPerSlice - 1)
    BY <1>6, Durations
  <2>2. RecTime(f, (s + 1) * RecPerSlice + 0)
          = t_start[f] + (s + 1) * slice_interval + 0 * Integ
    BY <2>1, RecTimeAt
  <2>3. rec * Integ = t_slice
    BY <1>6 DEF t_slice
  <2>4. t_start[f] + s * slice_interval + rec * Integ <= RecTime(f, s * RecPerSlice + rec)
    BY <1>1, <2>1, <2>2, <2>3, Durations
  <2> QED
    BY <1>1, <1>3, <1>6, <2>4, Durations DEF Located
<1> QED
  BY <1>2, <1>5, <1>6, Durations

\* The quotient of Locate, when it is not negative, is the slice the window
\* begins in or the one before a gap it begins in.
LEMMA LocateFinds ==
  ASSUME BurstInv, LoopInv, Locate
  PROVE  \E slice, rec \in Nat :
           /\ first' = slice * RecPerSlice + rec /\ rec_num' = rec
           /\ t_rec' = t_start[i] + slice * slice_interval + rec * Integ
           /\ Located(i, t_burst, slice, rec)
<1>1. i \in 1..NFile /\ t_start[i] \in Int /\ t_burst \in Int
  BY BurstTypes, Window, Durations DEF Locate, LoopInv
<1> DEFINE x == t_burst - t_start[i]
           s == Clamp(x \div slice_interval)
           into == t_burst - (t_start[i] + s * slice_interval)
           slice == IF into > t_slice THEN s + 1 ELSE s
           rec == IF into > t_slice THEN 0 ELSE Clamp(into \div Integ)
<1>2. /\ first' = slice * RecPerSlice + rec /\ rec_num' = rec
      /\ t_rec' = t_start[i] + slice * slice_interval + rec * Integ
  BY DEF Locate
<1>3. /\ x \div slice_interval \in Int
      /\ x = (x \div slice_interval) * slice_interval + (x % slice_interval)
      /\ x % slice_interval \in 0..(slice_interval - 1)
  <2>1. x \in Int
    BY <1>1
  <2> HIDE DEF x
  <2> QED
    BY <2>1, Durations, Split
<1>4. s \in Nat /\ (s = 0 \/ s = x \div slice_interval)
  <2> HIDE DEF x
  <2> QED
    BY <1>3 DEF Clamp
<1>5. s * slice_interval \in Int
  <2> HIDE DEF s
  <2> QED
    BY <1>4, Durations
<1>6. into \in Int /\ into = x - s * slice_interval
  <2> HIDE DEF s
  <2> QED
    BY <1>1, <1>5
<1>7. s = 0 \/ into >= 0
  <2>1. ASSUME s = x \div slice_interval PROVE x = s * slice_interval + (x % slice_interval)
    <3> HIDE DEF x, s, into
    <3> QED
      BY <1>3, <2>1
  <2> HIDE DEF x, s, into
  <2> QED
    BY <1>3, <1>4, <1>5, <1>6, <2>1, Durations
<1>8. CASE into > t_slice
  <2>1. slice = s + 1 /\ rec = 0
    BY <1>8
  <2>2. Located(i, t_burst, s + 1, 0) /\ s + 1 \in Nat /\ 0 \in Nat
    <3> HIDE DEF s
    <3> QED
      BY <1>1, <1>4, <1>8, LocatedNext
  <2> HIDE DEF s, slice, rec, into
  <2> QED
    BY <1>2, <2>1, <2>2
<1>9. CASE ~(into > t_slice)
  <2>1. slice = s /\ rec = Clamp(into \div Integ)
    BY <1>9
  <2>2. /\ into \div Integ \in Int /\ into = (into \div Integ) * Integ + (into % Integ)
        /\ into % Integ \in 0..(Integ - 1)
    <3> HIDE DEF into
    <3> QED
      BY <1>6, Durations, Split
  <2>3. rec = 0 \/ (rec = into \div Integ /\ rec > 0 /\ rec \in Nat)
    <3> HIDE DEF s, slice, rec, into
    <3> QED
      BY <2>1, <2>2 DEF Clamp
  <2>4. CASE rec = 0
    <3>1. Located(i, t_burst, s, 0)
      <4> HIDE DEF s
      <4> QED
        BY <1>1, <1>4, <1>7, LocatedStart
    <3> HIDE DEF s, slice, rec, into
    <3> QED
      BY <1>2, <1>4, <2>1, <2>4, <3>1
  <2>5. CASE rec = into \div Integ /\ rec > 0 /\ rec \in Nat
    <3>1. rec * Integ <= into
      <4> HIDE DEF s, slice, rec, into
      <4>1. into = rec * Integ + (into % Integ) /\ rec * Integ \in Int
        BY <2>2, <2>5, Durations
      <4> QED
        BY <1>6, <2>2, <4>1
    <3>2. into = t_burst - (t_start[i] + s * slice_interval) /\ into <= t_slice
      <4>1. into = t_burst - (t_start[i] + s * slice_interval)
        OBVIOUS
      <4> HIDE DEF s, slice, rec, into
      <4> QED
        BY <1>6, <1>9, <4>1, Durations
    <3> HIDE DEF s, slice, rec, into
    <3>3. Located(i, t_burst, s, rec)
      BY <1>1, <1>4, <1>6, <2>5, <3>1, <3>2, LocatedInside
    <3> QED
      BY <1>2, <1>4, <2>1, <2>5, <3>3
  <2> QED
    BY <2>3, <2>4, <2>5
<1> QED
  BY <1>8, <1>9

\* The walk starts on the record found.
LEMMA LocateInv ==
  ASSUME IInv, Locate, UNCHANGED <<sl, seen>>
  PROVE  IInv'
<1>1. /\ pc = "locate" /\ pc' = "walk" /\ r' = 0 /\ i' = i
      /\ start_rec' = start_rec /\ n_rec' = n_rec /\ sl' = sl /\ seen' = seen
      /\ UNCHANGED burstVars
  BY DEF Locate
<1>2. BurstInv /\ LoopInv /\ RangeInv /\ SeenInv
  BY DEF IInv
<1>3. /\ BurstInv' /\ t_burst' = t_burst /\ t_end' = t_end
      /\ \A f, g : RecTime(f, g)' = RecTime(f, g)
      /\ \A f, g : Imaged(RecTime(f, g))' = Imaged(RecTime(f, g))
  BY <1>1, <1>2, SameWindow
<1>4. PICK slice, rec \in Nat :
        /\ first' = slice * RecPerSlice + rec /\ rec_num' = rec
        /\ t_rec' = t_start[i] + slice * slice_interval + rec * Integ
        /\ Located(i, t_burst, slice, rec)
  BY <1>2, LocateFinds
<1>5. /\ first' \in Nat /\ rec_num' \in Nat
      /\ rec_num' = first' % RecPerSlice \/ rec_num' >= RecPerSlice
      /\ t_rec' <= RecTime(i, first')
      /\ \A h \in Nat : h < first' => RecTime(i, h) + Integ <= t_burst
  BY <1>4 DEF Located
<1>6. t_rec' \in Int
  <2>1. t_start[i] \in Int
    BY <1>1, <1>2, BurstTypes, Durations DEF LoopInv
  <2> QED
    BY <1>4, <2>1, Durations
<1>7. LoopInv'
  BY <1>1, <1>2, <1>5, <1>6 DEF LoopInv
<1>8. WalkInv'
  <2>1. first' + r' = first'
    <3>1. r' = 0 /\ first' \in Nat
      BY <1>1, <1>5, Zenon
    <3>2. \A n \in Nat : n + 0 = n
      OBVIOUS
    <3> QED
      BY <3>1, <3>2, Zenon
  <2> QED
    BY <1>1, <1>3, <1>5, <2>1 DEF WalkInv, AllBefore
<1>9. RangeInv'
  BY <1>1, <1>2, <1>3 DEF RangeInv, Walked, AllBefore, AllAfter
<1>10. SeenInv'
  BY <1>1, <1>2, <1>3 DEF SeenInv
<1> QED
  BY <1>3, <1>7, <1>8, <1>9, <1>10 DEF IInv

\* A step of the walk goes to the next record; the clock goes as far as it or,
\* from a slice's last record or with the counter past the test, less.
LEMMA WalkStepInv ==
  ASSUME IInv, Walk, UNCHANGED <<sl, seen>>
  PROVE  IInv'
<1>1. /\ pc = "walk" /\ pc' = "walk" /\ r' = r + 1 /\ i' = i /\ first' = first
      /\ start_rec' = start_rec /\ n_rec' = n_rec /\ sl' = sl /\ seen' = seen
      /\ UNCHANGED burstVars
  BY DEF Walk
<1>2. IF rec_num = RecPerSlice - 1
        THEN t_rec' = t_rec + Jump /\ rec_num' = 0
        ELSE t_rec' = t_rec + Integ /\ rec_num' = rec_num + 1
  BY DEF Walk
<1>3. BurstInv /\ LoopInv /\ WalkInv /\ RangeInv /\ SeenInv
  BY DEF IInv
<1>4. /\ BurstInv' /\ t_burst' = t_burst /\ t_end' = t_end
      /\ \A f, g : RecTime(f, g)' = RecTime(f, g)
      /\ \A f, g : Imaged(RecTime(f, g))' = Imaged(RecTime(f, g))
  BY <1>1, <1>3, SameWindow
<1>5. /\ i \in 1..NFile /\ t_start[i] \in Int /\ t_rec \in Int /\ first \in Nat /\ r \in Nat
      /\ rec_num \in Nat
  BY <1>1, <1>3, BurstTypes, Durations DEF LoopInv
<1>6. /\ rec_num = (first + r) % RecPerSlice \/ rec_num >= RecPerSlice
      /\ t_rec <= RecTime(i, first + r)
      /\ AllBefore(i, first)
  BY <1>1, <1>3 DEF WalkInv
<1> DEFINE g == first + r
<1>7. g \in Nat /\ first + (r + 1) = g + 1
  BY <1>5
<1>8. t_rec' \in Int /\ rec_num' \in Nat
  BY <1>2, <1>5, Durations
<1>9. LoopInv'
  BY <1>1, <1>3, <1>8 DEF LoopInv
<1>10. /\ rec_num' = (g + 1) % RecPerSlice \/ rec_num' >= RecPerSlice
       /\ t_rec' <= RecTime(i, g + 1)
  <2>1. /\ rec_num = g % RecPerSlice \/ rec_num >= RecPerSlice
        /\ t_rec <= RecTime(i, g)
    BY <1>6
  <2> HIDE DEF g
  <2>2. /\ g % RecPerSlice = RecPerSlice - 1 =>
             /\ RecTime(i, g + 1) = RecTime(i, g) + Jump + Integ
             /\ (g + 1) % RecPerSlice = 0
        /\ g % RecPerSlice # RecPerSlice - 1 =>
             /\ RecTime(i, g + 1) = RecTime(i, g) + Integ
             /\ (g + 1) % RecPerSlice = (g % RecPerSlice) + 1
    BY <1>5, <1>7, RecTimeNext
  <2>3. RecTime(i, g) \in Int /\ RecTime(i, g + 1) \in Int
    BY <1>5, <1>7, RecTimeType
  <2>4. CASE rec_num = RecPerSlice - 1
    <3>1. g % RecPerSlice = RecPerSlice - 1
      BY <2>1, <2>4, Durations
    <3> QED
      BY <1>2, <1>5, <2>1, <2>2, <2>3, <2>4, <3>1, Durations
  <2>5. CASE rec_num # RecPerSlice - 1
    <3>1. t_rec' = t_rec + Integ /\ rec_num' = rec_num + 1
      BY <1>2, <2>5
    <3>2. RecTime(i, g) + Integ <= RecTime(i, g + 1)
      BY <2>2, <2>3, Durations
    <3>3. rec_num < RecPerSlice => rec_num' = (g + 1) % RecPerSlice
      BY <1>5, <2>1, <2>2, <2>5, <3>1, Durations
    <3>4. rec_num >= RecPerSlice => rec_num' >= RecPerSlice
      BY <1>5, <3>1, Durations
    <3> QED
      BY <1>5, <2>1, <2>3, <3>1, <3>2, <3>3, <3>4, Durations
  <2> QED
    BY <2>4, <2>5
<1>11. WalkInv'
  <2>1. first' + r' = g + 1
    BY <1>1, <1>7
  <2> HIDE DEF g
  <2> QED
    BY <1>1, <1>4, <1>6, <1>10, <2>1 DEF WalkInv, AllBefore
<1>12. RangeInv'
  BY <1>1, <1>3, <1>4 DEF RangeInv, Walked, AllBefore, AllAfter
<1>13. SeenInv'
  BY <1>1, <1>3, <1>4 DEF SeenInv
<1> QED
  BY <1>4, <1>9, <1>11, <1>12, <1>13 DEF IInv

\* The walk ends past the window, and so does every record it did not take.
LEMMA StoreInv ==
  ASSUME IInv, Store, UNCHANGED <<sl, seen>>
  PROVE  IInv'
<1>1. /\ pc = "walk" /\ ~InWindow
      /\ start_rec' = [start_rec EXCEPT ![i] = first]
      /\ n_rec' = [n_rec EXCEPT ![i] = r]
      /\ i' = IF i = NFile THEN 1 ELSE i + 1
      /\ pc' = IF i = NFile THEN "image" ELSE "locate"
      /\ UNCHANGED burstVars /\ UNCHANGED walkVars /\ sl' = sl /\ seen' = seen
  BY DEF Store
<1>2. BurstInv /\ LoopInv /\ WalkInv /\ RangeInv /\ SeenInv
  BY DEF IInv
<1>3. /\ BurstInv' /\ t_burst' = t_burst /\ t_end' = t_end
      /\ \A f, g : RecTime(f, g)' = RecTime(f, g)
      /\ \A f, g : Imaged(RecTime(f, g))' = Imaged(RecTime(f, g))
  BY <1>1, <1>2, SameWindow
<1>4. /\ i \in 1..NFile /\ t_start[i] \in Int /\ t_rec \in Int /\ first \in Nat /\ r \in Nat
      /\ start_rec \in [1..NFile -> Nat] /\ n_rec \in [1..NFile -> Nat]
  BY <1>1, <1>2, BurstTypes, Durations, SMTT(30) DEF LoopInv
<1>5. AllBefore(i, first) /\ t_rec <= RecTime(i, first + r)
  BY <1>1, <1>2 DEF WalkInv
<1>6. AllAfter(i, first + r)
  <2> SUFFICES ASSUME NEW h \in Nat, h >= first + r PROVE RecTime(i, h) > t_end
    BY DEF AllAfter
  <2>1. t_rec > t_end /\ t_end \in Int
    BY <1>1, <1>2, <1>4, Window DEF InWindow
  <2>2. first + r \in Nat /\ RecTime(i, h) \in Int /\ RecTime(i, first + r) \in Int
    BY <1>4, RecTimeType
  <2>3. first + r < h => RecTime(i, first + r) + Integ <= RecTime(i, h)
    <3> DEFINE g == first + r
    <3>1. g \in Int /\ h \in Int
      BY <2>2
    <3> HIDE DEF g
    <3>2. g < h => RecTime(i, g) + Integ <= RecTime(i, h)
      BY <1>4, <3>1, RecTimeGrows, Zenon
    <3> QED
      BY <3>2 DEF g
  <2>4. CASE h = first + r
    BY <1>4, <1>5, <2>1, <2>2, <2>4
  <2>5. CASE h > first + r
    BY <1>4, <1>5, <2>1, <2>2, <2>3, <2>5, Durations
  <2> QED
    BY <1>4, <2>4, <2>5
<1>7. LoopInv'
  BY <1>1, <1>2, <1>4, Durations DEF LoopInv, walkVars
<1>8. WalkInv'
  BY <1>1 DEF WalkInv
<1>9. RangeInv'
  <2>1. \A f \in Walked' : f \in 1..NFile /\ (f # i => f \in Walked)
    BY <1>1, <1>4, Durations DEF Walked
  <2> SUFFICES ASSUME NEW f \in Walked'
               PROVE  /\ AllBefore(f, start_rec[f])'
                      /\ AllAfter(f, start_rec[f] + n_rec[f])'
    BY DEF RangeInv
  <2>2. CASE f = i
    <3>1. start_rec'[f] = first /\ n_rec'[f] = r
      BY <1>1, <1>4, <2>2
    <3> QED
      BY <1>3, <1>5, <1>6, <2>2, <3>1 DEF AllBefore, AllAfter
  <2>3. CASE f # i
    <3>1. start_rec'[f] = start_rec[f] /\ n_rec'[f] = n_rec[f] /\ f \in Walked
      BY <1>1, <1>4, <2>1, <2>3
    <3>2. AllBefore(f, start_rec[f]) /\ AllAfter(f, start_rec[f] + n_rec[f])
      BY <1>2, <3>1 DEF RangeInv
    <3> QED
      BY <1>3, <3>1, <3>2 DEF AllBefore, AllAfter
  <2> QED
    BY <2>2, <2>3
<1>10. SeenInv'
  <2>1. /\ sl = -1 /\ seen = [c \in Channels |-> 0]
    BY <1>1, <1>2 DEF SeenInv
  <2>2. ASSUME pc' \in {"image", "done"}, NEW f \in 1..NFile, NEW g \in Nat
        PROVE  ~Passed(f, g)'
    <3>1. i' = 1 /\ sl' * RecPerSlice < 0
      BY <1>1, <2>1, <2>2, Durations
    <3>2. sl' * RecPerSlice \in Int
      BY <1>1, <2>1, Durations
    <3> QED
      BY <3>1, <3>2, Durations DEF Passed
  <2> QED
    BY <1>1, <2>1, <2>2 DEF SeenInv
<1> QED
  BY <1>3, <1>7, <1>8, <1>9, <1>10 DEF IInv

-----------------------------------------------------------------------------
(* The channels of a record *)

\* The burst crosses the far edge of channel c in the record that starts at t,
\* the pulse's width included.
Crossed(c, t) ==
  LET n1 == Fn(t - halfwd)
      n2 == Fn(t + Integ + halfwd)
  IN  IF Upper THEN AtMost(Edge(c + 1), n1) /\ ~AtMost(Edge(c + 1), n2)
               ELSE ~AtLeast(Edge(c + 1), n1) /\ AtLeast(Edge(c + 1), n2)

\* Fn grows with time.
LEMMA FnGrows ==
  ASSUME BurstInv, NEW t \in Int, NEW u \in Int, t <= u
  PROVE  Fn(t) \in Int /\ Fn(u) \in Int /\ Fn(t) <= Fn(u)
<1>1. FB2 \in Nat /\ DispK \in Nat /\ bt \in Int
  BY BurstTypes DEF BurstInv
<1>2. t - bt \in Int /\ u - bt \in Int /\ t - bt <= u - bt
  BY <1>1
<1> DEFINE a == t - bt
           b == u - bt
<1>3. Fn(t) = DispK + a * FB2 /\ Fn(u) = DispK + b * FB2
  BY DEF Fn
<1>4. a \in Int /\ b \in Int /\ a <= b
  BY <1>2
<1> HIDE DEF a, b
<1>5. a * FB2 \in Int /\ b * FB2 \in Int /\ a * FB2 <= b * FB2
  BY <1>1, <1>4, TimesUp
<1> QED
  BY <1>1, <1>3, <1>5

\* The square of a frequency times a number grows with both.
LEMMA SquaresUp ==
  ASSUME NEW a \in Nat, NEW b \in Nat, NEW m \in Nat, NEW n \in Nat, a <= b, m <= n
  PROVE  /\ a * a * m \in Nat /\ b * b * n \in Nat
         /\ a * a * m <= b * b * m /\ b * b * m <= b * b * n
<1>1. a * a <= b * a /\ b * a <= b * b /\ a * a \in Nat /\ b * b \in Nat /\ a * b = b * a
  <2>1. a * a <= b * a /\ a * b <= b * b
    BY TimesUp
  <2> QED
    BY <2>1, TimesType
<1>2. b * a \in Nat
  BY TimesType
<1> DEFINE aa == a * a
           bb == b * b
<1>3. aa \in Nat /\ bb \in Nat /\ aa <= bb
  BY <1>1, <1>2
<1> HIDE DEF aa, bb
<1>4. aa * m <= bb * m /\ m * bb <= n * bb /\ aa * m \in Nat /\ bb * n \in Nat
  BY <1>3, TimesUp, TimesType
<1>5. m * bb = bb * m /\ n * bb = bb * n
  BY <1>3
<1> QED
  BY <1>4, <1>5 DEF aa, bb

\* A set of numbers from 0 up without gaps is known by its size.
LEMMA NoGaps ==
  ASSUME NEW N \in Nat, NEW P \in SUBSET (0..N),
         \A k \in P : \A j \in 0..N : j <= k => j \in P
  PROVE  /\ Cardinality(P) - 1 \in (-1)..N
         /\ \A k \in 0..N : k \in P <=> k <= Cardinality(P) - 1
<1>1. \A m \in -1..N : IsFiniteSet(0..m) /\ Cardinality(0..m) = m + 1
  <2> SUFFICES ASSUME NEW m \in -1..N PROVE IsFiniteSet(0..m) /\ Cardinality(0..m) = m + 1
    OBVIOUS
  <2>1. m \in Int /\ 0 \in Int
    OBVIOUS
  <2>2. IsFiniteSet(0..m) /\ Cardinality(0..m) = IF 0 > m THEN 0 ELSE m - 0 + 1
    BY <2>1, FS_Interval
  <2> QED
    BY <2>2
<1>2. IsFiniteSet(0..N) /\ Cardinality(0..N) = N + 1
  BY <1>1
<1>3. IsFiniteSet(P) /\ Cardinality(P) \in Nat /\ Cardinality(P) <= N + 1
  BY <1>2, FS_Subset, FS_CardinalityType
<1>4. ASSUME NEW k \in 0..N, k \in P PROVE k <= Cardinality(P) - 1
  <2>1. (0..k) \in SUBSET P
    BY <1>4
  <2>2. Cardinality(0..k) <= Cardinality(P)
    BY <1>3, <2>1, FS_Subset
  <2> QED
    BY <1>1, <1>3, <2>2
<1>5. ASSUME NEW k \in 0..N, k \notin P PROVE ~(k <= Cardinality(P) - 1)
  <2>1. P \in SUBSET (0..(k - 1))
    BY <1>5
  <2>2. IsFiniteSet(0..(k - 1)) /\ Cardinality(0..(k - 1)) = k
    BY <1>1
  <2>3. Cardinality(P) <= k
    BY <2>1, <2>2, FS_Subset
  <2> QED
    BY <1>3, <2>3
<1> QED
  BY <1>3, <1>4, <1>5

\* An edge's number is at most ChannelOf(n) exactly if the burst has reached it.
LEMMA ChannelOfIs ==
  ASSUME BurstInv, NEW n \in Nat
  PROVE  /\ ChannelOf(n) \in (-1)..NChan
         /\ \A c \in 0..NChan :
              c <= ChannelOf(n) <=> IF Upper THEN AtMost(Edge(c), n) ELSE AtLeast(Edge(c), n)
<1> DEFINE P == {c \in 0..NChan : IF Upper THEN AtMost(Edge(c), n) ELSE AtLeast(Edge(c), n)}
<1>1. NChan \in Nat /\ Upper \in BOOLEAN /\ DispK * FB2 \in Nat
  <2>1. DispK \in Nat /\ FB2 \in Nat
    BY BurstTypes
  <2> QED
    BY <2>1, BurstTypes, BandAssumption, TimesType
<1>2. ASSUME NEW k \in 0..NChan, NEW j \in 0..NChan, j < k
      PROVE  /\ Edge(k) * Edge(k) * n \in Nat /\ Edge(j) * Edge(j) * n \in Nat
             /\ IF Upper THEN Edge(j) * Edge(j) * n <= Edge(k) * Edge(k) * n
                         ELSE Edge(k) * Edge(k) * n <= Edge(j) * Edge(j) * n
  <2>1. Edge(j) \in Nat /\ Edge(k) \in Nat
    BY Edges
  <2>2. IF Upper THEN Edge(j) < Edge(k) ELSE Edge(k) < Edge(j)
    BY <1>2, Edges
  <2> QED
    BY <1>1, <2>1, <2>2, SquaresUp
<1>3. \A k \in P : \A j \in 0..NChan : j <= k => j \in P
  <2> SUFFICES ASSUME NEW k \in P, NEW j \in 0..NChan, j < k PROVE j \in P
    BY <1>1
  <2> QED
    BY <1>1, <1>2 DEF AtMost, AtLeast
<1>4. ChannelOf(n) = Cardinality(P) - 1
  BY DEF ChannelOf
<1>5. P \in SUBSET (0..NChan)
  OBVIOUS
<1>6. \A c \in 0..NChan :
        c \in P <=> IF Upper THEN AtMost(Edge(c), n) ELSE AtLeast(Edge(c), n)
  OBVIOUS
<1> HIDE DEF P
<1>7. /\ Cardinality(P) - 1 \in (-1)..NChan
      /\ \A c \in 0..NChan : c \in P <=> c <= Cardinality(P) - 1
  BY <1>1, <1>3, <1>5, NoGaps
<1> QED
  BY <1>4, <1>6, <1>7

\* The clamps cut a range of edges to the band.
LEMMA Clamped ==
  ASSUME NEW c0 \in (-1)..NChan, NEW c1 \in (-1)..NChan, c0 <= c1, NEW c
  PROVE  c \in InBand(c0, c1)[1]..(InBand(c0, c1)[2] - 1)
           <=> c \in Channels /\ c0 <= c /\ c + 1 <= c1
<1>1. NChan \in Nat
  BY BandAssumption
<1>2. CASE c1 < 0
  BY <1>1, <1>2 DEF InBand, Channels
<1>3. CASE ~(c1 < 0)
  <2>1. UpTo(c1) = c1
    BY <1>1 DEF UpTo
  <2>2. InBand(c0, c1) = <<IF c0 > 0 THEN c0 ELSE 0, c1>>
    BY <1>3, <2>1 DEF InBand
  <2> QED
    BY <1>1, <1>3, <2>2 DEF Channels
<1> QED
  BY <1>2, <1>3

\* Without dispersion, or before the burst has a frequency, a record has no
\* channels; otherwise its channels are those whose far edge is crossed in it.
LEMMA ImagedIff ==
  ASSUME BurstInv, NEW t \in Int, NEW c
  PROVE  c \in Imaged(t) <=>
           c \in Channels /\ DispK > 0 /\ Fn(t - halfwd) > 0 /\ Crossed(c, t)
<1> DEFINE n1 == Fn(t - halfwd)
           n2 == Fn(t + Integ + halfwd)
           C1 == ChannelOf(n1)
           C2 == ChannelOf(n2)
           o == IF DispK > 0 /\ n1 > 0 /\ n2 > 0 THEN Ordered(C1, C2) ELSE <<NChan, NChan>>
<1>1. /\ NChan \in Nat /\ Integ \in Nat /\ halfwd \in Nat /\ DispK \in Nat
      /\ Upper \in BOOLEAN
  BY BurstTypes, BandAssumption
<1>2. n1 \in Int /\ n2 \in Int /\ n1 <= n2
  <2>1. t - halfwd \in Int /\ t + Integ + halfwd \in Int /\ t - halfwd <= t + Integ + halfwd
    BY <1>1
  <2> QED
    BY <2>1, FnGrows
<1>3. Imaged(t) = InBand(o[1], o[2])[1]..(InBand(o[1], o[2])[2] - 1)
  BY DEF Imaged, BurstChans, FirstTime, LastTime
<1> HIDE DEF n1, n2
<1>4. CASE ~(DispK > 0 /\ n1 > 0)
  <2>1. o = <<NChan, NChan>>
    BY <1>4
  <2>2. NChan \in (-1)..NChan /\ NChan <= NChan
    BY <1>1
  <2>3. c \in Imaged(t) <=> c \in Channels /\ NChan <= c /\ c + 1 <= NChan
    BY <1>3, <2>1, <2>2, Clamped
  <2>4. c \notin Imaged(t)
    BY <1>1, <2>3 DEF Channels
  <2> QED
    BY <1>4, <2>4 DEF n1
<1>5. CASE DispK > 0 /\ n1 > 0
  <2>1. n1 \in Nat /\ n2 \in Nat /\ n2 > 0
    BY <1>2, <1>5
  <2>2. o = Ordered(C1, C2)
    BY <1>5, <2>1
  <2>3. /\ C1 \in (-1)..NChan /\ C2 \in (-1)..NChan
        /\ \A d \in 0..NChan :
             /\ d <= C1 <=> IF Upper THEN AtMost(Edge(d), n1) ELSE AtLeast(Edge(d), n1)
             /\ d <= C2 <=> IF Upper THEN AtMost(Edge(d), n2) ELSE AtLeast(Edge(d), n2)
    BY <2>1, ChannelOfIs
  <2>4. \A d \in 0..NChan : /\ AtMost(Edge(d), n2) => AtMost(Edge(d), n1)
                            /\ AtLeast(Edge(d), n1) => AtLeast(Edge(d), n2)
    <3> SUFFICES ASSUME NEW d \in 0..NChan
                 PROVE  /\ AtMost(Edge(d), n2) => AtMost(Edge(d), n1)
                        /\ AtLeast(Edge(d), n1) => AtLeast(Edge(d), n2)
      OBVIOUS
    <3>1. Edge(d) \in Nat
      BY Edges
    <3>2. /\ Edge(d) * Edge(d) * n1 \in Nat /\ Edge(d) * Edge(d) * n2 \in Nat
          /\ Edge(d) * Edge(d) * n1 <= Edge(d) * Edge(d) * n2
      BY <1>2, <2>1, <3>1, SquaresUp
    <3>3. DispK * FB2 \in Int
      BY BurstTypes
    <3> QED
      BY <3>2, <3>3 DEF AtMost, AtLeast
  <2> HIDE DEF C1, C2, o
  <2>5. IF Upper THEN C2 <= C1 ELSE C1 <= C2
    <3>1. CASE Upper
      <4>1. C2 \in 0..NChan => C2 <= C1
        BY <2>3, <2>4, <3>1
      <4> QED
        BY <1>1, <2>3, <3>1, <4>1
    <3>2. CASE ~Upper
      <4>1. C1 \in 0..NChan => C1 <= C2
        BY <2>3, <2>4, <3>2
      <4> QED
        BY <1>1, <2>3, <3>2, <4>1
    <3> QED
      BY <3>1, <3>2
  <2>6. c \in Channels => c \in Int /\ c + 1 \in 0..NChan
    BY <1>1 DEF Channels
  <2>7. CASE Upper
    <3>1. o[1] = C2 /\ o[2] = C1
      BY <2>2, <2>3, <2>5, <2>7 DEF Ordered
    <3>2. c \in Imaged(t) <=> c \in Channels /\ C2 <= c /\ c + 1 <= C1
      BY <1>3, <2>3, <2>5, <2>7, <3>1, Clamped
    <3>3. c \in Channels => (C2 <= c <=> ~(c + 1 <= C2))
      BY <2>3, <2>6
    <3>4. c \in Channels => /\ c + 1 <= C1 <=> AtMost(Edge(c + 1), n1)
                            /\ c + 1 <= C2 <=> AtMost(Edge(c + 1), n2)
      BY <2>3, <2>6, <2>7
    <3> QED
      BY <1>5, <2>7, <3>2, <3>3, <3>4 DEF Crossed, n1, n2
  <2>8. CASE ~Upper
    <3>1. o[1] = C1 /\ o[2] = C2
      BY <2>2, <2>3, <2>5, <2>8 DEF Ordered
    <3>2. c \in Imaged(t) <=> c \in Channels /\ C1 <= c /\ c + 1 <= C2
      BY <1>3, <2>3, <2>5, <2>8, <3>1, Clamped
    <3>3. c \in Channels => (C1 <= c <=> ~(c + 1 <= C1))
      BY <2>3, <2>6
    <3>4. c \in Channels => /\ c + 1 <= C1 <=> AtLeast(Edge(c + 1), n1)
                            /\ c + 1 <= C2 <=> AtLeast(Edge(c + 1), n2)
      BY <2>3, <2>6, <2>8
    <3> QED
      BY <1>5, <2>8, <3>2, <3>3, <3>4 DEF Crossed, n1, n2
  <2> QED
    BY <2>7, <2>8
<1> QED
  BY <1>4, <1>5

\* Records that do not overlap share no channel when the pulse has no width.
LEMMA ApartInChannels ==
  ASSUME BurstInv, halfwd = 0, NEW t \in Int, NEW u \in Int, t + Integ <= u,
         NEW c, c \in Imaged(t), c \in Imaged(u)
  PROVE  FALSE
<1>1. Integ \in Nat /\ DispK \in Nat /\ FB2 \in Nat /\ Upper \in BOOLEAN /\ NChan \in Nat
  BY BurstTypes, BandAssumption
<1>2. /\ t - halfwd = t /\ t + Integ + halfwd = t + Integ
      /\ u - halfwd = u /\ u + Integ + halfwd = u + Integ
      /\ t + Integ \in Int /\ t <= t + Integ
  BY <1>1
<1>3. Fn(t) > 0 /\ c \in Channels /\ Crossed(c, t) /\ Crossed(c, u)
  BY <1>2, ImagedIff
<1>4. /\ Fn(t) \in Int /\ Fn(t + Integ) \in Int /\ Fn(u) \in Int
      /\ Fn(t) <= Fn(t + Integ) /\ Fn(t + Integ) <= Fn(u)
  BY <1>2, FnGrows
<1>5. Edge(c + 1) \in Nat
  <2>1. c + 1 \in 0..NChan
    BY <1>1, <1>3 DEF Channels
  <2> QED
    BY <2>1, Edges
<1> DEFINE f == Edge(c + 1)
<1>6. /\ f * f * Fn(t + Integ) \in Nat /\ f * f * Fn(u) \in Nat
      /\ f * f * Fn(t + Integ) <= f * f * Fn(u)
  <2>1. Fn(t + Integ) \in Nat /\ Fn(u) \in Nat
    BY <1>3, <1>4
  <2> QED
    BY <1>4, <1>5, <2>1, SquaresUp
<1>7. IF Upper THEN ~AtMost(f, Fn(t + Integ)) /\ AtMost(f, Fn(u))
               ELSE AtLeast(f, Fn(t + Integ)) /\ ~AtLeast(f, Fn(u))
  BY <1>2, <1>3 DEF Crossed
<1>8. DispK * FB2 \in Int
  BY <1>1
<1> HIDE DEF f
<1> QED
  BY <1>6, <1>7, <1>8 DEF AtMost, AtLeast

-----------------------------------------------------------------------------
(* Imaging the records *)

\* The files' starts, in slices from that of the first of them.
LEMMA Starts ==
  ASSUME BurstInv
  PROVE  \E k \in [1..NFile -> 0..(NFile - 1)], e \in 1..NFile :
           /\ \A n \in 0..(NFile - 1) : \E f \in 1..NFile : k[f] = n
           /\ \A f, h \in 1..NFile : k[f] = k[h] => f = h
           /\ \A f \in 1..NFile : t_start[f] = t_start[e] + k[f] * t_slice
<1>1. t_start \in Layouts
  BY DEF BurstInv
<1>2. PICK k \in [1..NFile -> 0..(NFile - 1)], e \in 1..NFile :
        /\ \A n \in 0..(NFile - 1) : \E f \in 1..NFile : k[f] = n
        /\ \A f, h \in 1..NFile : k[f] = k[h] => f = h
        /\ t_start = [f \in 1..NFile |-> t_start[e] + k[f] * t_slice]
  BY <1>1, LayoutAssumption, Zenon
<1>3. \A f \in 1..NFile : t_start[f] = t_start[e] + k[f] * t_slice
  BY <1>2, Zenon
<1> QED
  BY <1>2, <1>3, Zenon

\* Slices of the observation: slice s of the file that is k-th is the one
\* numbered s * NFile + k.
LEMMA Place ==
  ASSUME NEW f \in 1..NFile, NEW s \in Int, NEW q \in Int, NEW k \in Int, NEW base \in Int
  PROVE  base + k * t_slice + s * slice_interval + q * Integ
           = base + (s * NFile + k) * t_slice + q * Integ
<1>1. t_slice \in Int /\ NFile \in Int /\ Integ \in Int
  BY Durations
<1>2. s * (NFile * t_slice) = (s * NFile) * t_slice
  BY <1>1
<1>3. (s * NFile + k) * t_slice = (s * NFile) * t_slice + k * t_slice
  BY <1>1
<1> QED
  BY <1>1, <1>2, <1>3 DEF slice_interval

\* A record in an earlier slice of the observation ends before one in a later.
LEMMA EarlierSlice ==
  ASSUME NEW base \in Int, NEW m \in Int, NEW n \in Int, m < n,
         NEW p \in 0..(RecPerSlice - 1), NEW q \in 0..(RecPerSlice - 1)
  PROVE  base + m * t_slice + p * Integ + Integ <= base + n * t_slice + q * Integ
<1>1. (m + 1) * t_slice <= n * t_slice /\ (m + 1) * t_slice = m * t_slice + t_slice
  BY Durations, TimesUp
<1>2. p * Integ <= (RecPerSlice - 1) * Integ /\ 0 * Integ <= q * Integ
  BY Durations, TimesUp
<1>3. /\ m * t_slice \in Int /\ n * t_slice \in Int /\ p * Integ \in Int /\ q * Integ \in Int
      /\ (RecPerSlice - 1) * Integ \in Int /\ 0 * Integ = 0
  BY Durations
<1> QED
  BY <1>1, <1>2, <1>3, Durations

\* Records of different files do not overlap.
LEMMA FilesApart ==
  ASSUME BurstInv, NEW f \in 1..NFile, NEW h \in 1..NFile, f # h,
         NEW g \in Nat, NEW j \in Nat
  PROVE  \/ RecTime(f, g) + Integ <= RecTime(h, j)
         \/ RecTime(h, j) + Integ <= RecTime(f, g)
<1>1. PICK k \in [1..NFile -> 0..(NFile - 1)], e \in 1..NFile :
        /\ \A a, b \in 1..NFile : k[a] = k[b] => a = b
        /\ \A a \in 1..NFile : t_start[a] = t_start[e] + k[a] * t_slice
  BY Starts, Zenon
<1> DEFINE base == t_start[e]
           sf == g \div RecPerSlice
           qf == g % RecPerSlice
           sh == j \div RecPerSlice
           qh == j % RecPerSlice
           mf == sf * NFile + k[f]
           mh == sh * NFile + k[h]
<1>2. /\ sf \in Int /\ qf \in 0..(RecPerSlice - 1)
      /\ sh \in Int /\ qh \in 0..(RecPerSlice - 1)
  <2>1. g \in Int /\ j \in Int /\ RecPerSlice \in Nat \ {0}
    BY Durations
  <2> QED
    BY <2>1, Split
<1>3. base \in Int
  BY BurstTypes
<1>4. /\ RecTime(f, g) = t_start[f] + sf * slice_interval + qf * Integ
      /\ RecTime(h, j) = t_start[h] + sh * slice_interval + qh * Integ
      /\ t_start[f] = base + k[f] * t_slice /\ t_start[h] = base + k[h] * t_slice
  BY <1>1 DEF RecTime
<1>5. /\ k[f] \in 0..(NFile - 1) /\ k[h] \in 0..(NFile - 1) /\ k[f] # k[h]
  BY <1>1
<1> HIDE DEF base, sf, qf, sh, qh
<1>6. /\ RecTime(f, g) = base + mf * t_slice + qf * Integ
      /\ RecTime(h, j) = base + mh * t_slice + qh * Integ
  <2>1. /\ qf \in Int /\ qh \in Int /\ k[f] \in Int /\ k[h] \in Int
    BY <1>2, <1>5, Durations
  <2>2. base + k[f] * t_slice + sf * slice_interval + qf * Integ
          = base + mf * t_slice + qf * Integ
    BY <1>2, <1>3, <2>1, Place
  <2>3. base + k[h] * t_slice + sh * slice_interval + qh * Integ
          = base + mh * t_slice + qh * Integ
    BY <1>2, <1>3, <2>1, Place
  <2> QED
    BY <1>4, <2>2, <2>3
<1>7. mf \in Int /\ mh \in Int
  BY <1>2, <1>5, Durations
<1>8. mf # mh
  <2>1. mf % NFile = k[f] /\ mh % NFile = k[h]
    BY <1>2, <1>5, Durations, Divide
  <2> QED
    BY <1>5, <2>1
<1> HIDE DEF mf, mh
<1>9. \/ mf < mh
      \/ mh < mf
  BY <1>7, <1>8
<1> QED
  BY <1>2, <1>3, <1>6, <1>7, <1>9, EarlierSlice

\* Without width, at most one record of the observation is on a channel.
LEMMA OneRecord ==
  ASSUME BurstInv, halfwd = 0, NEW f \in 1..NFile, NEW h \in 1..NFile,
         NEW g \in Nat, NEW j \in Nat, NEW c,
         c \in Imaged(RecTime(f, g)), c \in Imaged(RecTime(h, j))
  PROVE  f = h /\ g = j
<1>1. /\ t_start[f] \in Int /\ t_start[h] \in Int
      /\ RecTime(f, g) \in Int /\ RecTime(h, j) \in Int
  <2>1. t_start[f] \in Int /\ t_start[h] \in Int
    BY BurstTypes
  <2>2. g \in Int /\ j \in Int
    OBVIOUS
  <2> QED
    BY <2>1, <2>2, RecTimeType
<1>2. ~(RecTime(f, g) + Integ <= RecTime(h, j)) /\ ~(RecTime(h, j) + Integ <= RecTime(f, g))
  BY <1>1, ApartInChannels
<1>3. f = h
  BY <1>2, FilesApart
<1>4. g < j => RecTime(f, g) + Integ <= RecTime(f, j)
  BY <1>1, RecTimeGrows
<1>5. j < g => RecTime(f, j) + Integ <= RecTime(f, g)
  BY <1>1, RecTimeGrows
<1> QED
  BY <1>2, <1>3, <1>4, <1>5

\* What the slices from Slice0 to Slice1 leave out is not selected.
LEMMA SlicesHoldAll ==
  ASSUME NEW f \in 1..NFile, NEW g \in Nat, start_rec[f] \in Nat, n_rec[f] \in Nat,
         Selected(f, g)
  PROVE  /\ n_rec[f] # 0
         /\ ~(g < Slice0(f) * RecPerSlice)
         /\ g < Slice1(f) * RecPerSlice
         /\ Slice0(f) \in Nat /\ Slice1(f) \in Nat
<1>1. g >= start_rec[f] /\ g < start_rec[f] + n_rec[f]
  BY DEF Selected
<1>2. RecPerSlice \in Nat \ {0}
  BY Durations
<1> DEFINE a == start_rec[f]
           b == start_rec[f] + n_rec[f] + RecPerSlice - 1
<1>3. a \in Int /\ a >= 0 /\ b \in Int /\ b >= 0 /\ b >= g + RecPerSlice /\ a <= g
  BY <1>1, <1>2
<1>4. Slice0(f) = a \div RecPerSlice /\ Slice1(f) = b \div RecPerSlice
  BY DEF Slice0, Slice1
<1> HIDE DEF a, b
<1>5. /\ a \div RecPerSlice \in Int /\ a % RecPerSlice \in 0..(RecPerSlice - 1)
      /\ a = (a \div RecPerSlice) * RecPerSlice + (a % RecPerSlice)
      /\ a \div RecPerSlice >= 0
  BY <1>2, <1>3, Split
<1>6. /\ b \div RecPerSlice \in Int /\ b % RecPerSlice \in 0..(RecPerSlice - 1)
      /\ b = (b \div RecPerSlice) * RecPerSlice + (b % RecPerSlice)
      /\ b \div RecPerSlice >= 0
  BY <1>2, <1>3, Split
<1>7. Slice0(f) * RecPerSlice <= a /\ Slice1(f) * RecPerSlice >= b - (RecPerSlice - 1)
  BY <1>2, <1>4, <1>5, <1>6
<1>8. Slice0(f) * RecPerSlice \in Int /\ Slice1(f) * RecPerSlice \in Int
  BY <1>2, <1>4, <1>5, <1>6
<1> QED
  BY <1>1, <1>2, <1>3, <1>4, <1>5, <1>6, <1>7, <1>8

\* A file opened at the slice of its first selected record.
LEMMA OpenFileInv ==
  ASSUME IInv, OpenFile
  PROVE  IInv'
<1>1. /\ pc = "image" /\ sl = -1 /\ n_rec[i] > 0 /\ sl' = Slice0(i) /\ seen' = seen
      /\ pc' = pc /\ i' = i /\ start_rec' = start_rec /\ n_rec' = n_rec
      /\ UNCHANGED walkVars /\ UNCHANGED burstVars
  BY DEF OpenFile, selectVars
<1>2. BurstInv /\ LoopInv /\ RangeInv /\ SeenInv
  BY DEF IInv
<1>3. /\ BurstInv' /\ t_burst' = t_burst /\ t_end' = t_end
      /\ \A f, g : RecTime(f, g)' = RecTime(f, g)
      /\ \A f, g : Imaged(RecTime(f, g))' = Imaged(RecTime(f, g))
  BY <1>1, <1>2, SameWindow
<1>4. i \in 1..NFile /\ start_rec[i] \in Nat
  BY <1>1, <1>2, Durations DEF LoopInv
<1>5. sl' \in Nat
  <2> DEFINE a == start_rec[i]
  <2>1. sl' = a \div RecPerSlice /\ a \in Nat
    BY <1>1, <1>4 DEF Slice0
  <2> HIDE DEF a
  <2>2. a \div RecPerSlice \in Int /\ a \div RecPerSlice >= 0
    BY <2>1, Durations, Split
  <2> QED
    BY <2>1, <2>2
<1>6. LoopInv'
  BY <1>1, <1>2, <1>5 DEF LoopInv, walkVars
<1>7. WalkInv' /\ RangeInv'
  BY <1>1, <1>2, <1>3 DEF WalkInv, RangeInv, Walked, AllBefore, AllAfter
<1>8. SeenInv'
  <2>1. ASSUME NEW f \in 1..NFile, NEW g \in Nat, Passed(f, g)
        PROVE  Passed(f, g)'
    <3>1. ASSUME f = i PROVE FALSE
      <4>1. g < (-1) * RecPerSlice
        BY <1>1, <1>4, <2>1, <3>1 DEF Passed
      <4> QED
        BY <4>1, Durations
    <3> QED
      BY <1>1, <2>1, <3>1 DEF Passed
  <2>2. ASSUME NEW f \in 1..NFile, NEW g \in Nat, Passed(f, g)', Selected(f, g)'
        PROVE  Passed(f, g) /\ Selected(f, g)
    <3>1. Selected(f, g)
      BY <1>1, <2>2 DEF Selected
    <3>2. ASSUME f = i PROVE ~(g < sl' * RecPerSlice)
      <4>1. start_rec[f] \in Nat /\ n_rec[f] \in Nat
        BY <1>2 DEF LoopInv
      <4> QED
        BY <1>1, <3>1, <3>2, <4>1, SlicesHoldAll
    <3> QED
      BY <1>1, <1>4, <2>2, <3>1, <3>2 DEF Passed
  <2>3. pc' = "image" /\ halfwd' = halfwd
    BY <1>1 DEF burstVars
  <2> QED
    BY <1>1, <1>2, <1>3, <2>1, <2>2, <2>3 DEF SeenInv
<1> QED
  BY <1>3, <1>6, <1>7, <1>8 DEF IInv

\* The next file, when no selected record of this one is left.
LEMMA NextFileInv ==
  ASSUME IInv, NextFile
  PROVE  IInv'
<1>1. /\ pc = "image"
      /\ (sl = -1 /\ n_rec[i] = 0) \/ sl = Slice1(i)
      /\ sl' = -1 /\ i' = i + 1 /\ seen' = seen
      /\ pc' = IF i = NFile THEN "done" ELSE "image"
      /\ start_rec' = start_rec /\ n_rec' = n_rec
      /\ UNCHANGED walkVars /\ UNCHANGED burstVars
  BY DEF NextFile
<1>2. BurstInv /\ LoopInv /\ RangeInv /\ SeenInv /\ pc = "image"
  BY DEF IInv, NextFile
<1>3. /\ BurstInv' /\ t_burst' = t_burst /\ t_end' = t_end
      /\ \A f, g : RecTime(f, g)' = RecTime(f, g)
      /\ \A f, g : Imaged(RecTime(f, g))' = Imaged(RecTime(f, g))
  BY <1>1, <1>2, SameWindow
<1>4. i \in 1..NFile /\ start_rec[i] \in Nat /\ n_rec[i] \in Nat
  BY <1>2, Durations DEF LoopInv
<1>5. LoopInv'
  BY <1>1, <1>2, <1>4, Durations DEF LoopInv, walkVars
<1>6. WalkInv' /\ RangeInv'
  BY <1>1, <1>2, <1>3 DEF WalkInv, RangeInv, Walked, AllBefore, AllAfter
<1>7. SeenInv'
  <2>1. ASSUME NEW f \in 1..NFile, NEW g \in Nat, Passed(f, g)
        PROVE  Passed(f, g)'
    BY <1>1, <1>4, <2>1 DEF Passed
  <2>2. ASSUME NEW f \in 1..NFile, NEW g \in Nat, Passed(f, g)', Selected(f, g)'
        PROVE  Passed(f, g) /\ Selected(f, g)
    <3>1. Selected(f, g)
      BY <1>1, <2>2 DEF Selected
    <3>2. f < i \/ f = i
      <4>1. f < i + 1 \/ g < (-1) * RecPerSlice
        BY <1>1, <2>2 DEF Passed
      <4> QED
        BY <1>4, <4>1, Durations
    <3>3. ASSUME f = i PROVE g < sl * RecPerSlice
      <4>1. /\ n_rec[f] # 0 /\ g < Slice1(f) * RecPerSlice
        BY <1>4, <3>1, <3>3, SlicesHoldAll
      <4> QED
        BY <1>1, <3>3, <4>1
    <3> QED
      BY <3>1, <3>2, <3>3 DEF Passed
  <2>3. pc' \in {"image", "done"} /\ halfwd' = halfwd
    BY <1>1 DEF burstVars
  <2> QED
    BY <1>1, <1>2, <1>3, <2>1, <2>2, <2>3 DEF SeenInv
<1> QED
  BY <1>3, <1>5, <1>6, <1>7 DEF IInv

\* A slice imaged: its selected records go by, each counted on its channels.
LEMMA ImageSliceInv ==
  ASSUME IInv, ImageSlice
  PROVE  IInv'
<1> DEFINE inSlice == (sl * RecPerSlice)..(sl * RecPerSlice + RecPerSlice - 1)
           taken == {g \in inSlice : Selected(i, g)}
           On(c) == {g \in taken : c \in Imaged(RecTime(i, g))}
<1>1. /\ pc = "image" /\ sl >= 0 /\ sl' = sl + 1
      /\ seen' = [c \in Channels |-> seen[c] + Cardinality(On(c))]
      /\ pc' = pc /\ i' = i /\ start_rec' = start_rec /\ n_rec' = n_rec
      /\ UNCHANGED walkVars /\ UNCHANGED burstVars
  BY DEF ImageSlice, selectVars
<1>2. BurstInv /\ LoopInv /\ RangeInv /\ SeenInv
  BY DEF IInv
<1>3. /\ BurstInv' /\ t_burst' = t_burst /\ t_end' = t_end
      /\ \A f, g : RecTime(f, g)' = RecTime(f, g)
      /\ \A f, g : Imaged(RecTime(f, g))' = Imaged(RecTime(f, g))
  BY <1>1, <1>2, SameWindow
<1>4. /\ i \in 1..NFile /\ sl \in Nat /\ seen \in [Channels -> Nat] /\ halfwd \in Nat
  BY <1>1, <1>2, BurstTypes, Durations DEF LoopInv
<1>5. /\ sl * RecPerSlice \in Nat
      /\ (sl + 1) * RecPerSlice = sl * RecPerSlice + RecPerSlice
  BY <1>4, Durations, TimesType
<1>6. \A g \in inSlice : g \in Nat /\ ~(g < sl * RecPerSlice) /\ g < (sl + 1) * RecPerSlice
  BY <1>5, Durations
<1>7. \A g \in Nat : g < (sl + 1) * RecPerSlice /\ ~(g < sl * RecPerSlice) => g \in inSlice
  BY <1>5, Durations
<1>8. IsFiniteSet(inSlice)
  <2>1. sl * RecPerSlice \in Int /\ sl * RecPerSlice + RecPerSlice - 1 \in Int
    BY <1>5, Durations
  <2> QED
    BY <2>1, FS_Interval
<1> HIDE DEF inSlice
<1>9. \A c : /\ On(c) \in SUBSET Nat /\ IsFiniteSet(On(c)) /\ Cardinality(On(c)) \in Nat
             /\ Cardinality(On(c)) = 0 <=> On(c) = {}
  <2> SUFFICES ASSUME NEW c
               PROVE  /\ On(c) \in SUBSET Nat /\ IsFiniteSet(On(c))
                      /\ Cardinality(On(c)) \in Nat
                      /\ Cardinality(On(c)) = 0 <=> On(c) = {}
    OBVIOUS
  <2>1. On(c) \in SUBSET inSlice /\ On(c) \in SUBSET Nat
    BY <1>6
  <2>2. IsFiniteSet(On(c))
    BY <1>8, <2>1, FS_Subset
  <2> HIDE DEF On
  <2> QED
    BY <2>1, <2>2, FS_CardinalityType, FS_EmptySet
<1>10. \A c, g : g \in On(c) <=>
         g \in inSlice /\ Selected(i, g) /\ c \in Imaged(RecTime(i, g))
  OBVIOUS
<1> HIDE DEF On
<1>11. seen' \in [Channels -> Nat]
  BY <1>1, <1>4, <1>9
<1>12. LoopInv'
  BY <1>1, <1>2, <1>4, <1>11 DEF LoopInv, walkVars
<1>13. WalkInv' /\ RangeInv'
  BY <1>1, <1>2, <1>3 DEF WalkInv, RangeInv, Walked, AllBefore, AllAfter
<1>14. ASSUME NEW f \in 1..NFile, NEW g \in Nat
       PROVE  Passed(f, g)' <=> Passed(f, g) \/ (f = i /\ g \in inSlice)
  BY <1>1, <1>4, <1>5, <1>6, <1>7, <1>14, Durations DEF Passed
<1>15. ASSUME NEW c \in Channels
       PROVE  /\ halfwd' = 0 => seen'[c] \in {0, 1}
              /\ seen'[c] # 0 => \E f \in 1..NFile, g \in Nat :
                                   Passed(f, g)' /\ c \in Imaged(RecTime(f, g))'
              /\ \A f \in 1..NFile, g \in Nat :
                   Passed(f, g)' /\ Selected(f, g)' /\ c \in Imaged(RecTime(f, g))'
                     => seen'[c] # 0
  <2>1. /\ seen'[c] = seen[c] + Cardinality(On(c))
        /\ seen[c] \in Nat /\ Cardinality(On(c)) \in Nat /\ halfwd' = halfwd
    BY <1>1, <1>4, <1>9 DEF burstVars
  <2>2. /\ halfwd = 0 => seen[c] \in {0, 1}
        /\ seen[c] # 0 => \E f \in 1..NFile, g \in Nat :
                            Passed(f, g) /\ c \in Imaged(RecTime(f, g))
        /\ \A f \in 1..NFile, g \in Nat :
             Passed(f, g) /\ Selected(f, g) /\ c \in Imaged(RecTime(f, g)) => seen[c] # 0
    BY <1>1, <1>2 DEF SeenInv
  <2>3. ASSUME NEW g \in On(c)
        PROVE  /\ g \in Nat /\ g \in inSlice /\ c \in Imaged(RecTime(i, g))
               /\ ~Passed(i, g)
    <3>1. g \in Nat /\ g \in inSlice /\ c \in Imaged(RecTime(i, g))
      BY <1>6, <1>10
    <3>2. ~Passed(i, g)
      BY <1>4, <1>6, <3>1 DEF Passed
    <3> QED
      BY <3>1, <3>2
  <2>4. seen'[c] # 0 => \E f \in 1..NFile, g \in Nat :
                          Passed(f, g)' /\ c \in Imaged(RecTime(f, g))'
    <3>1. CASE On(c) # {}
      <4>1. PICK g \in On(c) : TRUE
        BY <3>1
      <4>2. PICK f \in 1..NFile : f = i
        BY <1>4
      <4>3. Passed(f, g)' /\ c \in Imaged(RecTime(f, g))
        BY <1>14, <2>3, <4>1, <4>2
      <4> QED
        BY <1>3, <2>3, <4>1, <4>3
    <3>2. CASE On(c) = {}
      <4>1. seen'[c] = seen[c]
        BY <1>9, <2>1, <3>2
      <4> QED
        BY <1>3, <1>14, <2>2, <4>1
    <3> QED
      BY <3>1, <3>2
  <2>5. ASSUME NEW f \in 1..NFile, NEW g \in Nat,
               Passed(f, g)', Selected(f, g)', c \in Imaged(RecTime(f, g))'
        PROVE  seen'[c] # 0
    <3>1. Selected(f, g) /\ c \in Imaged(RecTime(f, g))
      BY <1>1, <1>3, <2>5 DEF Selected
    <3>2. CASE Passed(f, g)
      BY <2>1, <2>2, <3>1, <3>2
    <3>3. CASE f = i /\ g \in inSlice
      <4>1. g \in On(c)
        BY <1>10, <3>1, <3>3
      <4>2. Cardinality(On(c)) # 0
        BY <1>9, <4>1
      <4> QED
        BY <2>1, <4>2
    <3> QED
      BY <1>14, <2>5, <3>2, <3>3
  <2>6. ASSUME halfwd = 0 PROVE seen'[c] \in {0, 1}
    <3>1. CASE On(c) = {}
      <4>1. seen'[c] = seen[c]
        BY <1>9, <2>1, <3>1
      <4> QED
        BY <2>2, <2>6, <4>1
    <3>2. CASE On(c) # {}
      <4>1. PICK g \in On(c) : TRUE
        BY <3>2
      <4>2. \A h \in On(c) : h = g
        BY <1>2, <1>4, <2>3, <2>6, OneRecord
      <4>3. On(c) = {g}
        BY <4>1, <4>2
      <4>4. Cardinality(On(c)) = 1
        BY <4>3, FS_Singleton
      <4>5. seen[c] = 0
        BY <1>2, <1>4, <2>2, <2>3, <2>6, OneRecord
      <4> QED
        BY <2>1, <4>4, <4>5
    <3> QED
      BY <3>1, <3>2
  <2> QED
    BY <2>1, <2>4, <2>5, <2>6
<1>16. SeenInv'
  BY <1>1, <1>15 DEF SeenInv
<1> QED
  BY <1>3, <1>12, <1>13, <1>16 DEF IInv

-----------------------------------------------------------------------------
(* The burst and the band *)

\* Fn, from the time the burst would be at infinite frequency.
LEMMA FnIs ==
  ASSUME BurstInv, NEW t \in Int
  PROVE  /\ t - bt + Delay(FB2) \in Int
         /\ Fn(t) = (t - bt + Delay(FB2)) * FB2
<1>1. FB2 \in Nat /\ DispK \in Nat /\ bt \in Int
  BY BurstTypes DEF BurstInv
<1>2. Delay(FB2) \in Nat /\ Delay(FB2) * FB2 = DispK
  BY Delays
<1> DEFINE a == t - bt
           d == Delay(FB2)
<1>3. Fn(t) = DispK + a * FB2
  BY DEF Fn
<1>4. a \in Int /\ d \in Int /\ d * FB2 = DispK
  BY <1>1, <1>2
<1>5. a + d \in Int
  BY <1>4
<1> HIDE DEF a, d
<1>6. (a + d) * FB2 = a * FB2 + d * FB2 /\ a * FB2 \in Int
  BY <1>1, <1>4
<1>7. Fn(t) = (a + d) * FB2
  BY <1>1, <1>3, <1>4, <1>6
<1> QED
  BY <1>5, <1>7 DEF a, d

\* The burst is at an end of the band when the delay there has passed.
LEMMA AtBandEnd ==
  ASSUME BurstInv, NEW e \in {LowEnd, HighEnd}, NEW t \in Int
  PROVE  /\ e \in Nat \ {0} /\ e * e * Fn(t) \in Int /\ DispK * FB2 \in Int
         /\ t - bt + Delay(FB2) <= Delay(e * e) => e * e * Fn(t) <= DispK * FB2
         /\ t - bt + Delay(FB2) > Delay(e * e) => e * e * Fn(t) > DispK * FB2
<1> DEFINE x == t - bt + Delay(FB2)
           d == Delay(e * e)
           ee == e * e
<1>1. FB2 \in Nat \ {0} /\ DispK \in Nat
  BY BurstTypes
<1>2. e \in Nat \ {0} /\ ee \in Nat \ {0} /\ d \in Nat /\ d * ee = DispK
  <2>1. 0 \in 0..NChan
    BY BandAssumption
  <2>2. e \in Nat \ {0}
    BY <2>1, Edges
  <2>3. e * e \in {FB2, LowEnd * LowEnd, HighEnd * HighEnd}
    OBVIOUS
  <2> QED
    BY <2>2, <2>3, Delays
<1>3. x \in Int /\ Fn(t) = x * FB2
  BY FnIs
<1>4. e * e * Fn(t) = ee * Fn(t)
  OBVIOUS
<1> HIDE DEF x, d, ee
<1>5. ee * Fn(t) = (x * ee) * FB2 /\ x * ee \in Int
  <2>1. ee * (x * FB2) = (x * ee) * FB2
    BY <1>1, <1>2, <1>3
  <2> QED
    BY <1>2, <1>3, <2>1
<1>6. x <= d => (x * ee) * FB2 <= (d * ee) * FB2
  <2>1. x <= d => x * ee <= d * ee
    BY <1>2, <1>3, TimesUp
  <2>2. d * ee \in Int
    BY <1>1, <1>2
  <2> QED
    BY <1>1, <1>5, <2>1, <2>2, TimesUp
<1>7. x > d => (x * ee) * FB2 > (d * ee) * FB2
  <2>1. ASSUME x > d PROVE x * ee >= d * ee + 1
    <3>1. (d + 1) * ee <= x * ee /\ (d + 1) * ee = d * ee + ee /\ d * ee \in Int
      BY <1>2, <1>3, <2>1, TimesUp
    <3> QED
      BY <1>2, <1>5, <3>1
  <2>2. d * ee \in Int /\ d * ee + 1 \in Int /\ (d * ee) * FB2 \in Int
    BY <1>1, <1>2
  <2>3. (d * ee + 1) * FB2 = (d * ee) * FB2 + FB2
    BY <1>1, <2>2
  <2>4. x > d => (d * ee + 1) * FB2 <= (x * ee) * FB2
    BY <1>1, <1>5, <2>1, <2>2, TimesUp
  <2>5. (x * ee) * FB2 \in Int
    BY <1>1, <1>5
  <2> QED
    BY <1>1, <2>2, <2>3, <2>4, <2>5
<1>8. ee * Fn(t) \in Int /\ DispK * FB2 \in Int
  BY <1>1, <1>5
<1> QED
  BY <1>2, <1>4, <1>5, <1>6, <1>7, <1>8 DEF x, d, ee

\* A record outside the window of update_burst has no channels: the burst has
\* not entered the band by its end, or has left it before its start.
LEMMA OutsideIsEmpty ==
  ASSUME BurstInv, update, pc # "update", NEW t \in Int,
         t + Integ <= t_burst \/ t > t_end,
         NEW c, c \in Imaged(t)
  PROVE  FALSE
<1> DEFINE f == Edge(c + 1)
           u == t - halfwd
           v == t + Integ + halfwd
           K == DispK * FB2
           DF == Delay(FB2)
           DH == Delay(HighEnd * HighEnd)
           DL == Delay(LowEnd * LowEnd)
<1>1. /\ Integ \in Nat /\ DispK \in Nat /\ FB2 \in Nat /\ halfwd \in Nat /\ bt \in Int
      /\ NChan \in Nat /\ Upper \in BOOLEAN
  BY BurstTypes, BandAssumption DEF BurstInv
<1>2. u \in Int /\ v \in Int /\ u <= v /\ K \in Int
  BY <1>1
<1>3. c \in Channels /\ Fn(u) > 0 /\ Crossed(c, t)
  BY ImagedIff
<1>4. IF Upper THEN f * f * Fn(u) <= K /\ ~(f * f * Fn(v) <= K)
               ELSE ~(f * f * Fn(u) >= K) /\ f * f * Fn(v) >= K
  BY <1>3 DEF Crossed, AtMost, AtLeast
<1>5. Fn(u) \in Nat /\ Fn(v) \in Nat
  <2>1. Fn(u) \in Int /\ Fn(v) \in Int /\ Fn(u) <= Fn(v)
    BY <1>2, FnGrows
  <2> QED
    BY <1>3, <2>1
<1>6. /\ f \in Nat /\ LowEnd \in Nat /\ HighEnd \in Nat /\ LowEnd <= f /\ f <= HighEnd
      /\ (~Upper => f < HighEnd)
  <2>1. c + 1 \in 0..NChan /\ 0 \in 0..NChan /\ 0 < c + 1
    BY <1>1, <1>3 DEF Channels
  <2>2. ~Upper => f < Edge(0) /\ HighEnd = Edge(0)
    BY <2>1, Edges
  <2> QED
    BY <2>1, <2>2, Edges
<1>7. DF \in Nat /\ DH \in Nat /\ DL \in Nat
  BY Delays
<1>8. t_burst = bt - halfwd + DH - DF
  BY DEF t_burst
<1>9. t_end = bt + halfwd + DL - DF
  <2>1. width = DL - DH + 2 * halfwd
    BY DEF BurstInv, Sweep
  <2> QED
    BY <1>1, <1>7, <1>8, <2>1 DEF t_end
<1>10. CASE t + Integ <= t_burst
  <2>1. v - bt + DF <= DH
    BY <1>1, <1>7, <1>8, <1>10
  <2>2. HighEnd * HighEnd * Fn(v) <= K
    BY <1>2, <2>1, AtBandEnd
  <2>3. CASE Upper
    <3>1. f * f * Fn(v) <= HighEnd * HighEnd * Fn(v) /\ f * f * Fn(v) \in Nat
          /\ HighEnd * HighEnd * Fn(v) \in Nat
      BY <1>5, <1>6, SquaresUp
    <3> HIDE DEF f, u, v, K
    <3> QED
      BY <1>2, <1>4, <2>2, <2>3, <3>1
  <2>4. CASE ~Upper
    <3>1. f * f * Fn(v) < HighEnd * HighEnd * Fn(v)
      <4>1. f + 1 \in Nat /\ f + 1 <= HighEnd
        BY <1>6, <2>4
      <4>2. /\ (f + 1) * (f + 1) * Fn(v) <= HighEnd * HighEnd * Fn(v)
            /\ (f + 1) * (f + 1) * Fn(v) \in Nat /\ HighEnd * HighEnd * Fn(v) \in Nat
        BY <1>5, <1>6, <4>1, SquaresUp
      <4> HIDE DEF f, u, v, K
      <4>3. /\ (f + 1) * (f + 1) * Fn(v) = f * f * Fn(v) + (2 * f + 1) * Fn(v)
            /\ f * f * Fn(v) \in Int
        BY <1>5, <1>6
      <4>4. (2 * f + 1) * Fn(v) > 0
        <5>1. Fn(v) > 0
          BY <1>2, <1>3, <1>5, FnGrows
        <5>2. (2 * f + 1) \in Nat /\ 2 * f + 1 # 0 /\ Fn(v) # 0
          BY <1>6, <5>1
        <5>3. (2 * f + 1) * Fn(v) \in Nat /\ (2 * f + 1) * Fn(v) # 0
          BY <1>5, <5>2, TimesType
        <5> QED
          BY <5>3
      <4>5. (2 * f + 1) * Fn(v) \in Int
        BY <1>5, <1>6
      <4> QED
        BY <4>2, <4>3, <4>4, <4>5
    <3>2. f * f * Fn(v) \in Nat /\ HighEnd * HighEnd * Fn(v) \in Nat
      BY <1>5, <1>6, SquaresUp
    <3> HIDE DEF f, u, v, K
    <3> QED
      BY <1>2, <1>4, <2>2, <2>4, <3>1, <3>2
  <2> QED
    BY <2>3, <2>4
<1>11. CASE t > t_end
  <2>1. u - bt + DF > DL
    BY <1>1, <1>7, <1>9, <1>11
  <2>2. LowEnd * LowEnd * Fn(u) > K
    BY <1>2, <2>1, AtBandEnd
  <2>3. LowEnd * LowEnd * Fn(u) <= f * f * Fn(u) /\ LowEnd * LowEnd * Fn(u) \in Nat
        /\ f * f * Fn(u) \in Nat
    BY <1>5, <1>6, SquaresUp
  <2> HIDE DEF f, u, v, K
  <2> QED
    BY <1>2, <1>4, <2>2, <2>3
<1> QED
  BY <1>10, <1>11

\* From the start of the observation on, a record of some file is being observed.
LEMMA RecordAt ==
  ASSUME BurstInv, NEW x \in Int, \E f \in 1..NFile : t_start[f] <= x
  PROVE  \E h \in 1..NFile, g \in Nat : RecTime(h, g) <= x /\ x < RecTime(h, g) + Integ
<1>1. PICK k \in [1..NFile -> 0..(NFile - 1)], e \in 1..NFile :
        /\ \A n \in 0..(NFile - 1) : \E f \in 1..NFile : k[f] = n
        /\ \A f \in 1..NFile : t_start[f] = t_start[e] + k[f] * t_slice
  BY Starts, Zenon
<1> DEFINE base == t_start[e]
           z == x - base
           m == z \div t_slice
           w == z % t_slice
           s == m \div NFile
           n == m % NFile
           q == w \div Integ
<1>2. base \in Int
  BY BurstTypes
<1>3. z \in Int /\ z >= 0
  <2>1. PICK f \in 1..NFile : t_start[f] <= x
    OBVIOUS
  <2>2. t_start[f] = base + k[f] * t_slice /\ k[f] \in 0..(NFile - 1)
    BY <1>1
  <2>3. k[f] * t_slice \in Nat
    BY <2>2, Durations, TimesType
  <2> QED
    BY <1>2, <2>1, <2>2, <2>3
<1> HIDE DEF base, z
<1>4. /\ m \in Int /\ m >= 0 /\ w \in 0..(t_slice - 1) /\ z = m * t_slice + w
  BY <1>3, Durations, Split
<1> HIDE DEF m, w
<1>5. /\ s \in Int /\ s >= 0 /\ n \in 0..(NFile - 1) /\ m = s * NFile + n
  BY <1>4, Durations, Split
<1>6. /\ q \in Int /\ q >= 0 /\ w = q * Integ + (w % Integ) /\ w % Integ \in 0..(Integ - 1)
  <2>1. w \in Int /\ w >= 0 /\ Integ \in Nat \ {0}
    BY <1>4, Durations
  <2> QED
    BY <2>1, Split
<1> HIDE DEF s, n, q
<1>7. q \in 0..(RecPerSlice - 1)
  <2>1. ASSUME q >= RecPerSlice PROVE FALSE
    <3>1. RecPerSlice * Integ <= q * Integ /\ q * Integ \in Int
      BY <1>6, <2>1, Durations, TimesUp
    <3>2. w < RecPerSlice * Integ /\ RecPerSlice * Integ \in Int
      BY <1>4, Durations DEF t_slice
    <3>3. w % Integ \in Nat
      BY <1>6, Durations
    <3> QED
      BY <1>4, <1>6, <3>1, <3>2, <3>3
  <2> QED
    BY <1>6, <2>1, Durations
<1>8. PICK h \in 1..NFile : k[h] = n
  BY <1>1, <1>5
<1> DEFINE g == s * RecPerSlice + q
<1>9. g \in Nat
  BY <1>5, <1>7, Durations, TimesType
<1>10. RecTime(h, g) = base + n * t_slice + s * slice_interval + q * Integ
  <2>1. t_start[h] = base + n * t_slice
    BY <1>1, <1>8 DEF base
  <2>2. t_start[h] \in Int
    BY BurstTypes
  <2> QED
    BY <1>5, <1>7, <2>1, <2>2, RecTimeAt
<1>11. RecTime(h, g) = base + m * t_slice + q * Integ
  BY <1>2, <1>5, <1>6, <1>8, <1>10, Place
<1>12. x = base + z
  BY <1>2 DEF z
<1>13. m * t_slice \in Int /\ q * Integ \in Int
  BY <1>4, <1>6, Durations
<1> HIDE DEF g
<1>14. RecTime(h, g) <= x /\ x < RecTime(h, g) + Integ
  BY <1>2, <1>3, <1>4, <1>6, <1>11, <1>12, <1>13, Durations
<1> QED
  BY <1>9, <1>14

\* There is a last tick at which a number that grows with time, in steps of a,
\* has not passed b.
LEMMA LastTick ==
  ASSUME NEW a \in Nat \ {0}, NEW b \in Int
  PROVE  \E x \in Int : x * a <= b /\ b < (x + 1) * a
<1>1. /\ b \div a \in Int /\ b = (b \div a) * a + (b % a) /\ b % a \in 0..(a - 1)
  BY Split
<1> DEFINE x == b \div a
<1>2. x \in Int /\ b = x * a + (b % a)
  BY <1>1
<1> HIDE DEF x
<1>3. (x + 1) * a = x * a + a /\ x * a \in Int
  BY <1>2
<1>4. x * a <= b /\ b < (x + 1) * a
  BY <1>1, <1>2, <1>3
<1> QED
  BY <1>2, <1>4

\* The instant the burst crosses the far edge of a channel: the last tick at
\* which it has not, no earlier than the one at which it enters the band.
LEMMA EdgeCrossed ==
  ASSUME BurstInv, NEW c \in Channels, Delay(HighEnd * HighEnd) > 0
  PROVE  \E x \in Int :
           /\ IF Upper THEN AtMost(Edge(c + 1), Fn(x)) /\ ~AtMost(Edge(c + 1), Fn(x + 1))
                       ELSE ~AtLeast(Edge(c + 1), Fn(x)) /\ AtLeast(Edge(c + 1), Fn(x + 1))
           /\ bt + Delay(HighEnd * HighEnd) - Delay(FB2) <= x
<1> DEFINE f == Edge(c + 1)
           ff == f * f
           a == ff * FB2
           K == DispK * FB2
           b == IF Upper THEN K ELSE K - 1
           DF == Delay(FB2)
           DH == Delay(HighEnd * HighEnd)
<1>1. /\ FB2 \in Nat \ {0} /\ DispK \in Nat /\ bt \in Int /\ Upper \in BOOLEAN
      /\ NChan \in Nat /\ K \in Int /\ DF \in Nat /\ DH \in Nat
  BY BurstTypes, BandAssumption, Delays DEF BurstInv
<1>2. f \in Nat \ {0} /\ f <= HighEnd /\ (~Upper => f < HighEnd) /\ HighEnd \in Nat
  <2>1. c + 1 \in 0..NChan /\ 0 \in 0..NChan /\ 0 < c + 1
    BY <1>1 DEF Channels
  <2>2. ~Upper => f < Edge(0) /\ HighEnd = Edge(0)
    BY <2>1, Edges
  <2> QED
    BY <2>1, <2>2, Edges
<1>3. ff \in Nat \ {0} /\ a \in Nat \ {0} /\ b \in Int
  BY <1>1, <1>2, TimesType
<1>4. PICK y \in Int : y * a <= b /\ b < (y + 1) * a
  BY <1>3, LastTick
<1> DEFINE x == y + bt - DF
<1>5. x \in Int /\ x + 1 \in Int /\ x - bt + DF = y /\ x + 1 - bt + DF = y + 1
  BY <1>1
<1>6. Fn(x) = y * FB2 /\ Fn(x + 1) = (y + 1) * FB2
  <2>1. x - bt + DF = y /\ x + 1 - bt + DF = y + 1 /\ x \in Int /\ x + 1 \in Int
    BY <1>5
  <2> HIDE DEF x
  <2>2. Fn(x) = (x - bt + Delay(FB2)) * FB2
    BY <2>1, FnIs
  <2>3. Fn(x + 1) = Fn(x) + FB2
    <3>1. Fn(x) = DispK + (x - bt) * FB2 /\ Fn(x + 1) = DispK + ((x + 1) - bt) * FB2
      BY DEF Fn
    <3>2. ((x + 1) - bt) * FB2 = (x - bt) * FB2 + FB2 /\ (x - bt) * FB2 \in Int
      BY <1>1, <2>1
    <3> QED
      BY <1>1, <3>1, <3>2
  <2>4. Fn(x) = y * FB2 /\ (y + 1) * FB2 = y * FB2 + FB2
    BY <1>1, <2>1, <2>2
  <2> QED
    BY <2>3, <2>4
<1>7. ff * Fn(x) = y * a /\ ff * Fn(x + 1) = (y + 1) * a
  <2> HIDE DEF ff, x
  <2>1. /\ ff * (y * FB2) = y * (ff * FB2)
        /\ ff * ((y + 1) * FB2) = (y + 1) * (ff * FB2)
    BY <1>1, <1>3
  <2> QED
    BY <1>6, <2>1
<1>8. y * a \in Int /\ (y + 1) * a \in Int
  BY <1>3
<1>9. IF Upper THEN AtMost(f, Fn(x)) /\ ~AtMost(f, Fn(x + 1))
               ELSE ~AtLeast(f, Fn(x)) /\ AtLeast(f, Fn(x + 1))
  <2>1. /\ AtMost(f, Fn(x)) <=> y * a <= K
        /\ AtMost(f, Fn(x + 1)) <=> (y + 1) * a <= K
        /\ AtLeast(f, Fn(x)) <=> y * a >= K
        /\ AtLeast(f, Fn(x + 1)) <=> (y + 1) * a >= K
    BY <1>7 DEF AtMost, AtLeast
  <2>2. Upper => y * a <= K /\ K < (y + 1) * a
    BY <1>4
  <2>3. ~Upper => y * a <= K - 1 /\ K - 1 < (y + 1) * a
    BY <1>4
  <2> HIDE DEF f, a, K, x
  <2> QED
    BY <1>1, <1>8, <2>1, <2>2, <2>3
<1>10. DH <= y
  <2>1. DH * a <= b
    <3>1. K = (DH * (HighEnd * HighEnd)) * FB2
      BY Delays
    <3>2. (DH * (HighEnd * HighEnd)) * FB2 = HighEnd * HighEnd * (DH * FB2)
      BY <1>1, <1>2
    <3>3. DH * a = ff * (DH * FB2)
      <4> HIDE DEF ff
      <4> QED
        BY <1>1, <1>3
    <3>4. DH * FB2 \in Nat /\ DH * FB2 # 0
      BY <1>1, TimesType
    <3> DEFINE p == DH * FB2
    <3>5. p \in Nat /\ p # 0
      BY <3>4
    <3> HIDE DEF p
    <3>6. CASE Upper
      <4>1. f * f * p <= HighEnd * HighEnd * p
        BY <1>2, <3>5, SquaresUp
      <4> QED
        BY <3>1, <3>2, <3>3, <3>6, <4>1 DEF p
    <3>7. CASE ~Upper
      <4>1. f + 1 \in Nat /\ f + 1 <= HighEnd
        BY <1>2, <3>7
      <4>2. /\ (f + 1) * (f + 1) * p <= HighEnd * HighEnd * p
            /\ (f + 1) * (f + 1) * p \in Nat /\ HighEnd * HighEnd * p \in Nat
        BY <1>2, <3>5, <4>1, SquaresUp
      <4>3. (2 * f + 1) * p \in Nat /\ (2 * f + 1) * p # 0 /\ f * f * p \in Nat
        BY <1>2, <3>5, TimesType
      <4>4. (f + 1) * (f + 1) * p = f * f * p + (2 * f + 1) * p
        <5> HIDE DEF f
        <5> QED
          BY <1>2, <3>5
      <4>5. f * f * p + 1 <= HighEnd * HighEnd * p
        <5> HIDE DEF f
        <5> QED
          BY <4>2, <4>3, <4>4
      <4> QED
        BY <1>1, <3>1, <3>2, <3>3, <3>7, <4>3, <4>5 DEF p
    <3> QED
      BY <3>6, <3>7
  <2>2. ASSUME y + 1 <= DH PROVE FALSE
    <3>1. (y + 1) * a <= DH * a /\ DH * a \in Int
      BY <1>1, <1>3, <2>2, TimesUp
    <3> HIDE DEF a, b, DH
    <3> QED
      BY <1>3, <1>4, <1>8, <2>1, <3>1
  <2> QED
    BY <1>1, <2>2
<1>11. bt + DH - DF <= x
  BY <1>1, <1>10
<1> QED
  BY <1>5, <1>9, <1>11

-----------------------------------------------------------------------------
(* Theorems *)

\* A record that is not selected by a walk that has ended lies outside the window.
LEMMA NotSelected ==
  ASSUME IInv, NEW f \in Walked, NEW g \in Nat, ~Selected(f, g)
  PROVE  RecTime(f, g) + Integ <= t_burst \/ RecTime(f, g) > t_end
<1>1. AllBefore(f, start_rec[f]) /\ AllAfter(f, start_rec[f] + n_rec[f])
  BY DEF IInv, RangeInv
<1>2. f \in 1..NFile
  BY Durations DEF IInv, LoopInv, Walked
<1>3. start_rec[f] \in Nat /\ n_rec[f] \in Nat
  BY <1>2 DEF IInv, LoopInv
<1>4. g < start_rec[f] \/ g >= start_rec[f] + n_rec[f]
  BY <1>3 DEF Selected
<1> QED
  BY <1>1, <1>4 DEF AllBefore, AllAfter

\* With UPDATE_BURST, once the walks have ended, a record with channels is selected.
LEMMA RecordsSelected ==
  ASSUME IInv, pc = "done", update, NEW f \in 1..NFile, NEW g \in Nat,
         NEW c, c \in Imaged(RecTime(f, g))
  PROVE  Selected(f, g)
<1>1. BurstInv /\ f \in Walked
  BY DEF IInv, Walked
<1>2. RecTime(f, g) \in Int
  <2>1. t_start[f] \in Int /\ g \in Int
    BY <1>1, BurstTypes
  <2> QED
    BY <2>1, RecTimeType
<1>3. ~(RecTime(f, g) + Integ <= t_burst) /\ ~(RecTime(f, g) > t_end)
  BY <1>1, <1>2, OutsideIsEmpty
<1> QED
  BY <1>1, <1>3, NotSelected

\* Every step of the selection and of the pass over the files keeps the invariant.
THEOREM SelectionInvariant == Spec => []IInv
<1>1. Init => IInv
  BY InitInv
<1>2. IInv /\ [Next]_vars => IInv'
  <2> SUFFICES ASSUME IInv, [Next]_vars PROVE IInv'
    OBVIOUS
  <2>1. CASE UpdateBurst /\ UNCHANGED <<sl, seen>>
    BY <2>1, UpdateBurstInv
  <2>2. CASE Locate /\ UNCHANGED <<sl, seen>>
    BY <2>2, LocateInv
  <2>3. CASE Walk /\ UNCHANGED <<sl, seen>>
    BY <2>3, WalkStepInv
  <2>4. CASE Store /\ UNCHANGED <<sl, seen>>
    BY <2>4, StoreInv
  <2>5. CASE OpenFile
    BY <2>5, OpenFileInv
  <2>6. CASE ImageSlice
    BY <2>6, ImageSliceInv
  <2>7. CASE NextFile
    BY <2>7, NextFileInv
  <2>8. CASE UNCHANGED vars
    <3>1. /\ UNCHANGED burstVars /\ UNCHANGED walkVars /\ pc' = pc /\ i' = i
          /\ start_rec' = start_rec /\ n_rec' = n_rec /\ sl' = sl /\ seen' = seen
      BY <2>8 DEF vars, selectVars
    <3>2. BurstInv' /\ t_burst' = t_burst /\ t_end' = t_end
      BY <3>1 DEF IInv, BurstInv, burstVars, t_burst, t_end, Sweep, Delay, HighEnd, LowEnd, Edge
    <3>3. CASE pc # "update"
      <4>1. /\ \A f, g : RecTime(f, g)' = RecTime(f, g)
            /\ \A f, g : Imaged(RecTime(f, g))' = Imaged(RecTime(f, g))
        BY <3>1, <3>3, SameWindow DEF IInv
      <4>2. LoopInv' /\ WalkInv' /\ RangeInv'
        BY <3>1, <3>2, <4>1 DEF IInv, LoopInv, WalkInv, RangeInv, Walked, AllBefore, AllAfter, walkVars
      <4>3. SeenInv'
        BY <3>1, <4>1 DEF IInv, SeenInv, Passed, Selected, burstVars
      <4> QED
        BY <3>2, <4>2, <4>3 DEF IInv
    <3>4. CASE pc = "update"
      <4>1. LoopInv' /\ WalkInv' /\ RangeInv'
        BY <3>1, <3>4, Durations DEF IInv, LoopInv, WalkInv, RangeInv, Walked, walkVars
      <4>2. SeenInv'
        BY <3>1, <3>4 DEF IInv, SeenInv
      <4> QED
        BY <3>2, <4>1, <4>2 DEF IInv
    <3> QED
      BY <3>3, <3>4
  <2> QED
    BY <2>1, <2>2, <2>3, <2>4, <2>5, <2>6, <2>7, <2>8 DEF Next, Select, SelectNext
<1> QED
  BY <1>1, <1>2, PTL DEF Spec

\* The walk's clock is never ahead of the record it stands for, for any number of
\* files and of records per slice, from any record the window begins in.
THEOREM WalkNeverAhead == Spec => []NeverAhead
<1>1. IInv => NeverAhead
  BY DEF IInv, WalkInv, NeverAhead
<1> QED
  BY <1>1, SelectionInvariant, PTL

\* Every record of a file that is observed at an instant of the window is selected
\* when the file's walk has ended (compute_record_ranges).
THEOREM WindowCovered == Spec => []CoversWindow
<1>1. ASSUME IInv PROVE CoversWindow
  <2> SUFFICES ASSUME NEW f \in Walked, NEW g \in Records,
                      RecTime(f, g) <= t_end, RecTime(f, g) + Integ > t_burst
               PROVE  Selected(f, g)
    BY DEF CoversWindow
  <2>1. g \in Nat
    BY DEF Records
  <2>2. BurstInv /\ f \in 1..NFile
    BY <1>1, Durations DEF IInv, LoopInv, Walked
  <2>3. RecTime(f, g) \in Int /\ t_burst \in Int /\ t_end \in Int /\ Integ \in Int
    <3>1. t_start[f] \in Int /\ g \in Int
      BY <2>1, <2>2, BurstTypes
    <3> QED
      BY <2>2, <3>1, RecTimeType, Window, Durations
  <2>4. ~(RecTime(f, g) + Integ <= t_burst) /\ ~(RecTime(f, g) > t_end)
    BY <2>3
  <2> QED
    BY <1>1, <2>1, <2>4, NotSelected
<1> QED
  BY <1>1, SelectionInvariant, PTL

\* The window update_burst computes leaves out no record with channels to image.
THEOREM WindowIsEnough == Spec => []NoRangeOutsideWindow
<1>1. ASSUME IInv PROVE NoRangeOutsideWindow
  <2> SUFFICES ASSUME pc = "done", update, NEW f \in 1..NFile, NEW g \in Records,
                      Imaged(RecTime(f, g)) # {}
               PROVE  Selected(f, g)
    BY DEF NoRangeOutsideWindow
  <2>1. g \in Nat
    BY DEF Records
  <2>2. PICK c : c \in Imaged(RecTime(f, g))
    OBVIOUS
  <2> QED
    BY <1>1, <2>1, <2>2, RecordsSelected
<1> QED
  BY <1>1, SelectionInvariant, PTL

\* A record images only channels the burst may be in while it is observed
\* (burst_chans_for_record).
THEOREM ImagedInBurst == Spec => []OnlyBurstChannels
<1>1. ASSUME IInv PROVE OnlyBurstChannels
  <2> SUFFICES ASSUME NEW f \in 1..NFile, NEW g \in Records, NEW c \in Imaged(RecTime(f, g))
               PROVE  /\ AtLeast(HighEdge(c), Fn(RecTime(f, g) + Integ + halfwd))
                      /\ AtMost(LowEdge(c), Fn(RecTime(f, g) - halfwd))
    BY DEF OnlyBurstChannels
  <2> DEFINE t == RecTime(f, g)
             u == t - halfwd
             v == t + Integ + halfwd
             K == DispK * FB2
  <2>1. BurstInv
    BY <1>1 DEF IInv
  <2>2. /\ Integ \in Nat /\ halfwd \in Nat /\ Upper \in BOOLEAN /\ NChan \in Nat /\ K \in Int
        /\ bt \in Int
    BY <2>1, BurstTypes, BandAssumption DEF BurstInv
  <2>3. t \in Int
    <3>1. t_start[f] \in Int /\ g \in Int
      BY <2>1, BurstTypes DEF Records
    <3> QED
      BY <3>1, RecTimeType
  <2> HIDE DEF t
  <2>4. c \in Channels /\ Fn(u) > 0 /\ Crossed(c, t)
    BY <2>1, <2>3, ImagedIff DEF t
  <2>5. c + 1 \in 0..NChan /\ c \in 0..NChan /\ c < c + 1
    BY <2>2, <2>4 DEF Channels
  <2>6. /\ Edge(c) \in Nat /\ Edge(c + 1) \in Nat
        /\ IF Upper THEN Edge(c) < Edge(c + 1) ELSE Edge(c + 1) < Edge(c)
    BY <2>1, <2>5, Edges
  <2>7. Fn(u) \in Nat /\ Fn(v) \in Nat
    <3>1. u \in Int /\ v \in Int /\ u <= v
      BY <2>2, <2>3
    <3>2. Fn(u) \in Int /\ Fn(v) \in Int /\ Fn(u) <= Fn(v)
      BY <2>1, <3>1, FnGrows
    <3> QED
      BY <2>4, <3>2
  <2>8. IF Upper THEN Edge(c + 1) * Edge(c + 1) * Fn(u) <= K
                      /\ ~(Edge(c + 1) * Edge(c + 1) * Fn(v) <= K)
                 ELSE ~(Edge(c + 1) * Edge(c + 1) * Fn(u) >= K)
                      /\ Edge(c + 1) * Edge(c + 1) * Fn(v) >= K
    BY <2>4 DEF Crossed, AtMost, AtLeast
  <2> DEFINE e == Edge(c)
             d == Edge(c + 1)
  <2>9. /\ e * e * Fn(u) \in Nat /\ d * d * Fn(u) \in Nat
        /\ e * e * Fn(v) \in Nat /\ d * d * Fn(v) \in Nat
        /\ Upper => e * e * Fn(u) <= d * d * Fn(u)
        /\ ~Upper => d * d * Fn(v) <= e * e * Fn(v)
    <3>1. e \in Nat /\ d \in Nat /\ IF Upper THEN e <= d ELSE d <= e
      BY <2>6
    <3> DEFINE m == Fn(u)
               n == Fn(v)
    <3>2. m \in Nat /\ n \in Nat
      BY <2>7
    <3> HIDE DEF e, d, m, n
    <3>3. Upper => e * e * m <= d * d * m
      BY <3>1, <3>2, SquaresUp
    <3>4. ~Upper => d * d * n <= e * e * n
      BY <3>1, <3>2, SquaresUp
    <3>5. /\ e * e * m \in Nat /\ d * d * m \in Nat
          /\ e * e * n \in Nat /\ d * d * n \in Nat
      BY <3>1, <3>2, TimesType
    <3> QED
      BY <3>3, <3>4, <3>5 DEF m, n
  <2>10. IF Upper THEN d * d * Fn(v) >= K /\ e * e * Fn(u) <= K
                  ELSE e * e * Fn(v) >= K /\ d * d * Fn(u) <= K
    <3> HIDE DEF K, u, v
    <3> QED
      BY <2>2, <2>8, <2>9
  <2> QED
    BY <2>10 DEF AtMost, AtLeast, HighEdge, LowEdge, t
<1> QED
  BY <1>1, SelectionInvariant, PTL

\* A channel that the burst sweeps through within a record is in the record's range:
\* its far edge is crossed then, and the range has every channel whose far edge is
\* (burst_chans_for_record).
THEOREM SweptChannelsImaged == Spec => []SweptImaged
<1>1. ASSUME IInv PROVE SweptImaged
  <2> SUFFICES ASSUME DispK > 0, NEW f \in 1..NFile, NEW g \in Records,
                      Fn(RecTime(f, g) - halfwd) > 0, NEW c \in Channels,
                      ~AtLeast(HighEdge(c), Fn(RecTime(f, g) - halfwd)),
                      ~AtMost(LowEdge(c), Fn(RecTime(f, g) + Integ + halfwd))
               PROVE  c \in Imaged(RecTime(f, g))
    BY DEF SweptImaged
  <2> DEFINE t == RecTime(f, g)
             n1 == Fn(t - halfwd)
             n2 == Fn(t + Integ + halfwd)
             e == Edge(c)
             d == Edge(c + 1)
             K == DispK * FB2
  <2>1. BurstInv
    BY <1>1 DEF IInv
  <2>2. /\ Integ \in Nat /\ halfwd \in Nat /\ Upper \in BOOLEAN /\ NChan \in Nat /\ K \in Int
        /\ bt \in Int
    BY <2>1, BurstTypes, BandAssumption DEF BurstInv
  <2>3. t \in Int
    <3>1. t_start[f] \in Int /\ g \in Int
      BY <2>1, BurstTypes DEF Records
    <3> QED
      BY <3>1, RecTimeType
  <2>4. n1 \in Nat /\ n2 \in Nat
    <3>1. t - halfwd \in Int /\ t + Integ + halfwd \in Int /\ t - halfwd <= t + Integ + halfwd
      BY <2>2, <2>3
    <3>2. n1 \in Int /\ n2 \in Int /\ n1 <= n2
      BY <2>1, <3>1, FnGrows
    <3> QED
      BY <3>2
  <2>5. d \in Nat /\ e \in Nat /\ IF Upper THEN e <= d ELSE d <= e
    <3>1. c + 1 \in 0..NChan /\ c \in 0..NChan /\ c < c + 1
      BY <2>2 DEF Channels
    <3> QED
      BY <2>1, <3>1, Edges
  <2>6. /\ d * d * n1 \in Nat /\ d * d * n2 \in Nat
        /\ e * e * n1 \in Nat /\ e * e * n2 \in Nat
        /\ Upper => e * e * n2 <= d * d * n2
        /\ ~Upper => d * d * n1 <= e * e * n1
    <3> HIDE DEF d, e, n1, n2
    <3>1. Upper => e * e * n2 <= d * d * n2
      BY <2>4, <2>5, SquaresUp
    <3>2. ~Upper => d * d * n1 <= e * e * n1
      BY <2>4, <2>5, SquaresUp
    <3> QED
      BY <2>4, <2>5, <3>1, <3>2, TimesType
  <2>7. IF Upper THEN ~(d * d * n1 >= K) /\ ~(e * e * n2 <= K)
                 ELSE ~(e * e * n1 >= K) /\ ~(d * d * n2 <= K)
    BY DEF HighEdge, LowEdge, AtLeast, AtMost
  <2>8. IF Upper THEN d * d * n1 <= K /\ ~(d * d * n2 <= K)
                 ELSE ~(d * d * n1 >= K) /\ d * d * n2 >= K
    <3> HIDE DEF d, e, n1, n2, K
    <3> QED
      BY <2>2, <2>6, <2>7
  <2>9. Crossed(c, t)
    <3> HIDE DEF t
    <3> QED
      BY <2>8 DEF Crossed, AtMost, AtLeast
  <2> QED
    BY <2>1, <2>3, <2>9, ImagedIff
<1> QED
  BY <1>1, SelectionInvariant, PTL

\* Without intrinsic width no channel is imaged from two records, of one file or
\* of two.
THEOREM ImagedAtMostOnce == Spec => []ImagedOnce
<1>1. IInv => ImagedOnce
  BY DEF IInv, SeenInv, ImagedOnce
<1> QED
  BY <1>1, SelectionInvariant, PTL

\* A channel the burst crosses is imaged: the record observed at the crossing is
\* one of some file, has the channel in its range, lies in the window and has
\* been gone by.
THEOREM EveryChannelImaged == Spec => []BurstImaged
<1>1. ASSUME IInv PROVE BurstImaged
  <2> SUFFICES ASSUME pc = "done", update, InTime, NEW c \in Channels PROVE seen[c] >= 1
    BY DEF BurstImaged
  <2> DEFINE DF == Delay(FB2)
             DH == Delay(HighEnd * HighEnd)
  <2>1. BurstInv /\ LoopInv /\ SeenInv
    BY <1>1 DEF IInv
  <2>2. /\ Integ \in Nat \ {0} /\ halfwd \in Nat /\ Upper \in BOOLEAN /\ NChan \in Nat
        /\ bt \in Int /\ FB2 \in Nat \ {0} /\ DispK \in Nat
        /\ DF \in Nat /\ DH \in Nat /\ DispK > 0 /\ DH > 2 * halfwd + Integ
    BY <2>1, BurstTypes, BandAssumption, Delays DEF BurstInv, InTime
  <2>3. DH > 0
    BY <2>2
  <2>4. PICK x \in Int :
          /\ IF Upper THEN AtMost(Edge(c + 1), Fn(x)) /\ ~AtMost(Edge(c + 1), Fn(x + 1))
                      ELSE ~AtLeast(Edge(c + 1), Fn(x)) /\ AtLeast(Edge(c + 1), Fn(x + 1))
          /\ bt + DH - DF <= x
    BY <2>1, <2>3, EdgeCrossed
  <2>5. \E f \in 1..NFile : t_start[f] <= x
    <3>1. PICK f \in 1..NFile : t_start[f] <= t_burst
      BY DEF InTime
    <3>2. t_start[f] \in Int /\ t_burst \in Int
      BY <2>1, BurstTypes, Window
    <3>3. t_burst = bt - halfwd + DH - DF
      BY DEF t_burst
    <3>4. t_start[f] <= x
      BY <2>2, <2>4, <3>1, <3>2, <3>3
    <3> QED
      BY <3>4
  <2>6. PICK f \in 1..NFile, g \in Nat : RecTime(f, g) <= x /\ x < RecTime(f, g) + Integ
    BY <2>1, <2>5, RecordAt
  <2> DEFINE t == RecTime(f, g)
             u == t - halfwd
             v == t + Integ + halfwd
  <2>7. t \in Int
    <3>1. t_start[f] \in Int /\ g \in Int
      BY <2>1, BurstTypes
    <3> QED
      BY <3>1, RecTimeType
  <2>8. t <= x /\ x < t + Integ
    BY <2>6
  <2> HIDE DEF t
  <2>9. /\ u \in Int /\ v \in Int /\ x + 1 \in Int /\ u <= x /\ x + 1 <= v
        /\ u - bt + DF > 0 /\ u - bt + DF \in Int
    BY <2>2, <2>4, <2>7, <2>8
  <2> HIDE DEF u, v, DF, DH
  <2>10. /\ Fn(u) \in Int /\ Fn(x) \in Int /\ Fn(x + 1) \in Int /\ Fn(v) \in Int
         /\ Fn(u) <= Fn(x) /\ Fn(x) <= Fn(x + 1) /\ Fn(x + 1) <= Fn(v)
    <3>1. x <= x + 1
      OBVIOUS
    <3> QED
      BY <2>1, <2>9, <3>1, FnGrows
  <2>11. Fn(u) > 0
    <3> DEFINE d == u - bt + DF
    <3>1. Fn(u) = d * FB2
      BY <2>1, <2>9, FnIs DEF DF
    <3>2. d \in Nat /\ d # 0
      BY <2>9
    <3> HIDE DEF d
    <3>3. d * FB2 \in Nat /\ d * FB2 # 0
      BY <2>2, <3>2, TimesType
    <3> QED
      BY <3>1, <3>3
  <2>12. c + 1 \in 0..NChan
    BY <2>2 DEF Channels
  <2> DEFINE e == Edge(c + 1)
  <2>13. e \in Nat
    BY <2>1, <2>12, Edges
  <2>14. IF Upper THEN AtMost(e, Fn(u)) /\ ~AtMost(e, Fn(v))
                  ELSE ~AtLeast(e, Fn(u)) /\ AtLeast(e, Fn(v))
    <3> HIDE DEF e
    <3>1. /\ e * e * Fn(u) \in Nat /\ e * e * Fn(x) \in Nat
          /\ e * e * Fn(x + 1) \in Nat /\ e * e * Fn(v) \in Nat
          /\ e * e * Fn(u) <= e * e * Fn(x) /\ e * e * Fn(x + 1) <= e * e * Fn(v)
      <4>1. Fn(u) \in Nat /\ Fn(x) \in Nat /\ Fn(x + 1) \in Nat /\ Fn(v) \in Nat
        BY <2>10, <2>11
      <4> QED
        BY <2>10, <2>13, <4>1, SquaresUp
    <3>2. DispK * FB2 \in Int
      BY <2>2
    <3>3. IF Upper THEN AtMost(e, Fn(x)) /\ ~AtMost(e, Fn(x + 1))
                   ELSE ~AtLeast(e, Fn(x)) /\ AtLeast(e, Fn(x + 1))
      BY <2>4 DEF e
    <3> QED
      BY <3>1, <3>2, <3>3 DEF AtMost, AtLeast
  <2>15. c \in Imaged(t)
    <3>1. Crossed(c, t) /\ Fn(t - halfwd) > 0
      BY <2>11, <2>14 DEF Crossed, u, v
    <3> QED
      BY <2>1, <2>2, <2>7, <3>1, ImagedIff
  <2>16. Selected(f, g)
    BY <1>1, <2>15, RecordsSelected DEF t
  <2>17. Passed(f, g)
    <3>1. i = NFile + 1
      BY <2>1 DEF LoopInv
    <3> QED
      BY <3>1, Durations DEF Passed
  <2>18. seen[c] # 0
    BY <2>1, <2>15, <2>16, <2>17 DEF SeenInv, t
  <2> QED
    BY <2>1, <2>18 DEF LoopInv
<1> QED
  BY <1>1, SelectionInvariant, PTL

=============================================================================
