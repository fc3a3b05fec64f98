----------------------------- MODULE Selection ------------------------------
(***************************************************************************)
(* From the burst's parameters to the channels imaged: the window, the     *)
(* records each file selects for it (RecordSelect), and the pass of the    *)
(* gathering loop over the slices that hold them, with the channel range   *)
(* of each record (ChannelTrack).  The three are written independently of  *)
(* each other, around one dispersion law; here they must agree.            *)
(*                                                                         *)
(* Reads succeed (Gather has failing ones) and a slice is one step.        *)
(***************************************************************************)
EXTENDS RecordSelect

\* Files of one observation, with one timestamp: their embedded indices k are
\* those of its first NFile slices (raw_io.cpp places a file by its index).
ASSUME LayoutAssumption ==
  \A l \in Layouts : \E k \in [1..NFile -> 0..(NFile - 1)], e \in 1..NFile :
    /\ \A n \in 0..(NFile - 1) : \E f \in 1..NFile : k[f] = n
    /\ \A f, h \in 1..NFile : k[f] = k[h] => f = h
    /\ l = [f \in 1..NFile |-> l[e] + k[f] * t_slice]

VARIABLES
  sl,     \* the slice of file i to be read next
  seen    \* [Channels -> Nat], records each channel was imaged in

vars == <<selectVars, sl, seen>>

Init ==
  /\ SelectInit
  /\ sl = -1
  /\ seen = [c \in Channels |-> 0]

\* Variant: the number of slices the records would fill from a slice's start.
SlicesFilled(f) ==
  start_rec[f] \div RecPerSlice + (n_rec[f] + RecPerSlice - 1) \div RecPerSlice

Slice0(f) == start_rec[f] \div RecPerSlice

\* One past the last slice with a selected record.
Slice1(f) == (start_rec[f] + n_rec[f] + RecPerSlice - 1) \div RecPerSlice

\* Begin a file, unless nothing of it is selected.
OpenFile ==
  /\ pc = "image" /\ sl = -1 /\ n_rec[i] > 0
  /\ sl' = Slice0(i)
  /\ UNCHANGED <<selectVars, seen>>

\* Read a slice and image its selected records, each on its own channels.
ImageSlice ==
  /\ pc = "image" /\ sl >= 0 /\ sl < Slice1(i)
  /\ LET inSlice == (sl * RecPerSlice)..(sl * RecPerSlice + RecPerSlice - 1)
         taken == {g \in inSlice : Selected(i, g)}
     IN  seen' = [c \in Channels |->
           seen[c] + Cardinality({g \in taken : c \in Imaged(RecTime(i, g))})]
  /\ sl' = sl + 1
  /\ UNCHANGED selectVars

NextFile ==
  /\ pc = "image"
  /\ (sl = -1 /\ n_rec[i] = 0) \/ sl = Slice1(i)
  /\ sl' = -1
  /\ i' = i + 1
  /\ pc' = IF i = NFile THEN "done" ELSE "image"
  /\ UNCHANGED <<burstVars, walkVars, start_rec, n_rec, seen>>

Select == SelectNext /\ UNCHANGED <<sl, seen>>

Next == Select \/ OpenFile \/ ImageSlice \/ NextFile

Spec == Init /\ [][Next]_vars

-----------------------------------------------------------------------------
(* Properties *)

\* Types of the state.
TypeOK ==
  /\ t_start \in [1..NFile -> Int] /\ bt \in Int /\ width \in Nat
  /\ i \in 1..(NFile + 1) /\ pc \in {"update", "locate", "walk", "image", "done"}
  /\ start_rec \in [1..NFile -> Nat] /\ n_rec \in [1..NFile -> Nat]
  /\ first \in Nat /\ rec_num \in Nat /\ t_rec \in Int /\ r \in Nat
  /\ sl \in Nat \cup {-1} /\ seen \in [Channels -> Nat]

\* Records that can matter to the window; a walk takes fewer.
Records == 0..Clamp(2 * ((t_end - t_start[1]) \div Integ) + 4 * RecPerSlice)

\* Files whose walk has ended.
Walked == IF pc \in {"image", "done"} THEN 1..NFile ELSE 1..(i - 1)

\* A file whose walk has ended has selected every record of its own that is
\* being observed at some instant of the window: no burst record is left
\* unread, wherever the window starts and ends.
CoversWindow ==
  \A f \in Walked : \A g \in Records :
    RecTime(f, g) <= t_end /\ RecTime(f, g) + Integ > t_burst => Selected(f, g)

\* The clock of the walk is never ahead of the record it stands for, which is
\* why no record is missed although the clock is wrong after a slice edge.
NeverAhead == pc = "walk" => t_rec <= RecTime(i, first + r)

\* With UPDATE_BURST the window is as wide as the track: a record that is not
\* selected is one whose channel range would have been empty.
NoRangeOutsideWindow ==
  pc = "done" /\ update =>
    \A f \in 1..NFile : \A g \in Records :
      Imaged(RecTime(f, g)) # {} => Selected(f, g)

\* The channel's edge on the high-frequency side, and on the low one.
HighEdge(c) == IF Upper THEN Edge(c + 1) ELSE Edge(c)
LowEdge(c) == IF Upper THEN Edge(c) ELSE Edge(c + 1)

\* Only channels the burst may be in during a record are imaged from it: it has
\* entered the channel by the record's end and not left it before its start.
OnlyBurstChannels ==
  pc = "done" =>
    \A f \in 1..NFile : \A g \in Records : \A c \in Imaged(RecTime(f, g)) :
      /\ AtLeast(HighEdge(c), Fn(RecTime(f, g) + Integ + halfwd))
      /\ AtMost(LowEdge(c), Fn(RecTime(f, g) - halfwd))

\* A channel the burst sweeps through within a record, from above it to below it, is
\* in the record's range: no record that holds the whole of a channel's burst comes
\* away with an empty range, or with one that is too short.
SweptImaged ==
  pc = "done" /\ DispK > 0 =>
    \A f \in 1..NFile : \A g \in Records :
      LET fn1 == Fn(RecTime(f, g) - halfwd)
          fn2 == Fn(RecTime(f, g) + Integ + halfwd)
      IN  fn1 > 0 =>
            {c \in Channels : ~AtLeast(HighEdge(c), fn1) /\ ~AtMost(LowEdge(c), fn2)}
              \subseteq Imaged(RecTime(f, g))

\* The observation had begun, and the delay at the top of the band is longer
\* than the pulse and a record: the track has a frequency in every record of
\* the window.
InTime ==
  /\ \E f \in 1..NFile : t_start[f] <= t_burst
  /\ DispK > 0 /\ Delay(HighEnd * HighEnd) > 2 * halfwd + Integ

\* Each channel the burst crosses is imaged in some selected record of some
\* file: none falls between the end of one record's half-open range and the
\* start of the next one's, which may be in another file, nor outside the window.
BurstImaged ==
  pc = "done" /\ update /\ InTime => \A c \in Channels : seen[c] >= 1

\* Without intrinsic width the ranges of successive records do not overlap, and
\* no record is imaged twice: no channel's burst energy is weighted twice.
ImagedOnce == halfwd = 0 => \A c \in Channels : seen[c] <= 1
=============================================================================
