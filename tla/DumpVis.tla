------------------------------ MODULE DumpVis -------------------------------
(***************************************************************************)
(* dump_uvfits (dump_vis.cpp), the debug dump of what would be imaged: one *)
(* group per selected record, pair of antennas and channel, holding the RR *)
(* sample and its LL twin.  The two are found by a key made of the two     *)
(* antennas in order; groups are collected up to a limit and then written. *)
(* The five nested loops are walked group by group: the limit is found in  *)
(* the innermost and has to end all of them.                               *)
(*                                                                         *)
(* A group is <<file, record, RR baseline, LL baseline, channel>>: values, *)
(* times and headers follow from these.                                    *)
(***************************************************************************)
EXTENDS AntTable

CONSTANTS
  NFile, RecPerSlice,
  StartRec, NRec,   \* [1..NFile -> Nat], the records selected of each file
  Track,            \* [<<file, record>> -> <<cs, ce>>]
  MaxGroups,        \* possible PICO_DUMP_MAXGROUPS
  OnlyFiles         \* possible PICO_DUMP_FILE, -1 for all

\* The records selected, <<file, record>>.
Records == UNION {{f} \X (StartRec[f]..(StartRec[f] + NRec[f] - 1)) : f \in 1..NFile}

ASSUME DumpAssumption ==
  /\ NFile \in Nat /\ RecPerSlice \in Nat \ {0} /\ NFile < 256 /\ MaxAnts <= 256
  /\ StartRec \in [1..NFile -> Nat] /\ NRec \in [1..NFile -> Nat]
  /\ \A p \in Records : Track[p] \in Nat \X Nat
  /\ MaxGroups \subseteq Int /\ OnlyFiles \subseteq Int

VARIABLES
  max_groups, only_file,
  step,      \* "pair", the loop to go on with ("file", "slice", "record", "row" or
             \* "chan"), "endrow", "write" or "done"
  rr_list,   \* sequence of RR baselines
  ll_of,     \* [key -> LL baseline]
  file, slice, r, row, chan,  \* where the loops are
  read,      \* slices read, <<file, slice>>
  groups,    \* P and D: the groups collected
  capped,
  result     \* 0 or -1, once done

inputs == <<max_groups, only_file>>
pairing == <<rr_list, ll_of>>
inner == <<r, row, chan>>
collected == <<read, groups, capped>>
dumpVars == <<inputs, step, pairing, file, slice, inner, collected, result>>
vars == <<tableVars, dumpVars>>

Init ==
  /\ TableInit
  /\ max_groups \in MaxGroups /\ only_file \in OnlyFiles
  /\ step = "pair" /\ rr_list = <<>> /\ ll_of = <<>>
  /\ file = 1 /\ slice = 0 /\ r = 0 /\ row = 1 /\ chan = 0
  /\ read = {} /\ groups = <<>> /\ capped = FALSE
  /\ result = 0

\* Variant: a key that is the same for both orders of the antennas.
UnorderedKey(b) ==
  LET a == AntsOf(b) IN IF a[1] < a[2] THEN a[1] * 256 + a[2] ELSE a[2] * 256 + a[1]

\* (a0 << 8) | a1
Key(b) == AntsOf(b)[1] * 256 + AntsOf(b)[2]

Cross(b) == AntsOf(b)[1] # AntsOf(b)[2]

\* Sort the cross baselines by band; of LL baselines with one key the last stays.
Pair ==
  /\ phase = "built" /\ step = "pair"
  /\ LET ll == {b \in DOMAIN baseline : Cross(b) /\ BandOf(b) = 1}
     IN  ll_of' = [k \in {Key(b) : b \in ll} |-> Max({b \in ll : Key(b) = k})]
  /\ rr_list' = InOrder({b \in DOMAIN baseline : Cross(b) /\ BandOf(b) = 0})
  /\ step' = "file"
  /\ UNCHANGED <<tableVars, inputs, file, slice, inner, collected, result>>

Slice0(f) == StartRec[f] \div RecPerSlice
Slice1(f) == (StartRec[f] + NRec[f] + RecPerSlice - 1) \div RecPerSlice
Selected(f, g) == StartRec[f] <= g /\ g < StartRec[f] + NRec[f]

\* Files are numbered from 0 in PICO_DUMP_FILE.
Wanted(f) == (only_file < 0 \/ f - 1 = only_file) /\ NRec[f] > 0

\* The loop over files, which the limit also ends.
BeginFile ==
  /\ step = "file"
  /\ IF capped \/ file > NFile
       THEN step' = "write" /\ UNCHANGED <<file, slice>>
     ELSE IF Wanted(file)
       THEN step' = "slice" /\ slice' = Slice0(file) /\ UNCHANGED file
       ELSE file' = file + 1 /\ UNCHANGED <<step, slice>>
  /\ UNCHANGED <<tableVars, inputs, pairing, inner, collected, result>>

\* The loop over slices, which the limit also ends.
ReadSlice ==
  /\ step = "slice" /\ ~capped /\ slice < Slice1(file)
  /\ read' = read \cup {<<file, slice>>}
  /\ step' = "record" /\ r' = 0
  /\ UNCHANGED <<tableVars, inputs, pairing, file, slice, row, chan, groups, capped, result>>

EndFile == step' = "file" /\ file' = file + 1

\* A read fails: the rest of the file is given up.
ReadFails ==
  /\ step = "slice" /\ ~capped /\ slice < Slice1(file)
  /\ EndFile
  /\ UNCHANGED <<tableVars, inputs, pairing, slice, inner, collected, result>>

LeaveFile ==
  /\ step = "slice" /\ (capped \/ slice >= Slice1(file))
  /\ EndFile
  /\ UNCHANGED <<tableVars, inputs, pairing, slice, inner, collected, result>>

\* The record at hand and the channels of its track.
Rec == slice * RecPerSlice + r
ChanStart == Track[<<file, Rec>>][1]
ChanEnd == Track[<<file, Rec>>][2]
HasGroups == Selected(file, Rec) /\ ChanStart < ChanEnd

\* The loop over the records of a slice, which the limit also ends.
NextSlice ==
  /\ step = "record" /\ (capped \/ r = RecPerSlice)
  /\ step' = "slice" /\ slice' = slice + 1
  /\ UNCHANGED <<tableVars, inputs, pairing, file, inner, collected, result>>

SkipRecord ==
  /\ step = "record" /\ ~capped /\ r < RecPerSlice /\ ~HasGroups
  /\ r' = r + 1
  /\ UNCHANGED <<tableVars, inputs, step, pairing, file, slice, row, chan, collected, result>>

BeginRecord ==
  /\ step = "record" /\ ~capped /\ r < RecPerSlice /\ HasGroups
  /\ step' = "row" /\ row' = 1
  /\ UNCHANGED <<tableVars, inputs, pairing, file, slice, r, chan, collected, result>>

\* The loop over RR baselines; one without a twin is passed over.
Twinned == Key(rr_list[row]) \in DOMAIN ll_of

EndRecord ==
  /\ step = "row" /\ row > Len(rr_list)
  /\ step' = "record" /\ r' = r + 1
  /\ UNCHANGED <<tableVars, inputs, pairing, file, slice, row, chan, collected, result>>

SkipRow ==
  /\ step = "row" /\ row <= Len(rr_list) /\ ~Twinned
  /\ row' = row + 1
  /\ UNCHANGED <<tableVars, inputs, step, pairing, file, slice, r, chan, collected, result>>

BeginRow ==
  /\ step = "row" /\ row <= Len(rr_list) /\ Twinned
  /\ step' = "chan" /\ chan' = ChanStart
  /\ UNCHANGED <<tableVars, inputs, pairing, file, slice, r, row, collected, result>>

\* The loop over channels: a group is stored, and only then the limit looked at.
DumpGroup ==
  /\ step = "chan" /\ chan < ChanEnd
  /\ groups' = Append(groups, <<file, Rec, rr_list[row], ll_of[Key(rr_list[row])], chan>>)
  /\ capped' = (Len(groups') >= max_groups)
  /\ IF capped' THEN step' = "endrow" /\ UNCHANGED chan
                ELSE chan' = chan + 1 /\ UNCHANGED step
  /\ UNCHANGED <<tableVars, inputs, pairing, file, slice, r, row, read, result>>

EndChannels ==
  /\ step = "chan" /\ chan >= ChanEnd
  /\ step' = "endrow"
  /\ UNCHANGED <<tableVars, inputs, pairing, file, slice, inner, collected, result>>

\* Variant: the limit ends the loop over channels and not the one over baselines.
RowsGoOn == FALSE

\* Is the loop over baselines broken out of?
LeaveRows == capped

EndRow ==
  /\ step = "endrow"
  /\ IF LeaveRows THEN step' = "record" /\ r' = r + 1 /\ UNCHANGED row
                  ELSE step' = "row" /\ row' = row + 1 /\ UNCHANGED r
  /\ UNCHANGED <<tableVars, inputs, pairing, file, slice, chan, collected, result>>

\* Nothing collected is an error; otherwise cfitsio writes all groups or fails.
Write ==
  /\ step = "write"
  /\ result' \in IF groups = <<>> THEN {-1} ELSE {0, -1}
  /\ step' = "done"
  /\ UNCHANGED <<tableVars, inputs, pairing, file, slice, inner, collected>>

Next ==
  \/ TableNext /\ UNCHANGED dumpVars
  \/ Pair \/ BeginFile \/ ReadSlice \/ ReadFails \/ LeaveFile
  \/ NextSlice \/ SkipRecord \/ BeginRecord \/ EndRecord
  \/ SkipRow \/ BeginRow \/ DumpGroup \/ EndChannels \/ EndRow \/ Write

Spec == Init /\ [][Next]_vars

-----------------------------------------------------------------------------
(* Properties *)

\* The two rows of a group are RR and LL of the same two antennas in the same
\* sense.  A pair that the bands list in opposite orders is left out: its LL
\* sample would be the conjugate of what belongs in the group.
TwinsAgree ==
  \A k \in DOMAIN groups :
    LET rr == groups[k][3]
        ll == groups[k][4]
    IN  BandOf(rr) = 0 /\ BandOf(ll) = 1 /\ AntsOf(rr) = AntsOf(ll) /\ Cross(rr)

\* What the gathering loop images in RR of the slices that were read: selected
\* records, cross baselines, channels of the track.
ImagedRR ==
  UNION {{<<p[1], p[2], b, ch>> : b \in {b \in DOMAIN baseline : BandOf(b) = 0 /\ Cross(b)},
                                  ch \in Track[p][1]..(Track[p][2] - 1)} :
           p \in {p \in Records : <<p[1], p[2] \div RecPerSlice>> \in read}}

HasTwin(b) == \E c \in DOMAIN baseline : BandOf(c) = 1 /\ AntsOf(c) = AntsOf(b)

\* The limit is looked at after a group is stored: there is always room for one.
Limit == IF max_groups > 1 THEN max_groups ELSE 1

\* A dump that was not cut short holds exactly what is imaged of the baselines
\* that both bands list alike, each sample once; one that was holds part of it, and
\* no more than the limit, wherever in the loops that was reached.
DumpIsWhatIsImaged ==
  step = "done" =>
    LET dumped == {<<groups[k][1], groups[k][2], groups[k][3], groups[k][5]>> :
                     k \in DOMAIN groups}
        wanted == {x \in ImagedRR : HasTwin(x[3])}
    IN  /\ dumped \subseteq wanted /\ Cardinality(dumped) = Len(groups)
        /\ ~capped => dumped = wanted
        /\ Len(groups) <= Limit /\ (capped => Len(groups) = Limit)
        /\ result = 0 => groups # <<>>
=============================================================================
