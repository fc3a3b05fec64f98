------------------------------- MODULE RawIO -------------------------------
(***************************************************************************)
(* raw_io.cpp: open_raw_set opens the files in the order INPUT lists them, *)
(* anchors each in time by its first timestamp and embedded index, and     *)
(* checks the clock against a second timestamp; read_slice fills the       *)
(* buffer with one slice by positional reads that may return less than     *)
(* asked, be interrupted, hit the end of the file, or fail.                *)
(*                                                                         *)
(* Offsets are in words of four bytes: the timeval is TimeWords of them,   *)
(* the embedded index one, a slice's visibilities SliceWords.              *)
(***************************************************************************)
EXTENDS Integers

CONSTANTS
  NFile,
  HaveIdx,     \* HAVE_IDX of the parameter file, and of the recorder
  TimeWords, SliceWords,
  TSlice,      \* t_slice, in the unit of the timestamps
  Stamps,      \* possible timestamps
  Lengths,     \* possible file lengths in words
  MaxSlice,    \* slices asked for are 0..MaxSlice
  MaxReads     \* calls of read_slice

ASSUME RawAssumption ==
  /\ NFile \in Nat \ {0} /\ HaveIdx \in BOOLEAN
  /\ TimeWords \in Nat \ {0} /\ SliceWords \in Nat \ {0} /\ TSlice \in Nat \ {0}
  /\ Stamps \subseteq Int /\ Lengths \subseteq Nat
  /\ MaxSlice \in Nat /\ MaxReads \in Nat

Files == 1..NFile
Slots == 0..(SliceWords - 1)

VARIABLES
  unix,      \* timestamp at the start of each file
  idx,       \* index on disk, counted from 1
  len,       \* length of each file, -1 if it cannot be opened
  second,    \* timestamp where file 1's second slice starts, if it is long enough
  fd,        \* open descriptors
  mode,      \* "open", "anchor", "check", "ready", "reading", "closed", "failed"
  i,         \* the file the open and anchor loops are at
  t_start, mjd_ref,
  req,       \* <<file, slice>> of the last call of read_slice
  got, dst,  \* its progress, and the buffer
  result,    \* its return value; 1 before it returns
  reads      \* calls made

content == <<unix, idx, len, second>>
anchors == <<t_start, mjd_ref>>
reader == <<req, got, dst, result, reads>>
rawVars == <<content, fd, mode, i, anchors, reader>>

IndexWords == IF HaveIdx THEN 1 ELSE 0
slice_interval == NFile * TSlice

\* What the recorder wrote at word o of file f: the words of its visibilities
\* are identified by slice and position.
Word(f, o) ==
  LET per == TimeWords + IndexWords + SliceWords
      k == (o % per) - TimeWords - IndexWords
  IN  IF k >= 0 THEN <<f, o \div per, k>> ELSE <<f, "header">>

RawInit ==
  /\ unix \in [Files -> Stamps] /\ idx \in [Files -> 0..(NFile + 1)]
  /\ len \in [Files -> Lengths \cup {-1}]
  /\ second \in {s + k * TSlice : s \in Stamps, k \in 0..NFile}
  /\ fd = [f \in Files |-> FALSE]
  /\ mode = "open" /\ i = 1
  /\ t_start = [f \in Files |-> 0] /\ mjd_ref = 0
  /\ req = <<1, 0>> /\ got = 0 /\ dst = [k \in Slots |-> <<"none">>]
  /\ result = 1 /\ reads = 0

\* Return -1: what is open stays open.
Fail == mode' = "failed" /\ UNCHANGED <<fd, i, anchors>>

Open ==
  /\ mode = "open"
  /\ IF len[i] = -1 THEN Fail
     ELSE /\ fd' = [fd EXCEPT ![i] = TRUE]
          /\ i' = IF i = NFile THEN 1 ELSE i + 1
          /\ mode' = IF i = NFile THEN "anchor" ELSE mode
          /\ UNCHANGED anchors
  /\ UNCHANGED <<content, reader>>

\* Variant: the supplied order is trusted.
ListPosition(f) == f - 1

\* The slot of the round a file holds, counted from 0.
SlotOf(f) == IF HaveIdx THEN idx[f] - 1 ELSE f - 1

\* The range test on the index.
InRound(k) == k \in 0..(NFile - 1)

\* Timestamp and index of file i.  The first file listed sets the time origin.
Anchor ==
  /\ mode = "anchor"
  /\ IF len[i] < TimeWords + IndexWords \/ ~InRound(SlotOf(i))
       THEN Fail
       ELSE /\ mjd_ref' = IF i = 1 THEN unix[1] ELSE mjd_ref
            /\ t_start' = [t_start EXCEPT ![i] =
                             (unix[i] - unix[1]) + SlotOf(i) * TSlice]
            /\ i' = IF i = NFile THEN 1 ELSE i + 1
            /\ mode' = IF i = NFile THEN "check" ELSE mode
            /\ UNCHANGED fd
  /\ UNCHANGED <<content, reader>>

\* What lies between the first two timestamps of a file, by the clock.
Expected == slice_interval

\* A second timestamp is compared with the clock only if it is one: later than
\* the first (and by less than a day, which Stamps must satisfy).
Check ==
  /\ mode = "check"
  /\ IF /\ len[1] >= 2 * TimeWords + IndexWords + SliceWords
        /\ second > unix[1]
        /\ second - unix[1] # Expected
       THEN Fail
       ELSE mode' = "ready" /\ UNCHANGED <<fd, i, anchors>>
  /\ UNCHANGED <<content, reader>>

\* read_slice is called.
Call ==
  /\ mode = "ready"
  /\ reads < MaxReads
  /\ req' \in Files \X (0..MaxSlice)
  /\ got' = 0 /\ result' = 1 /\ reads' = reads + 1
  /\ mode' = "reading"
  /\ UNCHANGED <<content, fd, i, anchors, dst>>

\* data_off: header and index of each slice, with HAVE_IDX or without.
DataOffset(s) == s * (TimeWords + 1 + SliceWords) + TimeWords + 1

Return(r) ==
  /\ result' = r
  /\ mode' = "ready"
  /\ UNCHANGED <<content, fd, i, anchors, req, dst, reads>>

\* The file position of the next read.
Position(s) == DataOffset(s) + got

\* How much is asked for.
Wanted == SliceWords - got

\* Variant: progress not kept.
NoProgress(n) == got

\* The progress after n more words.
Advanced(n) == got + n

\* pread returns n words, at least one and no more than asked or there are.
Chunk ==
  /\ mode = "reading" /\ got < SliceWords
  /\ LET pos == Position(req[2])
     IN  \E n \in 1..Wanted :
           /\ pos + n <= len[req[1]]
           /\ dst' = [k \in Slots |-> IF k \in got..(got + n - 1)
                                        THEN Word(req[1], pos + k - got)
                                        ELSE dst[k]]
           /\ got' = Advanced(n)
  /\ UNCHANGED <<content, fd, mode, i, anchors, req, result, reads>>

\* pread is interrupted by a signal and called again.
Interrupted ==
  /\ mode = "reading" /\ got < SliceWords
  /\ UNCHANGED rawVars

\* Variant: the end of the file taken for the end of the slice.
EndIsSuccess == 0

\* What read_slice returns at the end of the file.
AtEnd == -1

\* pread returns 0.
EndOfFile ==
  /\ mode = "reading" /\ got < SliceWords
  /\ Position(req[2]) >= len[req[1]]
  /\ Return(AtEnd)
  /\ UNCHANGED got

\* pread fails with another error.
ReadError ==
  /\ mode = "reading" /\ got < SliceWords
  /\ Return(-1)
  /\ UNCHANGED got

\* The slice is complete.
Complete ==
  /\ mode = "reading" /\ got = SliceWords
  /\ Return(0)
  /\ UNCHANGED got

\* close_raw_set.
Close ==
  /\ mode = "ready"
  /\ fd' = [f \in Files |-> FALSE]
  /\ mode' = "closed"
  /\ UNCHANGED <<content, i, anchors, reader>>

RawNext == Open \/ Anchor \/ Check \/ Call \/ Chunk \/ Interrupted \/ EndOfFile
          \/ ReadError \/ Complete \/ Close

RawSpec == RawInit /\ [][RawNext]_rawVars

\* A read in progress goes on: pread is not interrupted for ever, as the program
\* installs no signal handler and sets no timer.  Nothing is assumed of errors.
FairRawSpec == RawSpec /\ WF_rawVars(Chunk \/ EndOfFile \/ Complete)

-----------------------------------------------------------------------------
(* Properties *)

\* Types of the state; what is read never exceeds the buffer.
RawTypeOK ==
  /\ fd \in [Files -> BOOLEAN] /\ i \in Files
  /\ mode \in {"open", "anchor", "check", "ready", "reading", "closed", "failed"}
  /\ t_start \in [Files -> Int] /\ mjd_ref \in Int
  /\ req \in Files \X (0..MaxSlice)
  /\ got \in 0..SliceWords /\ result \in {-1, 0, 1} /\ reads \in 0..MaxReads

Opened == mode \in {"ready", "reading", "closed"}

\* The time given to a file depends on what the recorder wrote in it and not on
\* where INPUT lists it: its own timestamp plus its index in slices.
AnchoredByContent ==
  Opened /\ HaveIdx =>
    \A f \in Files : mjd_ref + t_start[f] = unix[f] + (idx[f] - 1) * TSlice

\* A read that succeeds has filled the whole buffer with the slice asked for,
\* each word in its place, however the reads were cut and interrupted and
\* whatever an earlier, failed read left there.
ReadsTheSlice ==
  result = 0 => \A k \in Slots : dst[k] = <<req[1], req[2], k>>

\* Every read returns.
ReadReturns == mode = "reading" ~> mode # "reading"
=============================================================================
