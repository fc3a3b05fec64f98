------------------------------ MODULE MCGather ------------------------------
(* Instance of Gather for TLC: three files, one with nothing selected, a      *)
(* selection that starts in the middle of one slice and ends in the middle   *)
(* of the next, a record with no channel on the track, one self-pair, and    *)
(* contents with one outlier or one non-finite sample.                       *)
EXTENDS Gather

MCStartRec == <<1, 0, 2>>
MCNRec == <<2, 0, 2>>

\* The burst drifts down the band and has left it at record 3 of file 3.
MCTrack ==
  [p \in (1..NFile) \X (0..5) |->
     CASE p = <<1, 1>> -> <<0, 2>>
       [] p = <<1, 2>> -> <<1, 2>>
       [] p = <<3, 2>> -> <<0, 2>>
       [] OTHER -> <<1, 1>>]

Cells == (1..NFile) \X (0..2) \X (0..(RecPerSlice - 1)) \X Baselines \X (0..1)

\* Amplitudes near 2, with an outlier or a non-finite sample at one cell.
OneOdd ==
  { [x \in Cells |-> IF x = odd THEN v ELSE 1 + ((x[4] + x[5]) % 3)] :
      odd \in {<<1, 0, 1, 1, 0>>, <<3, 1, 0, 2, 1>>}, v \in {9, BAD} }

\* A first slice with a wide spread, whose samples would be outliers among the
\* narrow ones of the slices that follow.
WideThenNarrow ==
  [x \in Cells |-> IF x[1] = 1 /\ x[2] = 0 THEN 1 + 4 * (1 - x[5]) ELSE x[4]]

MCDisks == OneOdd \cup {WideThenNarrow}
=============================================================================
