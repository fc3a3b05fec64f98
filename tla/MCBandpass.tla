----------------------------- MODULE MCBandpass -----------------------------
(* Instance of Bandpass for TLC: burst tracks that drift through the band     *)
(* slowly and fast, one that misses it, one that stops and comes back (a      *)
(* record whose range is empty), and bad samples by record and by channel.    *)
EXTENDS Bandpass

None == <<NChan, NChan>>

MCTracks == {
  [r \in Recs |-> None],
  [r \in Recs |-> IF r < NChan THEN <<r, r + 1>> ELSE None],
  [r \in Recs |-> IF r < NChan - 2 THEN <<r, r + 3>> ELSE None],
  [r \in Recs |-> <<0, NChan>>],
  [r \in Recs |-> IF r = 1 THEN None ELSE <<0, NChan>>] }

MCBadSets == {rs \X cs : rs \in SUBSET Recs, cs \in SUBSET Chans}
=============================================================================
