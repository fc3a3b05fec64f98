---------------------------- MODULE MCSelection -----------------------------
(* Instance of Selection for TLC: a band of NChan channels of either sideband, *)
(* one octave wide; files in slice order and reversed; a burst arriving at any *)
(* tick of two rounds of the files, in several dispersions and widths, timed   *)
(* at the top or the bottom of the band.                                       *)
EXTENDS Selection

CONSTANTS Latest, HalfWidths

MCBands == {<<12, FALSE>>, <<6, TRUE>>}

MCLayouts ==
  {[f \in 1..NFile |-> (f - 1) * t_slice], [f \in 1..NFile |-> (NFile - f) * t_slice]}

MCDispKs == {0, 144, 432, 1728}

MCBursts ==
  {[mjd |-> m, FB2 |-> f2, DispK |-> k, halfwd |-> h] :
     m \in 0..Latest, f2 \in {36, 144}, k \in MCDispKs, h \in HalfWidths}
=============================================================================
