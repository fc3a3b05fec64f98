------------------------------ MODULE MCSpread ------------------------------
(* Instance of Spread for TLC: points in three corners of the grid, so that   *)
(* subgrids wrap below, above and not at all, and one at rounded-up pi.       *)
EXTENDS Spread

\* A cell's value tells which of four points it got, and how often.
MCStrength == [p \in 0..(MaxM - 1) |-> 4 ^ p]

MCPlaces == {<<0, 5>>, <<4, 8>>, <<7, 1>>}
=============================================================================
