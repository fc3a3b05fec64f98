-------------------------------- MODULE Sums --------------------------------
(* The sum of numbers, in whatever order they are added up: what the FFT   *)
(* of Image computes and what the property of Clean is about.              *)
EXTENDS Integers, Functions

\* The sum of a function's values.
Total(f) == FoldFunction(LAMBDA x, y : x + y, 0, f)
=============================================================================
