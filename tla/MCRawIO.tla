------------------------------ MODULE MCRawIO ------------------------------
(* Instance of RawIO for TLC: two files, lengths that end in the header, in   *)
(* the middle and at the end of a slice, and after a second one.              *)
EXTENDS RawIO
=============================================================================
