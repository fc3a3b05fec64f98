---------------------------- MODULE MCGlobalClip ----------------------------
(* Instance of GlobalClip for TLC: every bag of up to five samples over four *)
(* amplitudes, every start of the clip scope.                                *)
EXTENDS GlobalClip
=============================================================================
