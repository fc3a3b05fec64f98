------------------------------ MODULE MCImage ------------------------------
(* Baselines up to a turn and a half per cell, so that both coordinates     *)
(* wrap; an odd and an even size; the source in the centre, off it on       *)
(* either axis, and in a corner of the even image, outside the odd one.     *)
EXTENDS Image, HalfFloat

\* Every half is decoded to the finite number it stands for, so no sample of a
\* raw file is dropped by the isfinite tests before it reaches the gridder.
ASSUME HalfsDecoded == \A h \in Half : DecodedExactly(h)

MCCoords == {-9, -4, -1, 0, 2, 3, 7}

Place(l, m) == [l |-> l, m |-> m]

MCSources == {Place(0, 0), Place(1, 0), Place(0, -2), Place(-1, 2), Place(3, -3)}

=============================================================================
