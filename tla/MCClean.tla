------------------------------ MODULE MCClean ------------------------------
(* Instance of Clean for TLC: every image with these pixel values, and PSFs  *)
(* with a unit peak and sidelobes of each sign, symmetric as the transform   *)
(* of real weights is.                                                       *)
EXTENDS Clean

MCGrain == [k \in 0..NIter |-> (Unit * Unit)^k]

Values == {-1, 0, 2}

MCImages == [Pixels -> Values]

Point == [p \in Pixels |-> IF p = Centre THEN Unit ELSE 0]

Lobes(dx, dy, v) ==
  [p \in Pixels |->
     IF p = Centre THEN Unit
     ELSE IF p \in {<<Centre[1] + dx, Centre[2] + dy>>,
                    <<Centre[1] - dx, Centre[2] - dy>>} THEN v ELSE 0]

MCPsfs == {Point, Lobes(1, 0, 1), Lobes(1, 0, -1), Lobes(1, 1, 1), Lobes(0, 1, -1)}
=============================================================================
