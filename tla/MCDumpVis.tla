----------------------------- MODULE MCDumpVis ------------------------------
(* Instance of DumpVis for TLC: a table of three antennas and a spare slot     *)
(* with the name of the first; samplers of the bands in the same order, in     *)
(* opposite orders, with a second sampler of one antenna, of unknown antennas  *)
(* and bands, and without a section.  Two files, a selection that starts and   *)
(* ends inside a slice.                                                        *)
EXTENDS DumpVis

Antennas == <<Comment, Open("Antenna"), Ant(0, "C00"), Ant(1, "C01"), Comment,
              Ant(9, "E09"), Ant(2, "C02"), Ant(3, "C00"), Close>>

RR(id, name) == Smp(id, name, 0)
LL(id, name) == Smp(id, name, 1)

Samplers ==
  { <<RR(0, "C00"), RR(1, "C01"), RR(2, "C02"), LL(3, "C00"), LL(4, "C01"), LL(5, "C02")>>,
    <<RR(0, "C00"), LL(1, "C01"), RR(2, "C01"), LL(3, "C00"), Comment, Smp(4, "C02", 2)>>,
    <<RR(0, "C02"), RR(1, "XXX"), LL(1, "C00"), RR(2, "C00"), LL(3, "C02"), LL(4, "C00")>>,
    <<LL(9, "C00"), RR(0, "C00"), Smp(1, "C01", 7), LL(2, "C01"), RR(3, "C02")>> }

MCHeaders ==
  {Antennas \o <<Open("Sampler")>> \o s \o <<Close>> : s \in Samplers}
    \cup {Antennas, Antennas \o <<Open("Sampler"), RR(0, "C00"), RR(1, "C01"), LL(2, "C00")>>}

MCMasks == {Ants, {0, 1}, {1, 2, 3}, {3}}

MCOnlyFiles == {-1, 1}
MCStartRec == <<1, 2>>
MCNRec == <<3, 1>>
MCTrack ==
  [p \in (1..NFile) \X (0..4) |->
     CASE p[2] = 0 -> <<0, 1>> [] p[2] = 1 -> <<0, 2>> [] p[2] = 2 -> <<1, 2>>
       [] OTHER -> <<2, 2>>]
=============================================================================
