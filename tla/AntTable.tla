------------------------------ MODULE AntTable ------------------------------
(***************************************************************************)
(* antsamp.cpp: load_antsamp reads the antenna and sampler sections of the *)
(* header file line by line, and rebuild_baselines lists the pairs of      *)
(* samplers in the order in which a raw record holds their rows: baseline  *)
(* b is row b.                                                             *)
(*                                                                         *)
(* A sampler names its antenna; the first antenna with that name has it.   *)
(* A line is what the parser tells apart: a comment, "{" with the name of  *)
(* a section, "}", an antenna, a sampler, or something else.  Positions    *)
(* and delays of antennas are left out.                                    *)
(***************************************************************************)
EXTENDS RobustStats, SequencesExt

CONSTANTS
  MaxAnts, MaxSamps,  \* 32 and 64
  Bands,              \* bands the parser knows: 0 (RR), 1 (LL) and others
  Headers,            \* possible header files, sequences of lines
  Masks               \* possible ANTMASK, each a set of antenna numbers

Ants == 0..(MaxAnts - 1)
stokes == 2
NoName == ""

Comment == [kind |-> "comment"]
Open(tag) == [kind |-> "open", tag |-> tag]
Close == [kind |-> "close"]
Ant(id, name) == [kind |-> "ant", id |-> id, name |-> name]
Smp(id, name, band) == [kind |-> "smp", id |-> id, name |-> name, band |-> band]

ASSUME AntAssumption ==
  /\ MaxAnts \in Nat /\ MaxSamps \in Nat
  /\ {0, 1} \subseteq Bands
  /\ Masks \subseteq SUBSET Ants
  /\ \A h \in Headers : h \in Seq({h[k] : k \in DOMAIN h})

VARIABLES
  header,    \* the file's lines
  pos,       \* the line to read next
  phase,     \* "seekAnt", "ant", "seekSmp", "smp", "ready", "loaded", "built" or "failed"
  antenna,   \* [Ants -> name]
  sampler,   \* sequence of [ant, band], in the order of the lines
  antmask,   \* antennas with a sampler
  user,      \* cfg.antmask
  baseline   \* sequence of pairs <<s0, s1>> of samplers

tableVars == <<header, pos, phase, antenna, sampler, antmask, user, baseline>>

TableInit ==
  /\ header \in Headers /\ user \in Masks
  /\ pos = 1 /\ phase = "seekAnt"
  /\ antenna = [a \in Ants |-> NoName]
  /\ sampler = <<>> /\ antmask = {} /\ baseline = <<>>

Line == header[pos]
MoreLines == pos <= Len(header)

\* eat_section: skip to the section's opening line; without it loading fails.
EatSection(at, tag, next) ==
  /\ phase = at
  /\ IF MoreLines
       THEN /\ pos' = pos + 1
            /\ phase' = IF Line = Open(tag) THEN next ELSE at
       ELSE phase' = "failed" /\ UNCHANGED pos
  /\ UNCHANGED <<header, antenna, sampler, antmask, user, baseline>>

\* A section ends at "}" or with the file.
EndSection(at, next) ==
  /\ phase = at
  /\ MoreLines => Line = Close
  /\ pos' = IF MoreLines THEN pos + 1 ELSE pos
  /\ phase' = next
  /\ UNCHANGED <<header, antenna, sampler, antmask, user, baseline>>

\* parse_antennas, one line.
ReadAntenna ==
  /\ phase = "ant" /\ MoreLines /\ Line # Close
  /\ pos' = pos + 1
  /\ antenna' = IF Line.kind = "ant" /\ Line.id \in Ants
                  THEN [antenna EXCEPT ![Line.id] = Line.name]
                  ELSE antenna
  /\ UNCHANGED <<header, phase, sampler, antmask, user, baseline>>

\* The antennas with the name a sampler line gives.
Named(name) == {a \in Ants : antenna[a] = name}

\* parse_samplers, one line: a sampler of an unknown antenna or band is left out
\* and the ones after it move up.
ReadSampler ==
  /\ phase = "smp" /\ MoreLines /\ Line # Close
  /\ pos' = pos + 1
  /\ IF /\ Line.kind = "smp" /\ Line.id \in 0..(MaxSamps - 1)
        /\ Named(Line.name) # {} /\ Line.band \in Bands
       THEN LET a == CHOOSE a \in Named(Line.name) : \A b \in Named(Line.name) : a <= b
            IN  /\ sampler' = Append(sampler, [ant |-> a, band |-> Line.band])
                /\ antmask' = antmask \cup {a}
       ELSE UNCHANGED <<sampler, antmask>>
  /\ UNCHANGED <<header, phase, antenna, user, baseline>>

\* The second samplers paired with s0: itself and those after it.
Seconds(s0) == s0..Len(sampler)

\* Does sampler s belong to a band and to an antenna in am?
Enabled(s, band, am) == sampler[s].band = band /\ sampler[s].ant \in am

\* The pairs of a first sampler, self-pair included.
PairsOf(s0, band, am) ==
  LET seconds == InOrder({s \in Seconds(s0) : Enabled(s, band, am)})
  IN  IF Enabled(s0, band, am) THEN [n \in DOMAIN seconds |-> <<s0, seconds[n]>>]
                               ELSE <<>>

\* rebuild_baselines for the antennas in am: band by band and first sampler by
\* first sampler.
BaselinesOf(am) ==
  LET nsamp == Len(sampler)
  IN  FlattenSeq([k \in 1..(stokes * nsamp) |->
                    PairsOf(((k - 1) % nsamp) + 1, (k - 1) \div nsamp, am)])

\* load_antsamp ends with all baselines; run_pipeline then applies ANTMASK.
Load ==
  /\ phase = "ready"
  /\ baseline' = BaselinesOf(antmask)
  /\ phase' = "loaded"
  /\ UNCHANGED <<header, pos, antenna, sampler, antmask, user>>

\* Variant: ANTMASK is not applied.
Unmasked == antmask

\* The antennas left by ANTMASK.
Masked == antmask \cap user

Rebuild ==
  /\ phase = "loaded"
  /\ baseline' = BaselinesOf(Masked)
  /\ phase' = "built"
  /\ UNCHANGED <<header, pos, antenna, sampler, antmask, user>>

TableNext ==
  \/ EatSection("seekAnt", "Antenna", "ant") \/ ReadAntenna \/ EndSection("ant", "seekSmp")
  \/ EatSection("seekSmp", "Sampler", "smp") \/ ReadSampler \/ EndSection("smp", "ready")
  \/ Load \/ Rebuild

-----------------------------------------------------------------------------
(* Properties *)

\* The antennas of baseline b, in order, and its band.
AntsOf(b) == <<sampler[baseline[b][1]].ant, sampler[baseline[b][2]].ant>>
BandOf(b) == sampler[baseline[b][1]].band

\* Samplers of antenna a in a band.
SamplersOf(a, band) == {s \in DOMAIN sampler : sampler[s] = [ant |-> a, band |-> band]}

\* The rows between two antennas, or of one with itself, in a band.
RowsBetween(a, c, band) ==
  {b \in DOMAIN baseline : BandOf(b) = band /\ AntsOf(b) \in {<<a, c>>, <<c, a>>}}

\* The pairs of their samplers, whichever is first.
PairsBetween(a, c, band) ==
  {{s, t} : s \in SamplersOf(a, band), t \in SamplersOf(c, band)}

\* ANTMASK takes away whole antennas and nothing else: of two antennas that it
\* keeps, a record has one row for each pair of their samplers in a band, whichever
\* is listed first, and a sampler with itself included; of an antenna that it takes
\* away, no row.  Rows of RR precede rows of LL.
OneRowPerPair ==
  phase = "built" =>
    /\ \A band \in 0..(stokes - 1) : \A a, c \in Ants :
         Cardinality(RowsBetween(a, c, band))
           = IF {a, c} \subseteq user THEN Cardinality(PairsBetween(a, c, band)) ELSE 0
    /\ \A b, c \in DOMAIN baseline : b < c => BandOf(b) <= BandOf(c)
=============================================================================
