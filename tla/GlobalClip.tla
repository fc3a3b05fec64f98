----------------------------- MODULE GlobalClip -----------------------------
(***************************************************************************)
(* global_clip_samples (grid.cpp): the per-slice robust clip that compacts *)
(* the dirty and the psf sample bags in place, in lockstep, over the range *)
(* [begin, size).                                                          *)
(*                                                                         *)
(* A bag is four parallel arrays, u, v, c and wt, and nothing but the      *)
(* index says which elements of the eight arrays belong together.  dirty   *)
(* is the array dirty.c: a record [id, amp], where id tells the sample and *)
(* amp is |c|/wt.  beside has the other seven, of which the id is all that *)
(* matters.  Indices are 1-based: the element the code calls [k] is here   *)
(* [k + 1], and the model's begin and keep count elements, as the code's   *)
(* do.                                                                     *)
(***************************************************************************)
EXTENDS RobustStats

CONSTANTS
  MaxLen,   \* longest bag handed to the clip
  Amps,     \* amplitudes of the samples
  Thresh    \* Config::thresh, in units of the MAD

ASSUME ClipAssumption ==
  /\ MaxLen \in Nat
  /\ Amps \subseteq Nat
  /\ Thresh \in Nat

VARIABLES
  dirty,       \* the array dirty.c
  beside,      \* [Beside -> sequence of ids], the other arrays of the two bags
  begin,       \* first sample of the clip scope
  flagged,     \* what the function counts (and returns)
  drop,        \* indices whose amplitude fails the test, fixed before the loop
  src,         \* samples examined so far, counted from the start of the bag
  keep,        \* samples of the compacted bag so far
  pc,          \* "entry", "loop" or "done"
  given        \* history: the dirty bag the caller passed

vars == <<dirty, beside, begin, flagged, drop, src, keep, pc, given>>

Sample == [id : 1..MaxLen, amp : Amps]

\* The arrays of GridSamples dirty and psf, but for dirty.c.
Beside == {"dirty.u", "dirty.v", "dirty.wt", "psf.u", "psf.v", "psf.c", "psf.wt"}

\* The bags a caller may pass: index-aligned, each sample with its own id.
Init ==
  /\ \E n \in 0..MaxLen, a \in [1..MaxLen -> Amps], b \in 0..MaxLen :
       /\ b <= n
       /\ dirty = [k \in 1..n |-> [id |-> k, amp |-> a[k]]]
       /\ beside = [x \in Beside |-> [k \in 1..n |-> k]]
       /\ begin = b
  /\ flagged = 0
  /\ drop = {}
  /\ src = begin
  /\ keep = begin
  /\ pc = "entry"
  /\ given = dirty

\* GridSamples::size, that of u_lambda.
Size == Len(beside["dirty.u"])

\* std::vector amp(M): the amplitudes of the clip scope.
Amplitude == [k \in (begin + 1)..Size |-> dirty[k].amp]

\* What gets past the early returns: a scope that is not empty, bags of the
\* same length, mad > 0.
Clippable ==
  /\ begin < Size
  /\ Len(beside["psf.u"]) = Size
  /\ Mad4(Amplitude) > 0

Return ==
  /\ pc = "entry"
  /\ ~Clippable
  /\ pc' = "done"
  /\ UNCHANGED <<dirty, beside, begin, flagged, drop, src, keep, given>>

\* Statistics are taken once, before any sample moves.
TakeStats ==
  /\ pc = "entry"
  /\ Clippable
  /\ drop' = Outliers(Amplitude, Thresh)
  /\ pc' = "loop"
  /\ UNCHANGED <<dirty, beside, begin, flagged, src, keep, given>>

\* Variants of Flag and Keep below hold the slips this loop invites; the
\* properties must tell them from the code.
Skip(d) ==
  /\ pc = "loop"
  /\ src < Size
  /\ src + 1 \in drop
  /\ flagged' = flagged + 1
  /\ src' = src + 1
  /\ keep' = keep + d
  /\ UNCHANGED <<dirty, beside, begin, drop, pc, given>>

FlagAdvancesKeep == Skip(1)

\* An outlier is counted and skipped.
Flag == Skip(0)

\* A survivor is moved to position k: dirty.c receives v, and each array of moved
\* its own element.
Move(k, v, moved) ==
  /\ pc = "loop"
  /\ src < Size
  /\ src + 1 \notin drop
  /\ dirty' = [dirty EXCEPT ![k] = v]
  /\ beside' = [x \in Beside |-> IF x \in moved THEN [beside[x] EXCEPT ![k] = beside[x][src + 1]]
                                                ELSE beside[x]]
  /\ keep' = keep + 1
  /\ src' = src + 1
  /\ UNCHANGED <<begin, flagged, drop, pc, given>>

KeepOneLow == Move(keep, dirty[src + 1], Beside)
KeepCleared == Move(keep + 1, [dirty[src + 1] EXCEPT !.id = 0], Beside)
KeepLagging == Move(keep + 1, dirty[src + 1], Beside \ {"psf.wt"})

\* A survivor is moved down to [keep], in the eight arrays.
Keep == Move(keep + 1, dirty[src + 1], Beside)

\* Variant: the arrays keep their old length.
NoResize ==
  /\ pc = "loop"
  /\ src = Size
  /\ pc' = "done"
  /\ UNCHANGED <<dirty, beside, begin, flagged, drop, src, keep, given>>

\* The resize(keep) of the eight arrays.
Resize ==
  /\ pc = "loop"
  /\ src = Size
  /\ dirty' = SubSeq(dirty, 1, keep)
  /\ beside' = [x \in Beside |-> SubSeq(beside[x], 1, keep)]
  /\ pc' = "done"
  /\ UNCHANGED <<begin, flagged, drop, src, keep, given>>

Next == Return \/ TakeStats \/ Flag \/ Keep \/ Resize

Spec == Init /\ [][Next]_vars

-----------------------------------------------------------------------------
(* Properties *)

\* Types of the state; the arrays hold samples of the bags that were passed.
TypeOK ==
  /\ dirty \in Seq(Sample)
  /\ beside \in [Beside -> Seq(1..MaxLen)]
  /\ given \in Seq(Sample)
  /\ begin \in Nat /\ flagged \in Nat /\ src \in Nat /\ keep \in Nat
  /\ drop \subseteq Nat
  /\ pc \in {"entry", "loop", "done"}

\* The eight arrays hold the same sample at the same index at every step of the
\* compaction, none of them lagging behind: a visibility keeps its (u, v) and its
\* weight, and the image is deconvolved with a point-spread function of exactly the
\* samples it is made of.
Aligned ==
  \A x \in Beside :
    /\ Len(beside[x]) = Len(dirty)
    /\ \A k \in 1..Len(dirty) : beside[x][k] = dirty[k].id

\* The samples of earlier slices, [0, begin), are as the caller passed them.
PrefixKept ==
  /\ Len(dirty) >= begin
  /\ \A k \in 1..begin : dirty[k] = given[k]

\* The destination never runs ahead of the source, so a sample not yet examined
\* has not been overwritten.
UnreadIntact ==
  /\ begin <= keep /\ keep <= src /\ src <= Len(given)
  /\ keep <= Len(dirty)
  /\ pc = "entry" => src = begin
  /\ pc # "done" => /\ Len(dirty) = Len(given)
                    /\ \A k \in (src + 1)..Len(given) : dirty[k] = given[k]

\* Position the j-th given sample has among the survivors.
Rank(j) == begin + Cardinality({k \in (begin + 1)..j : k \notin drop})

\* Each survivor examined so far sits at its rank, so order is kept, none is
\* lost and none is duplicated, and flagged counts exactly the others.
Compacted ==
  /\ keep = Rank(src)
  /\ flagged = src - keep
  /\ \A j \in (begin + 1)..src : j \notin drop => dirty[Rank(j)] = given[j]

\* What the function promises its caller: the bag it returns is the prefix
\* followed by the samples of the scope whose amplitude is within thresh * mad
\* of the median of the scope, in their order.
Clipped(bag, b) ==
  LET amp == [k \in (b + 1)..Len(bag) |-> bag[k].amp]
      out == IF b < Len(bag) THEN Outliers(amp, Thresh) ELSE {}
      kept == InOrder((1..Len(bag)) \ out)
  IN  [j \in 1..Len(kept) |-> bag[kept[j]]]

ReturnsClipped ==
  pc = "done" => /\ dirty = Clipped(given, begin)
                 /\ flagged = Len(given) - Len(dirty)
=============================================================================
