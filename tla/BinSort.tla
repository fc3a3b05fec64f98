------------------------------ MODULE BinSort ------------------------------
(***************************************************************************)
(* indexSort (spreadinterp.hpp) and its two bin sorts (spread.hpp) in the  *)
(* FINUFFT this program links: the order in which the gathered samples are *)
(* spread.  Grid bins are numbered along x, then y; the sort writes into   *)
(* sortIndices the points by bin, those of one bin in their own order.     *)
(*                                                                         *)
(* The parallel sort is one OpenMP region whose phases are separated by    *)
(* barriers: each thread counts its chunk of points by bin; sums its chunk *)
(* of bins over all threads; one thread adds up the totals; each thread    *)
(* turns the counts of its bins into slots; each thread places its points. *)
(* Arrays of the code start at 0, and so do the functions here.  Places    *)
(* are in half units of the fine grid, where every ceiling of the spreader *)
(* is exact; 2 * N is what rounding makes of a point just below pi.        *)
(***************************************************************************)
EXTENDS Integers, FiniteSets

CONSTANTS
  MaxM,         \* most points
  MaxThreads,   \* most threads, opts.nthreads or OpenMP's default
  N1, N2,       \* the fine grid, nfdim
  Places,       \* where points may be: pairs in (0..2*N1) \X (0..2*N2)
  BinX, BinY,   \* size of a bin (16 and 4 in the code)
  SortDensity   \* points per grid point, as one in SortDensity, above which
                \* the sort is parallel (10)

ASSUME BinSortAssumption ==
  /\ MaxM \in Nat \ {0} /\ MaxThreads \in Nat \ {0}
  /\ N1 \in Nat \ {0} /\ N2 \in Nat \ {0}
  /\ Places \subseteq (0..(2 * N1)) \X (0..(2 * N2))
  /\ BinX \in Nat \ {0} /\ BinY \in Nat \ {0} /\ SortDensity \in Nat

VARIABLES
  M,              \* nj, the points of this transform
  nthr,           \* threads to use
  place,          \* [0..M-1 -> Places], rescaled coordinates
  sorted,         \* has indexSort returned?
  step,           \* [Team -> where in the region]: see below
  counts,         \* [Team -> [Bins -> Nat]], one histogram per thread
  bin_offset,     \* [Bins -> Nat]
  thread_totals,  \* [Team -> Nat]
  i,              \* [Team -> the next point of its chunk to place]
  sortIndices     \* [0..M-1 -> a point, or Unset]

sortVars == <<M, nthr, place, sorted, step, counts, bin_offset, thread_totals,
              i, sortIndices>>

Points == 0..(M - 1)
Unset == -1

nbins1 == N1 \div BinX + 1
nbins2 == N2 \div BinY + 1
nbins == nbins1 * nbins2
Bins == 0..(nbins - 1)

\* compute_bin: the bin a point falls in.
Bin(p) == place[p][1] \div (2 * BinX) + nbins1 * (place[p][2] \div (2 * BinY))

\* The team of the region and the chunk of points of each thread: brk.
nt == IF M < nthr THEN M ELSE nthr
Team == 0..(nt - 1)
brk(t) == (2 * M * t + nt) \div (2 * nt)
Chunk(t) == brk(t)..(brk(t + 1) - 1)

\* The bins whose offsets thread t computes.
bin_chunk == (nbins + nt - 1) \div nt
BinStart(t) == t * bin_chunk
BinEnd(t) == IF BinStart(t) + bin_chunk < nbins THEN BinStart(t) + bin_chunk ELSE nbins
Own(t) == BinStart(t)..(BinEnd(t) - 1)

\* Where a thread is: working at a phase, or (one more) waiting at the barrier
\* that ends it.
Counting == 0
Scanning == 2
Single == 4
Finalizing == 6
Placing == 8
Left == 10

\* std::exclusive_scan of f from index lo: the sum of f over lo..(k - 1).
SumBelow(f, lo, hi) ==
  LET s[k \in lo..hi] == IF k = lo THEN 0 ELSE s[k - 1] + f[k - 1] IN s

Init ==
  /\ M \in 1..MaxM
  /\ nthr \in 1..MaxThreads
  /\ place \in [Points -> Places]
  /\ sorted = FALSE
  /\ step = [t \in Team |-> Counting]
  /\ counts = [t \in Team |-> [b \in Bins |-> 0]]
  /\ bin_offset = [b \in Bins |-> 0]
  /\ thread_totals = [t \in Team |-> 0]
  /\ i = [t \in Team |-> brk(t)]
  /\ sortIndices = [s \in Points |-> Unset]

\* sort_nthr: with few points for the grid, one thread.
Parallel == nthr > 1 /\ SortDensity * M > N1 * N2

InBin(b, chunk) == {p \in chunk : Bin(p) = b}

\* bin_sort_singlethread: histogram, exclusive scan, placement in point order.
SerialSort ==
  /\ ~sorted /\ ~Parallel
  /\ LET hist == [b \in Bins |-> Cardinality(InBin(b, Points))]
         offset == SumBelow(hist, 0, nbins)
         Slot(p) == offset[Bin(p)] + Cardinality({q \in InBin(Bin(p), Points) : q < p})
     IN  sortIndices' = [s \in Points |-> CHOOSE p \in Points : Slot(p) = s]
  /\ sorted' = TRUE
  /\ UNCHANGED <<M, nthr, place, step, counts, bin_offset, thread_totals, i>>

-----------------------------------------------------------------------------
(* The parallel region *)

Arrive(t) == step' = [step EXCEPT ![t] = @ + 1]

At(t, s) == ~sorted /\ Parallel /\ step[t] = s

\* Each thread's own histogram of its chunk.
CountChunk(t) ==
  /\ At(t, Counting)
  /\ counts' = [counts EXCEPT ![t] = [b \in Bins |-> Cardinality(InBin(b, Chunk(t)))]]
  /\ Arrive(t)
  /\ UNCHANGED <<M, nthr, place, sorted, bin_offset, thread_totals, i, sortIndices>>

\* Phase 1+2a: totals of the thread's bins and their offsets among themselves.
ScanBins(t) ==
  /\ At(t, Scanning)
  /\ LET total == [b \in Own(t) |-> SumBelow([u \in Team |-> counts[u][b]], 0, nt)[nt]]
         running == SumBelow(total, BinStart(t), BinEnd(t))
     IN  IF BinStart(t) < BinEnd(t)
           THEN /\ bin_offset' = [b \in Bins |-> IF b \in Own(t) THEN running[b]
                                                                 ELSE bin_offset[b]]
                /\ thread_totals' = [thread_totals EXCEPT ![t] = running[BinEnd(t)]]
           ELSE /\ thread_totals' = [thread_totals EXCEPT ![t] = 0]
                /\ UNCHANGED bin_offset
  /\ Arrive(t)
  /\ UNCHANGED <<M, nthr, place, sorted, counts, i, sortIndices>>

\* Phase 2b, omp single: the first thread to arrive scans the totals, the
\* others skip it.
ScanTotals(t) ==
  /\ At(t, Single)
  /\ thread_totals' = IF \A u \in Team : step[u] <= Single
                        THEN [u \in Team |-> SumBelow(thread_totals, 0, nt)[u]]
                        ELSE thread_totals
  /\ Arrive(t)
  /\ UNCHANGED <<M, nthr, place, sorted, counts, bin_offset, i, sortIndices>>

\* Variant: the prefix of the earlier threads' bins left out.
FirstSlotLocal(t, b, u) ==
  bin_offset[b] + SumBelow([w \in Team |-> counts[w][b]], 0, nt)[u]

\* The slot of the first point thread u has in bin b, one of thread t's bins.
FirstSlot(t, b, u) ==
  bin_offset[b] + thread_totals[t]
    + SumBelow([w \in Team |-> counts[w][b]], 0, nt)[u]

\* Phase 3: the counts of the thread's bins, of every thread, become slots.
Finalize(t) ==
  /\ At(t, Finalizing)
  /\ counts' = [u \in Team |-> [b \in Bins |->
                  IF b \in Own(t) THEN FirstSlot(t, b, u) ELSE counts[u][b]]]
  /\ Arrive(t)
  /\ UNCHANGED <<M, nthr, place, sorted, bin_offset, thread_totals, i, sortIndices>>

\* Put the next point of the chunk in its slot.
PlacePoint(t) ==
  /\ At(t, Placing)
  /\ IF i[t] \in Chunk(t)
       THEN LET b == Bin(i[t]) IN
            /\ sortIndices' = [sortIndices EXCEPT ![counts[t][b]] = i[t]]
            /\ counts' = [counts EXCEPT ![t][b] = @ + 1]
            /\ i' = [i EXCEPT ![t] = @ + 1]
            /\ UNCHANGED step
       ELSE Arrive(t) /\ UNCHANGED <<sortIndices, counts, i>>
  /\ UNCHANGED <<M, nthr, place, sorted, bin_offset, thread_totals>>

\* Variant: no barrier between counting and the sums over all threads.
CountNoWait(t) == step[t] = Counting + 1 \/ (\A u \in Team : step[u] >= step[t])

\* Variant: a thread that has gone on no longer counts as having been there.
AllHere(t) == \A u \in Team : step[u] = step[t]

\* A barrier opens when every thread of the team has reached it; single has one
\* at its end.
Opens(t) == \A u \in Team : step[u] >= step[t]

Barrier(t) ==
  /\ ~sorted /\ Parallel
  /\ step[t] % 2 = 1
  /\ Opens(t)
  /\ Arrive(t)
  /\ UNCHANGED <<M, nthr, place, sorted, counts, bin_offset, thread_totals, i, sortIndices>>

\* The region ends and indexSort returns.
EndSort ==
  /\ ~sorted /\ Parallel
  /\ \A t \in Team : step[t] = Left
  /\ sorted' = TRUE
  /\ UNCHANGED <<M, nthr, place, step, counts, bin_offset, thread_totals, i, sortIndices>>

SortThread(t) ==
  \/ CountChunk(t) \/ ScanBins(t) \/ ScanTotals(t) \/ Finalize(t)
  \/ PlacePoint(t) \/ Barrier(t)

SortNext == SerialSort \/ EndSort \/ \E t \in Team : SortThread(t)

-----------------------------------------------------------------------------
(* Properties *)

\* What a thread may write, and read of what others write, at its next step.
\* Of the threads before the single one executes it, here the lowest.
Writes(t) ==
  CASE step[t] = Counting -> {<<"counts", t, b>> : b \in Bins}
    [] step[t] = Scanning -> {<<"offset", b>> : b \in Own(t)} \cup {<<"total", t>>}
    [] step[t] = Single /\ \A u \in Team : step[u] <= Single /\ (u < t => step[u] # Single)
         -> {<<"total", u>> : u \in Team}
    [] step[t] = Finalizing -> {<<"counts", u, b>> : u \in Team, b \in Own(t)}
    [] step[t] = Placing /\ i[t] \in Chunk(t)
         -> {<<"counts", t, Bin(i[t])>>, <<"slot", counts[t][Bin(i[t])]>>}
    [] OTHER -> {}

Reads(t) ==
  CASE step[t] = Scanning -> {<<"counts", u, b>> : u \in Team, b \in Own(t)}
    [] step[t] = Finalizing -> {<<"total", t>>} \cup {<<"offset", b>> : b \in Own(t)}
    [] OTHER -> {}

\* The threads of the sort, which share its arrays without a lock, never access
\* the same element at once when one of them writes it: the barriers and the
\* disjoint slots are the only protection of the permutation.
NoSortRace ==
  Parallel /\ ~sorted =>
    \A t, u \in Team : t # u => Writes(t) \cap (Writes(u) \cup Reads(u)) = {}

\* What indexSort returns is every point once, by bin and within a bin in point
\* order, whichever thread counted and placed it: a slot computed wrongly drops
\* one gathered sample from the image and counts another twice.
StableByBin ==
  sorted =>
    /\ {sortIndices[s] : s \in Points} = Points
    /\ \A s \in 1..(M - 1) :
         LET p == sortIndices[s - 1]
             q == sortIndices[s]
         IN  Bin(p) < Bin(q) \/ (Bin(p) = Bin(q) /\ p < q)
=============================================================================
