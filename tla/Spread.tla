------------------------------- MODULE Spread -------------------------------
(***************************************************************************)
(* spreadSorted (spreadinterp.hpp) after indexSort: the gathered samples   *)
(* are added to the fine grid in subproblems, runs of the sorted order.  A *)
(* thread takes the next subproblem (schedule(dynamic,1)), spreads it onto *)
(* a private subgrid without wrapping, and adds that subgrid to the shared *)
(* periodic grid: row by row under omp critical, or, with many threads, by *)
(* atomic additions.                                                       *)
(*                                                                         *)
(* The kernel is 1 on its NS x NS support, the cells from ceil(x - ns/2)   *)
(* on.  (Values and rounding of the kernel, and the SIMD padding that      *)
(* makes the subgrid's rows longer, are left out.)                         *)
(***************************************************************************)
EXTENDS BinSort

CONSTANTS
  Strength,         \* [0..MaxM-1 -> Nat], data_nonuniform
  NS,               \* width of the kernel, nspread
  MaxSubproblem,    \* max_subproblem_size (100000)
  SparseFactor,     \* one subproblem per point below this density (1000)
  AtomicThreshold   \* atomic_threshold (10)

\* spreadcheck: the grid is at least twice the kernel.
ASSUME SpreadAssumption ==
  /\ Strength \in [0..(MaxM - 1) -> Nat]
  /\ NS \in Nat \ {0} /\ N1 >= 2 * NS /\ N2 >= 2 * NS
  /\ MaxSubproblem \in Nat \ {0} /\ SparseFactor \in Nat /\ AtomicThreshold \in Nat

VARIABLES
  grid,   \* data_uniform, [Xs \X Ys -> Nat]
  isub,   \* the next subproblem of the parallel-for
  at,     \* [Threads -> "idle", "merge", "critical" or "loaded"]
  du0,    \* [Threads -> its private subgrid: offset, size and values]
  dy,     \* [Threads -> the row of its subgrid to add next]
  acc,    \* [Threads -> the values of that row of the grid it has loaded]
  done    \* spreadSorted has returned

spreadVars == <<grid, isub, at, du0, dy, acc, done>>
vars == <<sortVars, spreadVars>>

Threads == 0..(nthr - 1)
Xs == 0..(N1 - 1)
Ys == 0..(N2 - 1)

SumOver(S, f) ==
  LET s[T \in SUBSET S] ==
        IF T = {} THEN 0 ELSE LET x == CHOOSE x \in T : TRUE IN f[x] + s[T \ {x}]
  IN  s[S]

\* nb, the number of subproblems; with a sort done a single thread has no case
\* of its own.
nb ==
  LET perThread == IF nthr < M THEN nthr ELSE M
  IN  IF M * SparseFactor < N1 * N2 THEN M
      ELSE IF perThread * MaxSubproblem < M THEN 1 + (M - 1) \div MaxSubproblem
      ELSE perThread

\* brk[k], where subproblem k begins in the sorted order.
Break(k) == (M * k + nb - 1) \div nb

\* The points of subproblem k.
SubPoints(k) == {sortIndices[j] : j \in Break(k)..(Break(k + 1) - 1)}

\* First grid index, of dimension d, that point p spreads to: ceil(x - ns/2).
First(p, d) == (place[p][d] - NS + 1) \div 2

\* get_subgrid: offset and size, along d, of the smallest box around the
\* kernels of the points of subproblem k.
Box(k, d) ==
  LET f == {First(p, d) : p \in SubPoints(k)}
      lo == CHOOSE x \in f : \A y \in f : x <= y
      hi == CHOOSE x \in f : \A y \in f : x >= y
  IN  <<lo, hi - lo + NS>>

\* spread_subproblem_2d: subproblem k on its own subgrid, du0.
Subgrid(k) ==
  LET bx == Box(k, 1)
      by == Box(k, 2)
      Hit(c) == {p \in SubPoints(k) : c[1] - (First(p, 1) - bx[1]) \in 0..(NS - 1)
                                   /\ c[2] - (First(p, 2) - by[1]) \in 0..(NS - 1)}
  IN  [off |-> <<bx[1], by[1]>>, size |-> <<bx[2], by[2]>>,
       val |-> [c \in (0..(bx[2] - 1)) \X (0..(by[2] - 1)) |->
                  SumOver(Hit(c), [p \in Hit(c) |-> Strength[p]])]]

\* Where add_wrapped_subgrid puts column dx: the nlo columns below the grid and
\* the nhi above it come back at the other end.
WrapX(g, dx) ==
  LET reach == g.off[1] + g.size[1]
      nlo == IF g.off[1] < 0 THEN -g.off[1] ELSE 0
      nhi == IF reach > N1 THEN reach - N1 ELSE 0
  IN  IF dx < nlo THEN dx + g.off[1] + N1
      ELSE IF dx < g.size[1] - nhi THEN dx + g.off[1]
      ELSE dx + g.off[1] - N1

\* The wrapped row list o2: y runs on from the offset, brought back by one
\* period whenever it leaves the grid.
WrapY(g, r) ==
  LET Back(y) == IF y < 0 THEN y + N2 ELSE IF y >= N2 THEN y - N2 ELSE y
      o2[j \in 0..r] == Back(IF j = 0 THEN g.off[2] ELSE o2[j - 1] + 1)
  IN  o2[r]

\* Row r of subgrid g added to the values of a row of the grid.
AddRow(g, r, row) ==
  [x \in Xs |->
     LET cols == {dx \in 0..(g.size[1] - 1) : WrapX(g, dx) = x}
     IN  row[x] + SumOver(cols, [dx \in cols |-> g.val[<<dx, r>>]])]

GridRow(y) == [x \in Xs |-> grid[<<x, y>>]]

\* The grid with row y replaced.
SetRow(y, row) == [c \in Xs \X Ys |-> IF c[2] = y THEN row[c[1]] ELSE grid[c]]

SpreadInit ==
  /\ Init
  /\ grid = [c \in Xs \X Ys |-> 0]
  /\ isub = 0
  /\ at = [t \in Threads |-> "idle"]
  /\ du0 = [t \in Threads |-> <<>>]
  /\ dy = [t \in Threads |-> 0]
  /\ acc = [t \in Threads |-> [x \in Xs |-> 0]]
  /\ done = FALSE

-----------------------------------------------------------------------------

\* Take the next subproblem: copy its points and spread them privately.
Take(t) ==
  /\ sorted /\ ~done
  /\ at[t] = "idle" /\ isub < nb
  /\ du0' = [du0 EXCEPT ![t] = Subgrid(isub)]
  /\ isub' = isub + 1
  /\ dy' = [dy EXCEPT ![t] = 0]
  /\ at' = [at EXCEPT ![t] = "merge"]
  /\ UNCHANGED <<sortVars, grid, acc, done>>

Atomic == nthr > AtomicThreshold

\* After the last row the thread is done with its subproblem.
NextRow(t, more) ==
  /\ dy' = [dy EXCEPT ![t] = @ + 1]
  /\ at' = [at EXCEPT ![t] = IF dy[t] + 1 < du0[t].size[2] THEN more ELSE "idle"]

\* omp atomic: each addition is indivisible, so a whole row may be.
AddAtomic(t) ==
  /\ at[t] = "merge" /\ Atomic
  /\ LET y == WrapY(du0[t], dy[t])
     IN  grid' = SetRow(y, AddRow(du0[t], dy[t], GridRow(y)))
  /\ NextRow(t, "merge")
  /\ UNCHANGED <<sortVars, isub, du0, acc, done>>

\* Variant: no critical section.
NoLock == TRUE

\* omp critical: one thread inside.
CriticalFree == \A u \in Threads : at[u] \notin {"critical", "loaded"}

Enter(t) ==
  /\ at[t] = "merge" /\ ~Atomic
  /\ CriticalFree
  /\ at' = [at EXCEPT ![t] = "critical"]
  /\ UNCHANGED <<sortVars, grid, isub, du0, dy, acc, done>>

\* Without atomics an addition is a load ...
Load(t) ==
  /\ at[t] = "critical"
  /\ acc' = [acc EXCEPT ![t] = GridRow(WrapY(du0[t], dy[t]))]
  /\ at' = [at EXCEPT ![t] = "loaded"]
  /\ UNCHANGED <<sortVars, grid, isub, du0, dy, done>>

\* ... and a store.
Store(t) ==
  /\ at[t] = "loaded"
  /\ grid' = SetRow(WrapY(du0[t], dy[t]), AddRow(du0[t], dy[t], acc[t]))
  /\ NextRow(t, "critical")
  /\ UNCHANGED <<sortVars, isub, du0, acc, done>>

\* The end of the parallel region: every subproblem taken, every thread idle.
Join ==
  /\ sorted /\ ~done
  /\ isub = nb /\ \A t \in Threads : at[t] = "idle"
  /\ done' = TRUE
  /\ UNCHANGED <<sortVars, grid, isub, at, du0, dy, acc>>

SpreadThread(t) == Take(t) \/ AddAtomic(t) \/ Enter(t) \/ Load(t) \/ Store(t)

Sort == SortNext /\ UNCHANGED spreadVars

Next == Sort \/ Join \/ \E t \in Threads : SpreadThread(t)

\* Every thread of a team runs.
Spec ==
  /\ SpreadInit /\ [][Next]_vars
  /\ WF_vars(SerialSort /\ UNCHANGED spreadVars)
  /\ WF_vars(EndSort /\ UNCHANGED spreadVars) /\ WF_vars(Join)
  /\ \A t \in 0..(MaxThreads - 1) :
       /\ WF_vars(t \in Team /\ SortThread(t) /\ UNCHANGED spreadVars)
       /\ WF_vars(t \in Threads /\ SpreadThread(t))

-----------------------------------------------------------------------------
(* Properties *)

\* Types of the state.
TypeOK ==
  /\ M \in 1..MaxM /\ nthr \in 1..MaxThreads
  /\ step \in [Team -> 0..Left]
  /\ counts \in [Team -> [Bins -> 0..M]]
  /\ sortIndices \in [Points -> Points \cup {Unset}]
  /\ grid \in [Xs \X Ys -> Nat]
  /\ isub \in 0..nb
  /\ at \in [Threads -> {"idle", "merge", "critical", "loaded"}]

\* The periodic sum the transform is defined by: each point once, in each cell
\* its kernel covers.
Covers(p, c) ==
  /\ \E d \in 0..(NS - 1) : (First(p, 1) + d) % N1 = c[1]
  /\ \E d \in 0..(NS - 1) : (First(p, 2) + d) % N2 = c[2]

DirectSum(c) ==
  LET hit == {p \in Points : Covers(p, c)} IN SumOver(hit, [p \in hit |-> Strength[p]])

\* Whatever thread spread which subproblem, and whether the additions were
\* locked or atomic, the grid finally holds each gathered sample exactly once in
\* every cell of its kernel: no update of the shared grid is lost, and none of
\* a subgrid that crosses the edge lands elsewhere.
SpreadIsSum == done => \A c \in Xs \X Ys : grid[c] = DirectSum(c)

\* Every call returns: no barrier waits for a thread that has left, and no
\* thread waits for good for the critical section.
SpreadReturns == <>done
=============================================================================
