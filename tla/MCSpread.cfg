CONSTANTS
  MaxM = 4
  MaxThreads = 3
  N1 = 4
  N2 = 4
  Strength <- MCStrength
  Places <- MCPlaces
  BinX = 4
  BinY = 2
  SortDensity = 9
  NS = 2
  MaxSubproblem = 2
  SparseFactor = 6
  AtomicThreshold = 2
SPECIFICATION Spec
INVARIANTS
  NoSortRace
  StableByBin
  SpreadIsSum
PROPERTIES
  SpreadReturns
CHECK_DEADLOCK FALSE
