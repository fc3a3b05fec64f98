CONSTANTS
  N1 = 3
  N2 = 2
  Unit = 2
  NIter = 3
  Grain <- MCGrain
  Images <- MCImages
  Psfs <- MCPsfs
  Thresholds = {0, 1, 2}
SPECIFICATION Spec
INVARIANTS
  Conserved
PROPERTY PeakReduced
CHECK_DEADLOCK FALSE
