CONSTANTS
  NFile = 3
  RecPerSlice = 2
  Baselines = {0, 1, 2, 3}
  Autos = {0}
  StartRec <- MCStartRec
  NRec <- MCNRec
  Track <- MCTrack
  Disks <- MCDisks
  BAD = BAD
  DoCalib = TRUE
  DoFlag = TRUE
  Thresh = 2
  Threads = {t1, t2, t3}
SPECIFICATION FairSpec
INVARIANTS
  TypeOK
  Aligned
  NoDuplicates
  DiagnosticCountsGridded
PROPERTIES
  EarlierSlicesKept
  ImplementsGatherSpec
  Terminates
CHECK_DEADLOCK FALSE
