CONSTANTS
  MaxAnts = 4
  MaxSamps = 8
  Bands = {0, 1, 2, 3}
  Headers <- MCHeaders
  Masks <- MCMasks
  NFile = 2
  RecPerSlice = 2
  StartRec <- MCStartRec
  NRec <- MCNRec
  Track <- MCTrack
  MaxGroups = {0, 2, 3, 100}
  OnlyFiles <- MCOnlyFiles
SPECIFICATION Spec
INVARIANTS
  OneRowPerPair
  TwinsAgree
  DumpIsWhatIsImaged
CHECK_DEADLOCK FALSE
