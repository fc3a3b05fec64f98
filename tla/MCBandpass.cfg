CONSTANTS
  NRec = 3
  NChan = 4
  Levels = {0, 1, 3}
  Tracks <- MCTracks
  BadSets <- MCBadSets
SPECIFICATION BandSpec
INVARIANTS
  FilledFromBelow
  SwitchesIndependent
CHECK_DEADLOCK FALSE
