CONSTANTS
  Sizes = {5, 6}
  NFine = 8
  Turn = 6
  Coords <- MCCoords
  Sources <- MCSources
  MaxSamples = 2
SPECIFICATION ImageSpec
INVARIANTS SkyMatchesWcs PsfCentred DirtyIsMovedPsf PointsInRange
CHECK_DEADLOCK FALSE
