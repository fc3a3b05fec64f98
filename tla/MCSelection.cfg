CONSTANTS
  NChan = 6
  CW = 1
  Integ = 2
  NFile = 2
  RecPerSlice = 3
  Latest = 24
  HalfWidths = {0, 1, 3}
  Widths = {0, 5}
  Bands <- MCBands
  Layouts <- MCLayouts
  Bursts <- MCBursts
SPECIFICATION Spec
INVARIANTS
  CoversWindow
  NeverAhead
  NoRangeOutsideWindow
  OnlyBurstChannels
  SweptImaged
  BurstImaged
  ImagedOnce
CHECK_DEADLOCK FALSE
