CONSTANTS
  NFile = 2
  HaveIdx = FALSE
  TimeWords = 2
  SliceWords = 3
  TSlice = 5
  Stamps = {100, 101}
  Lengths = {2, 5, 6, 11, 12}
  MaxSlice = 1
  MaxReads = 2
SPECIFICATION RawSpec
INVARIANT ReadsTheSlice
CHECK_DEADLOCK FALSE
