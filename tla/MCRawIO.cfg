CONSTANTS
  NFile = 2
  HaveIdx = TRUE
  TimeWords = 2
  SliceWords = 3
  TSlice = 5
  Stamps = {100, 101}
  Lengths = {2, 5, 6, 11, 12}
  MaxSlice = 1
  MaxReads = 2
SPECIFICATION FairRawSpec
INVARIANTS
  AnchoredByContent
  ReadsTheSlice
PROPERTY ReadReturns
CHECK_DEADLOCK FALSE
