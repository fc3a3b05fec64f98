CONSTANTS
  MaxLen = 5
  Amps = {0, 1, 2, 7}
  Thresh = 1
SPECIFICATION Spec
INVARIANTS
  TypeOK
  Aligned
  PrefixKept
  Compacted
  ReturnsClipped
CHECK_DEADLOCK FALSE
