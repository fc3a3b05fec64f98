SPECIFICATION Spec
INVARIANTS
  SuccessIsComplete
  OldKeptUntilImaged
  CutAtOnePlace
CHECK_DEADLOCK FALSE
