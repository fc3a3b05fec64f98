SPECIFICATION Spec
INVARIANT PsfHasUnitPeak
CHECK_DEADLOCK FALSE
