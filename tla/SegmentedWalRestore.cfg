SPECIFICATION Spec
CONSTANTS
  Write = {w1, w2}
  MaxSegment = 2
  KeepNewest = FALSE
  Torn = Torn
  MaxCrashes = 0
SYMMETRY Symmetry
CHECK_DEADLOCK FALSE
INVARIANTS
  RestoreIsExact
