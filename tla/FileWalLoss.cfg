SPECIFICATION Spec
CONSTANTS
  Write = {w1, w2}
  Policies = {1}
  RecoverOnOpen = FALSE
  Torn = Torn
  MaxCrashes = 1
SYMMETRY Symmetry
CHECK_DEADLOCK FALSE
INVARIANTS
  AckedSurvive
