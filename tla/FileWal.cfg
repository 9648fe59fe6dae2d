SPECIFICATION Spec
CONSTANTS
  Write = {w1, w2, w3, w4, w5}
  Policies = {0, 1, 2, 3}
  RecoverOnOpen = TRUE
  Torn = Torn
  MaxCrashes = 3
SYMMETRY Symmetry
CHECK_DEADLOCK FALSE
INVARIANTS
  AckedSurvive AckedOnFile RiskBounded MemoryIsFile
PROPERTIES
  GoodRecordsStay
