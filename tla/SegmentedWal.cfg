SPECIFICATION Spec
CONSTANTS
  Write = {w1, w2, w3, w4, w5, w6}
  MaxSegment = 2
  KeepNewest = TRUE
  Torn = Torn
  MaxCrashes = 2
SYMMETRY Symmetry
CHECK_DEADLOCK FALSE
INVARIANTS
  RestoreIsExact ReadIsContiguous ManifestIsPrefix
PROPERTIES
  ArchiveIsFinal NothingDestroyed
