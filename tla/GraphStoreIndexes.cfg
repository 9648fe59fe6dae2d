SPECIFICATION Spec
CONSTANTS
  Entity = {e1, e2}
  Source = {s1, s2}
  Assertion = {a1, a2}
  CausalLink = {l1}
  Memory = {m1, m2}
  Literal = {text}
  Confidence = {high}
  Open = Open
  StartTx = 1
  MaxEvents = 5
SYMMETRY Symmetry
CHECK_DEADLOCK FALSE
INVARIANTS
  ReplayRebuildsIndexes
