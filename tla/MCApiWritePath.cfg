SPECIFICATION Spec
CONSTANTS
  e1 = e1
  s1 = s1
  a1 = a1
  text = text
  high = high
  Entity = {e1}
  Source = {s1}
  Assertion = {a1}
  CausalLink = {}
  Memory = {}
  Literal = {text}
  Confidence = {high}
  Open = Open
  Torn = Torn
  Client = {c1, c2}
  Requests <- MCRequests
  Key = {k1, k2}
  NoKey = NoKey
  Nobody = Nobody
  WriteErrors = TRUE
  MaxRequests = 3
  MaxCrashes = 1
CHECK_DEADLOCK FALSE
INVARIANTS
     AnsweredKeyNotRerun
  
PROPERTIES
   RequestsEnd
