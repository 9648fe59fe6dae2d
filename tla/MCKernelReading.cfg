INIT Init
NEXT Next
CONSTANTS
  claim = claim
  derived = derived
  brief = brief
  person = person
  other = other
  press = press
  analyst = analyst
  rain = rain
  flood = flood
  loss = loss
  NoAgent = NoAgent
  AtomId = {claim, derived, brief}
  Entity = {person, other}
  SourceId = {press}
  Agent = {analyst}
  EventId = {rain, flood, loss}
  Claims <- ReadClaims
  Conflicts <- ReadConflicts
  Revised = {"Accepted", "Retracted"}
  Detail <- ReadDetail
  Instant = {1, 2, 3}
  Pattern <- ReadPatterns
  Request <- ReadRequests
  KnownPredicates = {"ENTITY_NAME"}
  LowConfidence = 35
  StaleLag = 1
  SoundLinks = {}
  MaxSteps = 4
CHECK_DEADLOCK FALSE
INVARIANTS
  TracesAgree
  AnswersMatch
  ContextDeclaresGaps
  FullRunSeesAll
