SPECIFICATION ViewsSpec
CONSTANTS
  claim = claim
  derived = derived
  brief = brief
  person = person
  press = press
  analyst = analyst
  cause = cause
  effect = effect
  NoAgent = NoAgent
  AtomId = {claim, derived, brief}
  Entity = {person}
  SourceId = {press}
  Agent = {analyst}
  EventId = {cause, effect}
  Claims <- MCClaims
  Conflicts <- MCConflicts
  Revised <- MCRevised
  Links <- MCLinks
  Causes <- MCCauses
  Trust = {full, low}
  FullTrust = full
  MaxEvents = 3
  MaxTime = 2
CHECK_DEADLOCK FALSE
PROPERTIES
  BeliefChangesRecorded
