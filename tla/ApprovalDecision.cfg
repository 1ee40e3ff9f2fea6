\* Two deciders, two crashes, one clear of the cache.
SPECIFICATION FairSpec
CONSTANTS
  d1 = d1
  d2 = d2
  d3 = d3
  Deciders = {d1, d2}
  NoOne = NoOne
  MaxCrashes = 2
  MaxClears = 1
  Environments <- All
INVARIANTS
  OneDecision
  CacheAgrees
  NoStrandedDecision
  ResumedAsDecided
  OneGrant
PROPERTIES
  DecisionResumed
CHECK_DEADLOCK FALSE
