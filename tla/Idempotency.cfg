\* Three calls for one key: a leader, its successor after a failure or an expiry,
\* and a follower; the clock runs past a lease.
SPECIFICATION FairSpec
CONSTANTS
  MaxCalls = 3
  Ttl = 1
  MaxTime = 2
  Fingerprints = {"a", "b"}
  NoFingerprint = "none"
  MaxRetries = 1
INVARIANTS
  LeaseProtects
  ReplayTellsTruth
PROPERTIES
  LeaseSpec
  EveryCallReturns
CHECK_DEADLOCK FALSE
