\* A follower waits for a leader that fails, and another payload takes the key.
SPECIFICATION Spec
CONSTANTS
  MaxCalls = 3
  Ttl = 2
  MaxTime = 1
  Fingerprints = {"a", "b"}
  NoFingerprint = "none"
  MaxRetries = 1
INVARIANTS
  ReplayMatchesPayload
CHECK_DEADLOCK FALSE
