\* Two workers, one claim published up to twice, three deliveries of each
\* message: one per hop to completed, and the default of max_deliver.
SPECIFICATION FairSpec
CONSTANTS
  w1 = w1
  w2 = w2
  Workers = {w1, w2}
  MaxClaims = 1
  MaxAttempts = 2
  MaxDeliver = 3
  Decisions <- PeopleDecide
  FaultSets <- Environments
INVARIANTS
  AckedIsAccounted
  NoOrphan
  NeverSilentlyLost
PROPERTIES
  MessagesSettle
CHECK_DEADLOCK FALSE
