\* Three workspaces, two stops, two workers.
SPECIFICATION FairSpec
CONSTANTS
  MaxCalls = 3
  MaxStops = 2
  MaxGen = 2
  FaultSets <- Environments
INVARIANTS
  SerialFifo
  AnswerTellsTruth
  NoStrandedCaller
PROPERTIES
  EveryoneReturns
CHECK_DEADLOCK FALSE
