\* A listing beside two decisions.
SPECIFICATION Spec
CONSTANTS
  d1 = d1
  d2 = d2
  d3 = d3
  Deciders = {d1, d2}
  NoOne = NoOne
  MaxCrashes = 0
  MaxClears = 0
  Environments <- Listing
INVARIANTS
  FirstWriterWins
CHECK_DEADLOCK FALSE
