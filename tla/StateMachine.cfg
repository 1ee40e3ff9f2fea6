\* Every graph of four states, the ones that leave a state undeclared, and the
\* task table.
SPECIFICATION Spec
CONSTANTS
  Machines <- AllMachines
INVARIANTS
  PathIsShortest
  NoneMeansUnreachable
  PathIsFirst
  ExitIsSound
  NoTaskIsStuck
CHECK_DEADLOCK FALSE
