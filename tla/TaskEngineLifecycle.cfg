\* Three callers, every failure, two generations of the loops.
SPECIFICATION Spec
CONSTANTS
  r1 = r1
  r2 = r2
  r3 = r3
  t1 = t1
  t2 = t2
  t3 = t3
  w1 = w1
  Requests = {r1, r2, r3}
  Tasks = {t1}
  Mutations <- LifecycleMutations
  MaxGen = 2
  MaxQueueSizes = {2}
  ObserverQueueSize = 1
  InitialRows <- LifecycleRows
  PlanTasks = {}
  DerivedTasks = {}
  Writers = {}
  Faults = {"db_error", "late_error", "critical", "drain_timeout", "stop_aborted", "caller_cancelled"}
  NoRequest = NoRequest
  Sentinel = Sentinel
SYMMETRY RequestSymmetry
INVARIANTS
  TypeOK
  SingleWriter
  NoStrandedFuture
  NoLostUpdate
PROPERTIES
  Linearizable
CHECK_DEADLOCK FALSE
