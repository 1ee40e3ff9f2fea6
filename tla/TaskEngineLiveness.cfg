\* Answers and events as long as no loop dies of a critical error.  No symmetry:
\* the properties are temporal.
SPECIFICATION FairSpec
CONSTANTS
  r1 = r1
  r2 = r2
  r3 = r3
  t1 = t1
  t2 = t2
  t3 = t3
  w1 = w1
  Requests = {r1, r2}
  Tasks = {t1}
  Mutations <- LifecycleMutations
  MaxGen = 2
  MaxQueueSizes = {0, 1}
  ObserverQueueSize = 1
  InitialRows <- LifecycleRows
  PlanTasks = {}
  DerivedTasks = {}
  Writers = {}
  Faults = {"db_error", "drain_timeout", "stop_aborted"}
  NoRequest = NoRequest
  Sentinel = Sentinel
INVARIANTS
  DeliveredInCommitOrder
  SingleDispatcher
PROPERTIES
  EveryRequestAnswered
  StopTerminates
CHECK_DEADLOCK FALSE
