\* An observer drain that times out, and a restart.
SPECIFICATION Spec
CONSTANTS
  r1 = r1
  r2 = r2
  r3 = r3
  t1 = t1
  t2 = t2
  t3 = t3
  w1 = w1
  Requests = {r1}
  Tasks = {t1}
  Mutations <- LifecycleMutations
  MaxGen = 2
  MaxQueueSizes = {2}
  ObserverQueueSize = 1
  InitialRows <- LifecycleRows
  PlanTasks = {}
  DerivedTasks = {}
  Writers = {}
  Faults = {"drain_timeout"}
  NoRequest = NoRequest
  Sentinel = Sentinel
INVARIANTS
  RunningHasObserverLoop
CHECK_DEADLOCK FALSE
