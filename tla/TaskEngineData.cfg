\* Every mutation, fenced and unfenced, with plans and filed children beside the queue.
SPECIFICATION Spec
CONSTANTS
  r1 = r1
  r2 = r2
  r3 = r3
  t1 = t1
  t2 = t2
  t3 = t3
  w1 = w1
  Requests = {r1, r2}
  Tasks = {t1, t2, t3}
  Mutations <- DataMutations
  MaxGen = 1
  MaxQueueSizes = {0}
  ObserverQueueSize = 1
  InitialRows <- DataRows
  PlanTasks = {t1}
  DerivedTasks = {t2}
  Writers = {w1}
  Faults = {"db_error", "late_error"}
  NoRequest = NoRequest
  Sentinel = Sentinel
SYMMETRY RequestSymmetry
INVARIANTS
  AnswerTellsTruth
PROPERTIES
  StatusFollowsTable
  Linearizable
CHECK_DEADLOCK FALSE
