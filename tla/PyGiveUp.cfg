SPECIFICATION Spec
CONSTANTS
  t1 = t1
  t2 = t2
  ada = ada
  MaxBatch = 2
  BatchSize = 1
  MaxQueueSize = 3
  MaxRetries = 0
  RequeueFailedEvents = FALSE
  ThrowOnError = TRUE
  PersistQueue = TRUE
  BodiesBreak = TRUE
  Threads <- TwoThreads
  Customs <- OneUser
  Leftover = 3
  MaxTimers = 2
  MaxEvents = 4
  MaxAnons = 2
  MaxCrashes = 1
SYMMETRY SameThreads
INVARIANTS EventsAccounted OneDrain
CHECK_DEADLOCK FALSE
