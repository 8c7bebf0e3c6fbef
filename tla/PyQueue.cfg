SPECIFICATION Spec
CONSTANTS
  t1 = t1
  t2 = t2
  ada = ada
  MaxBatch = 2
  BatchSize = 2
  MaxQueueSize = 2
  MaxRetries = 1
  RequeueFailedEvents = TRUE
  ThrowOnError = FALSE
  PersistQueue = TRUE
  BodiesBreak = FALSE
  Threads <- TwoThreads
  Customs <- NoUser
  Leftover = 0
  MaxTimers = 2
  MaxEvents = 3
  MaxAnons = 1
  MaxCrashes = 1
SYMMETRY SameThreads
INVARIANTS TypeOK QueueOrder OneDrain EventsAccounted NoStrandedQueue
PROPERTY ImplementsDelivery
CHECK_DEADLOCK FALSE
