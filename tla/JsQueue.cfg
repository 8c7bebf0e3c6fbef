SPECIFICATION Spec
CONSTANTS
  ada = ada
  bob = bob
  MaxBatch = 2
  BatchSize = 2
  MaxQueueSize = 2
  MaxRetries = 1
  RequeueFailedEvents = TRUE
  ThrowOnError = FALSE
  PersistQueue = TRUE
  Customs <- NoUser
  LegacyStorage = FALSE
  MayShutDown = FALSE
  MaxEvents = 5
  MaxResets = 0
  MaxFlushes = 1
  MaxCrashes = 1
INVARIANTS TypeOK QueueOrder HeldBounded QueueStored EventsAccounted NoStrandedQueue
PROPERTY ImplementsDelivery
CHECK_DEADLOCK FALSE
