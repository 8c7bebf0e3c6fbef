SPECIFICATION Spec
CONSTANTS
  ada = ada
  bob = bob
  MaxBatch = 2
  BatchSize = 2
  MaxQueueSize = 3
  MaxRetries = 0
  RequeueFailedEvents = FALSE
  ThrowOnError = TRUE
  PersistQueue = TRUE
  Customs <- NoUser
  LegacyStorage = FALSE
  MayShutDown = TRUE
  MaxEvents = 4
  MaxResets = 0
  MaxFlushes = 1
  MaxCrashes = 1
INVARIANTS EventsAccounted
PROPERTY ImplementsDelivery
CHECK_DEADLOCK FALSE
