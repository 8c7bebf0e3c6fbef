SPECIFICATION Spec
CONSTANTS
  ada = ada
  bob = bob
  MaxBatch = 2
  BatchSize = 2
  MaxQueueSize = 2
  MaxRetries = 0
  RequeueFailedEvents = TRUE
  ThrowOnError = FALSE
  PersistQueue = TRUE
  Customs <- NoUser
  LegacyStorage = FALSE
  MayShutDown = FALSE
  MaxEvents = 3
  MaxResets = 0
  MaxFlushes = 0
  MaxCrashes = 0
INVARIANT UnsentEventsStored
CHECK_DEADLOCK FALSE
