SPECIFICATION Spec
CONSTANTS
  ada = ada
  bob = bob
  MaxBatch = 2
  BatchSize = 2
  MaxQueueSize = 2
  MaxRetries = 1
  RequeueFailedEvents = TRUE
  ThrowOnError = FALSE
  PersistQueue = FALSE
  Customs <- OneUser
  LegacyStorage = FALSE
  MayShutDown = FALSE
  MaxEvents = 1
  MaxResets = 1
  MaxFlushes = 1
  MaxCrashes = 0
INVARIANT PairsAsIdentified
CHECK_DEADLOCK FALSE
