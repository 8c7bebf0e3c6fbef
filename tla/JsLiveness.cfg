SPECIFICATION FairSpec
CONSTANTS
  ada = ada
  bob = bob
  MaxBatch = 2
  BatchSize = 2
  MaxQueueSize = 2
  MaxRetries = 1
  RequeueFailedEvents = TRUE
  ThrowOnError = FALSE
  PersistQueue = TRUE
  Customs <- NoUser
  LegacyStorage = FALSE
  MayShutDown = FALSE
  MaxEvents = 3
  MaxResets = 1
  MaxFlushes = 1
  MaxCrashes = 1
PROPERTIES OldestOffered ResetReturns
CHECK_DEADLOCK FALSE
