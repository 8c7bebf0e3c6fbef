SPECIFICATION Spec
CONSTANTS
  ada = ada
  bob = bob
  MaxBatch = 2
  BatchSize = 1
  MaxQueueSize = 2
  MaxRetries = 0
  RequeueFailedEvents = TRUE
  ThrowOnError = FALSE
  PersistQueue = FALSE
  Customs <- TwoUsers
  LegacyStorage = TRUE
  MayShutDown = FALSE
  MaxEvents = 1
  MaxResets = 2
  MaxFlushes = 0
  MaxCrashes = 1
SYMMETRY Users
INVARIANTS IdentityStored LoggedOut
CHECK_DEADLOCK FALSE
