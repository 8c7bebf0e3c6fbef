SPECIFICATION FairSpec
CONSTANTS
  Singles = {i1}
  Drain = drain
  Chunks = 2
  MaxRetries = 2
  RetryDelay = 1
  RequeueFailedEvents = TRUE
  Answers <- ContractAnswers
  Throws <- Callbacks
INVARIANTS TypeOK OncePerSuccess RefusalsEnd Patience
PROPERTIES DropsAreRefusals ChunksSettle
CHECK_DEADLOCK FALSE
