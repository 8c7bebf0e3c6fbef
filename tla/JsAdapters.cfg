SPECIFICATION FairSpec
CONSTANTS
  Setups <- Pairs
  MaxCalls = 3
INVARIANTS TypeOK Attributed VendorOrder FlushedOnReturn
PROPERTIES EveryVendorReached CallsSettle
CHECK_DEADLOCK FALSE
