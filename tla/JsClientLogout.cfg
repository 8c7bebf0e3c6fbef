SPECIFICATION Spec
CONSTANTS
  SlowContext = FALSE
  MaxCalls = 2
INVARIANT LogoutIsLast
CHECK_DEADLOCK FALSE
