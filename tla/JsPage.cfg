SPECIFICATION PageSpec
CONSTANTS
  SlowContext = TRUE
  MaxCalls = 4
  Hosts <- AllHosts
  Direct <- SomeCalls
  Home = a
  Routes = {a, b}
  MaxPushes = 2
INVARIANTS PageTypeOK IdentifiedFirst SameVisitorOrder JourneyUnbroken LastViewIsCurrent SnippetInOrder
PROPERTIES CallsReturn
CHECK_DEADLOCK FALSE
