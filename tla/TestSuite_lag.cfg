SPECIFICATION Spec
CONSTANTS
  Starts <- MCLagging
  LogLevel = 3
  CqEntries <- MCCqEntries
INVARIANT CqhWasIncremented
CHECK_DEADLOCK FALSE
