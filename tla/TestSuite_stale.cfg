SPECIFICATION Spec
CONSTANTS
  Starts <- MCPrompt
  LogLevel = 3
  CqEntries <- MCCqEntries
INVARIANT TransfersFollowTables
CHECK_DEADLOCK FALSE
