SPECIFICATION Spec
CONSTANTS
  Starts <- MCPrompt
  LogLevel = 2
  CqEntries <- MCCqEntries
INVARIANT SummaryCounts
CHECK_DEADLOCK FALSE
