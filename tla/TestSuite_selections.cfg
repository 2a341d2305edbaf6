SPECIFICATION Spec
CONSTANTS
  Starts <- MCStarts
  LogLevel = 3
  CqEntries <- MCCqEntries
INVARIANTS TypeOK AllHold FailuresExplained SelfContainedPass OwnRecords VerdictsTruthful
PROPERTY Completes
CHECK_DEADLOCK FALSE
