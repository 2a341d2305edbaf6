SPECIFICATION Spec
CONSTANTS
  Requests <- MCEvery
  MaxDepth = 12

PROPERTY GotoPrivEnds
CHECK_DEADLOCK FALSE
