SPECIFICATION Spec
CONSTANTS
  Live = {1, 29, 30, 31}
  Values = {0, 1}
  MaxNesting = 2
INVARIANT TypeOK
INVARIANT TransparentBelowX30
INVARIANT TrapInv
CHECK_DEADLOCK TRUE
