SPECIFICATION Spec
CONSTANTS
  Requests <- MCSupported
  MaxDepth = 12
INVARIANT TypeOK
INVARIANT Arrived
INVARIANT RightMode
INVARIANT RefusesOnlyGuestToHostUser
INVARIANT SwitchInv
PROPERTY GotoPrivEnds
CHECK_DEADLOCK FALSE
