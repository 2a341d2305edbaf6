SPECIFICATION Spec
CONSTANTS
  DID_MIN = 1
  DID_MAX = 2
  Devices <- MCDevices
  Calls <- MCCalls
  Requests <- MCRequests
  MaxId = 2
  ReadOrder <- MCReadOrder
INVARIANTS ContextInv WholeContexts
PROPERTIES ImplementsAtomicCalls Returns
CHECK_DEADLOCK FALSE
