SPECIFICATION Spec
CONSTANTS
  Devices <- MCDevices
  Pages <- MCPages
INVARIANTS DebugInv ResponseMatches TablesAgree
PROPERTIES NoAccidentalRequest Answered
