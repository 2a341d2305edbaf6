SPECIFICATION FairSpec
CONSTANTS
  loadFault = loadFault
  storeFault = storeFault
  blank = blank
  Faults <- MCFaults
  Blank = blank
  Entries = 4
  Budget = 6
INVARIANTS TypeOK DeliveredInOrder EmptyIsTrue QueueInv
PROPERTY ImplementsLog
PROPERTY CallsDeliver
CHECK_DEADLOCK TRUE
