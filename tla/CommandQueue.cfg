SPECIFICATION FairSpec
CONSTANTS
  iotinval = iotinval
  iofence = iofence
  fault = fault
  Commands <- MCCommands
  Illegal <- MCIllegal
  Fences <- MCFences
  blank = blank
  Blank = blank
  Entries = 4
  Window = 3
  Budget = 5
  SkipIllegal = TRUE
INVARIANTS TypeOK InOrder Accounting WaitingIntact NoSpuriousInterrupt QueueInv
PROPERTY ImplementsStream
PROPERTY Drains
CHECK_DEADLOCK TRUE
