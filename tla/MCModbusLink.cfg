SPECIFICATION FairSpec
CONSTANTS
  Requests <- MCRequests
  Unit = 1
  OtherUnit = 2
  InitialMapping <- MCMapping
  OtherMapping <- MCOther
  MaxCalls = 2
  MaxFaults = 1
INVARIANTS
  TypeOK
  NothingLeft
PROPERTIES
  MemorySpec
  ListensAgain
CHECK_DEADLOCK FALSE
