SPECIFICATION FairSpec
CONSTANTS
  Serials <- MCSerials
  Inventory <- MCInventory
  NumPorts <- MCNumPorts
  Choices <- MCChoices
  MaxReadRegisters = 125
  MaxPasses = 3
INVARIANTS
  TypeOK
  AgeBoundsStatuses
  FreshPrefix
  RequestsLegal
PROPERTY PassEnds
CHECK_DEADLOCK FALSE
