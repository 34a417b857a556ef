SPECIFICATION FairSpec
CONSTANTS
  Serials <- MCSerials
  Inventory <- MCInventory
  NumPorts <- MCNumPorts
  Choices <- MCChoices
  MaxReadRegisters = 125
  MaxPasses = 2
INVARIANT AgeBoundsParameters
CHECK_DEADLOCK FALSE
