SPECIFICATION FairSpec
CONSTANTS
  Contexts = {c1, c2}
  c1 = c1
  c2 = c2
  Programs <- MCPrograms
  Descriptors <- MCDescriptors
  Addresses = 2
  Bauds = {14400}
  MaxLost = 1
  MaxFaults = 2
  MaxSlips = 1
INVARIANTS
  TypeOK
  NothingLeaks
  OneOwner
  LineAsAgreed
PROPERTIES
  CallsEnd
