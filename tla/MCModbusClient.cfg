SPECIFICATION FairSpec
CONSTANTS
  Settings <- MCSettings
  TidMod = 3
  MaxLate = 2
  MaxReadRegisters = 3
  Requests <- MCRequests
INVARIANTS
  TypeOK
  AnswersItsRequest
  InStepSuccess
  ConfirmedWriteExecuted
PROPERTIES
  CallReturns
  LagNeverShrinks
  BackInStep
