SPECIFICATION Spec
CONSTANTS
  NumPorts = 3
  Microinverters <- MCMicroinverters
  Model <- MCModel
  Readings <- MCReadings
  Common <- MCCommon
  AskedLists <- MCNothingAsked
  AllParameters = TRUE
  Energies <- MCOneRegister
  RegisterBase = 65536
INVARIANT AllShown
