SPECIFICATION Spec
CONSTANTS
  NumPorts = 3
  Microinverters <- MCMicroinverters
  Model <- MCModel
  Readings <- MCReadings
  Common <- MCCommon
  AskedLists <- MCNothingAsked
  AllParameters = TRUE
  Energies <- MCTwoRegisters
  RegisterBase = 65536
PROPERTY TotalNeverFalls
