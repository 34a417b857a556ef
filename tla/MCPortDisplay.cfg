SPECIFICATION Spec
CONSTANTS
  NumPorts = 3
  Microinverters <- MCMicroinverters
  Model <- MCModel
  Readings <- MCReadings
  Common <- MCCommon
  AskedLists <- MCAskedLists
  AllParameters = TRUE
  Energies <- MCOneRegister
  RegisterBase = 65536
INVARIANTS
  OneCurrent
  HmKeepsItsScale
  LinesAsAsked
  TotalNotAhead
PROPERTY TotalNeverFalls
