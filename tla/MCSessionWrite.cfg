SPECIFICATION FairSpec
CONSTANTS
  Number <- MCNumber
  TrueWords <- MCTrueWords
  FalseWords <- MCFalseWords
  StatusNames <- MCStatusNames
  Lines <- MCLines
  Layouts <- MCLayouts
  Serials <- MCSerials
  Garbage <- MCGarbage
  DtuAddress = 1
INVARIANT WritesReachChosen
CHECK_DEADLOCK FALSE
