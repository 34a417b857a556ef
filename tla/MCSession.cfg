SPECIFICATION FairSpec
CONSTANTS
  Number <- MCNumber
  TrueWords <- MCTrueWords
  FalseWords <- MCFalseWords
  StatusNames <- MCStatusNames
  Lines <- MCLines
  Layouts <- MCLayouts
  Serials <- MCSerials
  Garbage <- MCGarbage
  DtuAddress = 1
INVARIANTS
  TypeOK
  SpellingsAgree
  TransportGiven
  PollsOnlyConnected
  WritesInOrder
PROPERTIES
  OneShotEnds
  PollsUntilKilled
CHECK_DEADLOCK FALSE
