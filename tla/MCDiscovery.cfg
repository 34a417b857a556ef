SPECIFICATION FairSpec
CONSTANTS
  NumSlots = 4
  MaxTries = 3
  a = a
  b = b
  c = c
  bad = bad
  s1 = s1
  s2 = s2
  Labels = {a, b, c, bad}
  PortNumbers = {1, 2}
  Serials = {s1, s2}
  Decode <- MCDecode
  Unparsable = Unparsable
  NoPort = NoPort
  Unread = Unread
INVARIANTS
  TypeOK
  BacktrackUnreachable
  EntriesUnique
  FirstPortAnchors
  ContiguousPorts
PROPERTIES
  ScanEnds
  PrefixSpec
CHECK_DEADLOCK FALSE
