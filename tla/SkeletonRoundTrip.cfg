SPECIFICATION Spec
CONSTANTS
  n1 = n1
  n2 = n2
  n3 = n3
  n4 = n4
  None = None
  Nodes <- MCNodes
  Files <- MCFiles
  Places <- MCPlaces
  Coordinates = {0, 126, 128, 255}
  Parts = {260}
  MaxJoints = 4
INVARIANTS
  ParentsFirst
  CycleIsReal
  TokenizerSpeaksGrammar
  RoundTrip
PROPERTIES
  OrderKept
  Terminates
CHECK_DEADLOCK FALSE
