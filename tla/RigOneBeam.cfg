SPECIFICATION Spec
CONSTANTS
  Coordinates = {0}
  Parts = {260}
  SkinTokens = {258}
  MaxBeams = 1
  MaxTokens = 19
  MaxJoints = 2
INVARIANTS
  CodesComplete
  ReaderAgrees
PROPERTIES
  Terminates
CHECK_DEADLOCK FALSE
