SPECIFICATION Spec
CONSTANTS
  Coordinates = {0}
  Parts = {260}
  SkinTokens = {258, 267}
  MaxBeams = 2
  MaxTokens = 9
  MaxJoints = 1
INVARIANTS
  ParserNeverThrows
PROPERTIES
  ImplementsBeamSearch
CHECK_DEADLOCK FALSE
