SPECIFICATION Spec
CONSTANTS
  Coordinates = {0}
  Parts = {260}
  SkinTokens = {258, 267}
  MaxBeams = 1
  MaxTokens = 9
  MaxJoints = 1
INVARIANTS
  CodesAreFSQ
CHECK_DEADLOCK FALSE
