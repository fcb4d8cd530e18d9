SPECIFICATION Spec
CONSTANTS
  SkinTokens = {267, 33034}
  Skeleton <- SmallSkeleton
  MaxJoints = 2
  MaxBeams = 3
  TokenLimit = 4
INVARIANTS
  ResultComplete
PROPERTIES
  BeamsFill
  ImplementsBeamSearch
  Terminates
CHECK_DEADLOCK FALSE
