SPECIFICATION Spec
CONSTANTS
  Rotations <- MCRotations
  Identity <- MCIdentity
  Compose <- MCCompose
  Inverse <- MCInverse
  Vectors <- MCVectors
  Zero <- MCZero
  Plus <- MCPlus
  Minus <- MCMinus
  Turn <- MCTurn
  Scaled <- MCScaled
  Offsets <- MCOffsets
  ArmTurns <- MCArmTurns
  Frames = {0, 1}
  Clips <- MCClips
INVARIANTS
  ClipReplays
  FrameZeroIsBind
CHECK_DEADLOCK FALSE
