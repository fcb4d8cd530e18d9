SPECIFICATION Spec
CONSTANTS
  Revisions = {r1, r2}
  Patches = {p1, p2, bad}
  Broken = {bad}
  MaxPatches = 2
  HasGit = TRUE
  MaxKills = 2
  KilledWhileRemoving = FALSE
INVARIANTS
  BuildsPrepared
  NestedFollows
  IInv
PROPERTIES
  Reuses
