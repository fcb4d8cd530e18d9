SPECIFICATION Spec
CONSTANTS
  Jobs = {j1, j2, j3}
  NoJob = none
  QueueLimit = 1
  MaxCrashes = 2
  DiskFails = FALSE
INVARIANTS
  RestartShowsTheSame
  TurnedAwayForgotten
PROPERTIES
  AcceptedSettles
  RequestAnswered
CHECK_DEADLOCK FALSE
