SPECIFICATION Spec
CONSTANTS
  Jobs = {j1, j2, j3}
  NoJob = none
  QueueLimit = 1
  MaxCrashes = 1
  DiskFails = TRUE
INVARIANTS
  NoOrphans
  ServedOnce
  DoneHasOutput
  TurnedAwayNeverRuns
PROPERTIES
  TerminalStays
  ImplementsHistory
CHECK_DEADLOCK FALSE
