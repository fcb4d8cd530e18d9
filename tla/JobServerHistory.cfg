SPECIFICATION Spec
CONSTANTS
  Jobs = {j1}
  NoJob = none
  QueueLimit = 1
  MaxCrashes = 1
  DiskFails = FALSE
INVARIANTS
  PersistentHistory
CHECK_DEADLOCK FALSE
