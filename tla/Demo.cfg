SPECIFICATION DemoSpec
CONSTANTS
  Jobs = {j1, j2}
  NoJob = none
  QueueLimit = 1
  MaxCrashes = 1
  DiskFails = FALSE
  MaxRequests = 2
INVARIANTS
  TrackedIsWatched
PROPERTIES
  TrackingKept
  SettlingNoticed
CHECK_DEADLOCK FALSE
