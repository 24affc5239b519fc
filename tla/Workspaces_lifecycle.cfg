CONSTANTS
  MaxAttempts = 2
  MaxCrashes = 1
  TransientRetryLimit = 1
SPECIFICATION FairSpec
INVARIANTS TypeOK NoOverlap NothingLeaked AgentsKeepWorkspace
PROPERTIES CancelledStays CleanupEnds
CHECK_DEADLOCK FALSE
