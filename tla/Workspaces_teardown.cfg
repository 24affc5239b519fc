CONSTANTS
  MaxAttempts = 2
  MaxCrashes = 1
  TransientRetryLimit = 1
SPECIFICATION FairSpec
PROPERTIES FailedTeardownRetried
CHECK_DEADLOCK FALSE
