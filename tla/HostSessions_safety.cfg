CONSTANTS
  Call = {c1}
  MaxTurns = 2
  MaxLosses = 2
  MaxDeaths = 1
SPECIFICATION FairSpec
INVARIANTS TypeOK OneOpenSession NoCallForgotten ServerAndDaemonAgree AwayIsTimed
PROPERTIES EventuallyOnline
CHECK_DEADLOCK FALSE
