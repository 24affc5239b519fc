CONSTANTS
  Call = {}
  MaxTurns = 1
  MaxLosses = 1
  MaxDeaths = 0
SPECIFICATION Spec
INVARIANTS FinishedIsCompleted
CHECK_DEADLOCK FALSE
