CONSTANTS
  MaxEvents = 4
  MaxStrays = 1
  Extras = {"progress", "snapshot"}
  MayDie = TRUE
SPECIFICATION Spec
INVARIANTS TypeOK Gapless NothingForgotten QuietWhenDone
CHECK_DEADLOCK FALSE
