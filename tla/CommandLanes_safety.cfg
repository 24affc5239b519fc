CONSTANTS
  t1 = t1
  e1 = e1
  e2 = e2
  turn = turn
  moved = moved
  stop = stop
  archive = archive
  unarchive = unarchive
  read = read
  write = write
  None = None
  Thread = {t1}
  Env = {e1, e2}
  Cmd = {turn, moved, stop, archive, unarchive, read}
  Kind <- KindOfCmd
  ThreadOf <- ThreadOfCmd
  EnvOf <- EnvOfCmd
SPECIFICATION FairSpec
INVARIANTS TypeOK WritesAlone OneAtATime TurnsInOrder NoLaneLeft
PROPERTIES EveryCommandEnds
CHECK_DEADLOCK FALSE
