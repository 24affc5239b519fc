CONSTANTS
  Request = {r1, r2}
  Prompt = {p1}
  Answers = {yes, no}
  None = None
  MaxExits = 1
  MaxDeaths = 1
SPECIFICATION Spec
SYMMETRY Interchangeable
INVARIANTS TypeOK OneQuestion ToldAsRecorded PluginToldAsRecorded
PROPERTIES NothingReopens
CHECK_DEADLOCK FALSE
