CONSTANTS
  Job = {1, 2}
  NoJob = NoJob
  MaxPlate = 2
  MaxEdits = 2
  MaxCancels = 1
SPECIFICATION OutSpec
INVARIANTS OutputIsCurrent HandlesOwned
CHECK_DEADLOCK FALSE
