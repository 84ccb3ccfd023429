SPECIFICATION SaveSpec
CONSTANTS
  Players = {1, 2}
  MaxSaves = 2
  Alone = FALSE
CHECK_DEADLOCK FALSE
INVARIANT AcknowledgedStays
