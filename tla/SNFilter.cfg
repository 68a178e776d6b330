SPECIFICATION MCSpec
CONSTANTS
  Recordings <- MCRecordings
  Window = 2
  Delays = {0, 2500}
  MaxKeys = 2
INVARIANTS FilteredRestored
CHECK_DEADLOCK FALSE
