CONSTANTS
  Requests = {r1, r2}
  Durations = {0, 1, 2}
  MaxPauses = 3
SPECIFICATION Spec
INVARIANT RetriesInTime
CHECK_DEADLOCK FALSE
