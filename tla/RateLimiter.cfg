CONSTANTS
  Requests = {r1, r2, r3}
  Durations = {0, 1, 2}
  MaxPauses = 3
SPECIFICATION FairSpec
INVARIANTS TypeOK ClosedOnce NobodyStranded
PROPERTIES PauseNotCutShort EveryRequestReturns
CHECK_DEADLOCK FALSE
