CONSTANTS
  Requests = {r1, r2, r3}
  MaxFailures = 2
SPECIFICATION FairSpec
INVARIANTS TypeOK OneRoundLaunches NoTriggerLost OkWasScanned
PROPERTY EveryTriggerScanned
CHECK_DEADLOCK FALSE
