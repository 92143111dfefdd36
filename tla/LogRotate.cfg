CONSTANTS
  e1 = e1
  e2 = e2
  long = long
  typeA = typeA
  typeB = typeB
  Events = {e1, e2, long}
  Dirs = {typeA, typeB}
  DirOf <- MCDirOf
  Oversized = {long}
  Handlers = {h1}
  MaxUploadAttempt = 2
  Apart = TRUE
  MaxDuplicates = 1
  MaxFailures = 2
SPECIFICATION FairSpec
INVARIANTS TypeOK RecordedIsKept UploadedOnce FlushedAtExit
PROPERTIES EveryEventUploaded
CHECK_DEADLOCK FALSE
