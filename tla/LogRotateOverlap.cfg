CONSTANTS
  e1 = e1
  e2 = e2
  long = long
  typeA = typeA
  typeB = typeB
  Events = {e1, e2, long}
  Dirs = {typeA, typeB}
  DirOf <- MCDirOf
  Oversized = {long}
  Handlers = {h1}
  MaxUploadAttempt = 2
  Apart = FALSE
  MaxDuplicates = 1
  MaxFailures = 0
SPECIFICATION Spec
INVARIANT RecordedIsKept
CHECK_DEADLOCK FALSE
