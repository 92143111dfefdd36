CONSTANTS
  Limit = 2
  MaxCalls = 6
  AnyKeys = {1, 2}
  Priorities = {0, 1, 2}
  Waits = {0, 1, 2}
SPECIFICATION Spec
INVARIANTS SuitePasses SameContent
