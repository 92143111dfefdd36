CONSTANT MaxOthers = 5
SPECIFICATION Spec
PROPERTY OwnerReturns
CHECK_DEADLOCK FALSE
