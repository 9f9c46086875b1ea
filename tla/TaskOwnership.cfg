SPECIFICATION Spec
CONSTANTS
  NTasks = 2
  Fresh = {2}
  Foreign = {3}
  MaxFaults = 1
INVARIANTS TypeOK NeverReturns LiveIsOwned
PROPERTIES EverythingEnds
CHECK_DEADLOCK FALSE
