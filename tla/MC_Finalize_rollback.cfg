SPECIFICATION Spec
CONSTANTS
  Plans <- Replacing
  MaxFaults = 2
  MaxCrashes = 1
  MaxTampers = 0
INVARIANTS QuarantineHasCause
CHECK_DEADLOCK FALSE
