SPECIFICATION Spec
CONSTANTS
  Plans <- InPlace
  MaxFaults = 1
  MaxCrashes = 1
  MaxTampers = 0
INVARIANTS FailureHasCause
CHECK_DEADLOCK FALSE
