SPECIFICATION Spec
CONSTANTS
  Starts <- Generations
  MaxTries = 2
  MaxFaults = 1
  NoFile = NoFile
  NoSession = NoSession
INVARIANTS OneHolder HolderNamed StaleHasGuard RefusalHasCause
CHECK_DEADLOCK FALSE
