SPECIFICATION Spec
CONSTANTS
  Procs = {p1, p2}
  NoProc = NoProc
  Runs = {r1, r2}
  NoRun = NoRun
  Quit = Quit
  MaxAttempts = 2
  MaxMisses = 3
  MaxRestarts = 0
  MaxCrashes = 1
  MaxHangs = 0
PROPERTIES StartEnds
CHECK_DEADLOCK FALSE
