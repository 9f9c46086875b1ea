SPECIFICATION Spec
CONSTANTS
  Procs = {p1, p2}
  NoProc = NoProc
  Runs = {r1, r2}
  NoRun = NoRun
  Quit = Quit
  MaxAttempts = 2
  MaxMisses = 3
  MaxRestarts = 1
  MaxCrashes = 0
  MaxHangs = 0
INVARIANTS OneEngine
CHECK_DEADLOCK FALSE
