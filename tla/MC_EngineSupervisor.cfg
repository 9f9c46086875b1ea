SPECIFICATION Spec
CONSTANTS
  Procs = {p1, p2}
  NoProc = NoProc
  Runs = {r1, r2}
  NoRun = NoRun
  Quit = Quit
  MaxAttempts = 1
  MaxMisses = 3
  MaxRestarts = 1
  MaxCrashes = 1
  MaxHangs = 3
CONSTRAINT Followed
INVARIANTS TypeOK SecondEngineExplained QuitSticks ReadyIsWatched
PROPERTIES FailedIsTornDown StartSettles DeadEngineNoticed
CHECK_DEADLOCK FALSE
