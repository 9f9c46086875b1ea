SPECIFICATION Spec
CONSTANTS
  Tasks = {t1}
  Works = {w1}
  Runs = {r1, r2}
  NoRun = NoRun
  Grace = 1
INVARIANTS
  TypeOK
  GateOwned
PROPERTIES
  RequestIsSafe
  FullGrace
  OneShot
  GateOpensAgain
  PlanConcludes
