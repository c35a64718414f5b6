SPECIFICATION Spec
CONSTANTS
  r1 = r1
  r2 = r2
  Startup = Startup
  Requests = {r1, r2}
  Parts = 2
INVARIANTS
  LatchHolds
