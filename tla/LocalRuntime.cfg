SPECIFICATION FairSpec
CONSTANTS
  r1 = r1
  r2 = r2
  Startup = Startup
  Requests = {r1}
  Parts = 2
INVARIANTS
  ServedOnFreshCheck
  OpenOnlyWithJanitor
  FailureCloses
  PurgedBeforeServing
  UsersHavePool
PROPERTIES
  PurgedOrClosed
  ShutdownEnds
