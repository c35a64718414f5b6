SPECIFICATION FairSpec
CONSTANTS
  Requests = {r1, r2}
  Keys = {k1}
  Digests = {d1, d2}
  Nobody = Nobody
  Lease = 2
  TTL = 3
  MaxTime = 3
INVARIANTS
  RecordedOnce
  StoredWithEvent
  DurableAnswersAgree
  LeaseProtects
PROPERTIES
  OneCallerPerLease
  ImplementsOnceOnly
  EveryRequestEnds
CHECK_DEADLOCK FALSE
