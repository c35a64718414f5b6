SPECIFICATION Spec
CONSTANTS
  Requests = {r1, r2}
  Keys = {k1}
  Digests = {d1}
  Nobody = Nobody
  Lease = 2
  TTL = 4
  MaxTime = 3
INVARIANTS
  OneProviderCallPerKey
CHECK_DEADLOCK FALSE
