SPECIFICATION FairSpec
CONSTANTS
  Calls = {c1, c2, c3, c4}
  ClassifierCap = 2
  GeneratorCap = 2
  CombinedCap = 3
  CostCap = 3
  ClassifierWorst = 1
  GeneratorWorst = 2
  Nobody = Nobody
INVARIANTS
  OneInFlight
  WithinCaps
  BillIsCovered
  AttemptPerCall
PROPERTIES
  EveryCallEnds
CHECK_DEADLOCK FALSE
