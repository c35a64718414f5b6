SPECIFICATION Spec
CONSTANTS
  r1 = r1
  r2 = r2
  a1 = a1
  a2 = a2
  v1 = v1
  Requests = {r1, r2}
  Viewers = {v1}
  Approvers = {a1, a2}
  Questions <- MCQuestions
  MaxQuestion = 8
  Retention = 1
  Horizon = 2
  Nobody = Nobody
  NULL = NULL
SYMMETRY MCSymmetry
INVARIANTS
  NothingSensitiveStored
  NothingExpiredShown
  ReviewIsStored
CHECK_DEADLOCK FALSE
