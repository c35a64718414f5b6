SPECIFICATION Spec
CONSTANTS
  c1 = c1
  c2 = c2
  c3 = c3
  w1 = w1
  w2 = w2
  Calls = {c1, c2}
  Responses = {w1}
  Details = {"plain"}
  Texts <- MCTexts
  Masked <- MCMasked
  Altered <- MCAltered
  Unresolved = Unresolved
  NoText = NoText
  NoRow = NoRow
  Nobody = Nobody
  Retention = 2
  Limit = 1
  Earlier = {}
  Horizon = 3
  Watched = FALSE
INVARIANTS
  RepeatIsRecorded
CHECK_DEADLOCK FALSE
