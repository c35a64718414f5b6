SPECIFICATION FairSpec
CONSTANTS
  c1 = c1
  c2 = c2
  c3 = c3
  w1 = w1
  w2 = w2
  Calls = {c1, c2}
  Responses = {w1, w2}
  Details = {"phone A", "secret"}
  Texts <- MCTexts
  Masked <- MCMasked
  Altered <- MCAltered
  Unresolved = Unresolved
  NoText = NoText
  NoRow = NoRow
  Nobody = Nobody
  Retention = 1
  Limit = 1
  Earlier = {w2}
  Horizon = 1
  Watched = TRUE
INVARIANTS
  RecordedIsStored
  ConflictIsReal
  VoteIsStored
  ShownWasUnexpired
  ListCoversTotals
PROPERTIES
  FirstOpinionStays
  CallsEnd
CHECK_DEADLOCK FALSE
