SPECIFICATION Spec
CONSTANTS
  w1 = w1
  w2 = w2
  r1 = r1
  r2 = r2
  None = None
  Topics = {w1, w2}
  Intents = {"WASTE", "CERT"}
  IntentOf <- MCIntentOf
  Certificate = "CERT"
  Waste = "WASTE"
  CancelTopic = w2
  Offers <- MCOffers
  Regions = {}
  Questions <- ReplayQuestions
  Calls = {a1, a2, a3}
  Keys = {k1, k2}
  Changes = 0
SYMMETRY Symmetry
INVARIANT ReplayPreservesTopic
CHECK_DEADLOCK FALSE
