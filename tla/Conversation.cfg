SPECIFICATION Spec
CONSTANTS
  w1 = w1
  w2 = w2
  r1 = r1
  r2 = r2
  None = None
  Topics = {w1, w2}
  Intents = {"WASTE", "CERT"}
  IntentOf <- MCIntentOf
  Certificate = "CERT"
  Waste = "WASTE"
  CancelTopic = w2
  Offers <- MCOffers
  Regions = {r1, r2}
  Questions <- TalkQuestions
  Calls = {a1, a2}
  Keys = {k1, k2}
  Changes = 1
SYMMETRY Symmetry
VIEW View
INVARIANTS
  GroundedWhileAsked
  ContextIsScreen
  OneAnswerPerQuestion
CHECK_DEADLOCK FALSE
