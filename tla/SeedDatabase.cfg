SPECIFICATION Spec
CONSTANTS
  None = None
  Author = "author"
  Reviewer = "pm"
  KbIds <- MCKbIds
  OfficeIds <- MCOfficeIds
  Intents <- MCIntents
  IntentOf <- MCIntentOf
  Withheld = 2
  Refused <- MCRefused
  Hosts = {"gov"}
  MapHosts = {"map"}
  Personal = {9}
  Commands = {c1}
  Appliers = {a1}
  Citizens = {w1}
  Pinned <- MCPinned
  PinnedMatrix <- MCPinnedMatrix
  Version = "v1"
  Submitted = "noon"
  Variants <- MCVariants
  MaxEdits = 1
  Checkouts <- MCCheckouts
INVARIANTS
  SeedIsReviewed
  EventsHaveSources
PROPERTY
  ReviewLostOnlyInRace
CHECK_DEADLOCK FALSE
