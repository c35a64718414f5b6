SPECIFICATION Spec
CONSTANTS
  Handlers = {h1, h2}
  Failures = {f1, f2}
  Candidates = {c1, c2}
  Operators = {op, both}
  Approvers = {both}
  OtherReasons = {"PERSONAL_LOOKUP"}
  Nobody = Nobody
SYMMETRY Symmetry
INVARIANTS
  AuditExplainsState
  PublishedByTwo
  OneCandidatePerFailure
  ReservedIdentity
PROPERTIES
  DecisionsAreFinal
CHECK_DEADLOCK FALSE
