SPECIFICATION Spec
CONSTANTS
  TokenIds = {t1, t2}
  Prefix <- Collision
  Requests = {q1, q2}
  Nobody = Nobody
  TouchesLost = TRUE
  MaxClock = 2
INVARIANTS
  AuthorizedByLiveToken
  TouchedOnlyByUse
PROPERTIES
  RevocationIsFinal
CHECK_DEADLOCK FALSE
SYMMETRY Symmetry
