SPECIFICATION Spec
CONSTANTS
  s1 = s1
  c1 = c1
  c2 = c2
  Sessions <- OneSession
  Cancels <- TwoCancels
  Kinds <- AllKinds
  NaturalStatus <- OnlyComplete
  CancelStatus <- CancelMix
  ResultIds <- NoId
  Deadlines <- AllDeadlines
  SilentBackend = FALSE
  MaxMsgs = 0
  MaxSeq = 0
  MaxFaults = 1
  MaxLeaves = 1
  MaxStops = 2
  MaxServes = 1
INVARIANTS
  RegistryMatchesHandlers
  CancelFiresOnce
  RowsAreSettled
  VerdictTellsWhoStopped
PROPERTIES
  ImplementsLifecycle
CHECK_DEADLOCK FALSE
SYMMETRY Symmetry
