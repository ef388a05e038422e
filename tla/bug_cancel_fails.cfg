SPECIFICATION Spec
CONSTANTS
  s1 = s1
  c1 = c1
  c2 = c2
  Sessions <- OneSession
  Cancels <- OneCancel
  Kinds <- AllKinds
  NaturalStatus <- OnlyComplete
  CancelStatus <- TestBackend
  ResultIds <- NoId
  Deadlines <- NoDeadlines
  SilentBackend = FALSE
  MaxMsgs = 1
  MaxSeq = 0
  MaxFaults = 0
  MaxLeaves = 1
  MaxStops = 0
  MaxServes = 0
INVARIANTS
  CancelIsNotAnError
CHECK_DEADLOCK FALSE
