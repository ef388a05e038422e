SPECIFICATION FairSpec
CONSTANTS
  s1 = s1
  c1 = c1
  c2 = c2
  Sessions <- OneSession
  Cancels <- OneCancel
  Kinds <- Text
  NaturalStatus <- OnlyComplete
  CancelStatus <- Production
  ResultIds <- NoId
  Deadlines <- AllDeadlines
  SilentBackend = FALSE
  MaxMsgs = 1
  MaxSeq = 0
  MaxFaults = 0
  MaxLeaves = 1
  MaxStops = 1
  MaxServes = 0
PROPERTIES
  CancelledStreamReturns
  FiredCancelSettles
  SignalledDaemonExits
CHECK_DEADLOCK FALSE
