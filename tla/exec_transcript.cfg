SPECIFICATION Spec
CONSTANTS
  s1 = s1
  c1 = c1
  c2 = c2
  Sessions <- OneSession
  Cancels <- NoCancel
  Kinds <- AllKinds
  NaturalStatus <- OddNatural
  CancelStatus <- Production
  ResultIds <- AnyId
  Deadlines <- PumpDeadlines
  SilentBackend = TRUE
  MaxMsgs = 2
  MaxSeq = 2
  MaxFaults = 1
  MaxLeaves = 1
  MaxStops = 0
  MaxServes = 0
INVARIANTS
  WireFollowsLog
  TranscriptIsFramed
  MessagesConserved
  ResumePointerKept
CHECK_DEADLOCK FALSE
