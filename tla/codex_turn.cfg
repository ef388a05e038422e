SPECIFICATION FairSpec
CONSTANTS
  Options <- BothWays
  Kinds <- TurnKinds
  ForeignKinds <- EndOnly
  Oversized = TRUE
  ActivityCap = 2
  MaxLines = 3
INVARIANTS
  EndIsTheChilds
  CompletionBeatsExit
  ResultIsLast
PROPERTIES
  NoProgressIsReal
  RunReports
CHECK_DEADLOCK FALSE
