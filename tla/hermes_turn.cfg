SPECIFICATION Spec
CONSTANTS
  Options <- TwoRuns
  Configured <- AllServers
  Capabilities <- HttpOnly
  Offers <- OneOffer
  Turns <- Scripts
  OldNotes <- Past
  MaxOld = 1
  MaxAhead = 1
INVARIANTS
  HistoryStaysOut
  TurnIsShown
  ResultTellsWhy
PROPERTIES
  RunReports
CHECK_DEADLOCK FALSE
