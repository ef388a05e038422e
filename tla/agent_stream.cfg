SPECIFICATION Spec
CONSTANTS
  Backends <- AllBackends
  MaxLines <- Lines
  Resumes <- NotResumed
  OutCap = 1
  InCap = 1
  PromptSize <- Prompts
  AnswerSize = 2
INVARIANTS
  ResultTellsWhy
  CompletedRunIsWhole
  OutputIsVouched
  NothingLeftBehind
PROPERTIES
  RunReports
CHECK_DEADLOCK FALSE
