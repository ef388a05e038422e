SPECIFICATION Spec
CONSTANTS
  claude = claude
  codex = codex
  Agents <- TwoAgents
  Terminals <- OneEnd
  MaxConvs = 2
  MaxTurns = 2
  MaxChunks = 1
  MaxProbes = 2
SYMMETRY AgentSymmetry
INVARIANTS
  TurnTellsItsStream
PROPERTIES
  EndedTurnsStay
CHECK_DEADLOCK FALSE
