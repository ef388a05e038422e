SPECIFICATION Spec
CONSTANTS
  Daemons = {d1, d2}
  Inits = {i1}
  Clis = {c1}
  Requests = {r1, r2}
  NoOne = NoOne
  MaxFailures = 2
  MaxRows = 2
INVARIANTS
  MintIsFirst
  WindowTellsWhy
  CommitUnderLock
PROPERTIES
  NonceOutlivesMint
  ClosedWindowStaysShut
CHECK_DEADLOCK FALSE
SYMMETRY Symmetry
