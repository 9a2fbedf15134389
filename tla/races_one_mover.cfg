SPECIFICATION RaceSpec
CONSTANTS
  Projects = {p1}
  Names = {a}
  None = none
  MaxItems = 3
  MaxOrder = 1
  MaxClock = 2
  MaxVersions = 0
  MaxPublished = 0
  Requests = {r1, r2}
  MaxMovers = 1
SYMMETRY RequestSymmetry
INVARIANT NoCycle
INVARIANT PendingMoveSafe
CHECK_DEADLOCK FALSE
