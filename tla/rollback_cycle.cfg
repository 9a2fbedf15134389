SPECIFICATION Spec
CONSTANTS
  Projects = {p1}
  Names = {a, b}
  None = none
  MaxItems = 3
  MaxOrder = 2
  MaxClock = 1
  MaxVersions = 1
  MaxPublished = 0
SYMMETRY NameSymmetry
INVARIANT NoCycle
CHECK_DEADLOCK FALSE
