SPECIFICATION Spec
CONSTANTS
  Projects = {p1, p2}
  Names = {a}
  None = none
  MaxItems = 3
  MaxOrder = 1
  MaxClock = 1
  MaxVersions = 1
  MaxPublished = 1
SYMMETRY ProjectSymmetry
INVARIANT LiveFeatureHasLiveModule
INVARIANT ParentInSameProject
INVARIANT LiveRowHasLiveProject
CHECK_DEADLOCK FALSE
