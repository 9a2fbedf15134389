SPECIFICATION ProjectSpec
CONSTANTS
  Users = {o, u1}
  Owner = o
  Permissions = {"labels.manage"}
  Labels = {l1}
  Callers = {r1, r2}
  Defaults = 2
  MaxRoles = 3
  Editors = {r1, r2}
  MaxLabels = 3
  Viewers = {u1}
  ViewerRoles = {m1}
  MaxShown = 2
  Savers = {s1}
  Features = {a1, a2}
  Names = {a1, a2}
  Project = project
  None = none
  Evaluations = {"NOT_STARTED", "PASSED"}
  Requests = {r1, r2}
  MaxCases = 2
  MaxRuns = 1
  MaxGiven = 1
  Readers = {a1, a2}
SYMMETRY Symmetry
INVARIANT MissingIsExact
INVARIANT MembersHaveRoles
INVARIANT SeenByWanted
INVARIANT LabelReadersAgree
INVARIANT ScopeAsAsked
INVARIANT FullPassIsComplete
INVARIANT FollowersTold
PROPERTY ReorderMovesOne
CHECK_DEADLOCK FALSE
