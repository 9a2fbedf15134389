SPECIFICATION TreeSpec
CONSTANTS
  Projects = {p1}
  Names = {a}
  None = none
  MaxItems = 4
  MaxOrder = 3
  MaxClock = 2
  MaxVersions = 0
  MaxPublished = 0
INVARIANT LiveModuleHasLiveParent
INVARIANT NoCycle
INVARIANT SomeoneAboveRestorable
INVARIANT ReadersAgree
PROPERTY RestoreUndoesOneDelete
PROPERTY OrdersStayDistinct
PROPERTY MoveOrderPassesOneSibling
