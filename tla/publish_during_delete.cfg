SPECIFICATION PublishingSpec
CONSTANTS
  Projects = {p1}
  Names = {a}
  None = none
  MaxItems = 2
  MaxOrder = 1
  MaxClock = 1
  MaxVersions = 1
  MaxPublished = 1
  Requests = {r1}
  MaxMovers = 1
PROPERTY UnforcedDeleteSparesPublished
CHECK_DEADLOCK FALSE
