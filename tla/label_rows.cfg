SPECIFICATION Spec
CONSTANTS
  Labels = {l1}
  Entities = {project}
  Project = project
  Texts = {t1, t2}
  NoText = noText
  None = none
  Requests = {r1}
  MaxRows = 2
  MaxClock = 2
SYMMETRY Symmetry
INVARIANT OneRowPerEntityAndLabel
CHECK_DEADLOCK FALSE
