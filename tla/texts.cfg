SPECIFICATION TextsSpec
CONSTANTS
  Labels = {l1}
  Entities = {project, e1}
  Project = project
  Texts = {t1, t2}
  NoText = noText
  None = none
  Requests = {r1, r2}
  MaxRows = 3
  MaxClock = 2
  Members = {m1, m2}
  Team = {m1}
  Reporter = reporter
  Nobody = nobody
  Contents = {c1}
  Handlers = {r1, r2}
  MaxSections = 3
  MaxVersion = 4
SYMMETRY Symmetry
INVARIANT ShownIsBest
INVARIANT LastTextShown
INVARIANT UnreadCoversNew
INVARIANT LockedWasShown
CHECK_DEADLOCK FALSE
