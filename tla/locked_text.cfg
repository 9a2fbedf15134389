SPECIFICATION TicketSpec
CONSTANTS
  Members = {m1, m2}
  Team = {m1}
  Reporter = reporter
  Nobody = nobody
  Contents = {t1, t2}
  Handlers = {r1, r2}
  MaxSections = 1
  MaxVersion = 2
SYMMETRY HandlerSymmetry
PROPERTY LockedTextStays
CHECK_DEADLOCK FALSE
