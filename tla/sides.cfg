SPECIFICATION Spec
CONSTANTS
  MaxFeatures = 3
  Linkers = {r1, r2}
  Repos = {a1, a2}
  MaxNumber = 1
  Shas = {s1}
  Syncers = {r1, r2}
  ImageNames = {a1, a2}
  Uploaders = {r1, r2}
  MaxImages = 2
  MaxFiles = 2
  MaxTicks = 2
  People = {a1, a2}
  Lists = {"notify"}
  Changers = {r1, r2}
  Limit = 3
  WindowSpan = 3
  EndOfTime = 8
  Managers = {r1, r2}
  MaxLinks = 4
SYMMETRY Symmetry
INVARIANT TypeOK
INVARIANT ListingsAgree
INVARIANT IssueConsistent
INVARIANT FilesMatchRows
INVARIANT ListedForAReason
INVARIANT NoDoubleLimit
INVARIANT OneOpenLink
CHECK_DEADLOCK FALSE
