SPECIFICATION Spec
CONSTANTS
  w1 = w1
  w2 = w2
  d1 = d1
  d2 = d2
  None = None
  Workers <- TwoWorkers
  Docs <- TwoDocs
  PageSize = 1
  MaxItems = 2
  MaxRequests = 2
  MaxFaults = 1
  Faults = {"login", "refuse", "lost", "raise", "page"}
INVARIANTS TypeOK ListedExist OwnScript CachesTrue
SYMMETRY Symmetry
CHECK_DEADLOCK FALSE
