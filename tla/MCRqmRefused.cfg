SPECIFICATION Spec
CONSTANTS
  w1 = w1
  w2 = w2
  d1 = d1
  d2 = d2
  None = None
  Workers <- OneWorker
  Docs <- TwoDocs
  PageSize = 1
  MaxItems = 2
  MaxRequests = 2
  MaxFaults = 1
  Faults = {"refuse"}
INVARIANT SheetRestored
CHECK_DEADLOCK FALSE
