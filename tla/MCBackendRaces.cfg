SPECIFICATION Spec
CONSTANTS
  e1 = e1
  g1 = g1
  w1 = w1
  w2 = w2
  None = None
  Tasks = {1, 2, 3}
  Preloaded = {1, 2}
  Executors = {e1}
  Targets = {g1}
  ExecutorOf <- SameExecutor
  TargetOf <- SameTarget
  Scheduled = {}
  Timed = {}
  Workers = {w1, w2}
  Ops = {"execute", "report", "heartbeat", "create"}
  Reports = {"Starting"}
  Lists = {{}}
  Faults = {}
  MaxJobs = 0
  TopicCap = 1
SYMMETRY WorkerSymmetry
INVARIANTS TypeOK OverbookingBound
