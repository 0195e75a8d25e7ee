SPECIFICATION Spec
CONSTANTS
  e1 = e1
  g1 = g1
  w1 = w1
  w2 = w2
  None = None
  Tasks = {1, 2}
  Preloaded = {1, 2}
  Executors = {e1}
  Targets = {g1}
  ExecutorOf <- OneWithoutExecutor
  TargetOf <- SameTarget
  Scheduled = {1}
  Timed = {1, 2}
  Workers = {w1, w2}
  Ops = {"execute", "stop", "edit", "hide", "fire", "destroy"}
  Reports = {}
  Lists = {{}}
  Faults = {"refused", "unacked", "duplicated", "restart", "joblost", "redelivered", "unrevoked"}
  MaxJobs = 2
  TopicCap = 2
SYMMETRY WorkerSymmetry
INVARIANTS PublishedWasSent ScheduleHandles
CHECK_DEADLOCK FALSE
