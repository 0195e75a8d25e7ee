SPECIFICATION SysSpec
CONSTANTS
  e1 = e1
  g1 = g1
  g2 = g2
  w1 = w1
  w2 = w2
  None = None
  Tasks = {1}
  Preloaded = {1}
  Executors = {e1}
  Targets = {g1}
  ExecutorOf <- SameExecutor
  TargetOf <- SameTarget
  Scheduled = {1}
  Timed = {1}
  Workers = {w1}
  Ops = {"execute", "stop", "report", "heartbeat", "fire"}
  Reports = {"Starting", "Running", "Completed", "Terminated"}
  Lists <- AllLists
  Faults = {}
  MaxJobs = 1
  TopicCap = 2
  UserBudget = 2
  CrashBudget = 0
INVARIANT CanceledIsStopped
