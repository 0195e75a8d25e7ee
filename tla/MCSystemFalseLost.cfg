SPECIFICATION SysSpec
CONSTANTS
  e1 = e1
  g1 = g1
  g2 = g2
  w1 = w1
  w2 = w2
  None = None
  Tasks = {1}
  Preloaded = {1}
  Executors = {e1}
  Targets = {g1}
  ExecutorOf <- SameExecutor
  TargetOf <- SameTarget
  Scheduled = {}
  Timed = {}
  Workers = {w1, w2}
  Ops = {"execute", "report", "heartbeat"}
  Reports = {"Starting", "Running", "Completed", "Terminated"}
  Lists <- AllLists
  Faults = {}
  MaxJobs = 0
  TopicCap = 1
  UserBudget = 1
  CrashBudget = 0
PROPERTY LostMeansGone
