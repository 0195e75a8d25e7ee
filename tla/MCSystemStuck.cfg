SPECIFICATION FairSpec
CONSTANTS
  e1 = e1
  g1 = g1
  g2 = g2
  w1 = w1
  w2 = w2
  None = None
  Tasks = {1, 2}
  Preloaded = {1, 2}
  Executors = {e1}
  Targets = {g1}
  ExecutorOf <- SameExecutor
  TargetOf <- SameTarget
  Scheduled = {}
  Timed = {}
  Workers = {w1}
  Ops = {"execute", "report", "heartbeat"}
  Reports = {"Starting", "Running", "Completed", "Terminated"}
  Lists <- AllLists
  Faults = {}
  MaxJobs = 0
  TopicCap = 2
  UserBudget = 2
  CrashBudget = 1
PROPERTY QueueDrains
