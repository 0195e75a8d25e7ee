SPECIFICATION SysSpec
CONSTANTS
  e1 = e1
  g1 = g1
  g2 = g2
  w1 = w1
  w2 = w2
  None = None
  Tasks = {1, 2, 3}
  Preloaded = {1, 2, 3}
  Executors = {e1}
  Targets = {g1}
  ExecutorOf <- SameExecutor
  TargetOf <- SameTarget
  Scheduled = {}
  Timed = {}
  Workers = {w1}
  Ops = {"execute", "stop", "hide", "report", "heartbeat"}
  Reports = {"Starting", "Running", "Completed", "Terminated"}
  Lists <- AllLists
  Faults = {"refused"}
  MaxJobs = 0
  TopicCap = 3
  UserBudget = 5
  CrashBudget = 1
INVARIANTS SysTypeOK 
PROPERTIES ImplementsLock LostMeansGone
