SPECIFICATION FairSpec
CONSTANTS
  e1 = e1
  g1 = g1
  g2 = g2
  w1 = w1
  w2 = w2
  None = None
  Tasks = {1, 2, 3}
  Preloaded = {1, 2, 3}
  Executors = {e1}
  Targets = {g1, g2}
  ExecutorOf <- SameExecutor
  TargetOf <- LastElsewhere
  Scheduled = {1}
  Timed = {1}
  Workers = {w1}
  Ops = {"execute", "stop", "hide", "report", "heartbeat", "fire"}
  Reports = {"Starting", "Running", "Completed", "Terminated"}
  Lists <- AllLists
  Faults = {}
  MaxJobs = 3
  TopicCap = 3
  UserBudget = 3
  CrashBudget = 1
INVARIANT NoStrandedSchedule
PROPERTIES QueueDrainsUnlessForgotten LostIsNoticed
