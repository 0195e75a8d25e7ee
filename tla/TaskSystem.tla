---- MODULE TaskSystem ----
(***************************************************************************)
(* TaskBackend closed with what surrounds it: users, the Celery worker and *)
(* the test agents.  The agents' program is not in the repository; they    *)
(* are modelled from how the backend uses them: they take start_task and   *)
(* stop_task from their topic (KafkaMessage), PATCH the status of a task   *)
(* as it goes, and send heartbeats that list the tasks they run.           *)
(***************************************************************************)
EXTENDS TaskBackend

CONSTANTS
  UserBudget,   \* bound: requests users make
  CrashBudget   \* bound: times agents die

ASSUME BudgetsAssumption == UserBudget \in Nat /\ CrashBudget \in Nat
\* Agents may list whatever they run, and report every status below.
ASSUME AgentsAssumption ==
  /\ SUBSET Tasks \subseteq Lists
  /\ Ops \subseteq RequestKinds \cup {"fire", "heartbeat"}

VARIABLES
  phase,    \* task -> what its agent is doing with it
  users,    \* requests users still make
  crashes   \* crashes still to come

outside == <<phase, users, crashes>>
sysvars == <<vars, outside>>

\* In "accepted", "starting" and "running" the agent runs the task and lists
\* it; in "completed" and "stopped" it has ended, the report still to be sent.
Phases == {"none", "accepted", "starting", "running", "completed", "stopped"}
Active == {"accepted", "starting", "running"}

SysInit ==
  /\ Init
  /\ phase = [t \in Tasks |-> "none"]
  /\ users = UserBudget
  /\ crashes = CrashBudget

UserRequests(w, op, t) ==
  /\ users > 0 /\ op # "report"
  /\ Load(w, op, t, None)
  /\ users' = users - 1
  /\ UNCHANGED <<phase, crashes>>

CeleryFires(w, j) == FireJob(w, j) /\ UNCHANGED outside

AgentTakes(e) ==
  LET m == Head(topic[e])
      next == CASE m.kind = "start" /\ phase[m.task] = "none" -> "accepted"
                [] m.kind = "stop" /\ phase[m.task] \in Active -> "stopped"
                [] OTHER -> phase[m.task]
  IN /\ Consume(e)
     /\ phase' = [phase EXCEPT ![m.task] = next]
     /\ UNCHANGED <<users, crashes>>

AgentFinishes(t) ==
  /\ phase[t] = "running"
  /\ phase' = [phase EXCEPT ![t] = "completed"]
  /\ UNCHANGED <<vars, users, crashes>>

\* The reports of one task follow each other; each awaits its answer.
ReportDue == [accepted |-> "Starting", starting |-> "Running",
              completed |-> "Completed", stopped |-> "Terminated"]
PhaseAfter == [accepted |-> "starting", starting |-> "running",
               completed |-> "none", stopped |-> "none"]
Reporting(t) ==
  \E w \in Workers : req[w].op = "report" /\ inst[w].id = t

AgentReports(w, t) ==
  /\ phase[t] \in DOMAIN ReportDue /\ ~Reporting(t)
  /\ Load(w, "report", t, ReportDue[phase[t]])
  /\ phase' = [phase EXCEPT ![t] = PhaseAfter[@]]
  /\ UNCHANGED <<users, crashes>>

\* The list is what the agent runs when it sends the heartbeat.
Listed(e) == {t \in Tasks : ExecutorOf[t] = e /\ phase[t] \in Active}

AgentBeats(w, e) ==
  /\ \A v \in Workers : req[v].executor # e
  /\ Heartbeat(w, e, Listed(e))
  /\ UNCHANGED outside

AgentCrashes(e) ==
  /\ crashes > 0 /\ \E t \in Tasks : ExecutorOf[t] = e /\ phase[t] # "none"
  /\ crashes' = crashes - 1
  /\ phase' = [t \in Tasks |-> IF ExecutorOf[t] = e THEN "none" ELSE phase[t]]
  /\ UNCHANGED <<vars, users>>

BackendSteps(w) == Step(w) /\ UNCHANGED outside

SysNext ==
  \/ \E w \in Workers :
       \/ BackendSteps(w)
       \/ \E op \in Ops, t \in stored : UserRequests(w, op, t)
       \/ \E j \in jobs : CeleryFires(w, j)
       \/ \E t \in Tasks : AgentReports(w, t)
       \/ \E e \in Executors : AgentBeats(w, e)
  \/ \E e \in Executors : AgentTakes(e) \/ AgentCrashes(e)
  \/ \E t \in Tasks : AgentFinishes(t)

\* A request thread runs on until its answer; agents keep consuming,
\* reporting and beating, and the Celery worker keeps retrying for a thread,
\* which is free again and again, not always: hence strong fairness.
Fairness ==
  /\ \A w \in Workers : WF_sysvars(BackendSteps(w))
  /\ \A e \in Executors :
       /\ WF_sysvars(AgentTakes(e))
       /\ SF_sysvars(\E w \in Workers : AgentBeats(w, e))
  /\ \A t \in Tasks :
       /\ WF_sysvars(AgentFinishes(t))
       /\ SF_sysvars(\E w \in Workers : AgentReports(w, t))
  /\ SF_sysvars(\E w \in Workers, j \in jobs : CeleryFires(w, j))

SysSpec == SysInit /\ [][SysNext]_sysvars
FairSpec == SysSpec /\ Fairness

----
(* Properties. *)

SysTypeOK ==
  /\ TypeOK
  /\ phase \in [Tasks -> Phases]
  /\ users \in 0..UserBudget /\ crashes \in 0..CrashBudget

\* The start message of t has not been taken yet.
Underway(t) ==
  \E e \in Executors : \E i \in 1..Len(topic[e]) :
    topic[e][i] = [kind |-> "start", task |-> t]

\* The start messages in flight for visible tasks of g, and the visible
\* tasks of g its agent runs.
IsStartFor(m, g) ==
  m.kind = "start" /\ Visible(m.task) /\ TargetOf[m.task] = g
StartsInTopic(g) ==
  {p \in Executors \X (1..TopicCap) :
     p[2] <= Len(topic[p[1]]) /\ IsStartFor(topic[p[1]][p[2]], g)}
RunningOn(g) == {t \in Tasks : Visible(t) /\ TargetOf[t] = g /\ phase[t] \in Active}

\* is_idling is meant to keep hardware to one task: when requests do not
\* overlap and no task is scheduled (see CanceledIsStopped), a target never
\* has two commitments, be it two tasks or one task started twice, whatever
\* agents and users do and whoever crashes.
HardwareExclusive ==
  \A g \in Targets : Cardinality(StartsInTopic(g)) + Cardinality(RunningOn(g)) <= 1

\* The lock the rows, topics and agents make up: a visible task waits while
\* its row says QUEUING, and holds its target while a start message is on
\* its way or its agent runs it, whatever the row says.
InQueue(t) == Visible(t) /\ rows[t].status = "Queuing"
Committed(t) == Underway(t) \/ phase[t] \in Active
Lock == INSTANCE TargetLock
  WITH waiting <- {t \in Tasks : InQueue(t)},
       holding <- {t \in Tasks : Visible(t) /\ Committed(t)}

\* Without overlap and schedules the system is a lock on targets: a task is
\* started only when no other has its target, and never queues for what it
\* has, although is_idling knows neither the topics nor the agents.
ImplementsLock == Lock!Spec

\* agent/models.py:56: check_task removes tasks that are lost: it never
\* gives up a task its agent is running.
LostMeansGone ==
  [][\A t \in Tasks : (rows[t].reason # "lost" /\ rows'[t].reason = "lost")
                        => phase[t] \notin Active]_sysvars

\* A task with a target and an agent that says SCHEDULED still has its job, or
\* a request is working on it: without faults and overlap, no schedule is
\* forgotten.  (The job of a task without them finds nothing to publish.)
NoStrandedSchedule ==
  \A t \in stored :
    rows[t].status = "Scheduled" /\ TargetOf[t] # None /\ ExecutorOf[t] # None =>
      \/ \E j \in jobs : j.id = rows[t].sid
      \/ \E w \in Workers : inst[w] # None /\ inst[w].id = t

\* agent/models.py:279: revoke cancels a scheduled task out: a task that is
\* canceled is not running, and no start message for it is on its way.
CanceledIsStopped ==
  \A t \in stored : rows[t].status = "Canceled" =>
    phase[t] \notin Active /\ ~Underway(t)

\* agent/views.py:76: every queued task leaves the queue, by a later
\* heartbeat that finds its hardware idle.
QueueDrains == \A t \in Tasks : InQueue(t) ~> ~InQueue(t)

\* A task published to an agent that no longer knows of it.
Forgotten(t) ==
  /\ Visible(t) /\ rows[t].status = "Published" /\ phase[t] = "none"
  /\ ~Reporting(t) /\ ~Underway(t)

\* The queue drains, in turn and past busy targets, unless agents leave
\* published tasks behind for good: those alone block it.
QueueDrainsUnlessForgotten ==
  ([]<>(\A t \in Tasks : ~Forgotten(t))) => QueueDrains

\* agent/views.py:77: a running task its agent has lost is eventually marked
\* so (or ended, or hidden).
Orphaned(t) == Visible(t) /\ rows[t].status \in RunningStatus /\ phase[t] = "none"
LostIsNoticed == \A t \in Tasks : Orphaned(t) ~> ~Orphaned(t)
====
