---- MODULE TaskBackend ----
(***************************************************************************)
(* The task half of the agent app (agent/models.py, agent/views.py): the   *)
(* rows of the task table, the requests that read and write them, the      *)
(* Kafka topics test agents consume and the Celery jobs that start         *)
(* scheduled tasks.                                                        *)
(*                                                                         *)
(* A request runs in a thread of its own, in autocommit mode, so requests  *)
(* interleave at every ORM, Kafka and Celery call; one action is the code  *)
(* from one such call up to the next.  A request works on the copy of the  *)
(* row it loaded (inst), and save() writes every column of that copy back. *)
(*                                                                         *)
(* The environment is open: any request may arrive at any time, in any     *)
(* order; TaskSystem closes it with test agents and users.                 *)
(***************************************************************************)
EXTENDS TaskStatus, Naturals, Sequences, FiniteSets

CONSTANTS
  Tasks,       \* primary keys
  Preloaded,   \* the rows that exist at the start
  Executors,   \* test agents, each with a topic named after its host
  Targets,     \* hardware
  ExecutorOf, TargetOf,  \* the foreign keys of a task, None when null
  Scheduled,   \* tasks with is_scheduled
  Timed,       \* tasks with a schedule_time
  Workers,     \* request threads: how many requests may overlap
  Ops,         \* the requests that arrive
  Reports,     \* the statuses agents write
  Lists,       \* the task lists heartbeats carry
  Faults,      \* what may go wrong
  MaxJobs,     \* bound: Celery jobs ever created
  TopicCap,    \* bound: messages in a topic
  None

RequestKinds == {"execute", "stop", "hide", "edit", "report"}
FaultKinds == {"refused", "unacked", "duplicated", "restart", "joblost",
               "redelivered", "unrevoked"}
PCs == {"idle", "loaded", "send", "save", "pop", "check", "sweep"}

ASSUME TasksAssumption == Tasks \subseteq Nat /\ Preloaded \subseteq Tasks
ASSUME KeysAssumption ==
  /\ ExecutorOf \in [Tasks -> Executors \cup {None}]
  /\ TargetOf \in [Tasks -> Targets \cup {None}]
ASSUME WorkersAssumption == IsFiniteSet(Workers)
\* Only publish() writes PUBLISHED and only schedule() writes SCHEDULED.
ASSUME ReportsAssumption == Reports \subseteq Status \ {"Published", "Scheduled"}
ASSUME BoundsAssumption ==
  /\ Ops \subseteq RequestKinds \cup {"fire", "heartbeat", "create", "destroy"}
  /\ Faults \subseteq FaultKinds
  /\ Lists \subseteq SUBSET Tasks
  /\ MaxJobs \in Nat /\ TopicCap \in Nat

VARIABLES
  created,  \* keys ever given out
  stored,   \* keys of the rows in the table
  rows,     \* the columns of each row
  topic,    \* executor -> messages its agent has not consumed
  jobs,     \* Celery jobs not yet run
  nextJob,  \* the id of the next job
  started,  \* history: tasks whose start message ever reached a topic
  pc,       \* worker -> the call its request makes next
  req,      \* worker -> the request
  inst,     \* worker -> the row it loaded, None when none
  batch     \* worker -> rows of running_records still to visit

db == <<created, stored, rows>>
broker == <<topic, started>>
celery == <<jobs, nextJob>>
work == <<pc, req, inst, batch>>
vars == <<created, stored, rows, topic, jobs, nextJob, started,
          pc, req, inst, batch>>

Reasons == {"none", "lost", "cancelled"}
Row == [id: Tasks, status: Status, sid: Nat \cup {None},
        deleted: BOOLEAN, reason: Reasons]
Message == [kind: {"start", "stop"}, task: Tasks]
Job == [id: Nat, task: Tasks]
Request == [op: RequestKinds \cup {"none", "fire", "heartbeat"},
            status: Status \cup {None}, executor: Executors \cup {None},
            list: SUBSET Tasks]
NoRequest == [op |-> "none", status |-> None, executor |-> None, list |-> {}]

\* The null value is none of the values it stands beside.
ASSUME NoneAssumption ==
  /\ None \notin Executors /\ None \notin Targets
  /\ None \notin Nat /\ None \notin Row

NewRow(t) == [id |-> t, status |-> "Idling", sid |-> None,
              deleted |-> FALSE, reason |-> "none"]

Init ==
  /\ created = Preloaded
  /\ stored = Preloaded
  /\ rows = [t \in Tasks |-> NewRow(t)]
  /\ topic = [e \in Executors |-> << >>]
  /\ jobs = {}
  /\ nextJob = 1
  /\ started = {}
  /\ pc = [w \in Workers |-> "idle"]
  /\ req = [w \in Workers |-> NoRequest]
  /\ inst = [w \in Workers |-> None]
  /\ batch = [w \in Workers |-> {}]

----
(* Requests: arrival, the way on and the end. *)

Begin(w, at, r, row) ==
  /\ pc[w] = "idle"
  /\ pc' = [pc EXCEPT ![w] = at]
  /\ req' = [req EXCEPT ![w] = r]
  /\ inst' = [inst EXCEPT ![w] = row]
  /\ UNCHANGED batch

Goto(w, at, row) ==
  /\ pc' = [pc EXCEPT ![w] = at]
  /\ inst' = [inst EXCEPT ![w] = row]
  /\ UNCHANGED <<req, batch>>

Finish(w) ==
  /\ pc' = [pc EXCEPT ![w] = "idle"]
  /\ req' = [req EXCEPT ![w] = NoRequest]
  /\ inst' = [inst EXCEPT ![w] = None]
  /\ batch' = [batch EXCEPT ![w] = {}]

\* publish() returns: a heartbeat goes on to check_task, any other request
\* has its answer.
Return(w) ==
  IF req[w].op = "heartbeat" THEN Goto(w, "check", None) ELSE Finish(w)

\* get_object_or_404 of a request about one task; op "report" carries the
\* status an agent writes.  A missing row is a 404 that changes nothing.
Load(w, op, t, s) ==
  /\ op \in Ops \cap RequestKinds /\ t \in stored
  /\ s \in IF op = "report" THEN Reports ELSE {None}
  /\ Begin(w, "loaded",
           [NoRequest EXCEPT !.op = op, !.status = s], rows[t])
  /\ UNCHANGED <<db, broker, celery>>

\* A heartbeat of e, listing the tasks the agent says it runs.
Heartbeat(w, e, list) ==
  /\ "heartbeat" \in Ops
  /\ Begin(w, "pop", [NoRequest EXCEPT !.op = "heartbeat",
                        !.executor = e, !.list = list], None)
  /\ UNCHANGED <<db, broker, celery>>

\* The Celery worker runs one job at a time (--pool=solo): it POSTs to
\* execute_task and waits for the answer.  The job is gone from the broker,
\* unless the broker delivers it again.
FireJob(w, j) ==
  /\ "fire" \in Ops
  /\ j \in jobs /\ j.task \in stored
  /\ \A v \in Workers : req[v].op # "fire"
  /\ Begin(w, "loaded", [NoRequest EXCEPT !.op = "fire"], rows[j.task])
  /\ \/ jobs' = jobs \ {j}
     \/ "redelivered" \in Faults /\ UNCHANGED jobs
  /\ UNCHANGED <<db, broker, nextJob>>

\* The POST fails or finds no row: execute_task logs that and drops the job.
DropJob(j) ==
  /\ j \in jobs
  /\ "joblost" \in Faults \/ j.task \notin stored
  /\ jobs' = jobs \ {j}
  /\ UNCHANGED <<db, broker, nextJob, work>>

----
(* save(): every column of the instance; an UPDATE that finds no row is    *)
(* followed by an INSERT.                                                  *)

Write(r) ==
  /\ rows' = [rows EXCEPT ![r.id] = r]
  /\ stored' = stored \cup {r.id}
  /\ UNCHANGED created

Save(w) ==
  /\ pc[w] = "save"
  /\ Write(inst[w])
  /\ Return(w)
  /\ UNCHANGED <<broker, celery>>

HideTask(w) ==
  /\ pc[w] = "loaded" /\ req[w].op = "hide"
  /\ Write([inst[w] EXCEPT !.deleted = TRUE])
  /\ Finish(w)
  /\ UNCHANGED <<broker, celery>>

\* A PUT or PATCH of a user's columns (name, script, comments ...): none of
\* them is modelled, what matters is that save() writes the others back.
EditTask(w) ==
  /\ pc[w] = "loaded" /\ req[w].op = "edit"
  /\ Write(inst[w])
  /\ Finish(w)
  /\ UNCHANGED <<broker, celery>>

\* A PATCH of the status by the test agent.
ReportTask(w) ==
  /\ pc[w] = "loaded" /\ req[w].op = "report"
  /\ Write([inst[w] EXCEPT !.status = req[w].status])
  /\ Finish(w)
  /\ UNCHANGED <<broker, celery>>

----
(* execute_task, pop_task, schedule, publish.                              *)

Executes(w) == pc[w] = "loaded" /\ req[w].op \in {"execute", "fire", "heartbeat"}

\* execute_task's choice; pop_task calls publish directly.
WantsSchedule(w) ==
  /\ req[w].op # "heartbeat"
  /\ inst[w].id \in Scheduled /\ inst[w].sid = None

WantsPublish(w) ==
  /\ Executes(w) /\ ~WantsSchedule(w)
  /\ TargetOf[inst[w].id] # None
  /\ AllowStart(inst[w].status)

\* Mutated form: the row does not keep the id of its job.
ScheduleUnnamed(w) ==
  /\ Executes(w) /\ WantsSchedule(w) /\ inst[w].id \in Timed
  /\ nextJob <= MaxJobs
  /\ jobs' = jobs \cup {[id |-> nextJob, task |-> inst[w].id]}
  /\ nextJob' = nextJob + 1
  /\ Goto(w, "save", [inst[w] EXCEPT !.status = "Scheduled", !.reason = "none"])
  /\ UNCHANGED <<db, broker>>

\* schedule(): the job exists before the row that names it is saved.
Schedule(w) ==
  /\ Executes(w) /\ WantsSchedule(w) /\ inst[w].id \in Timed
  /\ nextJob <= MaxJobs
  /\ jobs' = jobs \cup {[id |-> nextJob, task |-> inst[w].id]}
  /\ nextJob' = nextJob + 1
  /\ Goto(w, "save", [inst[w] EXCEPT !.status = "Scheduled",
                        !.sid = nextJob, !.reason = "none"])
  /\ UNCHANGED <<db, broker>>

\* apply_async cannot reach the broker and raises; so does, in the model, the
\* job past the bound.
ScheduleFails(w) ==
  /\ "refused" \in Faults \/ nextJob > MaxJobs
  /\ Executes(w) /\ WantsSchedule(w) /\ inst[w].id \in Timed
  /\ Finish(w)
  /\ UNCHANGED <<db, broker, celery>>

Visible(t) == t \in stored /\ ~rows[t].deleted

IsIdling(g) ==
  \A t \in Tasks :
    Visible(t) /\ TargetOf[t] = g => rows[t].status \notin PubRunning

\* publish(), up to the answer of is_idling.
CheckTarget(w) ==
  /\ WantsPublish(w)
  /\ \/ /\ IsIdling(TargetOf[inst[w].id])
        /\ Goto(w, "send", inst[w])
     \/ /\ ~IsIdling(TargetOf[inst[w].id])
        /\ Goto(w, "save", [inst[w] EXCEPT !.status = "Queuing"])
  /\ UNCHANGED <<db, broker, celery>>

\* The refusals: no schedule time, no target, a status that may not start.
RefuseExecute(w) ==
  /\ Executes(w)
  /\ IF WantsSchedule(w) THEN inst[w].id \notin Timed ELSE ~WantsPublish(w)
  /\ Return(w)
  /\ UNCHANGED <<db, broker, celery>>

----
(* producer.send_msg: n copies of the message reach the topic.             *)

Copies(m, n) == [i \in 1..n |-> m]

Deliver(w, kind, n) ==
  LET t == inst[w].id
      e == ExecutorOf[t]
  IN /\ e # None
     /\ Len(topic[e]) + n <= TopicCap
     /\ topic' = [topic EXCEPT ![e] = @ \o Copies([kind |-> kind, task |-> t], n)]
     /\ started' = IF kind = "start" /\ n > 0 THEN started \cup {t} ELSE started

\* A retry of an unacknowledged send may append the message again.
AckedCopies == {1} \cup (IF "duplicated" \in Faults THEN {2} ELSE {})
\* future.get raises: the brokers refused the message, or the answer is lost.
FailedCopies == (IF "refused" \in Faults THEN {0} ELSE {})
                  \cup (IF "unacked" \in Faults THEN {1} ELSE {})

\* Mutated form: the failure of the send is swallowed, not raised.
SendStartUnchecked(w) ==
  /\ pc[w] = "send"
  /\ \E n \in AckedCopies \cup FailedCopies : Deliver(w, "start", n)
  /\ Goto(w, "save", [inst[w] EXCEPT !.status = "Published", !.reason = "none"])
  /\ UNCHANGED <<db, celery>>

SendStart(w) ==
  /\ pc[w] = "send"
  /\ \E n \in AckedCopies : Deliver(w, "start", n)
  /\ Goto(w, "save", [inst[w] EXCEPT !.status = "Published", !.reason = "none"])
  /\ UNCHANGED <<db, celery>>

\* The exception ends the request, a heartbeat before its check_task.
SendStartFails(w) ==
  /\ pc[w] = "send"
  /\ \/ \E n \in FailedCopies : Deliver(w, "start", n)
     \/ ExecutorOf[inst[w].id] = None /\ UNCHANGED broker
  /\ Finish(w)
  /\ UNCHANGED <<db, celery>>

----
(* stop_task, revoke, terminate.                                           *)

Stops(w) == pc[w] = "loaded" /\ req[w].op = "stop"

\* Mutated form: the status is left as it was.
RevokeKeepsStatus(w) ==
  /\ Stops(w) /\ inst[w].sid # None
  /\ jobs' = {j \in jobs : j.id # inst[w].sid}
  /\ Goto(w, "save", [inst[w] EXCEPT !.sid = None, !.reason = "cancelled"])
  /\ UNCHANGED <<db, broker, nextJob>>

\* revoke(): a Celery worker that restarts before the job is due has
\* forgotten the revocation.
Revoke(w) ==
  /\ Stops(w) /\ inst[w].sid # None
  /\ \/ jobs' = {j \in jobs : j.id # inst[w].sid}
     \/ "unrevoked" \in Faults /\ UNCHANGED jobs
  /\ Goto(w, "save", [inst[w] EXCEPT !.sid = None, !.status = "Canceled",
                        !.reason = "cancelled"])
  /\ UNCHANGED <<db, broker, nextJob>>

MayTerminate(w) == Stops(w) /\ inst[w].sid = None /\ AllowStop(inst[w].status)

\* terminate(): the stop message, with no change to the row.
SendStop(w) ==
  /\ MayTerminate(w)
  /\ \/ \E n \in AckedCopies \cup FailedCopies : Deliver(w, "stop", n)
     \/ ExecutorOf[inst[w].id] = None /\ UNCHANGED broker
  /\ Finish(w)
  /\ UNCHANGED <<db, celery>>

RefuseStop(w) ==
  /\ Stops(w) /\ inst[w].sid = None /\ ~AllowStop(inst[w].status)
  /\ Finish(w)
  /\ UNCHANGED <<db, broker, celery>>

----
(* heartbeat: pop_task, then check_task.                                   *)

Queued(e) ==
  {t \in stored : ExecutorOf[t] = e /\ Visible(t) /\ rows[t].status = "Queuing"}

\* Mutated form: the first of an empty queue is taken for a task.
PopTaskUnguarded(w) ==
  LET queue == Queued(req[w].executor)
  IN /\ pc[w] = "pop"
     /\ \/ \E t \in queue : /\ \A u \in queue : t <= u
                            /\ Goto(w, "loaded", rows[t])
        \/ queue = {} /\ Goto(w, "loaded", None)
     /\ UNCHANGED <<db, broker, celery>>

PopTask(w) ==
  LET queue == Queued(req[w].executor)
  IN /\ pc[w] = "pop"
     /\ \/ \E t \in queue : /\ \A u \in queue : t <= u
                            /\ Goto(w, "loaded", rows[t])
        \/ queue = {} /\ Goto(w, "check", None)
     /\ UNCHANGED <<db, broker, celery>>

\* Mutated forms: published tasks count as running, the list is not looked
\* at, starting tasks are not looked at.
MissingWithPublished(e, list) ==
  {t \in stored : /\ ExecutorOf[t] = e /\ Visible(t)
                  /\ rows[t].status \in PubRunning /\ t \notin list}
MissingUnlisted(e, list) ==
  {t \in stored : /\ ExecutorOf[t] = e /\ Visible(t)
                  /\ rows[t].status \in RunningStatus}
MissingRunningOnly(e, list) ==
  {t \in stored : /\ ExecutorOf[t] = e /\ Visible(t)
                  /\ rows[t].status = "Running" /\ t \notin list}
Missing(e, list) ==
  {t \in stored : /\ ExecutorOf[t] = e /\ Visible(t)
                  /\ rows[t].status \in RunningStatus /\ t \notin list}

\* check_task's query: the rows the loop below will save.
CheckTasks(w) ==
  LET missing == Missing(req[w].executor, req[w].list)
  IN /\ pc[w] = "check"
     /\ \/ missing = {} /\ Finish(w)
        \/ /\ missing # {}
           /\ pc' = [pc EXCEPT ![w] = "sweep"]
           /\ batch' = [batch EXCEPT ![w] = {rows[t] : t \in missing}]
           /\ UNCHANGED <<req, inst>>
     /\ UNCHANGED <<db, broker, celery>>

\* One round of the loop: the row as it was read, marked lost.
SweepTask(w, r) ==
  /\ pc[w] = "sweep" /\ r \in batch[w]
  /\ Write([r EXCEPT !.status = "Error", !.reason = "lost"])
  /\ \/ batch[w] = {r} /\ Finish(w)
     \/ /\ batch[w] # {r}
        /\ batch' = [batch EXCEPT ![w] = @ \ {r}]
        /\ UNCHANGED <<pc, req, inst>>
  /\ UNCHANGED <<broker, celery>>

----
(* The rest of the table's interface, the consumer and the process.        *)

\* POST of a new task: keys are handed out in order.
Create(t) ==
  /\ "create" \in Ops
  /\ t \notin created /\ \A u \in Tasks : u < t => u \in created
  /\ created' = created \cup {t}
  /\ stored' = stored \cup {t}
  /\ rows' = [rows EXCEPT ![t] = NewRow(t)]
  /\ UNCHANGED <<broker, celery, work>>

\* DELETE of the row itself (the model view set's destroy).
Destroy(t) ==
  /\ "destroy" \in Ops /\ t \in stored
  /\ stored' = stored \ {t}
  /\ rows' = [rows EXCEPT ![t] = NewRow(t)]
  /\ UNCHANGED <<created, broker, celery, work>>

Consume(e) ==
  /\ topic[e] # << >>
  /\ topic' = [topic EXCEPT ![e] = Tail(@)]
  /\ UNCHANGED <<db, celery, started, work>>

\* The backend process dies with its requests and is started again.
Restart ==
  /\ "restart" \in Faults
  /\ \E w \in Workers : pc[w] # "idle"
  /\ pc' = [w \in Workers |-> "idle"]
  /\ req' = [w \in Workers |-> NoRequest]
  /\ inst' = [w \in Workers |-> None]
  /\ batch' = [w \in Workers |-> {}]
  /\ UNCHANGED <<db, broker, celery>>

\* The steps a request thread takes on its own.
Execution(w) ==
  \/ Schedule(w) \/ ScheduleFails(w) \/ CheckTarget(w) \/ RefuseExecute(w)
  \/ SendStart(w) \/ SendStartFails(w)
Stopping(w) == Revoke(w) \/ SendStop(w) \/ RefuseStop(w)
Beating(w) == PopTask(w) \/ CheckTasks(w) \/ \E r \in batch[w] : SweepTask(w, r)
Step(w) ==
  \/ Save(w) \/ HideTask(w) \/ EditTask(w) \/ ReportTask(w)
  \/ Execution(w) \/ Stopping(w) \/ Beating(w)

Arrival(w) ==
  \/ \E op \in Ops, t \in stored, s \in Status \cup {None} : Load(w, op, t, s)
  \/ \E e \in Executors, list \in Lists : Heartbeat(w, e, list)
  \/ \E j \in jobs : FireJob(w, j)

Next ==
  \/ \E w \in Workers : Arrival(w) \/ Step(w)
  \/ \E j \in jobs : DropJob(j)
  \/ \E t \in Tasks : Create(t) \/ Destroy(t)
  \/ \E e \in Executors : Consume(e)
  \/ Restart

Spec == Init /\ [][Next]_vars

----
(* Properties. *)

TableOK ==
  /\ created \subseteq Tasks /\ stored \subseteq Tasks
  /\ rows \in [Tasks -> Row] /\ \A t \in Tasks : rows[t].id = t
BrokerOK == topic \in [Executors -> Seq(Message)] /\ started \subseteq Tasks
CeleryOK == jobs \subseteq Job /\ nextJob \in Nat
WorkOK ==
  /\ pc \in [Workers -> PCs]
  /\ req \in [Workers -> Request]
  /\ inst \in [Workers -> Row \cup {None}]
  /\ \A w \in Workers : pc[w] \in {"loaded", "send", "save"} => inst[w] # None
  /\ \A w \in Workers : req[w].op = "report" => req[w].status \in Reports
  /\ batch \in [Workers -> SUBSET Row]
TypeOK == TableOK /\ BrokerOK /\ CeleryOK /\ WorkOK

\* is_idling reads the table before publish() has saved, so overlapping
\* requests can all find one target idle; but each adds one task at most:
\* no target is ever promised to more visible published tasks than there
\* are request threads, stale saves and queue pops included.
Overbooked(g) ==
  {t \in Tasks : /\ TargetOf[t] = g /\ Visible(t) /\ rows[t].status = "Published"}
OverbookingBound ==
  \A g \in Targets : Cardinality(Overbooked(g)) <= Cardinality(Workers)

\* A row says PUBLISHED only after a start message for it has reached the
\* agent's topic: send_msg raises on every failure, before the save.
PublishedWasSent ==
  \A t \in stored : rows[t].status = "Published" => t \in started

\* A row that says SCHEDULED can be revoked, and revoking the id any row
\* carries touches no job of another task, however stale the row.
ScheduleHandles ==
  \A t \in stored :
    /\ rows[t].status = "Scheduled" => rows[t].sid # None
    /\ \A j \in jobs : j.id = rows[t].sid => j.task = t
====
