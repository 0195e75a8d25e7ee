---- MODULE TaskBackendProofs ----
(***************************************************************************)
(* Theorems about TaskBackend, for every number of tasks, agents, targets, *)
(* request threads and faults.                                             *)
(***************************************************************************)
EXTENDS TaskBackend, FiniteSetTheorems, TLAPS

----
(* Messages. *)

\* n copies of a message are a sequence of messages.
LEMMA CopiesType ==
  ASSUME NEW m \in Message, NEW n \in Nat
  PROVE  Copies(m, n) \in Seq(Message)
BY DEF Copies

\* At most two copies of a message reach a topic.
LEMMA CopiesRange == AckedCopies \cup FailedCopies \subseteq Nat
BY DEF AckedCopies, FailedCopies

\* Delivering a message about a task leaves topics of messages.
LEMMA DeliverType ==
  ASSUME TypeOK, NEW w \in Workers, inst[w] \in Row,
         NEW kind \in {"start", "stop"}, NEW n \in AckedCopies \cup FailedCopies,
         Deliver(w, kind, n)
  PROVE  /\ topic' \in [Executors -> Seq(Message)]
         /\ started' \subseteq Tasks
         /\ started \subseteq started'
<1> DEFINE t == inst[w].id
           e == ExecutorOf[t]
           c == Copies([kind |-> kind, task |-> t], n)
<1>1. t \in Tasks /\ e \in Executors
  BY KeysAssumption DEF Row, Deliver
<1>2. c \in Seq(Message)
  <2>1. n \in Nat
    BY CopiesRange
  <2>2. [kind |-> kind, task |-> t] \in Message
    BY <1>1 DEF Message
  <2> QED BY <2>1, <2>2, CopiesType
<1>3. topic[e] \o c \in Seq(Message)
  BY <1>1, <1>2 DEF TypeOK, BrokerOK
<1>4. topic' = [topic EXCEPT ![e] = @ \o c]
  BY DEF Deliver
<1>5. topic' \in [Executors -> Seq(Message)]
  BY <1>1, <1>3, <1>4 DEF TypeOK, BrokerOK
<1>6. started' \subseteq Tasks /\ started \subseteq started'
  BY <1>1 DEF Deliver, TypeOK, BrokerOK
<1> QED BY <1>5, <1>6

----
(* Type correctness. *)

\* What a new row holds.
LEMMA NewRowType ==
  ASSUME NEW t \in Tasks
  PROVE  NewRow(t) \in Row /\ NewRow(t).id = t
BY DEF NewRow, Row, Status, Reasons

\* The initial state is well-typed.
LEMMA InitType == Init => TypeOK
<1> SUFFICES ASSUME Init PROVE TypeOK
  OBVIOUS
<1>2. rows \in [Tasks -> Row] /\ \A t \in Tasks : rows[t].id = t
  BY NewRowType DEF Init
<1>3. NoRequest \in Request
  BY DEF NoRequest, Request
<1>4. << >> \in Seq(Message)
  OBVIOUS
<1>5. topic \in [Executors -> Seq(Message)]
  BY <1>4 DEF Init
<1>6. /\ pc \in [Workers -> PCs] /\ req \in [Workers -> Request]
      /\ inst \in [Workers -> Row \cup {None}]
      /\ batch \in [Workers -> SUBSET Row]
      /\ \A w \in Workers : pc[w] \in {"loaded", "send", "save"} => inst[w] # None
      /\ \A w \in Workers : req[w].op = "report" => req[w].status \in Reports
  BY <1>3 DEF Init, PCs, NoRequest
<1>7. created \subseteq Tasks /\ stored \subseteq Tasks /\ jobs \subseteq Job
      /\ nextJob \in Nat /\ started \subseteq Tasks
  BY TasksAssumption DEF Init
<1> QED BY <1>2, <1>5, <1>6, <1>7 DEF TypeOK, TableOK, BrokerOK, CeleryOK, WorkOK

\* Moves between the calls of a request keep the threads well-typed.
LEMMA BeginType ==
  ASSUME WorkOK, NEW w \in Workers, NEW at \in PCs, NEW r \in Request,
         NEW row \in Row \cup {None},
         at \in {"loaded", "send", "save"} => row # None,
         r.op = "report" => r.status \in Reports,
         Begin(w, at, r, row)
  PROVE  WorkOK'
BY DEF WorkOK, Begin

\* A request that goes on to its next call (Goto) carries a row or nothing.
LEMMA GotoType ==
  ASSUME WorkOK, NEW w \in Workers, NEW at \in PCs,
         NEW row \in Row \cup {None},
         at \in {"loaded", "send", "save"} => row # None,
         Goto(w, at, row)
  PROVE  WorkOK'
BY DEF WorkOK, Goto

\* A request that has its answer (Finish) leaves its thread empty.
LEMMA FinishType ==
  ASSUME WorkOK, NEW w \in Workers, Finish(w)
  PROVE  WorkOK'
BY DEF WorkOK, Finish, NoRequest, Request, PCs

\* Leaving publish() goes on to check_task or ends the request (Return).
LEMMA ReturnType ==
  ASSUME WorkOK, NEW w \in Workers, Return(w)
  PROVE  WorkOK'
BY FinishType, GotoType DEF Return, PCs

\* save() of a well-typed instance of a task ever created.
LEMMA WriteType ==
  ASSUME TableOK, NEW r \in Row, Write(r)
  PROVE  TableOK'
BY DEF TableOK, Write, Row

\* Every call a request thread makes keeps the types: one step per action.
LEMMA StepType ==
  ASSUME TypeOK, NEW w \in Workers, Step(w)
  PROVE  TypeOK'
<1> USE DEF TypeOK, db, broker, celery
<1>0. \A v \in Workers : inst[v] # None => inst[v] \in Row /\ inst[v].id \in Tasks
  BY DEF WorkOK, Row
<1>1. CASE Save(w)
  <2>1. inst[w] \in Row
    BY <1>0, <1>1 DEF Save, WorkOK
  <2> QED BY <1>1, <2>1, WriteType, ReturnType DEF Save, BrokerOK, CeleryOK
<1>2. CASE HideTask(w)
  <2>1. [inst[w] EXCEPT !.deleted = TRUE] \in Row
    BY <1>0, <1>2 DEF HideTask, WorkOK, Row
  <2> QED BY <1>2, <2>1, WriteType, FinishType DEF HideTask, BrokerOK, CeleryOK
<1>3. CASE EditTask(w)
  <2>1. inst[w] \in Row
    BY <1>0, <1>3 DEF EditTask, WorkOK
  <2> QED BY <1>3, <2>1, WriteType, FinishType DEF EditTask, BrokerOK, CeleryOK
<1>4. CASE ReportTask(w)
  <2>1. inst[w] \in Row /\ req[w].status \in Status
    BY <1>0, <1>4, ReportsAssumption DEF ReportTask, WorkOK
  <2>2. [inst[w] EXCEPT !.status = req[w].status] \in Row
    BY <2>1 DEF Row
  <2> QED BY <1>4, <2>2, WriteType, FinishType DEF ReportTask, BrokerOK, CeleryOK
<1>5. CASE Schedule(w)
  <2>1. inst[w] \in Row /\ inst[w].id \in Tasks /\ nextJob \in Nat
    BY <1>0, <1>5 DEF Schedule, Executes, WorkOK, CeleryOK
  <2>2. [inst[w] EXCEPT !.status = "Scheduled", !.sid = nextJob, !.reason = "none"]
          \in Row
    BY <2>1 DEF Row, Status, Reasons
  <2>3. WorkOK'
    BY <1>5, <2>2, GotoType, NoneAssumption DEF Schedule, PCs
  <2>4. CeleryOK'
    BY <1>5, <2>1 DEF Schedule, CeleryOK, Job
  <2> QED BY <1>5, <2>3, <2>4 DEF Schedule, TableOK, BrokerOK
<1>6. CASE ScheduleFails(w)
  BY <1>6, FinishType DEF ScheduleFails, TableOK, BrokerOK, CeleryOK
<1>7. CASE CheckTarget(w)
  <2>1. inst[w] \in Row
    BY <1>0, <1>7 DEF CheckTarget, WantsPublish, Executes, WorkOK
  <2>2. [inst[w] EXCEPT !.status = "Queuing"] \in Row
    BY <2>1 DEF Row, Status
  <2>3. WorkOK'
    BY <1>7, <2>1, <2>2, GotoType, NoneAssumption DEF CheckTarget, PCs
  <2> QED BY <1>7, <2>3 DEF CheckTarget, TableOK, BrokerOK, CeleryOK
<1>8. CASE RefuseExecute(w)
  BY <1>8, ReturnType DEF RefuseExecute, TableOK, BrokerOK, CeleryOK
<1>9. CASE SendStart(w)
  <2>1. inst[w] \in Row
    BY <1>0, <1>9 DEF SendStart, WorkOK
  <2>2. [inst[w] EXCEPT !.status = "Published", !.reason = "none"] \in Row
    BY <2>1 DEF Row, Status, Reasons
  <2>3. WorkOK'
    BY <1>9, <2>2, GotoType, NoneAssumption DEF SendStart, PCs
  <2>4. BrokerOK'
    BY <1>9, <2>1, DeliverType DEF SendStart, BrokerOK
  <2> QED BY <1>9, <2>3, <2>4 DEF SendStart, TableOK, CeleryOK
<1>10. CASE SendStartFails(w)
  <2>1. inst[w] \in Row
    BY <1>0, <1>10 DEF SendStartFails, WorkOK
  <2>2. BrokerOK'
    BY <1>10, <2>1, DeliverType DEF SendStartFails, BrokerOK
  <2> QED BY <1>10, <2>2, FinishType DEF SendStartFails, TableOK, CeleryOK
<1>11. CASE Revoke(w)
  <2>1. inst[w] \in Row
    BY <1>0, <1>11 DEF Revoke, Stops, WorkOK
  <2>2. [inst[w] EXCEPT !.sid = None, !.status = "Canceled", !.reason = "cancelled"]
          \in Row
    BY <2>1 DEF Row, Status, Reasons
  <2>3. WorkOK'
    BY <1>11, <2>2, GotoType, NoneAssumption DEF Revoke, PCs
  <2>4. CeleryOK'
    BY <1>11 DEF Revoke, CeleryOK
  <2> QED BY <1>11, <2>3, <2>4 DEF Revoke, TableOK, BrokerOK
<1>12. CASE SendStop(w)
  <2>1. inst[w] \in Row
    BY <1>0, <1>12 DEF SendStop, MayTerminate, Stops, WorkOK
  <2>2. BrokerOK'
    BY <1>12, <2>1, DeliverType DEF SendStop, BrokerOK
  <2> QED BY <1>12, <2>2, FinishType DEF SendStop, TableOK, CeleryOK
<1>13. CASE RefuseStop(w)
  BY <1>13, FinishType DEF RefuseStop, TableOK, BrokerOK, CeleryOK
<1>14. CASE PopTask(w)
  <2>1. \A t \in Queued(req[w].executor) : rows[t] \in Row
    BY DEF Queued, TableOK
  <2>2. WorkOK'
    BY <1>14, <2>1, GotoType, NoneAssumption DEF PopTask, PCs
  <2> QED BY <1>14, <2>2 DEF PopTask, TableOK, BrokerOK, CeleryOK
<1>15. CASE CheckTasks(w)
  <2> DEFINE missing == Missing(req[w].executor, req[w].list)
  <2>1. {rows[t] : t \in missing} \subseteq Row
    BY DEF Missing, TableOK
  <2>2. CASE missing = {} /\ Finish(w)
    BY <1>15, <2>2, FinishType DEF CheckTasks, TableOK, BrokerOK, CeleryOK
  <2>3. CASE missing # {} /\ ~Finish(w)
    <3>1. WorkOK'
      BY <1>15, <2>1, <2>3 DEF CheckTasks, WorkOK, PCs
    <3> QED BY <1>15, <3>1 DEF CheckTasks, TableOK, BrokerOK, CeleryOK
  <2> QED BY <1>15, <2>2, <2>3, FinishType DEF CheckTasks, TableOK, BrokerOK, CeleryOK
<1>16. ASSUME NEW r \in batch[w], SweepTask(w, r) PROVE TypeOK'
  <2>1. r \in Row
    BY DEF WorkOK
  <2>2. [r EXCEPT !.status = "Error", !.reason = "lost"] \in Row
    BY <2>1 DEF Row, Status, Reasons
  <2>3. TableOK'
    BY <1>16, <2>2, WriteType DEF SweepTask
  <2>4. CASE batch[w] = {r} /\ Finish(w)
    BY <1>16, <2>3, <2>4, FinishType DEF SweepTask, BrokerOK, CeleryOK
  <2>5. CASE batch[w] # {r}
    <3>1. WorkOK'
      BY <1>16, <2>5 DEF SweepTask, WorkOK
    <3> QED BY <1>16, <2>3, <3>1 DEF SweepTask, BrokerOK, CeleryOK
  <2> QED BY <1>16, <2>4, <2>5 DEF SweepTask
<1> QED
  BY <1>1, <1>2, <1>3, <1>4, <1>5, <1>6, <1>7, <1>8, <1>9, <1>10, <1>11, <1>12,
     <1>13, <1>14, <1>15, <1>16 DEF Step, Execution, Stopping, Beating

\* A request that arrives loads a row of the table, or is a heartbeat.
LEMMA ArrivalType ==
  ASSUME TypeOK, NEW w \in Workers, Arrival(w)
  PROVE  TypeOK'
<1> USE DEF TypeOK, db, broker, celery
<1>0. NoRequest \in Request
  BY DEF NoRequest, Request
<1>1. ASSUME NEW op \in Ops, NEW t \in stored, NEW s \in Status \cup {None},
             Load(w, op, t, s)
      PROVE  TypeOK'
  <2>1. rows[t] \in Row /\ rows[t] # None
    BY NoneAssumption DEF TableOK
  <2> DEFINE r == [NoRequest EXCEPT !.op = op, !.status = s]
  <2>2. r \in Request /\ (r.op = "report" => r.status \in Reports)
    BY <1>0, <1>1 DEF Load, Request, NoRequest
  <2>3. WorkOK'
    BY <1>1, <2>1, <2>2, BeginType DEF Load, PCs
  <2> QED BY <1>1, <2>3 DEF Load, TableOK, BrokerOK, CeleryOK
<1>2. ASSUME NEW e \in Executors, NEW list \in Lists, Heartbeat(w, e, list)
      PROVE  TypeOK'
  <2> DEFINE r == [NoRequest EXCEPT !.op = "heartbeat", !.executor = e, !.list = list]
  <2>1. r \in Request /\ r.op # "report"
    BY <1>0, BoundsAssumption DEF Request, NoRequest
  <2>2. WorkOK'
    BY <1>2, <2>1, BeginType DEF Heartbeat, PCs
  <2> QED BY <1>2, <2>2 DEF Heartbeat, TableOK, BrokerOK, CeleryOK
<1>3. ASSUME NEW j \in jobs, FireJob(w, j) PROVE TypeOK'
  <2> DEFINE r == [NoRequest EXCEPT !.op = "fire"]
  <2>1. r \in Request /\ r.op # "report"
    BY <1>0 DEF Request, NoRequest
  <2>2. rows[j.task] \in Row /\ rows[j.task] # None
    BY <1>3, NoneAssumption DEF FireJob, TableOK
  <2>3. WorkOK'
    BY <1>3, <2>1, <2>2, BeginType DEF FireJob, PCs
  <2>4. CeleryOK'
    BY <1>3 DEF FireJob, CeleryOK
  <2> QED BY <1>3, <2>3, <2>4 DEF FireJob, TableOK, BrokerOK
<1> QED BY <1>1, <1>2, <1>3 DEF Arrival

\* Type correctness is inductive: requests, users, agents and faults keep it.
LEMMA NextType == TypeOK /\ [Next]_vars => TypeOK'
<1> SUFFICES ASSUME TypeOK, [Next]_vars PROVE TypeOK'
  OBVIOUS
<1> USE DEF TypeOK, db, broker, celery, work
<1>1. ASSUME NEW w \in Workers, Arrival(w) \/ Step(w) PROVE TypeOK'
  BY <1>1, ArrivalType, StepType
<1>2. ASSUME NEW j \in jobs, DropJob(j) PROVE TypeOK'
  BY <1>2 DEF DropJob, TableOK, BrokerOK, CeleryOK, WorkOK
<1>3. ASSUME NEW t \in Tasks, Create(t) PROVE TypeOK'
  BY <1>3, NewRowType DEF Create, TableOK, BrokerOK, CeleryOK, WorkOK
<1>4. ASSUME NEW t \in Tasks, Destroy(t) PROVE TypeOK'
  BY <1>4, NewRowType DEF Destroy, TableOK, BrokerOK, CeleryOK, WorkOK
<1>5. ASSUME NEW e \in Executors, Consume(e) PROVE TypeOK'
  <2>1. Tail(topic[e]) \in Seq(Message)
    BY <1>5 DEF Consume, BrokerOK
  <2> QED BY <1>5, <2>1 DEF Consume, TableOK, BrokerOK, CeleryOK, WorkOK
<1>6. CASE Restart
  <2>1. NoRequest \in Request /\ NoRequest.op # "report"
    BY DEF NoRequest, Request
  <2>2. WorkOK'
    BY <1>6, <2>1 DEF Restart, WorkOK, PCs
  <2> QED BY <1>6, <2>2 DEF Restart, TableOK, BrokerOK, CeleryOK
<1>7. CASE UNCHANGED vars
  BY <1>7 DEF vars, TableOK, BrokerOK, CeleryOK, WorkOK
<1> QED BY <1>1, <1>2, <1>3, <1>4, <1>5, <1>6, <1>7 DEF Next

\* The rows, the messages, the jobs and the state of every request thread
\* keep their types, whatever requests and faults arrive.
THEOREM TypeCorrect == Spec => []TypeOK
BY InitType, NextType, PTL DEF Spec

----
(* What a row says of the broker and of Celery.  A stale copy of a row may *)
(* be saved at any time, so the claim is kept for every copy: the rows of  *)
(* the table, the instances requests hold and the rows still to be swept.  *)

\* A copy r is sound for started messages s, jobs j and next job id n.
Sound(r, s, j, n) ==
  /\ r.status = "Published" => r.id \in s
  /\ r.status = "Scheduled" => r.sid # None
  /\ r.sid # None => r.sid < n
  /\ \A k \in j : k.id = r.sid => k.task = r.id

CopiesSound ==
  /\ \A t \in Tasks : Sound(rows[t], started, jobs, nextJob)
  /\ \A w \in Workers : inst[w] # None => Sound(inst[w], started, jobs, nextJob)
  /\ \A w \in Workers : \A r \in batch[w] : Sound(r, started, jobs, nextJob)
  /\ \A k \in jobs : k.id < nextJob

\* Soundness outlives more messages, fewer jobs and one new job of the next id.
LEMMA SoundLater ==
  ASSUME NEW r \in Row, NEW s, NEW s2, NEW j, NEW j2, NEW n \in Nat,
         Sound(r, s, j, n), s \subseteq s2, j2 \subseteq j
  PROVE  Sound(r, s2, j2, n)
BY DEF Sound

\* The new job of schedule() belongs to the task that asked for it: copies stay
\* sound.
LEMMA SoundNewJob ==
  ASSUME NEW r \in Row, NEW s, NEW j, NEW n \in Nat, NEW t \in Tasks,
         Sound(r, s, j, n)
  PROVE  Sound(r, s, j \cup {[id |-> n, task |-> t]}, n + 1)
BY NoneAssumption DEF Sound, Row

\* Requests that move on without a write, while jobs may disappear and
\* messages arrive: only the new instance of w has to be sound.
LEMMA MoveSound ==
  ASSUME TypeOK, CopiesSound, NEW w \in Workers, NEW row \in Row \cup {None},
         row # None => Sound(row, started', jobs', nextJob'),
         UNCHANGED <<rows, nextJob>>, jobs' \subseteq jobs, started \subseteq started',
         inst' = [inst EXCEPT ![w] = row],
         batch' = batch \/ batch' = [batch EXCEPT ![w] = {}]
  PROVE  CopiesSound'
<1> USE DEF CopiesSound, TypeOK, TableOK, WorkOK, CeleryOK
<1>1. \A t \in Tasks : Sound(rows'[t], started', jobs', nextJob')
  BY SoundLater
<1>2. ASSUME NEW v \in Workers, inst'[v] # None
      PROVE  Sound(inst'[v], started', jobs', nextJob')
  <2>1. CASE v = w
    BY <1>2, <2>1
  <2>2. CASE v # w
    <3>1. inst'[v] = inst[v] /\ inst[v] \in Row /\ inst[v] # None
      BY <1>2, <2>2
    <3> QED BY <3>1, SoundLater
  <2> QED BY <2>1, <2>2
<1>3. ASSUME NEW v \in Workers, NEW r \in batch'[v]
      PROVE  Sound(r, started', jobs', nextJob')
  <2>1. r \in batch[v] /\ r \in Row
    OBVIOUS
  <2> QED BY <2>1, SoundLater
<1> QED BY <1>1, <1>2, <1>3

\* A save of a sound row, with nothing new in any request.
LEMMA WriteSound ==
  ASSUME TypeOK, CopiesSound, NEW w \in Workers, NEW r \in Row,
         Sound(r, started, jobs, nextJob), Write(r),
         UNCHANGED <<started, jobs, nextJob>>,
         inst' = inst \/ inst' = [inst EXCEPT ![w] = None],
         \A v \in Workers : batch'[v] \subseteq batch[v]
  PROVE  CopiesSound'
<1> USE DEF CopiesSound, TypeOK, TableOK, WorkOK
<1>1. \A t \in Tasks : Sound(rows'[t], started', jobs', nextJob')
  BY DEF Write
<1>2. \A v \in Workers : inst'[v] # None => Sound(inst'[v], started', jobs', nextJob')
  OBVIOUS
<1>3. \A v \in Workers : \A q \in batch'[v] : Sound(q, started', jobs', nextJob')
  OBVIOUS
<1> QED BY <1>1, <1>2, <1>3

\* Every call a request thread makes keeps the copies sound: publish() saves
\* after send_msg, schedule() after apply_async.
LEMMA StepSound ==
  ASSUME TypeOK, CopiesSound, NEW w \in Workers, Step(w)
  PROVE  CopiesSound'
<1> USE DEF TypeOK, db, broker, celery
<1> DEFINE S(r) == Sound(r, started, jobs, nextJob)
<1>0. /\ nextJob \in Nat
      /\ inst[w] # None => inst[w] \in Row /\ S(inst[w])
      /\ \A t \in Tasks : rows[t] \in Row /\ S(rows[t])
      /\ \A r \in batch[w] : r \in Row /\ S(r)
      /\ pc[w] \in {"loaded", "send", "save"} => inst[w] # None
      /\ inst \in [Workers -> Row \cup {None}]
      /\ batch \in [Workers -> SUBSET Row]
  BY DEF CopiesSound, TableOK, WorkOK, CeleryOK
<1>1. CASE Save(w)
  <2>1. inst[w] \in Row /\ S(inst[w])
    BY <1>0, <1>1 DEF Save
  <2>2. /\ inst' = inst \/ inst' = [inst EXCEPT ![w] = None]
        /\ \A v \in Workers : batch'[v] \subseteq batch[v]
    BY <1>0, <1>1 DEF Save, Return, Goto, Finish
  <2> QED BY <1>1, <2>1, <2>2, WriteSound DEF Save
<1>2. CASE HideTask(w)
  <2> DEFINE r == [inst[w] EXCEPT !.deleted = TRUE]
  <2>1. r \in Row /\ S(r)
    BY <1>0, <1>2 DEF HideTask, Sound, Row
  <2>2. \A v \in Workers : batch'[v] \subseteq batch[v]
    BY <1>0, <1>2 DEF HideTask, Finish
  <2> QED BY <1>2, <2>1, <2>2, WriteSound DEF HideTask, Finish
<1>3. CASE EditTask(w)
  <2>1. inst[w] \in Row /\ S(inst[w])
    BY <1>0, <1>3 DEF EditTask
  <2>2. \A v \in Workers : batch'[v] \subseteq batch[v]
    BY <1>0, <1>3 DEF EditTask, Finish
  <2> QED BY <1>3, <2>1, <2>2, WriteSound DEF EditTask, Finish
<1>4. CASE ReportTask(w)
  <2> DEFINE r == [inst[w] EXCEPT !.status = req[w].status]
  <2>1. req[w].status \in Status \ {"Published", "Scheduled"}
    BY <1>4, ReportsAssumption DEF ReportTask, WorkOK
  <2>2. r \in Row /\ S(r)
    BY <1>0, <1>4, <2>1 DEF ReportTask, Sound, Row
  <2>3. \A v \in Workers : batch'[v] \subseteq batch[v]
    BY <1>0, <1>4 DEF ReportTask, Finish
  <2> QED BY <1>4, <2>2, <2>3, WriteSound DEF ReportTask, Finish
<1>5. CASE Schedule(w)
  <2> DEFINE r == [inst[w] EXCEPT !.status = "Scheduled", !.sid = nextJob,
                                  !.reason = "none"]
             j == [id |-> nextJob, task |-> inst[w].id]
  <2>1. inst[w] \in Row /\ inst[w].id \in Tasks /\ S(inst[w])
    BY <1>0, <1>5 DEF Schedule, Executes, Row
  <2>2. jobs' = jobs \cup {j} /\ nextJob' = nextJob + 1
    BY <1>5 DEF Schedule
  <2>3. Sound(r, started', jobs', nextJob')
    BY <1>0, <1>5, <2>1, <2>2, NoneAssumption
       DEF Schedule, Sound, Row, CopiesSound
  <2>4. \A q \in Row : S(q) => Sound(q, started', jobs', nextJob')
    BY <1>0, <1>5, <2>1, <2>2, SoundNewJob DEF Schedule
  <2>5. inst' = [inst EXCEPT ![w] = r] /\ UNCHANGED <<rows, batch>>
    BY <1>5 DEF Schedule, Goto
  <2>6. \A k \in jobs' : k.id < nextJob'
    BY <1>0, <2>2 DEF CopiesSound, CeleryOK, Job
  <2> QED BY <1>0, <2>3, <2>4, <2>5, <2>6 DEF CopiesSound
<1>6. CASE ScheduleFails(w)
  BY <1>0, <1>6, MoveSound DEF ScheduleFails, Finish
<1>7. CASE CheckTarget(w)
  <2> DEFINE r == [inst[w] EXCEPT !.status = "Queuing"]
  <2>1. inst[w] \in Row /\ S(inst[w])
    BY <1>0, <1>7 DEF CheckTarget, WantsPublish, Executes
  <2>2. r \in Row /\ S(r)
    BY <2>1 DEF Sound, Row, Status
  <2>3. \E row \in {inst[w], r} : inst' = [inst EXCEPT ![w] = row]
    BY <1>7 DEF CheckTarget, Goto
  <2> QED BY <1>7, <2>1, <2>2, <2>3, MoveSound DEF CheckTarget, Goto
<1>8. CASE RefuseExecute(w)
  BY <1>0, <1>8, MoveSound DEF RefuseExecute, Return, Goto, Finish
<1>9. CASE SendStart(w)
  <2> DEFINE r == [inst[w] EXCEPT !.status = "Published", !.reason = "none"]
  <2>1. inst[w] \in Row /\ S(inst[w])
    BY <1>0, <1>9 DEF SendStart
  <2>2. PICK n \in AckedCopies : Deliver(w, "start", n)
    BY <1>9 DEF SendStart
  <2>3. started' = started \cup {inst[w].id}
    BY <2>2 DEF Deliver, AckedCopies
  <2>4. r \in Row /\ Sound(r, started', jobs', nextJob')
    BY <1>9, <2>1, <2>3 DEF SendStart, Sound, Row, Status, Reasons
  <2> QED BY <1>9, <2>3, <2>4, MoveSound DEF SendStart, Goto
<1>10. CASE SendStartFails(w)
  <2>1. started \subseteq started'
    BY <1>10 DEF SendStartFails, Deliver
  <2> QED BY <1>10, <2>1, MoveSound DEF SendStartFails, Finish
<1>11. CASE Revoke(w)
  <2> DEFINE r == [inst[w] EXCEPT !.sid = None, !.status = "Canceled",
                                  !.reason = "cancelled"]
  <2>1. inst[w] \in Row /\ S(inst[w])
    BY <1>0, <1>11 DEF Revoke, Stops
  <2>2. jobs' \subseteq jobs
    BY <1>11 DEF Revoke
  <2>3. \A k \in jobs' : k.id \in Nat
    BY <2>2 DEF CeleryOK, Job
  <2>4. r \in Row /\ Sound(r, started', jobs', nextJob')
    BY <1>11, <2>1, <2>3, NoneAssumption DEF Sound, Row, Status, Reasons
  <2> QED BY <1>11, <2>2, <2>4, MoveSound DEF Revoke, Goto
<1>12. CASE SendStop(w)
  <2>1. started \subseteq started'
    BY <1>12 DEF SendStop, Deliver
  <2> QED BY <1>12, <2>1, MoveSound DEF SendStop, Finish
<1>13. CASE RefuseStop(w)
  BY <1>13, MoveSound DEF RefuseStop, Finish
<1>14. CASE PopTask(w)
  <2>1. \E row \in Row \cup {None} :
          /\ inst' = [inst EXCEPT ![w] = row]
          /\ row # None => S(row)
    BY <1>0, <1>14 DEF PopTask, Goto, Queued, TableOK
  <2> QED BY <1>14, <2>1, MoveSound DEF PopTask, Goto
<1>15. CASE CheckTasks(w)
  <2>1. CASE Finish(w)
    BY <1>15, <2>1, MoveSound DEF CheckTasks, Finish
  <2>2. CASE ~Finish(w)
    <3>1. /\ \A r \in batch'[w] : S(r)
          /\ \A v \in Workers \ {w} : batch'[v] = batch[v]
          /\ inst' = inst
      BY <1>0, <1>15, <2>2 DEF CheckTasks, Missing, TableOK
    <3> QED BY <1>15, <3>1 DEF CheckTasks, CopiesSound
  <2> QED BY <2>1, <2>2
<1>16. ASSUME NEW r \in batch[w], SweepTask(w, r) PROVE CopiesSound'
  <2> DEFINE q == [r EXCEPT !.status = "Error", !.reason = "lost"]
  <2>1. q \in Row /\ S(q)
    BY <1>0 DEF Sound, Row, Status, Reasons
  <2>2. /\ inst' = inst \/ inst' = [inst EXCEPT ![w] = None]
        /\ \A v \in Workers : batch'[v] \subseteq batch[v]
    BY <1>0, <1>16 DEF SweepTask, Finish
  <2> QED BY <1>16, <2>1, <2>2, WriteSound DEF SweepTask
<1> QED
  BY <1>1, <1>2, <1>3, <1>4, <1>5, <1>6, <1>7, <1>8, <1>9, <1>10, <1>11, <1>12,
     <1>13, <1>14, <1>15, <1>16 DEF Step, Execution, Stopping, Beating

\* A request that arrives copies a row of the table, which was sound.
LEMMA ArrivalSound ==
  ASSUME TypeOK, CopiesSound, NEW w \in Workers, Arrival(w)
  PROVE  CopiesSound'
<1> USE DEF TypeOK, db, broker, celery
<1>0. \A t \in Tasks : rows[t] \in Row /\ Sound(rows[t], started, jobs, nextJob)
  BY DEF CopiesSound, TableOK
<1>1. ASSUME NEW op \in Ops, NEW t \in stored, NEW s \in Status \cup {None},
             Load(w, op, t, s)
      PROVE  CopiesSound'
  <2>1. t \in Tasks
    BY DEF TableOK
  <2> QED BY <1>0, <1>1, <2>1, MoveSound DEF Load, Begin
<1>2. ASSUME NEW e \in Executors, NEW list \in Lists, Heartbeat(w, e, list)
      PROVE  CopiesSound'
  BY <1>2, MoveSound DEF Heartbeat, Begin
<1>3. ASSUME NEW j \in jobs, FireJob(w, j) PROVE CopiesSound'
  <2>1. j.task \in Tasks /\ jobs' \subseteq jobs
    BY <1>3 DEF FireJob, TableOK
  <2>2. Sound(rows[j.task], started', jobs', nextJob')
    BY <1>0, <1>3, <2>1, SoundLater DEF FireJob, CeleryOK
  <2> QED BY <1>0, <1>3, <2>1, <2>2, MoveSound DEF FireJob, Begin
<1> QED BY <1>1, <1>2, <1>3 DEF Arrival

\* Soundness of all copies is inductive.
LEMMA NextSound == TypeOK /\ CopiesSound /\ [Next]_vars => CopiesSound'
<1> SUFFICES ASSUME TypeOK, CopiesSound, [Next]_vars PROVE CopiesSound'
  OBVIOUS
<1> USE DEF TypeOK, db, broker, celery, work
<1>0. \A t \in Tasks : NewRow(t) \in Row /\ Sound(NewRow(t), started, jobs, nextJob)
  <2>1. \A k \in jobs : k.id # None
    BY NoneAssumption DEF CeleryOK, Job
  <2> QED BY <2>1, NewRowType DEF NewRow, Sound
<1>1. ASSUME NEW w \in Workers, Arrival(w) \/ Step(w) PROVE CopiesSound'
  BY <1>1, ArrivalSound, StepSound
<1>2. ASSUME NEW j \in jobs, DropJob(j) PROVE CopiesSound'
  <2>1. jobs' \subseteq jobs /\ UNCHANGED <<rows, started, nextJob, inst, batch>>
    BY <1>2 DEF DropJob
  <2> QED BY <2>1 DEF CopiesSound, Sound
<1>3. ASSUME NEW t \in Tasks, Create(t) PROVE CopiesSound'
  BY <1>0, <1>3 DEF Create, CopiesSound, TableOK
<1>4. ASSUME NEW t \in Tasks, Destroy(t) PROVE CopiesSound'
  BY <1>0, <1>4 DEF Destroy, CopiesSound, TableOK
<1>5. ASSUME NEW e \in Executors, Consume(e) PROVE CopiesSound'
  BY <1>5 DEF Consume, CopiesSound
<1>6. CASE Restart
  BY <1>6 DEF Restart, CopiesSound
<1>7. CASE UNCHANGED vars
  BY <1>7 DEF vars, CopiesSound
<1> QED BY <1>1, <1>2, <1>3, <1>4, <1>5, <1>6, <1>7 DEF Next

\* Rows at the start say neither PUBLISHED nor SCHEDULED.
LEMMA InitSound == Init => CopiesSound
BY DEF Init, NewRow, CopiesSound, Sound

\* Every copy of a row, fresh or stale, tells the truth about the broker and
\* Celery.
THEOREM CopiesAreSound == Spec => []CopiesSound
BY InitType, InitSound, NextType, NextSound, PTL DEF Spec

\* What the rows promise follows from the soundness of every copy.
LEMMA SoundImplies ==
  TypeOK /\ CopiesSound => PublishedWasSent /\ ScheduleHandles
BY DEF TypeOK, TableOK, CopiesSound, Sound, PublishedWasSent, ScheduleHandles

\* A row that says PUBLISHED had its start message sent, whatever crashes and
\* broker failures come between send and save.
THEOREM PublishedSent == Spec => []PublishedWasSent
BY TypeCorrect, CopiesAreSound, SoundImplies, PTL

\* A SCHEDULED row can be revoked, and a revocation never hits another task.
THEOREM SchedulesHandled == Spec => []ScheduleHandles
BY TypeCorrect, CopiesAreSound, SoundImplies, PTL

----
(* The bound on overbooking. *)

\* The task a request is about to publish in plain sight, or to write back as
\* published from an old copy.
Publishing(w) ==
  /\ inst[w] # None /\ ~inst[w].deleted
  /\ \/ pc[w] = "send"
     \/ pc[w] = "save" /\ inst[w].status = "Published"
     \/ pc[w] = "loaded" /\ req[w].op = "edit" /\ inst[w].status = "Published"

PublishedRow(t) == Visible(t) /\ rows[t].status = "Published"

Held(t) == PublishedRow(t) \/ \E w \in Workers : Publishing(w) /\ inst[w].id = t

\* The tasks g is promised to, or will be by a request under way.
Reserved(g) == {t \in Tasks : TargetOf[t] = g /\ Held(t)}

ReservedBound ==
  \A g \in Targets :
    IsFiniteSet(Reserved(g)) /\ Cardinality(Reserved(g)) <= Cardinality(Workers)

NothingNewHeld == \A t \in Tasks : Held(t)' => Held(t)

\* A set whose elements are all the label of some worker is no larger than
\* the set of workers.
LEMMA LabelBound ==
  ASSUME NEW R, NEW label, \A t \in R : \E w \in Workers : label[w] = t
  PROVE  IsFiniteSet(R) /\ Cardinality(R) <= Cardinality(Workers)
<1> DEFINE f == [t \in R |-> CHOOSE w \in Workers : label[w] = t]
<1>1. \A t \in R : f[t] \in Workers /\ label[f[t]] = t
  OBVIOUS
<1>2. f \in Injection(R, Workers)
  BY <1>1 DEF Injection, IsInjective
<1> QED BY <1>2, FS_Injection, WorkersAssumption

\* A step of w that writes no row holds nothing new, if what w is about to
\* publish was held.
LEMMA MoveHolds ==
  ASSUME TypeOK, NEW w \in Workers, UNCHANGED <<rows, stored>>,
         \A v \in Workers \ {w} :
           pc'[v] = pc[v] /\ inst'[v] = inst[v] /\ req'[v] = req[v],
         Publishing(w)' => Held(inst'[w].id)
  PROVE  NothingNewHeld
BY DEF NothingNewHeld, Held, Publishing, PublishedRow, Visible

\* A step of w that writes row r holds nothing new, if r is not a visible
\* published row or its task was held.
LEMMA WriteHolds ==
  ASSUME TypeOK, NEW w \in Workers, NEW r \in Row, Write(r),
         \A v \in Workers \ {w} :
           pc'[v] = pc[v] /\ inst'[v] = inst[v] /\ req'[v] = req[v],
         ~Publishing(w)',
         r.status = "Published" /\ ~r.deleted => Held(r.id)
  PROVE  NothingNewHeld
<1>1. ASSUME NEW t \in Tasks, PublishedRow(t)' PROVE Held(t)
  BY <1>1 DEF Write, PublishedRow, Visible, Held, TypeOK, TableOK
<1>2. ASSUME NEW t \in Tasks, NEW v \in Workers, Publishing(v)', inst'[v].id = t
      PROVE  Held(t)
  BY <1>2 DEF Held, Publishing
<1> QED BY <1>1, <1>2 DEF NothingNewHeld, Held

\* Every step of a request holds nothing new, but the idle answer.
LEMMA StepHolds ==
  ASSUME TypeOK, NEW w \in Workers, Step(w), ~CheckTarget(w)
  PROVE  NothingNewHeld
<1> USE DEF TypeOK, db, broker, celery
<1>0. /\ inst[w] # None => inst[w] \in Row
      /\ \A r \in batch[w] : r \in Row
      /\ pc[w] \in {"loaded", "send", "save"} => inst[w] # None
      /\ inst \in [Workers -> Row \cup {None}]
      /\ pc \in [Workers -> PCs] /\ req \in [Workers -> Request]
  BY DEF WorkOK
<1>1. CASE Save(w)
  <2>1. inst[w] \in Row /\ Write(inst[w])
    BY <1>0, <1>1 DEF Save
  <2>2. /\ \A v \in Workers \ {w} :
             pc'[v] = pc[v] /\ inst'[v] = inst[v] /\ req'[v] = req[v]
        /\ ~Publishing(w)'
    BY <1>0, <1>1 DEF Save, Return, Goto, Finish, Publishing
  <2>3. inst[w].status = "Published" /\ ~inst[w].deleted => Held(inst[w].id)
    BY <1>0, <1>1 DEF Save, Held, Publishing
  <2> QED BY <2>1, <2>2, <2>3, WriteHolds
<1>2. CASE HideTask(w)
  <2> DEFINE r == [inst[w] EXCEPT !.deleted = TRUE]
  <2>1. r \in Row /\ Write(r) /\ r.deleted
    BY <1>0, <1>2 DEF HideTask, Row
  <2>2. /\ \A v \in Workers \ {w} :
             pc'[v] = pc[v] /\ inst'[v] = inst[v] /\ req'[v] = req[v]
        /\ ~Publishing(w)'
    BY <1>0, <1>2 DEF HideTask, Finish, Publishing
  <2> QED BY <2>1, <2>2, WriteHolds
<1>3. CASE EditTask(w)
  <2>1. inst[w] \in Row /\ Write(inst[w])
    BY <1>0, <1>3 DEF EditTask
  <2>2. /\ \A v \in Workers \ {w} :
             pc'[v] = pc[v] /\ inst'[v] = inst[v] /\ req'[v] = req[v]
        /\ ~Publishing(w)'
    BY <1>0, <1>3 DEF EditTask, Finish, Publishing
  <2>3. inst[w].status = "Published" /\ ~inst[w].deleted => Held(inst[w].id)
    BY <1>0, <1>3 DEF EditTask, Held, Publishing
  <2> QED BY <2>1, <2>2, <2>3, WriteHolds
<1>4. CASE ReportTask(w)
  <2> DEFINE r == [inst[w] EXCEPT !.status = req[w].status]
  <2>1. req[w].status \in Status \ {"Published"}
    BY <1>4, ReportsAssumption DEF ReportTask, WorkOK
  <2>2. r \in Row /\ Write(r) /\ r.status # "Published"
    BY <1>0, <1>4, <2>1 DEF ReportTask, Row
  <2>3. /\ \A v \in Workers \ {w} :
             pc'[v] = pc[v] /\ inst'[v] = inst[v] /\ req'[v] = req[v]
        /\ ~Publishing(w)'
    BY <1>0, <1>4 DEF ReportTask, Finish, Publishing
  <2> QED BY <2>2, <2>3, WriteHolds
<1>5. CASE Schedule(w)
  <2>1. inst[w] \in Row
    BY <1>0, <1>5 DEF Schedule, Executes
  <2>2. inst'[w].status = "Scheduled" /\ pc'[w] = "save"
    BY <1>0, <1>5, <2>1 DEF Schedule, Goto, Row
  <2>3. ~Publishing(w)'
    BY <2>2 DEF Publishing
  <2> QED BY <1>0, <1>5, <2>3, MoveHolds DEF Schedule, Goto
<1>6. CASE ScheduleFails(w)
  BY <1>0, <1>6, MoveHolds DEF ScheduleFails, Finish, Publishing
<1>7. CASE RefuseExecute(w)
  BY <1>0, <1>7, MoveHolds DEF RefuseExecute, Return, Goto, Finish, Publishing
<1>8. CASE SendStart(w)
  <2>1. inst[w] \in Row
    BY <1>0, <1>8 DEF SendStart
  <2>2. inst'[w].id = inst[w].id /\ inst'[w].deleted = inst[w].deleted
    BY <1>0, <1>8, <2>1 DEF SendStart, Goto, Row
  <2>3. Publishing(w)' => Held(inst'[w].id)
    BY <1>0, <1>8, <2>2 DEF SendStart, Held, Publishing
  <2> QED BY <1>0, <1>8, <2>3, MoveHolds DEF SendStart, Goto
<1>9. CASE SendStartFails(w)
  BY <1>0, <1>9, MoveHolds DEF SendStartFails, Finish, Publishing
<1>10. CASE Revoke(w)
  <2>1. inst[w] \in Row
    BY <1>0, <1>10 DEF Revoke, Stops
  <2>2. inst'[w].status = "Canceled" /\ pc'[w] = "save"
    BY <1>0, <1>10, <2>1 DEF Revoke, Goto, Row
  <2>3. ~Publishing(w)'
    BY <2>2 DEF Publishing
  <2> QED BY <1>0, <1>10, <2>3, MoveHolds DEF Revoke, Goto
<1>11. CASE SendStop(w)
  BY <1>0, <1>11, MoveHolds DEF SendStop, Finish, Publishing
<1>12. CASE RefuseStop(w)
  BY <1>0, <1>12, MoveHolds DEF RefuseStop, Finish, Publishing
<1>13. CASE PopTask(w)
  <2>1. pc'[w] = "check" \/ (pc'[w] = "loaded" /\ inst'[w].status = "Queuing")
    BY <1>0, <1>13 DEF PopTask, Goto, Queued
  <2>2. ~Publishing(w)'
    BY <2>1 DEF Publishing
  <2> QED BY <1>0, <1>13, <2>2, MoveHolds DEF PopTask, Goto
<1>14. CASE CheckTasks(w)
  <2>1. pc'[w] \in {"idle", "sweep"}
    BY <1>0, <1>14 DEF CheckTasks, Finish
  <2>2. ~Publishing(w)'
    BY <2>1 DEF Publishing
  <2>3. \A v \in Workers \ {w} :
          pc'[v] = pc[v] /\ inst'[v] = inst[v] /\ req'[v] = req[v]
    BY <1>0, <1>14 DEF CheckTasks, Finish
  <2> QED BY <1>14, <2>2, <2>3, MoveHolds DEF CheckTasks
<1>15. ASSUME NEW r \in batch[w], SweepTask(w, r) PROVE NothingNewHeld
  <2> DEFINE q == [r EXCEPT !.status = "Error", !.reason = "lost"]
  <2>1. q \in Row /\ Write(q) /\ q.status # "Published"
    BY <1>0, <1>15 DEF SweepTask, Row, Status, Reasons
  <2>2. pc'[w] \in {"idle", "sweep"}
    BY <1>0, <1>15 DEF SweepTask, Finish
  <2>3. ~Publishing(w)'
    BY <2>2 DEF Publishing
  <2>4. \A v \in Workers \ {w} :
          pc'[v] = pc[v] /\ inst'[v] = inst[v] /\ req'[v] = req[v]
    BY <1>0, <1>15 DEF SweepTask, Finish
  <2> QED BY <2>1, <2>3, <2>4, WriteHolds
<1> QED
  BY <1>1, <1>2, <1>3, <1>4, <1>5, <1>6, <1>7, <1>8, <1>9, <1>10, <1>11, <1>12,
     <1>13, <1>14, <1>15 DEF Step, Execution, Stopping, Beating

\* A request that arrives holds nothing new: what an edit will write back as
\* published is published now.
LEMMA ArrivalHolds ==
  ASSUME TypeOK, NEW w \in Workers, Arrival(w)
  PROVE  NothingNewHeld
<1> USE DEF TypeOK, db, broker, celery
<1>0. /\ inst \in [Workers -> Row \cup {None}]
      /\ pc \in [Workers -> PCs] /\ req \in [Workers -> Request]
  BY DEF WorkOK
<1>1. ASSUME NEW op \in Ops, NEW t \in stored, NEW s \in Status \cup {None},
             Load(w, op, t, s)
      PROVE  NothingNewHeld
  <2>1. inst'[w] = rows[t] /\ rows[t].id = t /\ pc'[w] = "loaded"
    BY <1>0, <1>1 DEF Load, Begin, TableOK
  <2>2. Publishing(w)' => Held(inst'[w].id)
    BY <2>1 DEF Publishing, Held, PublishedRow, Visible
  <2> QED BY <1>0, <1>1, <2>2, MoveHolds DEF Load, Begin
<1>2. ASSUME NEW e \in Executors, NEW list \in Lists, Heartbeat(w, e, list)
      PROVE  NothingNewHeld
  BY <1>0, <1>2, MoveHolds DEF Heartbeat, Begin, Publishing
<1>3. ASSUME NEW j \in jobs, FireJob(w, j) PROVE NothingNewHeld
  <2>1. req'[w].op = "fire" /\ pc'[w] = "loaded"
    BY <1>0, <1>3 DEF FireJob, Begin, NoRequest
  <2>2. ~Publishing(w)'
    BY <2>1 DEF Publishing
  <2> QED BY <1>0, <1>3, <2>2, MoveHolds DEF FireJob, Begin
<1> QED BY <1>1, <1>2, <1>3 DEF Arrival

\* What holds nothing new reserves nothing new.
LEMMA FewerReserved ==
  ASSUME ReservedBound, NothingNewHeld
  PROVE  ReservedBound'
<1> SUFFICES ASSUME NEW g \in Targets
             PROVE  /\ IsFiniteSet(Reserved(g)')
                    /\ Cardinality(Reserved(g)') <= Cardinality(Workers)
  BY DEF ReservedBound
<1>1. Reserved(g)' \subseteq Reserved(g)
  BY DEF Reserved, NothingNewHeld
<1>2. IsFiniteSet(Reserved(g)) /\ Cardinality(Reserved(g)) <= Cardinality(Workers)
  BY DEF ReservedBound
<1>3. /\ IsFiniteSet(Reserved(g)')
      /\ Cardinality(Reserved(g)') <= Cardinality(Reserved(g))
  BY <1>1, <1>2, FS_Subset
<1>4. /\ Cardinality(Reserved(g)) \in Nat /\ Cardinality(Reserved(g)') \in Nat
      /\ Cardinality(Workers) \in Nat
  BY <1>2, <1>3, FS_CardinalityType, WorkersAssumption
<1> QED BY <1>2, <1>3, <1>4

\* The answer of is_idling: it was idle, so no row is published on the target,
\* and what is reserved is what the requests themselves are publishing.
LEMMA CheckBound ==
  ASSUME TypeOK, ReservedBound, NEW w \in Workers, CheckTarget(w)
  PROVE  ReservedBound'
<1> USE DEF TypeOK, db, broker, celery
<1> DEFINE t == inst[w].id
           g0 == TargetOf[t]
<1>1. inst[w] \in Row /\ inst \in [Workers -> Row \cup {None}] /\ pc \in [Workers -> PCs]
  BY DEF CheckTarget, WantsPublish, Executes, WorkOK
<1>2. CASE ~IsIdling(g0)
  <2>1. inst'[w].status = "Queuing" /\ pc'[w] = "save"
    BY <1>1, <1>2 DEF CheckTarget, Goto, Row
  <2>2. ~Publishing(w)'
    BY <2>1 DEF Publishing
  <2>3. NothingNewHeld
    BY <1>1, <1>2, <2>2, MoveHolds DEF CheckTarget, Goto
  <2> QED BY <2>3, FewerReserved
<1>3. CASE IsIdling(g0)
  <2>1. /\ inst'[w].id = t
        /\ \A v \in Workers \ {w} :
             pc'[v] = pc[v] /\ inst'[v] = inst[v] /\ req'[v] = req[v]
        /\ UNCHANGED <<stored, rows>>
    BY <1>1, <1>3 DEF CheckTarget, Goto
  <2> SUFFICES ASSUME NEW g \in Targets
               PROVE  /\ IsFiniteSet(Reserved(g)')
                      /\ Cardinality(Reserved(g)') <= Cardinality(Workers)
    BY DEF ReservedBound
  <2>2. CASE g = g0
    <3> DEFINE label == [v \in Workers |-> inst'[v].id]
    <3>1. \A u \in Tasks : TargetOf[u] = g => ~PublishedRow(u)'
      BY <1>3, <2>1, <2>2 DEF IsIdling, PubRunning, PublishedRow, Visible
    <3>2. \A u \in Reserved(g)' : \E v \in Workers : label[v] = u
      BY <3>1 DEF Reserved, Held
    <3> HIDE DEF label
    <3> QED BY <3>2, LabelBound
  <2>3. CASE g # g0
    <3>1. Reserved(g)' \subseteq Reserved(g)
      BY <2>1, <2>3 DEF Reserved, Held, Publishing, PublishedRow, Visible
    <3>2. IsFiniteSet(Reserved(g)) /\ Cardinality(Reserved(g)) <= Cardinality(Workers)
      BY DEF ReservedBound
    <3>3. /\ IsFiniteSet(Reserved(g)')
          /\ Cardinality(Reserved(g)') <= Cardinality(Reserved(g))
      BY <3>1, <3>2, FS_Subset
    <3>4. /\ Cardinality(Reserved(g)) \in Nat /\ Cardinality(Reserved(g)') \in Nat
          /\ Cardinality(Workers) \in Nat
      BY <3>2, <3>3, FS_CardinalityType, WorkersAssumption
    <3> QED BY <3>2, <3>3, <3>4
  <2> QED BY <2>2, <2>3
<1> QED BY <1>2, <1>3

\* The bound on what is published or about to be, for every target, is
\* inductive.
LEMMA NextReserved == TypeOK /\ ReservedBound /\ [Next]_vars => ReservedBound'
<1> SUFFICES ASSUME TypeOK, ReservedBound, [Next]_vars PROVE ReservedBound'
  OBVIOUS
<1> USE DEF db, broker, celery, work
<1>1. ASSUME NEW w \in Workers, Arrival(w) \/ Step(w) PROVE ReservedBound'
  BY <1>1, ArrivalHolds, StepHolds, FewerReserved, CheckBound
<1>2. ASSUME NEW j \in jobs, DropJob(j) PROVE ReservedBound'
  <2>1. NothingNewHeld
    BY <1>2 DEF DropJob, NothingNewHeld, Held, Publishing, PublishedRow, Visible
  <2> QED BY <2>1, FewerReserved
<1>3. ASSUME NEW t \in Tasks, Create(t) \/ Destroy(t) PROVE ReservedBound'
  <2>1. rows \in [Tasks -> Row] /\ NewRow(t).status # "Published"
    BY DEF TypeOK, TableOK, NewRow
  <2>2. NothingNewHeld
    BY <1>3, <2>1
       DEF Create, Destroy, NothingNewHeld, Held, Publishing, PublishedRow, Visible
  <2> QED BY <2>2, FewerReserved
<1>4. ASSUME NEW e \in Executors, Consume(e) PROVE ReservedBound'
  <2>1. NothingNewHeld
    BY <1>4 DEF Consume, NothingNewHeld, Held, Publishing, PublishedRow, Visible
  <2> QED BY <2>1, FewerReserved
<1>5. CASE Restart
  <2>1. NothingNewHeld
    BY <1>5 DEF Restart, NothingNewHeld, Held, Publishing, PublishedRow, Visible
  <2> QED BY <2>1, FewerReserved
<1>6. CASE UNCHANGED vars
  <2>1. NothingNewHeld
    BY <1>6 DEF vars, NothingNewHeld, Held, Publishing, PublishedRow, Visible
  <2> QED BY <2>1, FewerReserved
<1> QED BY <1>1, <1>2, <1>3, <1>4, <1>5, <1>6 DEF Next

\* Nothing is published at the start.
LEMMA InitReserved == Init => ReservedBound
<1> SUFFICES ASSUME Init, NEW g \in Targets
             PROVE  /\ IsFiniteSet(Reserved(g))
                    /\ Cardinality(Reserved(g)) <= Cardinality(Workers)
  BY DEF ReservedBound
<1>1. \A t \in Tasks : ~Held(t)
  BY DEF Init, NewRow, Held, Publishing, PublishedRow, Visible
<1>2. Reserved(g) = {}
  BY <1>1 DEF Reserved
<1> QED BY <1>2, FS_EmptySet, FS_CardinalityType, WorkersAssumption

\* The published tasks of a target are among those the bound counts.
LEMMA ReservedImplies == TypeOK /\ ReservedBound => OverbookingBound
<1> SUFFICES ASSUME TypeOK, ReservedBound, NEW g \in Targets
             PROVE  Cardinality(Overbooked(g)) <= Cardinality(Workers)
  BY DEF OverbookingBound
<1>1. Overbooked(g) \subseteq Reserved(g)
  BY DEF Overbooked, Reserved, Held, PublishedRow
<1>2. IsFiniteSet(Reserved(g)) /\ Cardinality(Reserved(g)) <= Cardinality(Workers)
  BY DEF ReservedBound
<1>3. IsFiniteSet(Overbooked(g)) /\ Cardinality(Overbooked(g)) <= Cardinality(Reserved(g))
  BY <1>1, <1>2, FS_Subset
<1> QED BY <1>2, <1>3, FS_CardinalityType, WorkersAssumption

\* However requests overlap, a target is never promised to more visible
\* published tasks than there are request threads.
THEOREM Overbooking == Spec => []OverbookingBound
<1>1. Spec => []ReservedBound
  BY TypeCorrect, InitReserved, NextReserved, PTL DEF Spec
<1> QED BY <1>1, TypeCorrect, ReservedImplies, PTL
====
