---- MODULE TaskSerialProofs ----
(***************************************************************************)
(* TaskSystem when requests do not overlap: one request thread, no         *)
(* scheduled task and no fault but refused sends, for every number of      *)
(* tasks, agents and targets, whatever users do and however often agents   *)
(* die.  A target has one commitment at most, the system implements        *)
(* TargetLock, and no task is marked lost that its agent runs.             *)
(*                                                                         *)
(* is_idling knows rows only, so the invariant ties what rows say to what  *)
(* is going on: the start message of a task is on its way only while its   *)
(* row says PUBLISHED, or is about to, and its agent runs it only while    *)
(* the row keeps the target busy.  "About to" is the save() the request    *)
(* makes next, hence Current.                                              *)
(***************************************************************************)
EXTENDS TaskBackendProofs, TaskSystem, SequenceTheorems

\* An agent reports statuses of the table only.
LEMMA ReportsKnown ==
  ASSUME NEW p \in DOMAIN ReportDue
  PROVE  ReportDue[p] \in Status
BY DEF ReportDue, Status

\* Every step of users, agents, Celery and requests is a step of the backend,
\* or changes nothing the backend sees.
LEMMA StepImplements == [SysNext]_sysvars => [Next]_vars
<1> SUFFICES ASSUME [SysNext]_sysvars PROVE [Next]_vars
  OBVIOUS
<1>1. ASSUME NEW w \in Workers, BackendSteps(w) PROVE Next
  BY <1>1 DEF BackendSteps, Next
<1>2. ASSUME NEW w \in Workers, NEW op \in Ops, NEW t \in stored,
             UserRequests(w, op, t)
      PROVE  Next
  BY <1>2 DEF UserRequests, Next, Arrival
<1>3. ASSUME NEW w \in Workers, NEW j \in jobs, CeleryFires(w, j) PROVE Next
  BY <1>3 DEF CeleryFires, Next, Arrival
<1>4. ASSUME NEW w \in Workers, NEW t \in Tasks, AgentReports(w, t) PROVE Next
  <2> DEFINE s == ReportDue[phase[t]]
  <2>1. s \in Status
    BY <1>4, ReportsKnown DEF AgentReports
  <2>2. Load(w, "report", t, s) /\ "report" \in Ops /\ t \in stored
    BY <1>4 DEF AgentReports, Load
  <2> HIDE DEF s
  <2> QED BY <2>1, <2>2 DEF Next, Arrival
<1>5. ASSUME NEW w \in Workers, NEW e \in Executors, AgentBeats(w, e) PROVE Next
  <2>1. Listed(e) \in Lists
    BY AgentsAssumption DEF Listed
  <2> QED BY <1>5, <2>1 DEF AgentBeats, Next, Arrival
<1>6. ASSUME NEW e \in Executors, AgentTakes(e) PROVE Next
  BY <1>6 DEF AgentTakes, Next
<1>7. ASSUME NEW e \in Executors, AgentCrashes(e) PROVE UNCHANGED vars
  BY <1>7 DEF AgentCrashes
<1>8. ASSUME NEW t \in Tasks, AgentFinishes(t) PROVE UNCHANGED vars
  BY <1>8 DEF AgentFinishes
<1>9. CASE UNCHANGED sysvars
  BY <1>9 DEF sysvars
<1> QED
  BY <1>1, <1>2, <1>3, <1>4, <1>5, <1>6, <1>7, <1>8, <1>9 DEF SysNext

\* The closed system is one of the environments the backend is proved for.
THEOREM SystemImplementsBackend == SysSpec => Spec
BY StepImplements, PTL DEF SysSpec, SysInit, Spec

----
(* Requests that do not overlap: the invariant. *)

Serial(w) == Workers = {w} /\ Scheduled = {} /\ Faults \subseteq {"refused"}

\* The row of t, as it will be when the request has made the save it is at.
Current(w, t) == IF pc[w] = "save" /\ inst[w].id = t THEN inst[w] ELSE rows[t]

\* No job, and no copy of a row that names one.
NoJobs(w) ==
  /\ jobs = {} /\ \A t \in Tasks : rows[t].sid = None
  /\ inst[w] # None => inst[w].sid = None

\* A start message is in the topic of its agent, and only once.
StartsOnce ==
  \A e \in Executors : \A i \in 1..Len(topic[e]) : topic[e][i].kind = "start" =>
    /\ ExecutorOf[topic[e][i].task] = e
    /\ \A j \in 1..Len(topic[e]) : topic[e][j] = topic[e][i] => j = i

\* What is going on shows in the row.
ShowsInRow(w, t) ==
  /\ Underway(t) => phase[t] = "none" /\ Current(w, t).status = "Published"
  /\ phase[t] \in Active => Current(w, t).status \in PubRunning
  /\ phase[t] \in {"completed", "stopped"} =>
       Current(w, t).status \in PubRunning \cup {"Error"}

\* One visible task at most keeps a target busy.
OneBusy(w) ==
  \A t, u \in Tasks :
    /\ Visible(t) /\ Current(w, t).status \in PubRunning
    /\ Visible(u) /\ Current(w, u).status \in PubRunning
    /\ TargetOf[t] = TargetOf[u] /\ TargetOf[t] # None
    => t = u

\* The copy a request works on is that of the table: nobody wrote since.
FreshCopy(w) ==
  /\ pc[w] \in {"loaded", "send"} =>
       inst[w].id \in stored /\ inst[w] = rows[inst[w].id]
  /\ pc[w] = "save" =>
       /\ inst[w].id \in stored /\ inst[w].deleted = rows[inst[w].id].deleted
       /\ inst[w].reason \in {"none", rows[inst[w].id].reason}

\* A start message is about to be sent: the task may start, its target is idle.
MaySend(w) ==
  pc[w] = "send" =>
    /\ AllowStart(inst[w].status)
    /\ TargetOf[inst[w].id] # None /\ IsIdling(TargetOf[inst[w].id])

\* An agent's report is about to be written.
ReportTimely(w) ==
  pc[w] = "loaded" /\ req[w].op = "report" =>
    /\ ~Underway(inst[w].id)
    /\ \/ req[w].status \in {"Starting", "Running"} /\ inst[w].status \in PubRunning
       \/ req[w].status \in {"Completed", "Terminated"} /\ phase[inst[w].id] = "none"

\* What runs and is not in the list of a heartbeat was published since.
ListTimely(w) ==
  req[w].op = "heartbeat" =>
    \A t \in Tasks :
      ExecutorOf[t] = req[w].executor /\ phase[t] \in Active /\ t \notin req[w].list
        => Current(w, t).status = "Published"

\* Only a heartbeat pops, checks and sweeps.
OnlyBeats(w) == pc[w] \in {"pop", "check", "sweep"} => req[w].op = "heartbeat"

\* The rows that are about to be marked lost, and nobody runs them.
LostIsGone(w) ==
  pc[w] = "sweep" =>
    \A r \in batch[w] : r.id \in stored /\ r = rows[r.id] /\ ~Committed(r.id)

SerialInv(w) ==
  /\ NoJobs(w) /\ StartsOnce /\ \A t \in Tasks : ShowsInRow(w, t)
  /\ OneBusy(w) /\ FreshCopy(w) /\ MaySend(w)
  /\ ReportTimely(w) /\ ListTimely(w) /\ OnlyBeats(w) /\ LostIsGone(w)

----
(* Topics. *)

\* Without faults a send that succeeds appends one message, one that fails none.
LEMMA SerialCopies ==
  ASSUME NEW w, Serial(w)
  PROVE  w \in Workers /\ AckedCopies = {1} /\ FailedCopies \subseteq {0}
BY DEF Serial, AckedCopies, FailedCopies

\* One copy of a message behind a topic's messages.
LEMMA OneCopyBehind ==
  ASSUME NEW s \in Seq(Message), NEW m \in Message
  PROVE  /\ Len(s) \in Nat /\ Len(s \o Copies(m, 1)) = Len(s) + 1
         /\ \A i \in 1..Len(s) : (s \o Copies(m, 1))[i] = s[i]
         /\ (s \o Copies(m, 1))[Len(s) + 1] = m
<1>1. Copies(m, 1) \in Seq(Message) /\ Len(Copies(m, 1)) = 1 /\ Copies(m, 1)[1] = m
  BY DEF Copies
<1>2. Len(s \o Copies(m, 1)) = Len(s) + Len(Copies(m, 1))
  BY <1>1, ConcatProperties
<1>3. \A i \in 1 .. Len(s) + Len(Copies(m, 1)) : (s \o Copies(m, 1))[i] =
        IF i <= Len(s) THEN s[i] ELSE Copies(m, 1)[i - Len(s)]
  BY <1>1, ConcatProperties
<1>4. Len(s) \in Nat
  BY LenProperties
<1> QED BY <1>1, <1>2, <1>3, <1>4

\* One copy of a message ends the topic of the task's agent.
LEMMA DeliverOne ==
  ASSUME TypeOK, NEW w \in Workers, inst[w] \in Row,
         NEW kind \in {"start", "stop"}, Deliver(w, kind, 1)
  PROVE  LET e == ExecutorOf[inst[w].id]
             m == [kind |-> kind, task |-> inst[w].id]
         IN /\ e \in Executors
            /\ Len(topic[e]) \in Nat /\ Len(topic'[e]) = Len(topic[e]) + 1
            /\ \A i \in 1..Len(topic[e]) : topic'[e][i] = topic[e][i]
            /\ topic'[e][Len(topic[e]) + 1] = m
            /\ \A d \in Executors \ {e} : topic'[d] = topic[d]
<1> DEFINE e == ExecutorOf[inst[w].id]
           m == [kind |-> kind, task |-> inst[w].id]
<1>1. inst[w].id \in Tasks /\ e \in Executors /\ m \in Message
  BY KeysAssumption DEF Row, Deliver, Message
<1>2. topic[e] \in Seq(Message) /\ topic \in [Executors -> Seq(Message)]
  BY <1>1 DEF TypeOK, BrokerOK
<1>3. topic' = [topic EXCEPT ![e] = @ \o Copies(m, 1)]
  BY DEF Deliver
<1>4. topic'[e] = topic[e] \o Copies(m, 1) /\ \A d \in Executors \ {e} : topic'[d] = topic[d]
  BY <1>1, <1>2, <1>3
<1>5. /\ Len(topic[e]) \in Nat /\ Len(topic'[e]) = Len(topic[e]) + 1
      /\ \A i \in 1..Len(topic[e]) : topic'[e][i] = topic[e][i]
      /\ topic'[e][Len(topic[e]) + 1] = m
  BY <1>1, <1>2, <1>4, OneCopyBehind
<1> QED BY <1>1, <1>4, <1>5

\* No copy at all leaves the topics as they are.
LEMMA DeliverNone ==
  ASSUME TypeOK, NEW w \in Workers, inst[w] \in Row,
         NEW kind \in {"start", "stop"}, Deliver(w, kind, 0)
  PROVE  topic' = topic
<1> DEFINE e == ExecutorOf[inst[w].id]
           m == [kind |-> kind, task |-> inst[w].id]
<1>1. inst[w].id \in Tasks /\ e \in Executors /\ m \in Message
  BY KeysAssumption DEF Row, Deliver, Message
<1>2. topic[e] \in Seq(Message) /\ topic \in [Executors -> Seq(Message)]
  BY <1>1 DEF TypeOK, BrokerOK
<1>3. topic' = [topic EXCEPT ![e] = @ \o Copies(m, 0)]
  BY DEF Deliver
<1>4. Copies(m, 0) = << >>
  BY DEF Copies
<1>5. topic[e] \o << >> = topic[e]
  BY <1>2
<1> QED BY <1>1, <1>2, <1>3, <1>4, <1>5

\* A start message that is sent is underway, and is the only one of its task
\* if there was none.
LEMMA StartIsSent ==
  ASSUME TypeOK, NEW w \in Workers, inst[w] \in Row, Deliver(w, "start", 1),
         StartsOnce, ~Underway(inst[w].id)
  PROVE  /\ StartsOnce'
         /\ \A t \in Tasks : Underway(t)' <=> Underway(t) \/ t = inst[w].id
<1> DEFINE e == ExecutorOf[inst[w].id]
           m == [kind |-> "start", task |-> inst[w].id]
           n == Len(topic[e])
<1>1. /\ e \in Executors /\ n \in Nat /\ Len(topic'[e]) = n + 1
      /\ \A i \in 1..n : topic'[e][i] = topic[e][i]
      /\ topic'[e][n + 1] = m
      /\ \A d \in Executors \ {e} : topic'[d] = topic[d]
  BY DeliverOne
<1>2. \A d \in Executors : \A i \in 1..Len(topic[d]) : topic[d][i] # m
  BY DEF Underway
<1>3. StartsOnce'
  <2> SUFFICES ASSUME NEW d \in Executors, NEW i \in 1..Len(topic'[d]),
                      topic'[d][i].kind = "start"
               PROVE  /\ ExecutorOf[topic'[d][i].task] = d
                      /\ \A j \in 1..Len(topic'[d]) : topic'[d][j] = topic'[d][i] => j = i
    BY DEF StartsOnce
  <2>1. CASE d # e
    BY <1>1, <2>1 DEF StartsOnce
  <2>2. CASE d = e /\ i = n + 1
    <3>1. \A j \in 1..n : topic'[e][j] # m
      BY <1>1, <1>2
    <3> QED BY <1>1, <2>2, <3>1
  <2>3. CASE d = e /\ i \in 1..n
    <3>1. /\ topic'[e][i] = topic[e][i] /\ topic[e][i].kind = "start" /\ topic[e][i] # m
          /\ topic'[e][n + 1] = m
      BY <1>1, <1>2, <2>3
    <3>2. /\ ExecutorOf[topic[e][i].task] = e
          /\ \A j \in 1..n : topic[e][j] = topic[e][i] => j = i
      BY <1>1, <2>3, <3>1 DEF StartsOnce
    <3>3. \A j \in 1..n : topic'[e][j] = topic[e][j]
      BY <1>1
    <3>4. \A j \in 1..n + 1 : topic'[e][j] = topic'[e][i] => j \in 1..n
      BY <1>1, <3>1
    <3> HIDE DEF e, m, n
    <3> QED BY <1>1, <2>3, <3>1, <3>2, <3>3, <3>4
  <2> QED BY <1>1, <2>1, <2>2, <2>3
<1>4. ASSUME NEW t \in Tasks PROVE Underway(t)' <=> Underway(t) \/ t = inst[w].id
  <2>1. ASSUME Underway(t)' PROVE Underway(t) \/ t = inst[w].id
    <3>1. PICK d \in Executors : \E i \in 1..Len(topic'[d]) :
                 topic'[d][i] = [kind |-> "start", task |-> t]
      BY <2>1 DEF Underway
    <3>2. PICK i \in 1..Len(topic'[d]) : topic'[d][i] = [kind |-> "start", task |-> t]
      BY <3>1
    <3>3. CASE d = e /\ i = n + 1
      BY <1>1, <3>2, <3>3
    <3>4. CASE ~(d = e /\ i = n + 1)
      <4>1. i \in 1..Len(topic[d]) /\ topic[d][i] = topic'[d][i]
        BY <1>1, <3>4
      <4> QED BY <3>2, <4>1 DEF Underway
    <3> QED BY <3>3, <3>4
  <2>2. ASSUME Underway(t) PROVE Underway(t)'
    <3>1. PICK d \in Executors : \E i \in 1..Len(topic[d]) :
                 topic[d][i] = [kind |-> "start", task |-> t]
      BY <2>2 DEF Underway
    <3>2. PICK i \in 1..Len(topic[d]) : topic[d][i] = [kind |-> "start", task |-> t]
      BY <3>1
    <3>3. i \in 1..Len(topic'[d]) /\ topic'[d][i] = topic[d][i]
      BY <1>1
    <3> QED BY <3>2, <3>3 DEF Underway
  <2>3. ASSUME t = inst[w].id PROVE Underway(t)'
    <3>1. n + 1 \in 1..Len(topic'[e]) /\ topic'[e][n + 1] = [kind |-> "start", task |-> t]
      BY <1>1, <2>3
    <3> QED BY <1>1, <3>1 DEF Underway
  <2> QED BY <2>1, <2>2, <2>3
<1> QED BY <1>3, <1>4

\* A stop message changes nothing for start messages.
LEMMA StopIsSent ==
  ASSUME TypeOK, NEW w \in Workers, inst[w] \in Row, Deliver(w, "stop", 1), StartsOnce
  PROVE  StartsOnce' /\ \A t \in Tasks : Underway(t)' <=> Underway(t)
<1> DEFINE e == ExecutorOf[inst[w].id]
           m == [kind |-> "stop", task |-> inst[w].id]
           n == Len(topic[e])
<1>1. /\ e \in Executors /\ n \in Nat /\ Len(topic'[e]) = n + 1
      /\ \A i \in 1..n : topic'[e][i] = topic[e][i]
      /\ topic'[e][n + 1] = m
      /\ \A d \in Executors \ {e} : topic'[d] = topic[d]
  BY DeliverOne
<1>2. \A d \in Executors : \A i \in 1..Len(topic'[d]) : topic'[d][i].kind = "start" =>
        i \in 1..Len(topic[d]) /\ topic'[d][i] = topic[d][i]
  BY <1>1
<1>3. \A d \in Executors : \A i \in 1..Len(topic[d]) :
        i \in 1..Len(topic'[d]) /\ topic'[d][i] = topic[d][i]
  BY <1>1
<1> HIDE DEF e, m, n
<1>4. StartsOnce'
  <2> SUFFICES ASSUME NEW d \in Executors, NEW i \in 1..Len(topic'[d]),
                      topic'[d][i].kind = "start"
               PROVE  /\ ExecutorOf[topic'[d][i].task] = d
                      /\ \A j \in 1..Len(topic'[d]) : topic'[d][j] = topic'[d][i] => j = i
    BY DEF StartsOnce
  <2>1. i \in 1..Len(topic[d]) /\ topic'[d][i] = topic[d][i]
    BY <1>2
  <2>2. ASSUME NEW j \in 1..Len(topic'[d]), topic'[d][j] = topic'[d][i] PROVE j = i
    <3>1. j \in 1..Len(topic[d]) /\ topic'[d][j] = topic[d][j]
      BY <1>2, <2>2
    <3> QED BY <2>1, <2>2, <3>1 DEF StartsOnce
  <2> QED BY <2>1, <2>2 DEF StartsOnce
<1>5. \A t \in Tasks : Underway(t)' <=> Underway(t)
  BY <1>2, <1>3 DEF Underway
<1> QED BY <1>4, <1>5

\* The agent takes the first message of its topic: if that is a start message
\* there is none of the task any more, and all others stay.
LEMMA StartIsTaken ==
  ASSUME TypeOK, NEW e \in Executors, Consume(e), StartsOnce
  PROVE  LET m == Head(topic[e])
         IN /\ m \in Message /\ (m.kind = "start" => Underway(m.task))
            /\ StartsOnce'
            /\ \A t \in Tasks : Underway(t)' <=>
                 Underway(t) /\ ~(m.kind = "start" /\ t = m.task)
<1> DEFINE m == Head(topic[e])
<1>1. topic[e] \in Seq(Message) /\ topic[e] # << >> /\ topic' = [topic EXCEPT ![e] = Tail(@)]
      /\ topic \in [Executors -> Seq(Message)]
  BY DEF TypeOK, BrokerOK, Consume
<1>2. /\ topic'[e] = Tail(topic[e]) /\ \A d \in Executors \ {e} : topic'[d] = topic[d]
  BY <1>1
<1>3. /\ Len(topic[e]) \in Nat /\ 1 \in 1..Len(topic[e]) /\ m = topic[e][1] /\ m \in Message
      /\ Len(topic'[e]) = Len(topic[e]) - 1
      /\ \A i \in 1..Len(topic'[e]) : topic'[e][i] = topic[e][i + 1]
  BY <1>1, <1>2
<1> HIDE DEF m
<1>4. ASSUME m.kind = "start" PROVE Underway(m.task)
  <2>1. m = [kind |-> "start", task |-> m.task]
    BY <1>3, <1>4 DEF Message
  <2> QED BY <1>3, <2>1 DEF Underway
<1>5. StartsOnce'
  <2> SUFFICES ASSUME NEW d \in Executors, NEW i \in 1..Len(topic'[d]),
                      topic'[d][i].kind = "start"
               PROVE  /\ ExecutorOf[topic'[d][i].task] = d
                      /\ \A j \in 1..Len(topic'[d]) : topic'[d][j] = topic'[d][i] => j = i
    BY DEF StartsOnce
  <2>1. CASE d # e
    BY <1>2, <2>1 DEF StartsOnce
  <2>2. CASE d = e
    <3>1. i + 1 \in 1..Len(topic[e]) /\ topic[e][i + 1].kind = "start"
          /\ topic'[e][i] = topic[e][i + 1]
      BY <1>3, <2>2
    <3>2. ASSUME NEW j \in 1..Len(topic'[e]), topic'[e][j] = topic'[e][i] PROVE j = i
      <4>1. j + 1 \in 1..Len(topic[e]) /\ topic[e][j + 1] = topic[e][i + 1]
        BY <1>3, <2>2, <3>1, <3>2
      <4>2. j + 1 = i + 1
        BY <3>1, <4>1 DEF StartsOnce
      <4> QED BY <1>3, <2>2, <4>2
    <3> QED BY <2>2, <3>1, <3>2 DEF StartsOnce
  <2> QED BY <2>1, <2>2
<1>6. ASSUME NEW t \in Tasks, Underway(t)'
      PROVE  Underway(t) /\ ~(m.kind = "start" /\ t = m.task)
  <2>1. PICK d \in Executors : \E i \in 1..Len(topic'[d]) :
               topic'[d][i] = [kind |-> "start", task |-> t]
    BY <1>6 DEF Underway
  <2>2. PICK i \in 1..Len(topic'[d]) : topic'[d][i] = [kind |-> "start", task |-> t]
    BY <2>1
  <2>3. CASE d = e
    <3>1. i + 1 \in 1..Len(topic[e]) /\ topic[e][i + 1] = [kind |-> "start", task |-> t]
      BY <1>3, <2>2, <2>3
    <3>2. m # [kind |-> "start", task |-> t]
      <4>1. topic[e][i + 1].kind = "start"
        BY <3>1
      <4>2. topic[e][1] = topic[e][i + 1] => 1 = i + 1
        BY <1>3, <3>1, <4>1 DEF StartsOnce
      <4> QED BY <1>3, <2>2, <2>3, <3>1, <4>2
    <3> QED BY <1>3, <3>1, <3>2 DEF Underway, Message
  <2>4. CASE d # e
    <3>1. i \in 1..Len(topic[d]) /\ topic[d][i] = [kind |-> "start", task |-> t]
      BY <1>2, <2>2, <2>4
    <3>2. ExecutorOf[t] = d
      BY <3>1 DEF StartsOnce
    <3>3. m.kind = "start" => ExecutorOf[m.task] = e
      BY <1>3 DEF StartsOnce
    <3> QED BY <2>4, <3>1, <3>2, <3>3 DEF Underway
  <2> QED BY <2>3, <2>4
<1>7. ASSUME NEW t \in Tasks, Underway(t), ~(m.kind = "start" /\ t = m.task)
      PROVE  Underway(t)'
  <2>1. PICK d \in Executors : \E i \in 1..Len(topic[d]) :
               topic[d][i] = [kind |-> "start", task |-> t]
    BY <1>7 DEF Underway
  <2>2. PICK i \in 1..Len(topic[d]) : topic[d][i] = [kind |-> "start", task |-> t]
    BY <2>1
  <2>3. CASE d # e
    BY <1>2, <2>2, <2>3 DEF Underway
  <2>4. CASE d = e
    <3>1. i # 1
      BY <1>3, <1>7, <2>2, <2>4
    <3>2. i - 1 \in 1..Len(topic'[e]) /\ topic'[e][i - 1] = topic[e][i]
      BY <1>3, <2>4, <3>1
    <3> QED BY <2>2, <2>4, <3>2 DEF Underway
  <2> QED BY <2>3, <2>4
<1> QED BY <1>3, <1>4, <1>5, <1>6, <1>7 DEF m

----
(* What the moves of a request assign. *)

\* A request that begins is where Begin says, with the row it loaded.
LEMMA BeginSets ==
  ASSUME TypeOK, NEW w \in Workers, NEW at, NEW r, NEW row, Begin(w, at, r, row)
  PROVE  pc[w] = "idle" /\ pc'[w] = at /\ req'[w] = r /\ inst'[w] = row
BY DEF Begin, TypeOK, WorkOK

\* A request that goes on keeps what it is about.
LEMMA GotoSets ==
  ASSUME TypeOK, NEW w \in Workers, NEW at, NEW row, Goto(w, at, row)
  PROVE  pc'[w] = at /\ inst'[w] = row /\ req' = req /\ batch' = batch
BY DEF Goto, TypeOK, WorkOK

\* A request that has its answer leaves nothing in its thread.
LEMMA FinishSets ==
  ASSUME TypeOK, NEW w \in Workers, Finish(w)
  PROVE  pc'[w] = "idle" /\ req'[w] = NoRequest /\ inst'[w] = None /\ OnlyBeats(w)'
BY DEF Finish, TypeOK, WorkOK, OnlyBeats

\* Leaving publish() drops the row, whether or not a heartbeat goes on.
LEMMA ReturnSets ==
  ASSUME TypeOK, NEW w \in Workers, Return(w)
  PROVE  pc'[w] \in {"idle", "check"} /\ inst'[w] = None
         /\ req'[w] \in {req[w], NoRequest} /\ OnlyBeats(w)'
<1>1. CASE req[w].op = "heartbeat"
  BY <1>1, GotoSets DEF Return, OnlyBeats
<1>2. CASE req[w].op # "heartbeat"
  BY <1>2, FinishSets DEF Return, OnlyBeats
<1> QED BY <1>1, <1>2

\* save() of a row of the table changes that row and no other.
LEMMA Written ==
  ASSUME TypeOK, NEW r \in Row, r.id \in stored, Write(r)
  PROVE  /\ stored' = stored
         /\ \A t \in Tasks : rows'[t] = IF t = r.id THEN r ELSE rows[t]
BY DEF Write, TypeOK, TableOK, Row

\* A row that is held at a call about it is a row.
LEMMA HeldIsRow ==
  ASSUME TypeOK, NEW w \in Workers, pc[w] \in {"loaded", "send", "save"}
  PROVE  inst[w] \in Row /\ inst[w] # None /\ inst[w].id \in Tasks
BY DEF TypeOK, WorkOK, Row

----
(* What keeps the parts of the invariant. *)

\* What goes on shows in the row as long as neither changes.
LEMMA SameShows ==
  ASSUME NEW w, NEW t \in Tasks, ShowsInRow(w, t), Underway(t)' <=> Underway(t),
         phase'[t] = phase[t], Current(w, t)'.status = Current(w, t).status
  PROVE  ShowsInRow(w, t)'
BY DEF ShowsInRow

\* If no task becomes visible and busy, targets stay with one busy task.
LEMMA FewerBusy ==
  ASSUME NEW w, OneBusy(w),
         \A t \in Tasks : (Visible(t)' /\ Current(w, t)'.status \in PubRunning)
                            => (Visible(t) /\ Current(w, t).status \in PubRunning)
  PROVE  OneBusy(w)'
BY DEF OneBusy

\* A request between rows has nothing that could be out of date.
LEMMA Rests ==
  ASSUME NEW w, pc'[w] \in {"idle", "pop", "check"}
  PROVE  FreshCopy(w)' /\ MaySend(w)' /\ ReportTimely(w)' /\ LostIsGone(w)'
BY DEF FreshCopy, MaySend, ReportTimely, LostIsGone

\* The list of a heartbeat stays timely while no task starts to run unseen.
LEMMA SameList ==
  ASSUME NEW w, ListTimely(w), req'[w] \in {req[w], NoRequest},
         \A t \in Tasks : phase'[t] \in Active =>
           /\ phase[t] \in Active
           /\ Current(w, t)'.status = Current(w, t).status
  PROVE  ListTimely(w)'
BY DEF ListTimely, NoRequest

\* A request that lets go of its row, with everything else as it was.
LEMMA LetsGo ==
  ASSUME NEW w, SerialInv(w), pc[w] # "save", pc'[w] \in {"idle", "pop", "check"},
         inst'[w] = None, req'[w] \in {req[w], NoRequest}, phase' = phase,
         UNCHANGED <<rows, stored, jobs>>, StartsOnce', OnlyBeats(w)',
         \A t \in Tasks : Underway(t)' <=> Underway(t)
  PROVE  SerialInv(w)'
<1>1. \A t \in Tasks : Current(w, t)' = Current(w, t) /\ (Visible(t)' <=> Visible(t))
  BY DEF Current, Visible
<1>2. NoJobs(w)'
  BY DEF SerialInv, NoJobs
<1>3. \A t \in Tasks : ShowsInRow(w, t)'
  BY <1>1, SameShows DEF SerialInv
<1>4. OneBusy(w)'
  BY <1>1, FewerBusy DEF SerialInv
<1>5. ListTimely(w)'
  BY <1>1, SameList DEF SerialInv
<1> QED BY <1>2, <1>3, <1>4, <1>5, Rests DEF SerialInv

\* Topics that do not change.
LEMMA SameTopics ==
  ASSUME topic' = topic
  PROVE  (StartsOnce' <=> StartsOnce) /\ \A t \in Tasks : Underway(t)' <=> Underway(t)
BY DEF StartsOnce, Underway

----
(* Requests and heartbeats arrive. *)

\* A request that has just begun works on a world that has not changed.
LEMMA Begun ==
  ASSUME NEW w, SerialInv(w), TypeOK, w \in Workers,
         NEW at \in {"loaded", "pop"}, NEW r, NEW row, Begin(w, at, r, row),
         row # None => row.sid = None, UNCHANGED <<rows, stored, topic, jobs>>
  PROVE  /\ \A t \in Tasks : Current(w, t) = rows[t] /\ Current(w, t)' = rows[t]
         /\ NoJobs(w)' /\ StartsOnce' /\ OneBusy(w)' /\ MaySend(w)' /\ LostIsGone(w)'
         /\ \A t \in Tasks : Underway(t)' <=> Underway(t)
<1>1. pc[w] = "idle" /\ pc'[w] = at /\ inst'[w] = row
  BY BeginSets
<1>2. \A t \in Tasks : Current(w, t) = rows[t] /\ Current(w, t)' = rows[t]
  BY <1>1 DEF Current
<1>3. NoJobs(w)'
  BY <1>1 DEF SerialInv, NoJobs
<1>4. OneBusy(w)'
  BY <1>2, FewerBusy DEF SerialInv, Visible
<1>5. MaySend(w)' /\ LostIsGone(w)'
  BY <1>1 DEF MaySend, LostIsGone
<1> QED BY <1>2, <1>3, <1>4, <1>5, SameTopics DEF SerialInv

\* A user's request loads the row as it is.
LEMMA UserKeeps ==
  ASSUME NEW w, Serial(w), TypeOK, SerialInv(w), NEW op \in Ops, NEW t \in stored,
         UserRequests(w, op, t)
  PROVE  SerialInv(w)'
<1> DEFINE r == [NoRequest EXCEPT !.op = op, !.status = None]
<1>1. w \in Workers /\ t \in Tasks /\ rows[t].id = t
  BY DEF Serial, TypeOK, TableOK
<1>2. /\ op \in RequestKinds /\ op # "report" /\ Load(w, op, t, None)
      /\ phase' = phase
  BY DEF UserRequests, Load
<1>3. Begin(w, "loaded", r, rows[t]) /\ UNCHANGED <<rows, stored, topic, jobs>>
  BY <1>2 DEF Load, db, broker, celery
<1>4. rows[t].sid = None
  BY <1>1 DEF SerialInv, NoJobs
<1>5. r.op = op
  BY DEF NoRequest
<1> HIDE DEF r
<1>6. pc'[w] = "loaded" /\ inst'[w] = rows[t] /\ req'[w] = r
  BY <1>1, <1>3, BeginSets
<1>7. /\ \A u \in Tasks : Current(w, u) = rows[u] /\ Current(w, u)' = rows[u]
      /\ NoJobs(w)' /\ StartsOnce' /\ OneBusy(w)' /\ MaySend(w)' /\ LostIsGone(w)'
      /\ \A u \in Tasks : Underway(u)' <=> Underway(u)
  BY <1>1, <1>3, <1>4, Begun
<1>8. \A u \in Tasks : ShowsInRow(w, u)'
  BY <1>2, <1>7, SameShows DEF SerialInv
<1>9. FreshCopy(w)' /\ ReportTimely(w)' /\ ListTimely(w)' /\ OnlyBeats(w)'
  BY <1>1, <1>2, <1>3, <1>5, <1>6
     DEF FreshCopy, ReportTimely, ListTimely, OnlyBeats, RequestKinds
<1> QED BY <1>7, <1>8, <1>9 DEF SerialInv

\* An agent reports what it is doing.
LEMMA ReportKeeps ==
  ASSUME NEW w, Serial(w), TypeOK, phase \in [Tasks -> Phases], SerialInv(w),
         NEW t \in Tasks, AgentReports(w, t)
  PROVE  SerialInv(w)'
<1> DEFINE s == ReportDue[phase[t]]
           r == [NoRequest EXCEPT !.op = "report", !.status = s]
<1>1. w \in Workers /\ rows[t].id = t
  BY DEF Serial, TypeOK, TableOK
<1>2. /\ phase[t] \in {"accepted", "starting", "completed", "stopped"}
      /\ Load(w, "report", t, s) /\ t \in stored
      /\ phase' = [phase EXCEPT ![t] = PhaseAfter[@]]
  BY DEF AgentReports, ReportDue, Load
<1>3. Begin(w, "loaded", r, rows[t]) /\ UNCHANGED <<rows, stored, topic, jobs>>
  BY <1>2 DEF Load, db, broker, celery
<1>4. rows[t].sid = None
  BY <1>1 DEF SerialInv, NoJobs
<1>5. r.op = "report" /\ r.status = s
  BY DEF NoRequest
<1> HIDE DEF r
<1>6. pc'[w] = "loaded" /\ inst'[w] = rows[t] /\ req'[w] = r
  BY <1>1, <1>3, BeginSets
<1>7. /\ \A u \in Tasks : Current(w, u) = rows[u] /\ Current(w, u)' = rows[u]
      /\ NoJobs(w)' /\ StartsOnce' /\ OneBusy(w)' /\ MaySend(w)' /\ LostIsGone(w)'
      /\ \A u \in Tasks : Underway(u)' <=> Underway(u)
  BY <1>1, <1>3, <1>4, Begun
<1>8. /\ phase'[t] = PhaseAfter[phase[t]]
      /\ \A u \in Tasks \ {t} : phase'[u] = phase[u]
  BY <1>2
<1>9. ShowsInRow(w, t) /\ ~Underway(t)
  BY <1>2 DEF SerialInv, ShowsInRow
<1>10. \A u \in Tasks : ShowsInRow(w, u)'
  <2>1. ShowsInRow(w, t)'
    BY <1>2, <1>7, <1>8, <1>9 DEF ShowsInRow, PhaseAfter, Active
  <2>2. \A u \in Tasks \ {t} : ShowsInRow(w, u)'
    BY <1>7, <1>8, SameShows DEF SerialInv
  <2> QED BY <2>1, <2>2
<1>11. ReportTimely(w)'
  <2>1. CASE phase[t] \in {"accepted", "starting"}
    <3>1. s \in {"Starting", "Running"} /\ rows[t].status \in PubRunning
      BY <1>7, <1>9, <2>1 DEF ReportDue, ShowsInRow, Active
    <3> QED BY <1>1, <1>5, <1>6, <1>7, <1>9, <3>1 DEF ReportTimely
  <2>2. CASE phase[t] \in {"completed", "stopped"}
    <3>1. s \in {"Completed", "Terminated"} /\ phase'[t] = "none"
      BY <1>8, <2>2 DEF ReportDue, PhaseAfter
    <3> QED BY <1>1, <1>5, <1>6, <1>7, <1>9, <3>1 DEF ReportTimely
  <2> QED BY <1>2, <2>1, <2>2
<1>12. FreshCopy(w)' /\ ListTimely(w)' /\ OnlyBeats(w)'
  BY <1>1, <1>2, <1>3, <1>5, <1>6 DEF FreshCopy, ListTimely, OnlyBeats
<1> QED BY <1>7, <1>10, <1>11, <1>12 DEF SerialInv

\* A heartbeat lists all its agent runs.
LEMMA BeatKeeps ==
  ASSUME NEW w, Serial(w), TypeOK, SerialInv(w), NEW e \in Executors, AgentBeats(w, e)
  PROVE  SerialInv(w)'
<1> DEFINE r == [NoRequest EXCEPT !.op = "heartbeat", !.executor = e, !.list = Listed(e)]
<1>1. w \in Workers
  BY DEF Serial
<1>2. /\ Begin(w, "pop", r, None) /\ UNCHANGED <<rows, stored, topic, jobs>>
      /\ phase' = phase
  BY DEF AgentBeats, Heartbeat, outside, db, broker, celery
<1>3. r.op = "heartbeat" /\ r.executor = e /\ r.list = Listed(e)
  BY DEF NoRequest
<1> HIDE DEF r
<1>4. pc'[w] = "pop" /\ req'[w] = r
  BY <1>1, <1>2, BeginSets
<1>5. /\ \A u \in Tasks : Current(w, u) = rows[u] /\ Current(w, u)' = rows[u]
      /\ NoJobs(w)' /\ StartsOnce' /\ OneBusy(w)' /\ MaySend(w)' /\ LostIsGone(w)'
      /\ \A u \in Tasks : Underway(u)' <=> Underway(u)
  BY <1>1, <1>2, Begun
<1>6. \A u \in Tasks : ShowsInRow(w, u)'
  BY <1>2, <1>5, SameShows DEF SerialInv
<1>7. ListTimely(w)' /\ OnlyBeats(w)'
  BY <1>2, <1>3, <1>4 DEF ListTimely, OnlyBeats, Listed
<1> QED BY <1>4, <1>5, <1>6, <1>7, Rests DEF SerialInv

----
(* Executing. *)

\* Without schedules and jobs an execute is a publish.
LEMMA NoSchedule ==
  ASSUME NEW w, Serial(w)
  PROVE  ~WantsSchedule(w)
BY DEF Serial, WantsSchedule

\* A task that may start neither runs nor is about to.
LEMMA MayStartIsFree ==
  ASSUME NEW w, phase \in [Tasks -> Phases], NEW t \in Tasks, ShowsInRow(w, t),
         AllowStart(Current(w, t).status)
  PROVE  phase[t] = "none" /\ ~Underway(t)
BY DEF ShowsInRow, AllowStart, AllowStartStatus, PubRunning, Phases, Active

\* publish() finds the target idle and goes on to send.
LEMMA IdleKeeps ==
  ASSUME NEW w, Serial(w), TypeOK, SerialInv(w), WantsPublish(w),
         IsIdling(TargetOf[inst[w].id]), Goto(w, "send", inst[w]),
         UNCHANGED <<rows, stored, topic, jobs, phase>>
  PROVE  SerialInv(w)'
<1>1. w \in Workers /\ pc[w] = "loaded"
  BY DEF Serial, WantsPublish, Executes
<1>2. pc'[w] = "send" /\ inst'[w] = inst[w] /\ req' = req /\ batch' = batch
  BY <1>1, GotoSets
<1>3. \A t \in Tasks : Current(w, t)' = Current(w, t) /\ (Visible(t)' <=> Visible(t))
  BY <1>1, <1>2 DEF Current, Visible
<1>4. \A t \in Tasks : ShowsInRow(w, t)'
  BY <1>3, SameShows, SameTopics DEF SerialInv
<1>5. OneBusy(w)' /\ ListTimely(w)'
  BY <1>2, <1>3, FewerBusy, SameList DEF SerialInv
<1>6. NoJobs(w)' /\ FreshCopy(w)' /\ ReportTimely(w)' /\ OnlyBeats(w)' /\ LostIsGone(w)'
  BY <1>1, <1>2 DEF SerialInv, NoJobs, FreshCopy, ReportTimely, OnlyBeats, LostIsGone
<1>7. MaySend(w)'
  BY <1>2 DEF MaySend, WantsPublish, IsIdling, Visible
<1> QED BY <1>4, <1>5, <1>6, <1>7, SameTopics DEF SerialInv

\* publish() finds the target busy and goes on to save the row as queued.
LEMMA QueueKeeps ==
  ASSUME NEW w, Serial(w), TypeOK, phase \in [Tasks -> Phases], SerialInv(w),
         WantsPublish(w), Goto(w, "save", [inst[w] EXCEPT !.status = "Queuing"]),
         UNCHANGED <<rows, stored, topic, jobs, phase>>
  PROVE  SerialInv(w)'
<1> DEFINE r == [inst[w] EXCEPT !.status = "Queuing"]
<1>1. w \in Workers /\ pc[w] = "loaded"
  BY DEF Serial, WantsPublish, Executes
<1>0. PICK t \in Tasks : t = inst[w].id
  BY <1>1, HeldIsRow
<1>2. inst[w] \in Row /\ t = inst[w].id /\ t \in stored /\ inst[w] = rows[t]
  BY <1>0, <1>1, HeldIsRow DEF SerialInv, FreshCopy
<1>3. r.id = t /\ r.status = "Queuing" /\ r.sid = inst[w].sid
      /\ r.deleted = inst[w].deleted /\ r.reason = inst[w].reason
  BY <1>2 DEF Row
<1> HIDE DEF r
<1>4. pc'[w] = "save" /\ inst'[w] = r /\ req' = req /\ batch' = batch
  BY <1>1, GotoSets DEF r
<1>5. \A u \in Tasks : Current(w, u) = rows[u]
                       /\ Current(w, u)' = IF u = t THEN r ELSE rows[u]
  BY <1>1, <1>3, <1>4 DEF Current
<1>6. phase[t] = "none" /\ ~Underway(t)
  BY <1>2, <1>5, MayStartIsFree DEF WantsPublish, SerialInv
<1>7. \A u \in Tasks : ShowsInRow(w, u)'
  <2>1. ShowsInRow(w, t)'
    BY <1>2, <1>6, SameTopics DEF ShowsInRow, Active
  <2>2. \A u \in Tasks \ {t} : Current(w, u)'.status = Current(w, u).status
    BY <1>5
  <2>3. \A u \in Tasks \ {t} : ShowsInRow(w, u)'
    BY <2>2, SameShows, SameTopics DEF SerialInv
  <2> QED BY <2>1, <2>3
<1>8. OneBusy(w)'
  BY <1>3, <1>5, FewerBusy DEF SerialInv, PubRunning, Visible
<1>9. ListTimely(w)'
  BY <1>4, <1>5, <1>6, SameList DEF SerialInv, Active
<1>10. NoJobs(w)'
  BY <1>2, <1>3, <1>4, NoneAssumption DEF SerialInv, NoJobs
<1>11. FreshCopy(w)' /\ MaySend(w)' /\ ReportTimely(w)' /\ OnlyBeats(w)' /\ LostIsGone(w)'
  BY <1>2, <1>3, <1>4 DEF FreshCopy, MaySend, ReportTimely, OnlyBeats, LostIsGone
<1> QED BY <1>7, <1>8, <1>9, <1>10, <1>11, SameTopics DEF SerialInv

\* The start message is sent: the target was idle, so it has one task now.
LEMMA StartKeeps ==
  ASSUME NEW w, Serial(w), TypeOK, phase \in [Tasks -> Phases], SerialInv(w),
         SendStart(w), phase' = phase
  PROVE  SerialInv(w)'
<1> DEFINE r == [inst[w] EXCEPT !.status = "Published", !.reason = "none"]
<1>1. w \in Workers /\ pc[w] = "send" /\ UNCHANGED <<rows, stored, jobs>>
  BY DEF Serial, SendStart, db, celery
<1>0. PICK t \in Tasks : t = inst[w].id
  BY <1>1, HeldIsRow
<1>2. inst[w] \in Row /\ t = inst[w].id /\ t \in stored /\ inst[w] = rows[t]
      /\ inst[w] # None
  BY <1>0, <1>1, HeldIsRow DEF SerialInv, FreshCopy
<1>3. r.id = t /\ r.status = "Published" /\ r.sid = inst[w].sid
      /\ r.deleted = inst[w].deleted /\ r.reason = "none"
  BY <1>2 DEF Row
<1>4. Deliver(w, "start", 1) /\ Goto(w, "save", r)
  BY SerialCopies DEF SendStart
<1> HIDE DEF r
<1>5. pc'[w] = "save" /\ inst'[w] = r /\ req' = req /\ batch' = batch
  BY <1>1, <1>4, GotoSets
<1>6. \A u \in Tasks : Current(w, u) = rows[u]
                       /\ Current(w, u)' = IF u = t THEN r ELSE rows[u]
  BY <1>1, <1>3, <1>5 DEF Current
<1>7. phase[t] = "none" /\ ~Underway(t)
  BY <1>1, <1>2, <1>6, MayStartIsFree DEF MaySend, SerialInv
<1>8. StartsOnce' /\ \A u \in Tasks : Underway(u)' <=> Underway(u) \/ u = t
  BY <1>1, <1>2, <1>4, <1>7, StartIsSent DEF SerialInv
<1>9. \A u \in Tasks : ShowsInRow(w, u)'
  <2>1. ShowsInRow(w, t)'
    BY <1>2, <1>3, <1>6, <1>7 DEF ShowsInRow, Active
  <2>2. \A u \in Tasks \ {t} : Current(w, u)'.status = Current(w, u).status
    BY <1>6
  <2>3. \A u \in Tasks \ {t} : ShowsInRow(w, u)'
    BY <1>8, <2>2, SameShows DEF SerialInv
  <2> QED BY <2>1, <2>3
<1>10. OneBusy(w)'
  <2>1. \A u \in Tasks : Visible(u)' <=> Visible(u)
    BY <1>1 DEF Visible
  <2>2. \A u \in Tasks : Visible(u) /\ TargetOf[u] = TargetOf[t] => rows[u].status \notin PubRunning
    BY <1>1, <1>2 DEF SerialInv, MaySend, IsIdling
  <2> QED BY <1>2, <1>6, <2>1, <2>2 DEF SerialInv, OneBusy
<1>11. ListTimely(w)'
  BY <1>5, <1>6, <1>7, SameList DEF SerialInv, Active
<1>12. NoJobs(w)'
  BY <1>1, <1>2, <1>3, <1>5 DEF SerialInv, NoJobs
<1>13. FreshCopy(w)' /\ MaySend(w)' /\ ReportTimely(w)' /\ OnlyBeats(w)' /\ LostIsGone(w)'
  BY <1>1, <1>2, <1>3, <1>5 DEF FreshCopy, MaySend, ReportTimely, OnlyBeats, LostIsGone
<1> QED BY <1>8, <1>9, <1>10, <1>11, <1>12, <1>13 DEF SerialInv

\* A send that fails delivers nothing.
LEMMA StartFailsKeeps ==
  ASSUME NEW w, Serial(w), TypeOK, SerialInv(w), SendStartFails(w), phase' = phase
  PROVE  SerialInv(w)'
<1>1. w \in Workers /\ pc[w] = "send" /\ UNCHANGED <<rows, stored, jobs>> /\ Finish(w)
  BY DEF Serial, SendStartFails, db, celery
<1>2. inst[w] \in Row
  BY <1>1, HeldIsRow
<1>3. topic' = topic
  <2>1. ASSUME NEW n \in FailedCopies, Deliver(w, "start", n) PROVE topic' = topic
    BY <1>1, <1>2, <2>1, SerialCopies, DeliverNone
  <2> QED BY <2>1 DEF SendStartFails, broker
<1> QED BY <1>1, <1>3, FinishSets, SameTopics, LetsGo DEF SerialInv

\* One step of execute_task or pop_task's publish.
LEMMA ExecutionKeeps ==
  ASSUME NEW w, Serial(w), TypeOK, phase \in [Tasks -> Phases], SerialInv(w),
         Execution(w), phase' = phase
  PROVE  SerialInv(w)'
<1>1. ~Schedule(w) /\ ~ScheduleFails(w)
  BY NoSchedule DEF Schedule, ScheduleFails
<1>2. CASE CheckTarget(w)
  <2>1. UNCHANGED <<rows, stored, topic, jobs, phase>> /\ WantsPublish(w)
    BY <1>2 DEF CheckTarget, db, broker, celery
  <2> QED BY <1>2, <2>1, IdleKeeps, QueueKeeps DEF CheckTarget
<1>3. CASE RefuseExecute(w)
  <2>1. w \in Workers /\ pc[w] = "loaded" /\ Return(w) /\ UNCHANGED <<rows, stored, topic, jobs>>
    BY <1>3 DEF Serial, RefuseExecute, Executes, db, broker, celery
  <2> QED BY <2>1, ReturnSets, SameTopics, LetsGo DEF SerialInv
<1>4. CASE SendStart(w)
  BY <1>4, StartKeeps
<1>5. CASE SendStartFails(w)
  BY <1>5, StartFailsKeeps
<1> QED BY <1>1, <1>2, <1>3, <1>4, <1>5 DEF Execution

----
(* Stopping, and the heartbeat's queries. *)

\* Nothing is revoked, and a stop message changes no row.
LEMMA StoppingKeeps ==
  ASSUME NEW w, Serial(w), TypeOK, SerialInv(w), Stopping(w), phase' = phase
  PROVE  SerialInv(w)'
<1>1. w \in Workers
  BY DEF Serial
<1>2. ~Revoke(w)
  BY <1>1, HeldIsRow DEF Revoke, Stops, SerialInv, NoJobs
<1>3. CASE SendStop(w)
  <2>1. pc[w] = "loaded" /\ UNCHANGED <<rows, stored, jobs>> /\ Finish(w) /\ inst[w] \in Row
    BY <1>1, <1>3, HeldIsRow DEF SendStop, MayTerminate, Stops, db, celery
  <2>2. StartsOnce' /\ \A t \in Tasks : Underway(t)' <=> Underway(t)
    <3>1. ASSUME NEW n \in AckedCopies \cup FailedCopies, Deliver(w, "stop", n)
          PROVE  StartsOnce' /\ \A t \in Tasks : Underway(t)' <=> Underway(t)
      <4>1. CASE n = 1
        BY <1>1, <2>1, <3>1, <4>1, StopIsSent DEF SerialInv
      <4>2. CASE n = 0
        BY <1>1, <2>1, <3>1, <4>2, DeliverNone, SameTopics DEF SerialInv
      <4> QED BY <3>1, <4>1, <4>2, SerialCopies
    <3>2. CASE UNCHANGED broker
      BY <3>2, SameTopics DEF broker, SerialInv
    <3> QED BY <1>3, <3>1, <3>2 DEF SendStop
  <2> QED BY <1>1, <2>1, <2>2, FinishSets, LetsGo
<1>4. CASE RefuseStop(w)
  <2>1. pc[w] = "loaded" /\ UNCHANGED <<rows, stored, topic, jobs>> /\ Finish(w)
    BY <1>4 DEF RefuseStop, Stops, db, broker, celery
  <2> QED BY <1>1, <2>1, FinishSets, SameTopics, LetsGo DEF SerialInv
<1> QED BY <1>2, <1>3, <1>4 DEF Stopping

\* pop_task takes a row of the table, or nothing.
LEMMA PopKeeps ==
  ASSUME NEW w, Serial(w), TypeOK, SerialInv(w), PopTask(w), phase' = phase
  PROVE  SerialInv(w)'
<1>1. w \in Workers /\ pc[w] = "pop" /\ UNCHANGED <<rows, stored, topic, jobs>>
  BY DEF Serial, PopTask, db, broker, celery
<1>2. CASE Goto(w, "check", None)
  <2>1. pc'[w] = "check" /\ inst'[w] = None /\ req' = req /\ OnlyBeats(w)'
    BY <1>1, <1>2, GotoSets DEF SerialInv, OnlyBeats
  <2> QED BY <1>1, <2>1, SameTopics, LetsGo DEF SerialInv
<1>3. ASSUME NEW t \in Queued(req[w].executor), Goto(w, "loaded", rows[t])
      PROVE  SerialInv(w)'
  <2>1. t \in stored /\ t \in Tasks /\ rows[t].id = t
    BY DEF Queued, TypeOK, TableOK
  <2>2. pc'[w] = "loaded" /\ inst'[w] = rows[t] /\ req' = req /\ batch' = batch
    BY <1>1, <1>3, GotoSets
  <2>3. \A u \in Tasks : Current(w, u)' = Current(w, u) /\ (Visible(u)' <=> Visible(u))
    BY <1>1, <2>2 DEF Current, Visible
  <2>4. (\A u \in Tasks : ShowsInRow(w, u)') /\ OneBusy(w)' /\ ListTimely(w)'
    BY <2>2, <2>3, <1>1, SameTopics, SameShows, FewerBusy, SameList DEF SerialInv
  <2>5. NoJobs(w)' /\ FreshCopy(w)' /\ MaySend(w)' /\ LostIsGone(w)'
    BY <1>1, <2>1, <2>2 DEF SerialInv, NoJobs, FreshCopy, MaySend, LostIsGone
  <2>6. ReportTimely(w)' /\ OnlyBeats(w)'
    BY <1>1, <2>2 DEF SerialInv, OnlyBeats, ReportTimely
  <2> QED BY <1>1, <2>4, <2>5, <2>6, SameTopics DEF SerialInv
<1> QED BY <1>2, <1>3 DEF PopTask

\* check_task finds rows that say a task runs, and that nobody runs: the list is
\* older than the rows, but what was started since says PUBLISHED.
LEMMA CheckKeeps ==
  ASSUME NEW w, Serial(w), TypeOK, SerialInv(w), CheckTasks(w), phase' = phase
  PROVE  SerialInv(w)'
<1> DEFINE missing == Missing(req[w].executor, req[w].list)
<1>1. w \in Workers /\ pc[w] = "check" /\ UNCHANGED <<rows, stored, topic, jobs>>
  BY DEF Serial, CheckTasks, db, broker, celery
<1>2. CASE Finish(w)
  BY <1>1, <1>2, FinishSets, SameTopics, LetsGo DEF SerialInv
<1>3. CASE /\ pc' = [pc EXCEPT ![w] = "sweep"]
           /\ batch' = [batch EXCEPT ![w] = {rows[t] : t \in missing}]
           /\ UNCHANGED <<req, inst>>
  <2>1. pc'[w] = "sweep" /\ batch'[w] = {rows[t] : t \in missing}
    BY <1>1, <1>3 DEF TypeOK, WorkOK
  <2>2. \A u \in Tasks : Current(w, u) = rows[u] /\ Current(w, u)' = Current(w, u)
                         /\ (Visible(u)' <=> Visible(u))
    BY <1>1, <2>1 DEF Current, Visible
  <2>3. ASSUME NEW t \in missing
        PROVE  t \in stored /\ t \in Tasks /\ rows[t].id = t /\ ~Committed(t)
    <3>1. t \in stored /\ t \in Tasks /\ rows[t].id = t
          /\ ExecutorOf[t] = req[w].executor /\ t \notin req[w].list
          /\ rows[t].status \in RunningStatus
      BY DEF Missing, TypeOK, TableOK
    <3>2. Current(w, t).status # "Published"
      BY <2>2, <3>1 DEF RunningStatus
    <3>3. ~Underway(t)
      BY <3>1, <3>2 DEF SerialInv, ShowsInRow
    <3>4. phase[t] \notin Active
      BY <1>1, <3>1, <3>2 DEF SerialInv, ListTimely, OnlyBeats
    <3> QED BY <3>1, <3>3, <3>4 DEF Committed
  <2>4. \A t \in Tasks : Committed(t)' <=> Committed(t)
    BY <1>1, SameTopics DEF Committed
  <2>5. LostIsGone(w)'
    <3> SUFFICES ASSUME NEW r \in batch'[w]
                 PROVE  r.id \in stored' /\ r = rows'[r.id] /\ ~Committed(r.id)'
      BY <2>1 DEF LostIsGone
    <3>1. PICK t \in missing : r = rows[t]
      BY <2>1
    <3> QED BY <1>1, <2>3, <2>4, <3>1
  <2>6. (\A t \in Tasks : ShowsInRow(w, t)') /\ OneBusy(w)' /\ ListTimely(w)'
    BY <1>1, <1>3, <2>2, SameTopics, SameShows, FewerBusy, SameList DEF SerialInv
  <2>7. NoJobs(w)' /\ FreshCopy(w)' /\ MaySend(w)' /\ ReportTimely(w)' /\ OnlyBeats(w)'
    BY <1>1, <1>3, <2>1 DEF SerialInv, NoJobs, FreshCopy, MaySend, ReportTimely, OnlyBeats
  <2> QED BY <1>1, <2>5, <2>6, <2>7, SameTopics DEF SerialInv
<1> QED BY <1>2, <1>3 DEF CheckTasks

----
(* Writing rows. *)

\* What a save() leaves, given that the row it writes is right about its task
\* and busy only if it was.
LEMMA WrittenKeeps ==
  ASSUME NEW w, TypeOK, SerialInv(w), NEW r \in Row, r.id \in stored, Write(r),
         r.sid = None, pc'[w] \notin {"loaded", "send", "save"},
         inst'[w] # None => inst'[w].sid = None,
         \A u \in Tasks \ {r.id} : Current(w, u) = rows[u],
         r.status \in PubRunning /\ ~r.deleted =>
           Current(w, r.id).status \in PubRunning /\ ~rows[r.id].deleted,
         UNCHANGED <<topic, jobs, phase>>
  PROVE  /\ stored' = stored
         /\ \A u \in Tasks : rows'[u] = IF u = r.id THEN r ELSE rows[u]
         /\ \A u \in Tasks : Current(w, u)' = IF u = r.id THEN r ELSE Current(w, u)
         /\ NoJobs(w)' /\ StartsOnce' /\ OneBusy(w)'
         /\ \A u \in Tasks : u # r.id => ShowsInRow(w, u)'
         /\ \A u \in Tasks : Underway(u)' <=> Underway(u)
<1>1. stored' = stored /\ \A u \in Tasks : rows'[u] = IF u = r.id THEN r ELSE rows[u]
  BY Written
<1>2. \A u \in Tasks : Current(w, u)' = IF u = r.id THEN r ELSE Current(w, u)
  BY <1>1 DEF Current
<1>3. NoJobs(w)'
  BY <1>1 DEF SerialInv, NoJobs
<1>4. StartsOnce' /\ \A u \in Tasks : Underway(u)' <=> Underway(u)
  BY SameTopics DEF SerialInv
<1>5. OneBusy(w)'
  BY <1>1, <1>2, FewerBusy DEF SerialInv, Visible
<1>6. ASSUME NEW u \in Tasks, u # r.id PROVE ShowsInRow(w, u)'
  BY <1>2, <1>4, <1>6, SameShows DEF SerialInv
<1> QED BY <1>1, <1>2, <1>3, <1>4, <1>5, <1>6

\* The row a request has made up reaches the table.
LEMMA SaveKeeps ==
  ASSUME NEW w, Serial(w), TypeOK, SerialInv(w), Save(w), phase' = phase
  PROVE  SerialInv(w)'
<1>1. w \in Workers /\ pc[w] = "save" /\ Write(inst[w]) /\ Return(w)
      /\ UNCHANGED <<topic, jobs>>
  BY DEF Serial, Save, broker, celery
<1>2. inst[w] \in Row /\ inst[w] # None /\ inst[w].id \in stored
      /\ inst[w].deleted = rows[inst[w].id].deleted /\ inst[w].sid = None
  BY <1>1, HeldIsRow DEF SerialInv, FreshCopy, NoJobs
<1>3. pc'[w] \in {"idle", "check"} /\ inst'[w] = None
      /\ req'[w] \in {req[w], NoRequest} /\ OnlyBeats(w)'
  BY <1>1, ReturnSets
<1>4. Current(w, inst[w].id) = inst[w]
      /\ \A u \in Tasks \ {inst[w].id} : Current(w, u) = rows[u]
  BY <1>1 DEF Current
<1>5. /\ \A u \in Tasks : Current(w, u)' = Current(w, u)
      /\ NoJobs(w)' /\ StartsOnce' /\ OneBusy(w)'
      /\ \A u \in Tasks : Underway(u)' <=> Underway(u)
  BY <1>1, <1>2, <1>3, <1>4, WrittenKeeps
<1>6. (\A u \in Tasks : ShowsInRow(w, u)') /\ ListTimely(w)'
  BY <1>3, <1>5, SameShows, SameList DEF SerialInv
<1> QED BY <1>3, <1>5, <1>6, Rests DEF SerialInv

\* delete_task and edits write back the row as it is, or hide it.
LEMMA HideKeeps ==
  ASSUME NEW w, Serial(w), TypeOK, SerialInv(w), HideTask(w) \/ EditTask(w),
         phase' = phase
  PROVE  SerialInv(w)'
<1>1. w \in Workers /\ pc[w] = "loaded" /\ Finish(w) /\ UNCHANGED <<topic, jobs>>
  BY DEF Serial, HideTask, EditTask, broker, celery
<1>2. PICK r \in {inst[w], [inst[w] EXCEPT !.deleted = TRUE]} : Write(r)
  BY DEF HideTask, EditTask
<1>3. inst[w] \in Row /\ inst[w] # None /\ inst[w].id \in stored
      /\ inst[w] = rows[inst[w].id] /\ inst[w].sid = None
  BY <1>1, HeldIsRow DEF SerialInv, FreshCopy, NoJobs
<1>4. r \in Row /\ r.id = inst[w].id /\ r.status = inst[w].status /\ r.sid = None
      /\ (~r.deleted => ~inst[w].deleted)
  BY <1>2, <1>3 DEF Row
<1>5. pc'[w] = "idle" /\ inst'[w] = None /\ req'[w] = NoRequest /\ OnlyBeats(w)'
  BY <1>1, FinishSets
<1>6. \A u \in Tasks : Current(w, u) = rows[u]
  BY <1>1 DEF Current
<1>7. r.id \in Tasks
  BY <1>4 DEF Row
<1>8. /\ \A u \in Tasks : Current(w, u)' = IF u = r.id THEN r ELSE Current(w, u)
      /\ NoJobs(w)' /\ StartsOnce' /\ OneBusy(w)'
      /\ \A u \in Tasks : Underway(u)' <=> Underway(u)
  BY <1>1, <1>2, <1>3, <1>4, <1>5, <1>6, <1>7, WrittenKeeps
<1>9. \A u \in Tasks : Current(w, u)'.status = Current(w, u).status
  BY <1>3, <1>4, <1>6, <1>7, <1>8
<1>10. (\A u \in Tasks : ShowsInRow(w, u)') /\ ListTimely(w)'
  BY <1>5, <1>8, <1>9, SameShows, SameList DEF SerialInv
<1> QED BY <1>5, <1>8, <1>10, Rests DEF SerialInv

\* A report is written while it still says what its agent does, or did.
LEMMA WrittenReportKeeps ==
  ASSUME NEW w, Serial(w), TypeOK, SerialInv(w), ReportTask(w), phase' = phase
  PROVE  SerialInv(w)'
<1> DEFINE r == [inst[w] EXCEPT !.status = req[w].status]
<1>1. w \in Workers /\ pc[w] = "loaded" /\ req[w].op = "report" /\ Write(r)
      /\ Finish(w) /\ UNCHANGED <<topic, jobs>>
  BY DEF Serial, ReportTask, broker, celery
<1>2. PICK t \in Tasks : t = inst[w].id
  BY <1>1, HeldIsRow
<1>3. inst[w] \in Row /\ inst[w] # None /\ t \in stored
      /\ inst[w] = rows[t] /\ inst[w].sid = None /\ req[w].status \in Status
  BY <1>1, <1>2, HeldIsRow, ReportsAssumption
     DEF SerialInv, FreshCopy, NoJobs, TypeOK, WorkOK
<1>4. r \in Row /\ r.id = t /\ r.status = req[w].status /\ r.sid = None
      /\ r.deleted = rows[t].deleted
  BY <1>2, <1>3 DEF Row
<1> HIDE DEF r
<1>5. pc'[w] = "idle" /\ inst'[w] = None /\ req'[w] = NoRequest /\ OnlyBeats(w)'
  BY <1>1, FinishSets
<1>6. \A u \in Tasks : Current(w, u) = rows[u]
  BY <1>1 DEF Current
<1>7. /\ ~Underway(t)
      /\ \/ r.status \in {"Starting", "Running"} /\ rows[t].status \in PubRunning
         \/ r.status \in {"Completed", "Terminated"} /\ phase[t] = "none"
  BY <1>1, <1>2, <1>3, <1>4 DEF SerialInv, ReportTimely
<1>8. r.status \in PubRunning => rows[t].status \in PubRunning
  BY <1>7 DEF PubRunning
<1>9. /\ \A u \in Tasks : Current(w, u)' = IF u = t THEN r ELSE Current(w, u)
      /\ NoJobs(w)' /\ StartsOnce' /\ OneBusy(w)'
      /\ \A u \in Tasks : u # t => ShowsInRow(w, u)'
      /\ \A u \in Tasks : Underway(u)' <=> Underway(u)
  BY <1>1, <1>3, <1>4, <1>5, <1>6, <1>8, WrittenKeeps
<1>10. ShowsInRow(w, t)'
  <2>1. phase[t] \in Active \cup {"completed", "stopped"} => r.status \in PubRunning
    BY <1>7 DEF Active, PubRunning
  <2> QED BY <1>7, <1>9, <2>1 DEF ShowsInRow
<1>11. ListTimely(w)'
  BY <1>5 DEF ListTimely, NoRequest
<1> QED BY <1>5, <1>9, <1>10, <1>11, Rests DEF SerialInv

\* A row is marked lost that nobody runs; the next ones are as they were read.
LEMMA SweepKeeps ==
  ASSUME NEW w, Serial(w), TypeOK, SerialInv(w), NEW b \in batch[w], SweepTask(w, b),
         phase' = phase
  PROVE  SerialInv(w)'
<1> DEFINE r == [b EXCEPT !.status = "Error", !.reason = "lost"]
<1>1. w \in Workers /\ pc[w] = "sweep" /\ Write(r) /\ UNCHANGED <<topic, jobs>>
  BY DEF Serial, SweepTask, broker, celery
<1>2. b \in Row /\ b.id \in stored /\ b = rows[b.id] /\ ~Committed(b.id)
  BY <1>1 DEF SerialInv, LostIsGone, TypeOK, WorkOK
<1>3. PICK t \in Tasks : t = b.id
  BY <1>2 DEF Row
<1>4. r \in Row /\ r.id = t /\ r.status = "Error" /\ r.sid = None
      /\ r.deleted = rows[t].deleted
  BY <1>2, <1>3 DEF Row, Status, Reasons, SerialInv, NoJobs
<1> HIDE DEF r
<1>5. \/ pc'[w] = "idle" /\ inst'[w] = None /\ req'[w] = NoRequest
      \/ /\ pc'[w] = "sweep" /\ inst' = inst /\ req' = req
         /\ batch'[w] = batch[w] \ {b}
  BY <1>1, FinishSets DEF SweepTask, TypeOK, WorkOK
<1>6. \A u \in Tasks : Current(w, u) = rows[u]
  BY <1>1 DEF Current
<1>7. /\ stored' = stored
      /\ \A u \in Tasks : rows'[u] = IF u = t THEN r ELSE rows[u]
      /\ \A u \in Tasks : Current(w, u)' = IF u = t THEN r ELSE Current(w, u)
      /\ NoJobs(w)' /\ StartsOnce' /\ OneBusy(w)'
      /\ \A u \in Tasks : u # t => ShowsInRow(w, u)'
      /\ \A u \in Tasks : Underway(u)' <=> Underway(u)
  <2>1. inst'[w] # None => inst'[w].sid = None
    BY <1>5 DEF SerialInv, NoJobs
  <2>2. r.status \notin PubRunning
    BY <1>4 DEF PubRunning
  <2> QED BY <1>1, <1>2, <1>3, <1>4, <1>5, <1>6, <2>1, <2>2, WrittenKeeps
<1>8. ~Underway(t) /\ phase[t] \notin Active
  BY <1>2, <1>3 DEF Committed
<1>9. ShowsInRow(w, t)'
  BY <1>4, <1>7, <1>8 DEF ShowsInRow
<1>10. ListTimely(w)'
  BY <1>5, <1>7, <1>8, SameList DEF SerialInv
<1>11. LostIsGone(w)'
  <2> SUFFICES ASSUME pc'[w] = "sweep", NEW c \in batch'[w]
               PROVE  c.id \in stored' /\ c = rows'[c.id] /\ ~Committed(c.id)'
    BY DEF LostIsGone
  <2>1. c \in batch[w] /\ c # b
    BY <1>5
  <2>2. c \in Row /\ c.id \in stored /\ c = rows[c.id] /\ ~Committed(c.id)
    BY <1>1, <2>1 DEF SerialInv, LostIsGone, TypeOK, WorkOK
  <2>3. c.id \in Tasks /\ c.id # t
    BY <1>2, <1>3, <2>1, <2>2 DEF Row
  <2> QED BY <1>7, <2>2, <2>3 DEF Committed
<1>12. FreshCopy(w)' /\ MaySend(w)' /\ ReportTimely(w)' /\ OnlyBeats(w)'
  BY <1>1, <1>5 DEF SerialInv, FreshCopy, MaySend, ReportTimely, OnlyBeats
<1> QED BY <1>7, <1>9, <1>10, <1>11, <1>12 DEF SerialInv

\* One step of the request.
LEMMA RequestKeeps ==
  ASSUME NEW w, Serial(w), TypeOK, phase \in [Tasks -> Phases], SerialInv(w),
         Step(w), phase' = phase
  PROVE  SerialInv(w)'
<1>1. CASE Save(w)
  BY <1>1, SaveKeeps
<1>2. CASE HideTask(w) \/ EditTask(w)
  BY <1>2, HideKeeps
<1>3. CASE ReportTask(w)
  BY <1>3, WrittenReportKeeps
<1>4. CASE Execution(w)
  BY <1>4, ExecutionKeeps
<1>5. CASE Stopping(w)
  BY <1>5, StoppingKeeps
<1>6. CASE Beating(w)
  BY <1>6, PopKeeps, CheckKeeps, SweepKeeps DEF Beating
<1> QED BY <1>1, <1>2, <1>3, <1>4, <1>5, <1>6 DEF Step

----
(* The agents. *)

\* What agents do on their own: no task is started twice or goes back to its
\* agent, and what starts to run says PUBLISHED.
LEMMA AgentKeeps ==
  ASSUME NEW w, Serial(w), TypeOK, SerialInv(w), StartsOnce',
         UNCHANGED <<rows, stored, jobs, pc, req, inst, batch>>,
         \A t \in Tasks :
           /\ ShowsInRow(w, t) => ShowsInRow(w, t)'
           /\ Underway(t)' => Underway(t)
           /\ phase'[t] \in Active => Committed(t)
           /\ phase[t] = "none" /\ ~Underway(t) => phase'[t] = "none"
  PROVE  SerialInv(w)'
<1>1. \A t \in Tasks : Current(w, t)' = Current(w, t) /\ (Visible(t)' <=> Visible(t))
  BY DEF Current, Visible
<1>2. \A t \in Tasks : ShowsInRow(w, t)'
  BY DEF SerialInv
<1>3. OneBusy(w)'
  BY <1>1, FewerBusy DEF SerialInv
<1>4. NoJobs(w)' /\ FreshCopy(w)' /\ OnlyBeats(w)'
  BY DEF SerialInv, NoJobs, FreshCopy, OnlyBeats
<1>5. MaySend(w)'
  BY <1>1 DEF SerialInv, MaySend, IsIdling
<1>6. ReportTimely(w)'
  <2> SUFFICES ASSUME pc[w] = "loaded", req[w].op = "report" PROVE ReportTimely(w)'
    BY DEF ReportTimely
  <2>1. PICK t \in Tasks : t = inst[w].id
    BY HeldIsRow DEF Serial
  <2>2. ~Underway(t)' /\ (phase[t] = "none" => phase'[t] = "none")
    BY <2>1 DEF SerialInv, ReportTimely
  <2>3. ~Underway(inst[w].id)'
    BY <2>1, <2>2
  <2> QED BY <2>1, <2>2, <2>3 DEF SerialInv, ReportTimely
<1>7. ListTimely(w)'
  <2> SUFFICES ASSUME req[w].op = "heartbeat", NEW t \in Tasks,
                      ExecutorOf[t] = req[w].executor, phase'[t] \in Active,
                      t \notin req[w].list
               PROVE  Current(w, t).status = "Published"
    BY <1>1 DEF ListTimely
  <2>1. CASE phase[t] \in Active
    BY <2>1 DEF SerialInv, ListTimely
  <2>2. CASE Underway(t)
    BY <2>2 DEF SerialInv, ShowsInRow
  <2> QED BY <2>1, <2>2 DEF Committed
<1>8. LostIsGone(w)'
  <2> SUFFICES ASSUME pc[w] = "sweep", NEW r \in batch[w]
               PROVE  r.id \in stored /\ r = rows[r.id] /\ ~Committed(r.id)'
    BY DEF LostIsGone
  <2>1. r.id \in stored /\ r = rows[r.id] /\ ~Committed(r.id) /\ r.id \in Tasks
    BY DEF SerialInv, LostIsGone, TypeOK, TableOK
  <2> QED BY <2>1 DEF Committed
<1> QED BY <1>2, <1>3, <1>4, <1>5, <1>6, <1>7, <1>8 DEF SerialInv

\* An agent takes a start message: its task runs, and nobody else had started it.
LEMMA TakeKeeps ==
  ASSUME NEW w, Serial(w), TypeOK, phase \in [Tasks -> Phases], SerialInv(w),
         NEW e \in Executors, AgentTakes(e)
  PROVE  /\ SerialInv(w)'
         /\ \A t \in Tasks : Committed(t)' => Committed(t)
<1>0. PICK m \in Message : m = Head(topic[e])
  BY StartIsTaken DEF AgentTakes, SerialInv
<1>1. /\ m.kind = "start" => Underway(m.task)
      /\ StartsOnce'
      /\ \A t \in Tasks : Underway(t)' <=>
           Underway(t) /\ ~(m.kind = "start" /\ t = m.task)
  BY <1>0, StartIsTaken DEF AgentTakes, SerialInv
<1>2. m.task \in Tasks /\ m.kind \in {"start", "stop"}
  BY DEF Message
<1>3. UNCHANGED <<rows, stored, jobs, pc, req, inst, batch>>
  BY DEF AgentTakes, Consume, db, celery, work
<1>4. /\ phase'[m.task] = IF m.kind = "start" /\ phase[m.task] = "none" THEN "accepted"
                          ELSE IF m.kind = "stop" /\ phase[m.task] \in Active THEN "stopped"
                          ELSE phase[m.task]
      /\ \A t \in Tasks : t # m.task => phase'[t] = phase[t]
  BY <1>0, <1>2 DEF AgentTakes
<1>5. \A t \in Tasks : Current(w, t)' = Current(w, t)
  BY <1>3 DEF Current
<1>6. ASSUME NEW t \in Tasks, ShowsInRow(w, t)
      PROVE  /\ ShowsInRow(w, t)'
             /\ Underway(t)' => Underway(t)
             /\ phase'[t] \in Active => Committed(t)
             /\ phase[t] = "none" /\ ~Underway(t) => phase'[t] = "none"
  <2>1. CASE t # m.task
    BY <1>1, <1>4, <1>5, <1>6, <2>1 DEF ShowsInRow, Committed
  <2>2. CASE t = m.task /\ m.kind = "start"
    <3>1. Underway(t) /\ phase[t] = "none" /\ Current(w, t).status = "Published"
      BY <1>1, <1>6, <2>2 DEF ShowsInRow
    <3>2. ~Underway(t)' /\ phase'[t] = "accepted"
      BY <1>1, <1>4, <2>2, <3>1
    <3> QED BY <1>5, <3>1, <3>2 DEF ShowsInRow, Committed, PubRunning
  <2>3. CASE t = m.task /\ m.kind = "stop"
    <3>1. (Underway(t)' <=> Underway(t))
          /\ phase'[t] = IF phase[t] \in Active THEN "stopped" ELSE phase[t]
      BY <1>1, <1>4, <2>3
    <3> QED BY <1>5, <1>6, <3>1 DEF ShowsInRow, Committed, PubRunning, Active
  <2> QED BY <1>2, <2>1, <2>2, <2>3
<1>7. \A t \in Tasks : ShowsInRow(w, t)
  BY DEF SerialInv
<1> QED BY <1>1, <1>3, <1>6, <1>7, AgentKeeps DEF Committed

\* An agent that ends a task or dies has fewer tasks.
LEMMA EndKeeps ==
  ASSUME NEW w, Serial(w), TypeOK, phase \in [Tasks -> Phases], SerialInv(w),
         (\E t \in Tasks : AgentFinishes(t)) \/ (\E e \in Executors : AgentCrashes(e))
  PROVE  /\ SerialInv(w)' /\ UNCHANGED <<rows, stored>>
         /\ \A t \in Tasks : Committed(t)' => Committed(t)
<1>1. /\ UNCHANGED vars
      /\ \A t \in Tasks : \/ phase'[t] \in {"none", phase[t]}
                          \/ phase[t] = "running" /\ phase'[t] = "completed"
  BY DEF AgentFinishes, AgentCrashes
<1>2. UNCHANGED <<rows, stored, jobs, pc, req, inst, batch, topic>>
  BY <1>1 DEF vars
<1>3. \A t \in Tasks : Current(w, t)' = Current(w, t)
  BY <1>2 DEF Current
<1>4. StartsOnce' /\ \A t \in Tasks : Underway(t)' <=> Underway(t)
  BY <1>2, SameTopics DEF SerialInv
<1>5. ASSUME NEW t \in Tasks, ShowsInRow(w, t)
      PROVE  /\ ShowsInRow(w, t)'
             /\ phase'[t] \in Active => phase[t] \in Active
             /\ phase[t] = "none" => phase'[t] = "none"
  BY <1>1, <1>3, <1>4, <1>5 DEF ShowsInRow, Active, PubRunning
<1>6. \A t \in Tasks : ShowsInRow(w, t)
  BY DEF SerialInv
<1> QED BY <1>2, <1>4, <1>5, <1>6, AgentKeeps DEF Committed

----
(* The system. *)

\* One step of the system keeps the invariant.
LEMMA SerialNext ==
  ASSUME NEW w, Serial(w), TypeOK, phase \in [Tasks -> Phases], SerialInv(w),
         [SysNext]_sysvars
  PROVE  SerialInv(w)'
<1>1. w \in Workers /\ \A v \in Workers : v = w
  BY DEF Serial
<1>2. CASE BackendSteps(w)
  BY <1>2, RequestKeeps DEF BackendSteps, outside
<1>3. ASSUME NEW op \in Ops, NEW t \in stored, UserRequests(w, op, t)
      PROVE  SerialInv(w)'
  BY <1>3, UserKeeps
<1>4. ASSUME NEW j \in jobs PROVE FALSE
  BY <1>4 DEF SerialInv, NoJobs
<1>5. ASSUME NEW t \in Tasks, AgentReports(w, t) PROVE SerialInv(w)'
  BY <1>5, ReportKeeps
<1>6. ASSUME NEW e \in Executors, AgentBeats(w, e) PROVE SerialInv(w)'
  BY <1>6, BeatKeeps
<1>7. ASSUME NEW e \in Executors, AgentTakes(e) PROVE SerialInv(w)'
  BY <1>7, TakeKeeps
<1>8. CASE (\E t \in Tasks : AgentFinishes(t)) \/ (\E e \in Executors : AgentCrashes(e))
  BY <1>8, EndKeeps
<1>9. CASE UNCHANGED sysvars
  <2>1. UNCHANGED <<rows, stored, jobs, pc, req, inst, batch, topic, phase>>
    BY <1>9 DEF sysvars, vars, outside
  <2>2. StartsOnce' /\ \A t \in Tasks : (Underway(t)' <=> Underway(t))
                         /\ Current(w, t)' = Current(w, t)
    BY <2>1, SameTopics DEF SerialInv, Current
  <2>3. \A t \in Tasks : ShowsInRow(w, t) => ShowsInRow(w, t)'
    BY <2>1, <2>2 DEF ShowsInRow
  <2> QED BY <2>1, <2>2, <2>3, AgentKeeps DEF Committed
<1> QED
  BY <1>1, <1>2, <1>3, <1>4, <1>5, <1>6, <1>7, <1>8, <1>9 DEF SysNext

\* At the start nothing is going on.
LEMMA SerialInit ==
  ASSUME NEW w, Serial(w), SysInit
  PROVE  SerialInv(w)
<1>1. w \in Workers /\ pc[w] = "idle" /\ inst[w] = None /\ req[w] = NoRequest
  BY DEF Serial, SysInit, Init
<1>2. \A t \in Tasks : rows[t] = NewRow(t) /\ Current(w, t) = NewRow(t)
                       /\ phase[t] = "none"
  BY <1>1 DEF SysInit, Init, Current
<1>3. \A e \in Executors : Len(topic[e]) = 0
  BY DEF SysInit, Init
<1>4. StartsOnce /\ \A t \in Tasks : ~Underway(t)
  BY <1>3 DEF StartsOnce, Underway
<1>5. NoJobs(w) /\ OneBusy(w)
  BY <1>1, <1>2 DEF SysInit, Init, NoJobs, OneBusy, NewRow, PubRunning
<1>6. \A t \in Tasks : ShowsInRow(w, t)
  BY <1>2, <1>4 DEF ShowsInRow, Active
<1>7. FreshCopy(w) /\ MaySend(w) /\ ReportTimely(w) /\ ListTimely(w)
      /\ OnlyBeats(w) /\ LostIsGone(w)
  BY <1>1 DEF FreshCopy, MaySend, ReportTimely, ListTimely, OnlyBeats, LostIsGone, NoRequest
<1> QED BY <1>4, <1>5, <1>6, <1>7 DEF SerialInv

\* What agents and users keep apart from the backend has its type.
LEMMA OutsideType ==
  ASSUME SysTypeOK, [SysNext]_sysvars
  PROVE  /\ phase' \in [Tasks -> Phases]
         /\ users' \in 0..UserBudget /\ crashes' \in 0..CrashBudget
<1> USE BudgetsAssumption
<1>1. CASE UNCHANGED outside
  BY <1>1 DEF SysTypeOK, outside
<1>2. ASSUME NEW w \in Workers, NEW op \in Ops, NEW t \in stored,
             UserRequests(w, op, t)
      PROVE  UNCHANGED <<phase, crashes>> /\ users' \in 0..UserBudget
  BY <1>2 DEF UserRequests, SysTypeOK
<1>3. ASSUME NEW w \in Workers, NEW t \in Tasks, AgentReports(w, t)
      PROVE  UNCHANGED <<users, crashes>> /\ phase' \in [Tasks -> Phases]
  BY <1>3 DEF AgentReports, SysTypeOK, ReportDue, PhaseAfter, Phases
<1>4. ASSUME NEW e \in Executors, AgentTakes(e)
      PROVE  UNCHANGED <<users, crashes>> /\ phase' \in [Tasks -> Phases]
  <2> DEFINE m == Head(topic[e])
  <2>1. topic[e] \in Seq(Message) /\ topic[e] # << >>
    BY <1>4 DEF AgentTakes, Consume, SysTypeOK, TypeOK, BrokerOK
  <2>2. m \in Message
    BY <2>1, HeadTailProperties
  <2> HIDE DEF m
  <2>3. phase[m.task] \in Phases
    BY <2>2 DEF SysTypeOK, Message
  <2> QED BY <1>4, <2>2, <2>3 DEF AgentTakes, SysTypeOK, Phases, m
<1>5. ASSUME NEW e \in Executors, AgentCrashes(e)
      PROVE  users' = users /\ crashes' \in 0..CrashBudget /\ phase' \in [Tasks -> Phases]
  BY <1>5 DEF AgentCrashes, SysTypeOK, Phases
<1>6. ASSUME NEW t \in Tasks, AgentFinishes(t)
      PROVE  UNCHANGED <<users, crashes>> /\ phase' \in [Tasks -> Phases]
  BY <1>6 DEF AgentFinishes, SysTypeOK, Phases
<1> QED
  BY <1>1, <1>2, <1>3, <1>4, <1>5, <1>6
     DEF SysNext, SysTypeOK, sysvars, BackendSteps, CeleryFires, AgentBeats

\* The types of the closed system, for every number of request threads and
\* every fault: rows, messages, jobs, copies, phases and budgets.
THEOREM SystemTypes == SysSpec => []SysTypeOK
<1>1. SysInit => SysTypeOK
  BY InitType, BudgetsAssumption DEF SysInit, SysTypeOK, Phases
<1>2. SysTypeOK /\ [SysNext]_sysvars => SysTypeOK'
  BY OutsideType, StepImplements, NextType DEF SysTypeOK
<1> QED BY <1>1, <1>2, PTL DEF SysSpec

\* Without overlap and schedules, rows never say less than what goes on.
THEOREM SerialHolds ==
  ASSUME NEW w, Serial(w)
  PROVE  SysSpec => []SerialInv(w)
<1>1. SysInit => SerialInv(w)
  BY SerialInit
<1>2. SysTypeOK /\ SerialInv(w) /\ [SysNext]_sysvars => SerialInv(w)'
  BY SerialNext DEF SysTypeOK
<1> QED BY <1>1, <1>2, SystemTypes, PTL DEF SysSpec

----
(* What the invariant is for. *)

\* A task that is committed and visible keeps its target busy, in the row as it
\* is about to be.
LEMMA CommittedIsBusy ==
  ASSUME NEW w, SerialInv(w), NEW t \in Tasks, Committed(t)
  PROVE  Current(w, t).status \in PubRunning
BY DEF SerialInv, ShowsInRow, Committed, PubRunning

\* Two visible tasks that are committed to one target are one task.
LEMMA OneCommitted ==
  ASSUME NEW w, SerialInv(w), NEW t \in Tasks, NEW u \in Tasks,
         Visible(t), Committed(t), Visible(u), Committed(u),
         TargetOf[t] = TargetOf[u], TargetOf[t] # None
  PROVE  t = u
BY CommittedIsBusy DEF SerialInv, OneBusy

\* A set all of whose members are equal has one at most.
LEMMA AtMostOne ==
  ASSUME NEW S, \A x, y \in S : x = y
  PROVE  Cardinality(S) \in {0, 1} /\ (S = {} => Cardinality(S) = 0)
<1>1. CASE S = {}
  BY <1>1, FS_EmptySet
<1>2. CASE S # {}
  <2>1. PICK x \in S : S = {x}
    BY <1>2
  <2> QED BY <2>1, FS_Singleton
<1> QED BY <1>1, <1>2

\* A target has one commitment at most.
LEMMA SerialExclusive ==
  ASSUME NEW w, TypeOK, SerialInv(w)
  PROVE  HardwareExclusive
<1> SUFFICES ASSUME NEW g \in Targets
             PROVE  Cardinality(StartsInTopic(g)) + Cardinality(RunningOn(g)) <= 1
  BY DEF HardwareExclusive
<1>1. ASSUME NEW p \in StartsInTopic(g)
      PROVE  /\ p = <<p[1], p[2]>> /\ p[1] \in Executors /\ p[2] \in 1..Len(topic[p[1]])
             /\ topic[p[1]][p[2]].kind = "start" /\ topic[p[1]][p[2]].task \in Tasks
             /\ Visible(topic[p[1]][p[2]].task) /\ TargetOf[topic[p[1]][p[2]].task] = g
             /\ Underway(topic[p[1]][p[2]].task)
             /\ topic[p[1]][p[2]] = [kind |-> "start", task |-> topic[p[1]][p[2]].task]
  <2>1. p[1] \in Executors /\ p[2] \in 1..TopicCap /\ p[2] <= Len(topic[p[1]])
        /\ p = <<p[1], p[2]>> /\ IsStartFor(topic[p[1]][p[2]], g)
    BY DEF StartsInTopic
  <2>2. topic[p[1]] \in Seq(Message)
    BY <2>1 DEF TypeOK, BrokerOK
  <2>3. p[2] \in 1..Len(topic[p[1]]) /\ topic[p[1]][p[2]] \in Message
    BY <2>1, <2>2, LenProperties, BoundsAssumption
  <2>4. PICK m \in Message : m = topic[p[1]][p[2]]
    BY <2>3
  <2>5. m.kind = "start" /\ m.task \in Tasks /\ m = [kind |-> "start", task |-> m.task]
        /\ Visible(m.task) /\ TargetOf[m.task] = g
    BY <2>1, <2>4 DEF IsStartFor, Message
  <2>6. Underway(m.task)
    BY <2>1, <2>3, <2>4, <2>5 DEF Underway
  <2> QED BY <2>1, <2>3, <2>4, <2>5, <2>6
<1>2. g # None
  BY NoneAssumption
<1>3. \A p, q \in StartsInTopic(g) : p = q
  <2> SUFFICES ASSUME NEW p \in StartsInTopic(g), NEW q \in StartsInTopic(g)
               PROVE  p = q
    OBVIOUS
  <2>1. topic[p[1]][p[2]].task = topic[q[1]][q[2]].task
    BY <1>1, <1>2, OneCommitted DEF Committed
  <2>2. p[1] = ExecutorOf[topic[p[1]][p[2]].task] /\ q[1] = ExecutorOf[topic[q[1]][q[2]].task]
    BY <1>1 DEF SerialInv, StartsOnce
  <2>3. p[1] = q[1] /\ topic[p[1]][p[2]] = topic[p[1]][q[2]]
    BY <1>1, <2>1, <2>2
  <2>4. p[2] = q[2]
    BY <1>1, <2>3 DEF SerialInv, StartsOnce
  <2> QED BY <1>1, <2>3, <2>4
<1>4. \A t, u \in RunningOn(g) : t = u
  BY <1>2, OneCommitted DEF RunningOn, Committed
<1>5. StartsInTopic(g) = {} \/ RunningOn(g) = {}
  <2> SUFFICES ASSUME NEW p \in StartsInTopic(g), NEW u \in RunningOn(g) PROVE FALSE
    OBVIOUS
  <2>1. topic[p[1]][p[2]].task = u
    BY <1>1, <1>2, OneCommitted DEF RunningOn, Committed
  <2>2. Underway(u) /\ phase[u] \in Active /\ u \in Tasks
    BY <1>1, <2>1 DEF RunningOn
  <2> QED BY <2>2 DEF SerialInv, ShowsInRow, Active
<1> QED BY <1>3, <1>4, <1>5, AtMostOne

\* Requests that do not overlap never commit a target twice: Target.is_idling
\* and publish() do what they are for, for every number of tasks and agents,
\* whatever users do and however often agents die.
THEOREM SerialIsExclusive ==
  ASSUME NEW w, Serial(w)
  PROVE  SysSpec => []HardwareExclusive
<1>1. SysTypeOK /\ SerialInv(w) => HardwareExclusive
  BY SerialExclusive DEF SysTypeOK
<1> QED BY <1>1, SystemTypes, SerialHolds, PTL

\* A row is only ever marked lost by a sweep.
LEMMA SerialLost ==
  ASSUME NEW w, Serial(w), TypeOK, SerialInv(w), [SysNext]_sysvars,
         NEW t \in Tasks, rows[t].reason # "lost", rows'[t].reason = "lost"
  PROVE  phase[t] \notin Active
<1>1. w \in Workers /\ \A v \in Workers : v = w
  BY DEF Serial
<1>2. BackendSteps(w) \/ rows' = rows
  <2>1. ASSUME NEW op \in Ops, NEW u \in stored, UserRequests(w, op, u) PROVE rows' = rows
    BY <2>1 DEF UserRequests, Load, db
  <2>2. ASSUME NEW j \in jobs, CeleryFires(w, j) PROVE rows' = rows
    BY <2>2 DEF CeleryFires, FireJob, db
  <2>3. ASSUME NEW u \in Tasks, AgentReports(w, u) PROVE rows' = rows
    BY <2>3 DEF AgentReports, Load, db
  <2>4. ASSUME NEW e \in Executors, AgentBeats(w, e) PROVE rows' = rows
    BY <2>4 DEF AgentBeats, Heartbeat, db
  <2>5. ASSUME NEW e \in Executors, AgentTakes(e) \/ AgentCrashes(e) PROVE rows' = rows
    BY <2>5 DEF AgentTakes, AgentCrashes, Consume, db, vars
  <2>6. ASSUME NEW u \in Tasks, AgentFinishes(u) PROVE rows' = rows
    BY <2>6 DEF AgentFinishes, vars
  <2>7. CASE UNCHANGED sysvars
    BY <2>7 DEF sysvars, vars
  <2> QED BY <1>1, <2>1, <2>2, <2>3, <2>4, <2>5, <2>6, <2>7 DEF SysNext
<1>3. Step(w)
  BY <1>2 DEF BackendSteps
<1>4. CASE Save(w)
  <2>1. pc[w] = "save" /\ Write(inst[w]) /\ inst[w] \in Row /\ inst[w].id \in stored
        /\ inst[w].reason \in {"none", rows[inst[w].id].reason}
    BY <1>1, <1>4, HeldIsRow DEF Save, SerialInv, FreshCopy
  <2> QED BY <2>1, Written
<1>5. CASE HideTask(w) \/ EditTask(w) \/ ReportTask(w)
  <2>1. pc[w] = "loaded" /\ inst[w] \in Row /\ inst[w].id \in stored
        /\ inst[w] = rows[inst[w].id]
    BY <1>1, <1>5, HeldIsRow DEF HideTask, EditTask, ReportTask, SerialInv, FreshCopy
  <2>2. PICK r \in Row : /\ Write(r) /\ r.id = inst[w].id /\ r.reason = inst[w].reason
    <3>1. CASE HideTask(w)
      <4> DEFINE r == [inst[w] EXCEPT !.deleted = TRUE]
      <4>1. Write(r)
        BY <3>1 DEF HideTask
      <4>2. r \in Row /\ r.id = inst[w].id /\ r.reason = inst[w].reason
        BY <2>1 DEF Row
      <4> HIDE DEF r
      <4> QED BY <4>1, <4>2
    <3>2. CASE EditTask(w)
      BY <2>1, <3>2 DEF EditTask
    <3>3. CASE ReportTask(w)
      <4> DEFINE r == [inst[w] EXCEPT !.status = req[w].status]
      <4>1. Write(r)
        BY <3>3 DEF ReportTask
      <4>2. req[w].status \in Status
        BY <1>1, <3>3, ReportsAssumption DEF ReportTask, TypeOK, WorkOK
      <4>3. r \in Row /\ r.id = inst[w].id /\ r.reason = inst[w].reason
        BY <2>1, <4>2 DEF Row
      <4> HIDE DEF r
      <4> QED BY <4>1, <4>3
    <3> QED BY <1>5, <3>1, <3>2, <3>3
  <2> QED BY <2>1, <2>2, Written
<1>6. ASSUME NEW r \in batch[w], SweepTask(w, r) PROVE phase[t] \notin Active
  <2> DEFINE s == [r EXCEPT !.status = "Error", !.reason = "lost"]
  <2>1. Write(s) /\ r \in Row /\ r.id \in stored /\ ~Committed(r.id)
    BY <1>1, <1>6 DEF SweepTask, SerialInv, LostIsGone, TypeOK, WorkOK
  <2>2. s \in Row /\ s.id = r.id
    BY <2>1 DEF Row, Status, Reasons
  <2> HIDE DEF s
  <2>3. t = r.id
    BY <2>1, <2>2, Written
  <2> QED BY <2>1, <2>3 DEF Committed
<1>7. CASE Execution(w)
  BY <1>7 DEF Execution, Schedule, ScheduleFails, CheckTarget, RefuseExecute,
              SendStart, SendStartFails, db
<1>8. CASE Stopping(w)
  BY <1>8 DEF Stopping, Revoke, SendStop, RefuseStop, db
<1>9. CASE PopTask(w) \/ CheckTasks(w)
  BY <1>9 DEF PopTask, CheckTasks, db
<1> QED BY <1>3, <1>4, <1>5, <1>6, <1>7, <1>8, <1>9 DEF Step, Beating

\* Without overlap check_task gives up lost tasks only: what it marks lost its
\* agent does not run, even when the list was sent long before it is compared.
THEOREM SerialLostIsGone ==
  ASSUME NEW w, Serial(w)
  PROVE  SysSpec => LostMeansGone
<1>1. SysTypeOK /\ SerialInv(w) /\ [SysNext]_sysvars =>
        [\A t \in Tasks : (rows[t].reason # "lost" /\ rows'[t].reason = "lost")
                            => phase[t] \notin Active]_sysvars
  BY SerialLost DEF SysTypeOK
<1> QED BY <1>1, SystemTypes, SerialHolds, PTL DEF SysSpec, LostMeansGone

----
(* TaskSystem implements TargetLock. *)

Waiting == {t \in Tasks : InQueue(t)}
Holding == {t \in Tasks : Visible(t) /\ Committed(t)}

LockStep == [Lock!Next]_(Lock!lock)

\* What leaves the queue and the commitments alone is a stutter.
LEMMA LockStutters ==
  ASSUME Waiting' = Waiting, Holding' = Holding
  PROVE  LockStep
BY DEF LockStep, Lock!lock, Waiting, Holding

\* Commitments that end are released.
LEMMA LockReleases ==
  ASSUME Waiting' = Waiting, Holding' \subseteq Holding
  PROVE  LockStep
<1> DEFINE gone == Holding \ Holding'
<1>1. gone \in SUBSET Tasks /\ Holding' = Holding \ gone
  BY DEF Holding
<1> HIDE DEF gone
<1>2. Lock!Release(gone)
  BY <1>1 DEF Lock!Release, Waiting, Holding
<1> QED BY <1>1, <1>2 DEF LockStep, Lock!Next

\* A task that enters the queue does not hold its target.
LEMMA LockWaits ==
  ASSUME NEW t \in Tasks, t \notin Holding, Waiting' = Waiting \cup {t},
         Holding' = Holding
  PROVE  LockStep
BY DEF LockStep, Lock!Next, Lock!Wait, Waiting, Holding

\* A task may leave the queue for any reason.
LEMMA LockStopsWaiting ==
  ASSUME NEW t \in Tasks, Waiting' = Waiting \ {t}, Holding' = Holding
  PROVE  LockStep
BY DEF LockStep, Lock!Next, Lock!StopWaiting, Waiting, Holding

\* A task is given a target nobody holds.
LEMMA LockGrants ==
  ASSUME NEW t \in Tasks, \A u \in Holding : TargetOf[u] # TargetOf[t],
         Waiting' = Waiting, Holding' = Holding \cup {t}
  PROVE  LockStep
BY DEF LockStep, Lock!Next, Lock!Grant, Waiting, Holding

\* Rows that stay, and commitments that stay.
LEMMA SameLock ==
  ASSUME UNCHANGED <<rows, stored>>, \A t \in Tasks : Committed(t)' <=> Committed(t)
  PROVE  LockStep
<1>1. Waiting' = Waiting /\ Holding' = Holding
  BY DEF Waiting, Holding, InQueue, Visible
<1> QED BY <1>1, LockStutters

\* Rows that stay, and commitments that end.
LEMMA FewerCommitted ==
  ASSUME UNCHANGED <<rows, stored>>, \A t \in Tasks : Committed(t)' => Committed(t)
  PROVE  LockStep
<1>1. Waiting' = Waiting /\ Holding' \subseteq Holding
  BY DEF Waiting, Holding, InQueue, Visible
<1> QED BY <1>1, LockReleases

\* A save() enters the row in the queue, or takes it out, or hides it; it never
\* queues a task that is committed.
LEMMA WriteLocks ==
  ASSUME NEW w, TypeOK, SerialInv(w), NEW r \in Row, r.id \in stored, Write(r),
         r.status = "Queuing" => ~Committed(r.id),
         Committed(r.id) => rows[r.id].status # "Queuing" \/ r.deleted = rows[r.id].deleted,
         rows[r.id].deleted => r.deleted, UNCHANGED <<topic, phase>>
  PROVE  LockStep
<1>0. PICK t \in Tasks : t = r.id
  BY DEF Row
<1>1. stored' = stored /\ \A u \in Tasks : rows'[u] = IF u = t THEN r ELSE rows[u]
  BY <1>0, Written
<1>2. \A u \in Tasks : Committed(u)' <=> Committed(u)
  BY SameTopics DEF Committed
<1>3. \A u \in Tasks : u # t => (u \in Waiting' <=> u \in Waiting)
                                /\ (u \in Holding' <=> u \in Holding)
  BY <1>1, <1>2 DEF Waiting, Holding, InQueue, Visible
<1>4. /\ t \in Waiting' <=> (t \in stored /\ ~r.deleted /\ r.status = "Queuing")
      /\ t \in Holding' <=> (t \in stored /\ ~r.deleted /\ Committed(t))
      /\ t \in Waiting <=> (t \in stored /\ ~rows[t].deleted /\ rows[t].status = "Queuing")
      /\ t \in Holding <=> (t \in stored /\ ~rows[t].deleted /\ Committed(t))
  BY <1>1, <1>2 DEF Waiting, Holding, InQueue, Visible
<1>5. Waiting \subseteq Tasks /\ Holding \subseteq Tasks
      /\ Waiting' \subseteq Tasks /\ Holding' \subseteq Tasks
  BY DEF Waiting, Holding
<1>6. CASE ~Committed(t)
  <2>1. Holding' = Holding /\ t \notin Holding
    BY <1>3, <1>4, <1>5, <1>6
  <2>2. CASE t \in Waiting'
    <3>1. Waiting' = Waiting \cup {t}
      BY <1>3, <1>5, <2>2
    <3> QED BY <2>1, <3>1, LockWaits
  <2>3. CASE t \notin Waiting'
    <3>1. Waiting' = Waiting \ {t}
      BY <1>3, <1>5, <2>3
    <3> QED BY <2>1, <3>1, LockStopsWaiting
  <2> QED BY <2>2, <2>3
<1>7. CASE Committed(t) /\ r.deleted = rows[t].deleted
  <2>1. Holding' = Holding /\ Waiting' = Waiting \ {t}
    BY <1>0, <1>3, <1>4, <1>5, <1>7
  <2> QED BY <2>1, LockStopsWaiting
<1>8. CASE Committed(t) /\ rows[t].status # "Queuing"
  <2>1. Holding' \subseteq Holding /\ Waiting' = Waiting
    BY <1>0, <1>3, <1>4, <1>5, <1>8
  <2> QED BY <2>1, LockReleases
<1> QED BY <1>0, <1>6, <1>7, <1>8

\* The start message is sent: nobody holds the target.
LEMMA StartLocks ==
  ASSUME NEW w, Serial(w), TypeOK, SerialInv(w), SendStart(w), phase' = phase
  PROVE  LockStep
<1>1. w \in Workers /\ pc[w] = "send" /\ UNCHANGED <<rows, stored>>
      /\ Deliver(w, "start", 1)
  BY SerialCopies DEF SendStart, db
<1>2. inst[w] \in Row /\ inst[w].id \in Tasks /\ inst[w].id \in stored
      /\ inst[w] = rows[inst[w].id]
  BY <1>1, HeldIsRow DEF SerialInv, FreshCopy
<1>3. PICK t \in Tasks : t = inst[w].id
  BY <1>2
<1>4. \A u \in Tasks : Current(w, u) = rows[u]
  BY <1>1 DEF Current
<1>5. \A u \in Holding : TargetOf[u] # TargetOf[t]
  <2>1. \A u \in Holding : u \in Tasks /\ Visible(u) /\ rows[u].status \in PubRunning
    BY <1>4, CommittedIsBusy DEF Holding
  <2>2. IsIdling(TargetOf[t])
    BY <1>1, <1>3 DEF SerialInv, MaySend
  <2> QED BY <2>1, <2>2 DEF IsIdling
<1>6. rows[t].status \notin PubRunning
  BY <1>1, <1>2, <1>3 DEF SerialInv, MaySend, AllowStart, AllowStartStatus, PubRunning
<1>7. ~Underway(inst[w].id)
  BY <1>3, <1>4, <1>6 DEF SerialInv, ShowsInRow, PubRunning
<1>8. \A u \in Tasks : Underway(u)' <=> Underway(u) \/ u = t
  BY <1>1, <1>2, <1>3, <1>7, StartIsSent DEF SerialInv
<1>9. Waiting' = Waiting
  BY <1>1 DEF Waiting, InQueue, Visible
<1>10. CASE Visible(t)
  <2>1. Holding' = Holding \cup {t}
    BY <1>1, <1>8, <1>10 DEF Holding, Visible, Committed
  <2> QED BY <1>5, <1>9, <2>1, LockGrants
<1>11. CASE ~Visible(t)
  <2>1. Holding' = Holding
    BY <1>1, <1>8, <1>11 DEF Holding, Visible, Committed
  <2> QED BY <1>9, <2>1, LockStutters
<1> QED BY <1>10, <1>11

\* One step of the request is a step of the lock, or none.
LEMMA RequestLocks ==
  ASSUME NEW w, Serial(w), TypeOK, SerialInv(w), Step(w), phase' = phase
  PROVE  LockStep
<1>1. w \in Workers
  BY DEF Serial
<1>2. ASSUME UNCHANGED <<rows, stored, topic>> PROVE LockStep
  BY <1>2, SameTopics, SameLock DEF Committed
<1>3. CASE Save(w)
  <2>1. pc[w] = "save" /\ Write(inst[w]) /\ topic' = topic
        /\ inst[w] \in Row /\ inst[w].id \in stored /\ inst[w].id \in Tasks
        /\ inst[w].deleted = rows[inst[w].id].deleted
    BY <1>1, <1>3, HeldIsRow DEF Save, broker, SerialInv, FreshCopy
  <2>2. inst[w].status = "Queuing" => ~Committed(inst[w].id)
    <3>1. PICK t \in Tasks : t = inst[w].id
      BY <2>1
    <3>2. Current(w, t) = inst[w]
      BY <2>1, <3>1 DEF Current
    <3> QED BY <3>1, <3>2, CommittedIsBusy DEF PubRunning
  <2> QED BY <2>1, <2>2, WriteLocks
<1>4. CASE HideTask(w) \/ EditTask(w)
  <2>1. pc[w] = "loaded" /\ topic' = topic /\ inst[w] \in Row /\ inst[w].id \in stored
        /\ inst[w].id \in Tasks /\ inst[w] = rows[inst[w].id]
    BY <1>1, <1>4, HeldIsRow DEF HideTask, EditTask, broker, SerialInv, FreshCopy
  <2>2. PICK r \in {inst[w], [inst[w] EXCEPT !.deleted = TRUE]} : Write(r)
    BY <1>4 DEF HideTask, EditTask
  <2>3. r \in Row /\ r.id = inst[w].id /\ r.status = inst[w].status
        /\ (inst[w].deleted => r.deleted)
    BY <2>1, <2>2 DEF Row
  <2>4. Committed(r.id) => rows[r.id].status # "Queuing"
    <3>1. PICK t \in Tasks : t = r.id
      BY <2>1, <2>3
    <3>2. Current(w, t) = rows[t]
      BY <2>1 DEF Current
    <3> QED BY <3>1, <3>2, CommittedIsBusy DEF PubRunning
  <2>5. r.status = "Queuing" => ~Committed(r.id)
    BY <2>1, <2>3, <2>4
  <2> QED BY <2>1, <2>2, <2>3, <2>4, <2>5, WriteLocks
<1>5. CASE ReportTask(w)
  <2> DEFINE r == [inst[w] EXCEPT !.status = req[w].status]
  <2>1. pc[w] = "loaded" /\ topic' = topic /\ inst[w] \in Row /\ inst[w].id \in stored
        /\ inst[w] = rows[inst[w].id] /\ req[w].op = "report" /\ Write(r)
    BY <1>1, <1>5, HeldIsRow DEF ReportTask, broker, SerialInv, FreshCopy
  <2>2. req[w].status \in Status /\ req[w].status # "Queuing"
    BY <1>1, <2>1, ReportsAssumption DEF SerialInv, ReportTimely, TypeOK, WorkOK
  <2>3. r \in Row /\ r.id = inst[w].id /\ r.status # "Queuing"
        /\ r.deleted = rows[r.id].deleted
    BY <2>1, <2>2 DEF Row
  <2> HIDE DEF r
  <2> QED BY <2>1, <2>3, WriteLocks
<1>6. ASSUME NEW b \in batch[w], SweepTask(w, b) PROVE LockStep
  <2> DEFINE r == [b EXCEPT !.status = "Error", !.reason = "lost"]
  <2>1. Write(r) /\ topic' = topic /\ b \in Row /\ b.id \in stored /\ b = rows[b.id]
    BY <1>1, <1>6 DEF SweepTask, broker, SerialInv, LostIsGone, TypeOK, WorkOK
  <2>2. r \in Row /\ r.id = b.id /\ r.status # "Queuing" /\ r.deleted = rows[r.id].deleted
    BY <2>1 DEF Row, Status, Reasons
  <2> HIDE DEF r
  <2> QED BY <2>1, <2>2, WriteLocks
<1>7. CASE Execution(w)
  <2>1. CASE SendStart(w)
    BY <2>1, StartLocks
  <2>2. CASE SendStartFails(w)
    <3>1. pc[w] = "send" /\ UNCHANGED <<rows, stored>> /\ inst[w] \in Row
      BY <1>1, <2>2, HeldIsRow DEF SendStartFails, db
    <3>2. topic' = topic
      <4>1. ASSUME NEW n \in FailedCopies, Deliver(w, "start", n) PROVE topic' = topic
        BY <1>1, <3>1, <4>1, SerialCopies, DeliverNone
      <4> QED BY <2>2, <4>1 DEF SendStartFails, broker
    <3> QED BY <1>2, <3>1, <3>2
  <2>3. CASE Schedule(w) \/ ScheduleFails(w) \/ CheckTarget(w) \/ RefuseExecute(w)
    BY <1>2, <2>3 DEF Schedule, ScheduleFails, CheckTarget, RefuseExecute, db, broker
  <2> QED BY <1>7, <2>1, <2>2, <2>3 DEF Execution
<1>8. CASE Stopping(w)
  <2>1. CASE SendStop(w)
    <3>1. UNCHANGED <<rows, stored>> /\ inst[w] \in Row
      BY <1>1, <2>1, HeldIsRow DEF SendStop, MayTerminate, Stops, db
    <3>2. \A t \in Tasks : Underway(t)' <=> Underway(t)
      <4>1. ASSUME NEW n \in AckedCopies \cup FailedCopies, Deliver(w, "stop", n)
            PROVE  \A t \in Tasks : Underway(t)' <=> Underway(t)
        <5>1. CASE n = 1
          BY <1>1, <3>1, <4>1, <5>1, StopIsSent DEF SerialInv
        <5>2. CASE n = 0
          BY <1>1, <3>1, <4>1, <5>2, DeliverNone, SameTopics
        <5> QED BY <4>1, <5>1, <5>2, SerialCopies
      <4>2. CASE UNCHANGED broker
        BY <4>2, SameTopics DEF broker
      <4> QED BY <2>1, <4>1, <4>2 DEF SendStop
    <3> QED BY <3>1, <3>2, SameLock DEF Committed
  <2>2. CASE Revoke(w) \/ RefuseStop(w)
    BY <1>2, <2>2 DEF Revoke, RefuseStop, db, broker
  <2> QED BY <1>8, <2>1, <2>2 DEF Stopping
<1>9. CASE PopTask(w) \/ CheckTasks(w)
  BY <1>2, <1>9 DEF PopTask, CheckTasks, db, broker
<1> QED BY <1>3, <1>4, <1>5, <1>6, <1>7, <1>8, <1>9 DEF Step, Beating

\* One step of the system is a step of the lock, or none.
LEMMA SystemLocks ==
  ASSUME NEW w, Serial(w), TypeOK, phase \in [Tasks -> Phases], SerialInv(w),
         [SysNext]_sysvars
  PROVE  LockStep
<1>1. w \in Workers /\ \A v \in Workers : v = w
  BY DEF Serial
<1>2. ASSUME UNCHANGED <<rows, stored, topic, phase>> PROVE LockStep
  BY <1>2, SameTopics, SameLock DEF Committed
<1>3. CASE BackendSteps(w)
  BY <1>3, RequestLocks DEF BackendSteps, outside
<1>4. ASSUME NEW op \in Ops, NEW t \in stored, UserRequests(w, op, t) PROVE LockStep
  BY <1>2, <1>4 DEF UserRequests, Load, db, broker
<1>5. ASSUME NEW j \in jobs, CeleryFires(w, j) PROVE LockStep
  BY <1>2, <1>5 DEF CeleryFires, FireJob, outside, db, broker
<1>6. ASSUME NEW t \in Tasks, AgentReports(w, t) PROVE LockStep
  <2>1. UNCHANGED <<rows, stored, topic>>
    BY <1>6 DEF AgentReports, Load, db, broker
  <2>2. \A u \in Tasks : phase'[u] \in Active <=> phase[u] \in Active
    BY <1>6 DEF AgentReports, ReportDue, PhaseAfter, Active
  <2> QED BY <2>1, <2>2, SameTopics, SameLock DEF Committed
<1>7. ASSUME NEW e \in Executors, AgentBeats(w, e) PROVE LockStep
  BY <1>2, <1>7 DEF AgentBeats, Heartbeat, outside, db, broker
<1>8. ASSUME NEW e \in Executors, AgentTakes(e) PROVE LockStep
  <2>1. UNCHANGED <<rows, stored>>
    BY <1>8 DEF AgentTakes, Consume, db
  <2> QED BY <1>8, <2>1, TakeKeeps, FewerCommitted
<1>9. CASE (\E t \in Tasks : AgentFinishes(t)) \/ (\E e \in Executors : AgentCrashes(e))
  BY <1>9, EndKeeps, FewerCommitted
<1>10. CASE UNCHANGED sysvars
  BY <1>2, <1>10 DEF sysvars, vars, outside
<1> QED
  BY <1>1, <1>3, <1>4, <1>5, <1>6, <1>7, <1>8, <1>9, <1>10 DEF SysNext

\* At the start nobody waits and nobody holds.
LEMMA LockInit ==
  ASSUME SysInit
  PROVE  Lock!Init
<1>1. \A e \in Executors : Len(topic[e]) = 0
  BY DEF SysInit, Init
<1>2. \A t \in Tasks : ~Committed(t) /\ ~InQueue(t)
  BY <1>1 DEF SysInit, Init, Committed, Underway, Active, InQueue, NewRow
<1> QED BY <1>2 DEF Lock!Init

\* Rows, topics, requests and agents together are a lock on targets, as long as
\* requests do not overlap and no task is scheduled.
THEOREM SerialImplementsLock ==
  ASSUME NEW w, Serial(w)
  PROVE  SysSpec => ImplementsLock
<1>1. SysInit => Lock!Init
  BY LockInit
<1>2. SysTypeOK /\ SerialInv(w) /\ [SysNext]_sysvars => [Lock!Next]_(Lock!lock)
  BY SystemLocks DEF SysTypeOK, LockStep
<1> QED BY <1>1, <1>2, SystemTypes, SerialHolds, PTL DEF SysSpec, ImplementsLock, Lock!Spec
----
(* Scheduled tasks.                                                        *)
(*                                                                         *)
(* One request thread again, and no send that fails.  The job of a         *)
(* scheduled task leaves Celery when it fires, before the request it makes *)
(* has published the task: the invariant follows the task from the job to  *)
(* that request and to the save that ends it.                              *)

Alone(w) == Workers = {w} /\ Faults \cap {"refused", "unacked"} = {}

HasJob(r) == \E j \in jobs : j.id = r.sid

\* A task that publish() can send.
CanStart(t) == TargetOf[t] # None /\ ExecutorOf[t] # None

\* The request is one that will not leave the row of t SCHEDULED.
AtWork(w, t) ==
  /\ inst[w] # None /\ inst[w].id = t
  /\ \/ pc[w] = "save"
     \/ pc[w] \in {"loaded", "send"} /\ req[w].op = "fire"

\* The copy a request works on is that of the table, and one that is about to
\* be saved as scheduled has its job.
CopyKept(w) ==
  /\ pc[w] \in {"loaded", "send"} =>
       inst[w].id \in stored /\ inst[w] = rows[inst[w].id]
  /\ pc[w] = "save" =>
       inst[w].id \in stored /\ (inst[w].status = "Scheduled" => HasJob(inst[w]))

RowsKept(w) ==
  \A t \in stored : rows[t].status = "Scheduled" /\ CanStart(t) =>
    HasJob(rows[t]) \/ AtWork(w, t)

ScheduleInv(w) == CopyKept(w) /\ RowsKept(w)

\* Without a refusal or a lost answer a send succeeds.
LEMMA AloneSends ==
  ASSUME NEW w, Alone(w)
  PROVE  w \in Workers /\ (\A v \in Workers : v = w) /\ FailedCopies = {}
BY DEF Alone, FailedCopies

\* While the table stays and jobs only appear, rows keep their jobs, if the
\* request goes on with the task it is at work on.
LEMMA SameKept ==
  ASSUME NEW w, RowsKept(w), UNCHANGED <<stored, rows>>, jobs \subseteq jobs',
         \A t \in stored : rows[t].status = "Scheduled" /\ CanStart(t)
                            /\ AtWork(w, t) => AtWork(w, t)'
  PROVE  RowsKept(w)'
BY DEF RowsKept, HasJob, CanStart

\* A save keeps the schedules when the row it stores has its job or none.
LEMMA WriteKept ==
  ASSUME TypeOK, NEW w, RowsKept(w), NEW r \in Row, Write(r), jobs' = jobs,
         r.status = "Scheduled" /\ CanStart(r.id) => HasJob(r),
         \A t \in Tasks : t # r.id => ~AtWork(w, t)
  PROVE  RowsKept(w)'
<1> SUFFICES ASSUME NEW t \in stored', rows'[t].status = "Scheduled", CanStart(t)
             PROVE  HasJob(rows[t])' \/ AtWork(w, t)'
  BY DEF RowsKept, CanStart
<1>1. r.id \in Tasks /\ rows \in [Tasks -> Row] /\ stored \subseteq Tasks
  BY DEF Row, TypeOK, TableOK
<1>2. t \in Tasks /\ rows'[t] = IF t = r.id THEN r ELSE rows[t]
  BY <1>1 DEF Write
<1>3. CASE t = r.id
  BY <1>2, <1>3 DEF HasJob
<1>4. CASE t # r.id
  BY <1>2, <1>4 DEF Write, RowsKept, HasJob
<1> QED BY <1>3, <1>4

\* A request between rows holds no copy, and is at work on no task.
LEMMA RestKept ==
  ASSUME NEW w, pc'[w] \in {"idle", "pop", "check", "sweep"}
  PROVE  CopyKept(w)'
BY DEF CopyKept

\* Only the save or the request of a job is at work on a task.
LEMMA NotAtWork ==
  ASSUME NEW w, pc[w] \notin {"save", "send"}, pc[w] = "loaded" => req[w].op # "fire"
  PROVE  \A t : ~AtWork(w, t)
BY DEF AtWork

\* A request arrives: it loads the row as it is; the job that fires is at work
\* on its task from then on.
LEMMA ArrivalKept ==
  ASSUME NEW w, Alone(w), TypeOK, CopiesSound, ScheduleInv(w), Arrival(w)
  PROVE  ScheduleInv(w)'
<1>1. w \in Workers /\ stored \subseteq Tasks /\ rows \in [Tasks -> Row]
      /\ \A t \in Tasks : rows[t].id = t
  BY AloneSends DEF TypeOK, TableOK
<1>2. ASSUME NEW at, NEW r, NEW row, Begin(w, at, r, row), UNCHANGED <<stored, rows>>,
             jobs' = jobs
      PROVE  RowsKept(w)'
  <2>1. pc[w] = "idle"
    BY <1>2 DEF Begin
  <2> QED BY <1>2, <2>1, NotAtWork, SameKept DEF ScheduleInv
<1>3. ASSUME NEW r, NEW t \in stored, Begin(w, "loaded", r, rows[t]),
             UNCHANGED <<stored, rows>>
      PROVE  CopyKept(w)'
  <2>1. pc'[w] = "loaded" /\ inst'[w] = rows[t] /\ rows[t].id = t
    BY <1>1, <1>3, BeginSets
  <2> QED BY <1>3, <2>1 DEF CopyKept
<1>4. ASSUME NEW op \in Ops, NEW t \in stored, NEW s, Load(w, op, t, s)
      PROVE  ScheduleInv(w)'
  BY <1>2, <1>3, <1>4 DEF Load, db, celery, ScheduleInv
<1>5. ASSUME NEW e \in Executors, NEW list \in Lists, Heartbeat(w, e, list)
      PROVE  ScheduleInv(w)'
  <2>1. pc'[w] = "pop"
    BY <1>1, <1>5, BeginSets DEF Heartbeat
  <2> QED BY <1>2, <1>5, <2>1, RestKept DEF Heartbeat, db, celery, ScheduleInv
<1>6. ASSUME NEW j \in jobs, FireJob(w, j) PROVE ScheduleInv(w)'
  <2>1. /\ j.task \in stored /\ UNCHANGED <<stored, rows>> /\ pc[w] = "idle"
        /\ pc'[w] = "loaded" /\ inst'[w] = rows[j.task] /\ req'[w].op = "fire"
        /\ jobs \ {j} \subseteq jobs'
    BY <1>1, <1>6, BeginSets DEF FireJob, db, NoRequest
  <2>2. CopyKept(w)'
    BY <1>3, <1>6, <2>1 DEF FireJob
  <2>3. ASSUME NEW t \in stored, rows[t].status = "Scheduled", CanStart(t)
        PROVE  HasJob(rows[t])' \/ AtWork(w, t)'
    <3>1. PICK k \in jobs : k.id = rows[t].sid
      BY <2>1, <2>3 DEF ScheduleInv, RowsKept, HasJob, AtWork
    <3>2. CASE k = j
      <4>1. j.task = t
        BY <1>1, <3>1, <3>2 DEF CopiesSound, Sound
      <4>2. rows[t] # None /\ rows[t].id = t
        BY <1>1, NoneAssumption
      <4> QED BY <2>1, <4>1, <4>2 DEF AtWork
    <3>3. CASE k # j
      BY <2>1, <3>1, <3>3 DEF HasJob
    <3> QED BY <3>2, <3>3
  <2>4. RowsKept(w)'
    BY <2>1, <2>3 DEF RowsKept, CanStart
  <2> QED BY <2>2, <2>4 DEF ScheduleInv
<1> QED BY <1>4, <1>5, <1>6 DEF Arrival

\* The row a request has written is in the table, with its job.
LEMMA SavedKept ==
  ASSUME NEW w, Alone(w), TypeOK, ScheduleInv(w), pc[w] \in {"loaded", "save"},
         NEW r \in Row, r.id = inst[w].id, Write(r), jobs' = jobs,
         r.status = "Scheduled" /\ CanStart(r.id) => HasJob(r),
         pc'[w] \in {"idle", "check"}
  PROVE  ScheduleInv(w)'
<1>1. \A t \in Tasks : t # r.id => ~AtWork(w, t)
  BY DEF AtWork
<1> QED BY <1>1, WriteKept, RestKept DEF ScheduleInv

\* A request saves what it has decided, or the change it was made for.
LEMMA SaveKept ==
  ASSUME NEW w, Alone(w), TypeOK, ScheduleInv(w),
         Save(w) \/ HideTask(w) \/ EditTask(w) \/ ReportTask(w)
  PROVE  ScheduleInv(w)'
<1>1. w \in Workers
  BY AloneSends
<1>2. pc[w] \in {"loaded", "save"} /\ jobs' = jobs /\ inst[w] \in Row
  BY <1>1, HeldIsRow DEF Save, HideTask, EditTask, ReportTask, celery
<1>3. pc[w] = "loaded" /\ req[w].op # "fire" /\ inst[w].status = "Scheduled"
        /\ CanStart(inst[w].id) => HasJob(inst[w])
  BY DEF ScheduleInv, CopyKept, RowsKept, AtWork
<1>4. CASE Save(w)
  <2>1. pc'[w] \in {"idle", "check"}
    BY <1>1, <1>4, ReturnSets DEF Save
  <2>2. inst[w].status = "Scheduled" => HasJob(inst[w])
    BY <1>4 DEF Save, ScheduleInv, CopyKept
  <2> QED BY <1>2, <1>4, <2>1, <2>2, SavedKept DEF Save
<1>5. CASE HideTask(w)
  <2> DEFINE r == [inst[w] EXCEPT !.deleted = TRUE]
  <2>1. pc'[w] = "idle" /\ Write(r) /\ pc[w] = "loaded" /\ req[w].op # "fire"
    BY <1>1, <1>5, FinishSets DEF HideTask
  <2>2. r \in Row /\ r.id = inst[w].id /\ r.status = inst[w].status /\ r.sid = inst[w].sid
    BY <1>2 DEF Row
  <2>3. r.status = "Scheduled" /\ CanStart(r.id) => HasJob(r)
    BY <1>3, <2>1, <2>2 DEF HasJob
  <2> HIDE DEF r
  <2> QED BY <1>2, <2>1, <2>2, <2>3, SavedKept
<1>6. CASE EditTask(w)
  <2>1. pc'[w] = "idle" /\ Write(inst[w]) /\ pc[w] = "loaded" /\ req[w].op # "fire"
    BY <1>1, <1>6, FinishSets DEF EditTask
  <2> QED BY <1>2, <1>3, <2>1, SavedKept
<1>7. CASE ReportTask(w)
  <2> DEFINE r == [inst[w] EXCEPT !.status = req[w].status]
  <2>1. pc'[w] = "idle" /\ Write(r) /\ req[w].status \in Reports
    BY <1>1, <1>7, FinishSets DEF ReportTask, TypeOK, WorkOK
  <2>2. r \in Row /\ r.id = inst[w].id /\ r.status # "Scheduled"
    BY <1>2, <2>1, ReportsAssumption DEF Row
  <2> HIDE DEF r
  <2> QED BY <1>2, <2>1, <2>2, SavedKept
<1> QED BY <1>4, <1>5, <1>6, <1>7

\* A scheduled row that can be published has an id, may start and has a target:
\* execute_task sends it or queues it, and refuses nothing.
LEMMA FiredGoesOn ==
  ASSUME NEW w, TypeOK, CopiesSound, CopyKept(w), w \in Workers, pc[w] = "loaded",
         NEW t \in stored, rows[t].status = "Scheduled", CanStart(t), inst[w].id = t
  PROVE  ~WantsSchedule(w) /\ (Executes(w) => WantsPublish(w))
<1>1. inst[w] = rows[t] /\ t \in Tasks
  BY DEF CopyKept, TypeOK, TableOK
<1>2. rows[t].sid # None
  BY <1>1 DEF CopiesSound, Sound
<1> QED BY <1>1, <1>2 DEF WantsSchedule, WantsPublish, CanStart, AllowStart, AllowStartStatus

\* execute_task and pop_task.
LEMMA ExecutionKept ==
  ASSUME NEW w, Alone(w), TypeOK, CopiesSound, ScheduleInv(w), Execution(w)
  PROVE  ScheduleInv(w)'
<1>1. w \in Workers /\ FailedCopies = {}
  BY AloneSends
<1>2. pc[w] \in {"loaded", "send"} /\ UNCHANGED <<stored, rows>>
  BY DEF Execution, Schedule, ScheduleFails, CheckTarget, RefuseExecute, SendStart,
         SendStartFails, Executes, WantsPublish, db
<1>3. /\ inst[w] \in Row /\ inst[w] # None
      /\ inst[w].id \in stored /\ inst[w] = rows[inst[w].id]
  BY <1>1, <1>2, HeldIsRow DEF ScheduleInv, CopyKept
<1>4. ASSUME NEW row \in Row, row.id = inst[w].id, Goto(w, "save", row),
             jobs \subseteq jobs',
             row.status = "Scheduled" => \E j \in jobs' : j.id = row.sid
      PROVE  ScheduleInv(w)'
  <2>1. pc'[w] = "save" /\ inst'[w] = row /\ row # None
    BY <1>1, <1>4, GotoSets, NoneAssumption
  <2>2. CopyKept(w)'
    BY <1>2, <1>3, <1>4, <2>1 DEF CopyKept, HasJob
  <2>3. \A t \in stored : AtWork(w, t) => AtWork(w, t)'
    BY <1>4, <2>1 DEF AtWork
  <2> QED BY <1>2, <1>4, <2>2, <2>3, SameKept DEF ScheduleInv
<1>5. ASSUME jobs' = jobs, pc'[w] \in {"idle", "check"},
             ~(inst[w].status = "Scheduled" /\ CanStart(inst[w].id))
      PROVE  ScheduleInv(w)'
  <2>1. \A t \in stored : rows[t].status = "Scheduled" /\ CanStart(t) => ~AtWork(w, t)
    BY <1>3, <1>5 DEF AtWork
  <2> QED BY <1>2, <1>5, <2>1, SameKept, RestKept DEF ScheduleInv
<1>6. CASE Schedule(w)
  <2> DEFINE row == [inst[w] EXCEPT !.status = "Scheduled", !.sid = nextJob, !.reason = "none"]
             j == [id |-> nextJob, task |-> inst[w].id]
  <2>1. /\ row \in Row /\ row.id = inst[w].id /\ row.sid = nextJob
    BY <1>3 DEF Row, Status, Reasons, TypeOK, CeleryOK
  <2>2. jobs' = jobs \cup {j} /\ j.id = nextJob /\ Goto(w, "save", row)
    BY <1>6 DEF Schedule
  <2>3. \E k \in jobs' : k.id = row.sid
    BY <2>1, <2>2
  <2> HIDE DEF row, j
  <2> QED BY <1>4, <2>1, <2>2, <2>3
<1>7. CASE ScheduleFails(w) \/ RefuseExecute(w)
  <2>1. jobs' = jobs /\ pc'[w] \in {"idle", "check"} /\ Executes(w)
    BY <1>1, <1>7, FinishSets, ReturnSets DEF ScheduleFails, RefuseExecute, celery
  <2>2. ~(inst[w].status = "Scheduled" /\ CanStart(inst[w].id))
    BY <1>1, <1>3, <1>7, <2>1, FiredGoesOn
       DEF ScheduleFails, RefuseExecute, Executes, ScheduleInv
  <2> QED BY <1>5, <2>1, <2>2
<1>8. CASE CheckTarget(w)
  <2>1. CASE Goto(w, "send", inst[w])
    <3>1. pc'[w] = "send" /\ inst'[w] = inst[w] /\ req' = req /\ pc[w] = "loaded" /\ jobs' = jobs
      BY <1>1, <1>8, <2>1, GotoSets DEF CheckTarget, WantsPublish, Executes, celery
    <3>2. CopyKept(w)'
      BY <1>2, <1>3, <3>1 DEF CopyKept
    <3>3. \A t \in stored : AtWork(w, t) => AtWork(w, t)'
      BY <3>1 DEF AtWork
    <3> QED BY <1>2, <3>1, <3>2, <3>3, SameKept DEF ScheduleInv
  <2>2. CASE Goto(w, "save", [inst[w] EXCEPT !.status = "Queuing"])
    <3> DEFINE row == [inst[w] EXCEPT !.status = "Queuing"]
    <3>1. row \in Row /\ row.id = inst[w].id /\ row.status # "Scheduled"
      BY <1>3 DEF Row, Status
    <3>2. jobs' = jobs
      BY <1>8 DEF CheckTarget, celery
    <3> HIDE DEF row
    <3> QED BY <1>4, <2>2, <3>1, <3>2 DEF row
  <2> QED BY <1>8, <2>1, <2>2 DEF CheckTarget
<1>9. CASE SendStart(w)
  <2> DEFINE row == [inst[w] EXCEPT !.status = "Published", !.reason = "none"]
  <2>1. row \in Row /\ row.id = inst[w].id /\ row.status # "Scheduled"
    BY <1>3 DEF Row, Status, Reasons
  <2>2. jobs' = jobs /\ Goto(w, "save", row)
    BY <1>9 DEF SendStart, celery
  <2> HIDE DEF row
  <2> QED BY <1>4, <2>1, <2>2
<1>10. CASE SendStartFails(w)
  <2>1. ExecutorOf[inst[w].id] = None /\ jobs' = jobs /\ pc'[w] = "idle"
    BY <1>1, <1>10, FinishSets DEF SendStartFails, celery
  <2> QED BY <1>5, <2>1 DEF CanStart
<1> QED BY <1>6, <1>7, <1>8, <1>9, <1>10 DEF Execution

\* stop_task: revoke takes the job of this task only, and will save the row as
\* canceled.
LEMMA StoppingKept ==
  ASSUME NEW w, Alone(w), TypeOK, CopiesSound, ScheduleInv(w), Stopping(w)
  PROVE  ScheduleInv(w)'
<1>1. w \in Workers /\ pc[w] = "loaded" /\ req[w].op = "stop"
      /\ UNCHANGED <<stored, rows>>
  BY AloneSends DEF Stopping, Revoke, SendStop, RefuseStop, MayTerminate, Stops, db
<1>2. /\ inst[w] \in Row /\ inst[w] # None
      /\ inst[w].id \in stored /\ inst[w] = rows[inst[w].id]
  BY <1>1, HeldIsRow DEF ScheduleInv, CopyKept
<1>3. CASE Revoke(w)
  <2> DEFINE row == [inst[w] EXCEPT !.sid = None, !.status = "Canceled", !.reason = "cancelled"]
  <2>1. row \in Row /\ row.id = inst[w].id /\ row.status = "Canceled"
    BY <1>2 DEF Row, Status, Reasons
  <2>2. Goto(w, "save", row)
    BY <1>3 DEF Revoke
  <2> HIDE DEF row
  <2>3. pc'[w] = "save" /\ inst'[w] = row /\ row # None
    BY <1>1, <2>1, <2>2, GotoSets, NoneAssumption
  <2>4. CopyKept(w)'
    BY <1>1, <1>2, <2>1, <2>3 DEF CopyKept
  <2>5. ASSUME NEW t \in stored, rows[t].status = "Scheduled", CanStart(t)
        PROVE  HasJob(rows[t])' \/ AtWork(w, t)'
    <3>1. CASE t = inst[w].id
      BY <2>1, <2>3, <3>1 DEF AtWork
    <3>2. CASE t # inst[w].id
      <4>1. PICK j \in jobs : j.id = rows[t].sid
        BY <2>5, <3>2 DEF ScheduleInv, RowsKept, HasJob, AtWork
      <4>2. t \in Tasks /\ rows[t].id = t
        BY DEF TypeOK, TableOK
      <4>3. j.task = t
        BY <4>1, <4>2 DEF CopiesSound, Sound
      <4>4. j.id # inst[w].sid
        BY <1>1, <1>2, <3>2, <4>1, <4>3 DEF CopiesSound, Sound
      <4>5. j \in jobs'
        BY <1>3, <4>4 DEF Revoke
      <4> QED BY <1>1, <4>1, <4>5 DEF HasJob
    <3> QED BY <3>1, <3>2
  <2>6. RowsKept(w)'
    BY <1>1, <2>5 DEF RowsKept, CanStart
  <2> QED BY <2>4, <2>6 DEF ScheduleInv
<1>4. CASE SendStop(w) \/ RefuseStop(w)
  <2>1. jobs' = jobs /\ pc'[w] = "idle"
    BY <1>1, <1>4, FinishSets DEF SendStop, RefuseStop, celery
  <2> QED BY <1>1, <2>1, NotAtWork, SameKept, RestKept DEF ScheduleInv
<1> QED BY <1>3, <1>4 DEF Stopping

\* heartbeat: what pop_task loads says QUEUING, what check_task saves says ERROR.
LEMMA BeatingKept ==
  ASSUME NEW w, Alone(w), TypeOK, ScheduleInv(w), Beating(w)
  PROVE  ScheduleInv(w)'
<1>1. w \in Workers /\ pc[w] \in {"pop", "check", "sweep"} /\ jobs' = jobs
  BY AloneSends DEF Beating, PopTask, CheckTasks, SweepTask, celery
<1>2. \A t : ~AtWork(w, t)
  BY <1>1, NotAtWork
<1>3. CASE PopTask(w)
  <2>1. UNCHANGED <<stored, rows>>
    BY <1>3 DEF PopTask, db
  <2>2. CopyKept(w)'
    <3>1. ASSUME NEW t \in Queued(req[w].executor), Goto(w, "loaded", rows[t])
          PROVE  CopyKept(w)'
      <4>1. t \in stored /\ rows[t].id = t
        BY <3>1 DEF Queued, TypeOK, TableOK
      <4>2. pc'[w] = "loaded" /\ inst'[w] = rows[t]
        BY <1>1, <3>1, GotoSets
      <4> QED BY <2>1, <4>1, <4>2 DEF CopyKept
    <3>2. ASSUME Goto(w, "check", None) PROVE CopyKept(w)'
      BY <1>1, <3>2, GotoSets, RestKept
    <3> QED BY <1>3, <3>1, <3>2 DEF PopTask
  <2> QED BY <1>1, <1>2, <2>1, <2>2, SameKept DEF ScheduleInv
<1>4. CASE CheckTasks(w)
  <2>1. UNCHANGED <<stored, rows>> /\ pc'[w] \in {"idle", "sweep"}
    BY <1>1, <1>4, FinishSets DEF CheckTasks, db, TypeOK, WorkOK
  <2> QED BY <1>1, <1>2, <2>1, SameKept, RestKept DEF ScheduleInv
<1>5. ASSUME NEW b \in batch[w], SweepTask(w, b) PROVE ScheduleInv(w)'
  <2> DEFINE r == [b EXCEPT !.status = "Error", !.reason = "lost"]
  <2>1. b \in Row /\ Write(r)
    BY <1>1, <1>5 DEF SweepTask, TypeOK, WorkOK
  <2>2. r \in Row /\ r.status # "Scheduled"
    BY <2>1 DEF Row, Status, Reasons
  <2>3. pc'[w] \in {"idle", "sweep"}
    BY <1>1, <1>5, FinishSets DEF SweepTask
  <2> HIDE DEF r
  <2> QED BY <1>1, <1>2, <2>1, <2>2, <2>3, WriteKept, RestKept DEF ScheduleInv
<1> QED BY <1>3, <1>4, <1>5 DEF Beating

\* Every step of the system keeps the schedules.
LEMMA ScheduleNext ==
  ASSUME NEW w, Alone(w), TypeOK, CopiesSound, ScheduleInv(w), [SysNext]_sysvars
  PROVE  ScheduleInv(w)'
<1>1. w \in Workers /\ \A v \in Workers : v = w
  BY AloneSends
<1>2. ASSUME UNCHANGED <<stored, rows, jobs, pc, req, inst>> PROVE ScheduleInv(w)'
  BY <1>2 DEF ScheduleInv, CopyKept, RowsKept, HasJob, AtWork, CanStart
<1>3. CASE BackendSteps(w)
  BY <1>3, SaveKept, ExecutionKept, StoppingKept, BeatingKept DEF BackendSteps, Step
<1>4. ASSUME NEW op \in Ops, NEW t \in stored, UserRequests(w, op, t)
      PROVE  ScheduleInv(w)'
  BY <1>4, ArrivalKept DEF UserRequests, Arrival
<1>5. ASSUME NEW j \in jobs, CeleryFires(w, j) PROVE ScheduleInv(w)'
  BY <1>5, ArrivalKept DEF CeleryFires, Arrival
<1>6. ASSUME NEW t \in Tasks, AgentReports(w, t) PROVE ScheduleInv(w)'
  <2> DEFINE s == ReportDue[phase[t]]
  <2>1. s \in Status
    BY <1>6, ReportsKnown DEF AgentReports
  <2>2. Load(w, "report", t, s) /\ "report" \in Ops /\ t \in stored
    BY <1>6 DEF AgentReports, Load
  <2> HIDE DEF s
  <2> QED BY <2>1, <2>2, ArrivalKept DEF Arrival
<1>7. ASSUME NEW e \in Executors, AgentBeats(w, e) PROVE ScheduleInv(w)'
  <2>1. Listed(e) \in Lists
    BY AgentsAssumption DEF Listed
  <2> QED BY <1>7, <2>1, ArrivalKept DEF AgentBeats, Arrival
<1>8. ASSUME NEW e \in Executors, AgentTakes(e) PROVE ScheduleInv(w)'
  BY <1>2, <1>8 DEF AgentTakes, Consume, db, celery, work
<1>9. CASE (\E t \in Tasks : AgentFinishes(t)) \/ (\E e \in Executors : AgentCrashes(e))
  BY <1>2, <1>9 DEF AgentFinishes, AgentCrashes, vars
<1>10. CASE UNCHANGED sysvars
  BY <1>2, <1>10 DEF sysvars, vars
<1> QED
  BY <1>1, <1>3, <1>4, <1>5, <1>6, <1>7, <1>8, <1>9, <1>10 DEF SysNext

\* No schedule is forgotten: when requests do not overlap and no send fails, a
\* task that says SCHEDULED and can be sent has its job in Celery, or a request
\* holds it, for every number of tasks, agents, targets and schedules, jobs
\* Celery delivers twice and revocations it forgets included.
THEOREM SchedulesAreKept ==
  ASSUME NEW w, Alone(w)
  PROVE  SysSpec => []NoStrandedSchedule
<1>1. SysInit => ScheduleInv(w)
  BY AloneSends, TasksAssumption DEF SysInit, Init, ScheduleInv, CopyKept, RowsKept, NewRow
<1>2. SysTypeOK /\ CopiesSound /\ ScheduleInv(w) /\ [SysNext]_sysvars => ScheduleInv(w)'
  BY ScheduleNext DEF SysTypeOK
<1>3. ScheduleInv(w) => NoStrandedSchedule
  BY AloneSends DEF ScheduleInv, RowsKept, HasJob, CanStart, AtWork, NoStrandedSchedule
<1> QED
  BY <1>1, <1>2, <1>3, SystemTypes, SystemImplementsBackend, CopiesAreSound, PTL DEF SysSpec
====
