# Verification of vite-admin-backend

TLA+ models of the backend in this repository, the TLC runs that check them and
the TLAPS proofs about them. `PROJECT.json` has the machine-readable form: which
lines each definition stands for (`map`), the runs, the mutated definitions that
show each property can fail, the hazards, the findings and the theorems.

    tlc -config MCSystemSerial.cfg MCSystem      # a run
    tlapm TaskBackendProofs.tla                  # the proofs of a module

## 1. Inventory

The backend is one Django process (ASGI, a thread per request, autocommit MySQL),
a Celery worker (`--pool=solo`), Redis, and a Kafka broker. Its clients are a web
frontend and *test agents*: programs on lab machines that run test tasks on
hardware. Neither client is in the repository.

| Component | Code | State | Operations | Modelled in |
|---|---|---|---|---|
| Task life cycle | `agent/models.py` 108-220 | the status of a task and its classes | `allow_start`, `allow_stop`, ... | `TaskStatus` |
| Task backend | `agent/models.py`, `agent/views.py`, `utils/core/producer.py`, `utils/lib/message.py`, `app/tasks.py` | the task table, one Kafka topic per agent, Celery jobs | `execute_task`, `stop_task`, `delete_task`, create, update, destroy, heartbeat (`pop_task`, `check_task`), the job that fires | `TaskBackend` |
| Task system | the same, with agents, users and the worker around it | what each agent does with each task | take, report, beat, die | `TaskSystem`, `TargetLock` |
| Executor registry | `agent/models.py` 12-46, `agent/views.py` 20-66 | one row per agent | register, `is_online` | no |
| RQM test cases | `app/views.py`, `utils/utils.py`, `CRQM.py` | test cases and scripts on RQM, two kinds of cache keys in Redis, one shared HTTP session | `getAll`, create (one or many), retrieve, update | `RqmTestcases` |
| RQM client, the rest | `CRQM.py` | each client's dicts of build records, environments and suites, its `build` and `configuration`; the records and documents on RQM | `config`, `createTestsuite`, `getAllTestsuites`, the link methods | `RqmPlan` |
| Artifactory tool | `artifactory_helper.py` | a file written by several threads | `get_latest_version`, `multithread_download` | `Artifactory` |
| WebSocket rooms | `ws/consumers.py`, `backendviteadmin/auth.py` | each connection's consumer, the groups and channels of the channel layer | the token of the handshake, `connect`, `receive`, the handlers, `disconnect` | `ChatRooms` |
| Accounts, settings, migrations | `user/`, `backendviteadmin/`, `*/migrations/` | rows of the framework | the framework's | no |

How they interact:

- a request thread reads a row, decides, calls Kafka or Celery, and writes *every*
  column of the copy it read back (`Task.save`). Nothing is locked, there is no
  transaction around a request, so any two requests interleave at every call;
- a scheduled task becomes a Celery job that later POSTs to `execute_task` of the
  same backend, and holds the only Celery thread until that request answers;
- an agent takes `start_task` and `stop_task` from its topic, PATCHes the status
  of its tasks, and sends heartbeats with the list of tasks it runs. A heartbeat
  first publishes the head of the agent's queue (`pop_task`) and then marks tasks
  it does not list as lost (`check_task`);
- all requests about RQM share one `requests` session, whose login is in two
  steps (a cookie, then the header that must match it), and a bulk creation runs
  one thread per test case on it; the Redis cache is read, changed and written
  back as a whole;
- programs that import results each hold a client of their own; they meet on RQM
  only, where a name is looked up in one call and created in a later one, and a
  document is read in one call and written back in the next, without an ETag;
- the consumers of one room meet in its group on the channel layer: what a client
  posts is broadcast to the channels of all members, each of which handles its
  messages one at a time, between the frames of its own client.

What is hard: stale copies written back; a check (`is_idling`) long before the
act it justifies; messages lost, unacknowledged or doubled by the producer's
retries; the age of a heartbeat's list; agents that die at any point; Celery jobs
lost, delivered again, or revoked too late; threads that share a session or a
file object; look up, then create; read, change, write back; consumers that die
in their group; one step of several failing. `PROJECT.json` lists each at its line.

What makes the parts correct: a target is never given to two tasks; a row says
PUBLISHED or SCHEDULED only if a message or a job stands behind it; a queued task
leaves the queue; a lost task is noticed and a running one never called lost; a
cached id exists on RQM and a cached sheet is what RQM holds; a test case has a
script of its own; a finished download is the whole file; a client that retries
makes no record twice and links results to what it was asked for; what is said in
a room is seen by all in it, in order, and by nobody else.

## 2. Modules

| Module | Extends | What it is |
|---|---|---|
| `TaskStatus` | | the ten statuses and their classes |
| `TaskBackend` | `TaskStatus` | the open backend: any request at any time |
| `TaskBackendProofs` | `TaskBackend`, `TLAPS` | its theorems |
| `TaskSystem` | `TaskBackend` | closed with users, agents and the Celery worker |
| `TargetLock` | | what is promised of hardware: an abstract lock on targets |
| `TargetLockProofs` | `TargetLock`, `TLAPS` | the lock excludes |
| `TaskSerialProofs` | `TaskBackendProofs`, `TaskSystem` | the closed system implements the open one; without overlap, it implements the lock and forgets no schedule |
| `Artifactory` | | the newest package, the threaded download |
| `ArtifactoryProofs` | `Artifactory`, `TLAPS` | its theorems |
| `RqmTestcases` | `Subsequences` | test cases on RQM, their caches, the shared session |
| `RqmTestcasesProofs` | `RqmTestcases`, `SubsequencesProofs` | its theorems |
| `RqmPlan` | | clients that configure, create suites and link |
| `RqmPlanProofs` | `RqmPlan`, `TLAPS` | its theorems |
| `ChatRooms` | `Subsequences` | the WebSocket rooms |
| `ChatRoomsProofs` | `ChatRooms`, `SubsequencesProofs` | its theorems |
| `Subsequences` | | what is left of a sequence when some elements are picked |
| `SubsequencesProofs` | `Subsequences`, `TLAPS` | what `Select` returns; induction up to a number |
| `MCBackend`, `MCSystem`, `MCArtifactory`, `MCRqm`, `MCPlan`, `MCRooms` | the above | small instances |

### TaskBackend

`rows[t]` is the row with key `t`; of its columns the model keeps the status, the
job id (`schedule_id`), `is_deleted` and what `reason` says. `ExecutorOf`,
`TargetOf`, `Scheduled` and `Timed` are the columns the modelled requests do not
change. `topic[e]` is what the agent `e` has not consumed, `jobs` the Celery jobs
that have not run. A request thread `w` has a program counter `pc[w]`, the request
`req[w]` and the copy of the row it loaded, `inst[w]`; `batch[w]` is the rest of
`check_task`'s query result.

One action is the code between two calls to the database, Kafka or Celery:

| Code | Actions |
|---|---|
| `get_object_or_404` | `Load` |
| `execute_task` | `Schedule`, `ScheduleFails`, `CheckTarget`, `SendStart`, `SendStartFails`, `RefuseExecute`, then `Save` |
| `stop_task` | `Revoke` then `Save`, or `SendStop`, or `RefuseStop` |
| `delete_task`, PUT, PATCH | `HideTask`, `EditTask`, `ReportTask` |
| POST, DELETE | `Create`, `Destroy` |
| heartbeat | `Heartbeat`, `PopTask`, (as `execute_task`,) `CheckTasks`, `SweepTask` |
| the Celery job | `FireJob`, `DropJob` |
| the process | `Restart` |

`Faults` says what else may happen: a send refused by the brokers, a send whose
acknowledgement is lost, a message appended twice by a retry, a job lost,
delivered twice or not revoked, and a restart of the backend. A message an agent
was sent is consumed by `Consume`.

Two simplifications a reader should know. A user's PUT carries the user's columns
and writes the row's status back from the copy the request loaded; a frontend that
sends a whole row it fetched minutes ago could write older values still. And the
POST of `app/tasks.py` has no timeout: with one Celery thread, a backend that never
answers stops all scheduled tasks; in the model an answer comes, or the job is lost.

### TaskSystem

`phase[t]` is what the agent does with the task: nothing, accepted, starting,
running, then completed or stopped with the report still to be sent. Agents are
external: they do what the backend expects of them, and may die (`AgentCrashes`),
forgetting all they ran. `Listed(e)` is evaluated when the heartbeat is *sent*;
`CheckTasks` compares it later.

### TargetLock

The abstract specification knows tasks, targets and two sets: `waiting` and
`holding`. A task is granted its target only when no task that holds has the same
one, and does not wait for what it holds. `TaskSystem` implements it under the
mapping at the instance `Lock`: a task waits while it is visible and its row says
QUEUING; it holds while it is visible and `Committed`, that is, while its start
message is in a topic or its agent runs it. So the rows, which are all `is_idling`
looks at, do not say who holds: the topics and the agents do, and the theorem is
that looking at the rows is enough. The successful send of `publish()` is a
`Grant`, the save of QUEUING a `Wait`, every save of another status and `HideTask`
a `StopWaiting`, and a report of the end, a stop, a hidden row or a crash a
`Release` (of several targets at once, when an agent dies).

### Artifactory

A byte of the source is its own position, so the file is right iff `file[p] = p`
for every position and no other is written. The dispatcher's loop is `Dispatch`,
the page after it `DispatchLast`; a thread requests its page, reads a chunk, takes
the lock and seeks (`Seek`), writes and gives the lock back (`WriteData`). Faults
are a `RequestException`, a body cut short, an error page, a failing disk and
Ctrl-C. `get_latest_version` lists the repository three times, and `Publish` may
add a package in between. Version numbers have no leading zeros, as the code's
patterns presume ("2022.5.", not "2022.05.").

### RqmTestcases

A document stands for the JSON of a test case; `TestcaseTemplate` puts its title
into the test case and `TestscriptTemplate` its steps into the script. `matched`
says that the CSRF header of the shared client is the cookie of its session: a
login may renew the cookie (`Login`) and sets the header later (`SetHeader`), and
a POST in between is refused. `job[w]` is the request of worker `w` with the
private copy of what it read from the cache, `threads[w]` its threads on the
client. Faults: a login that is refused, a refused POST or PUT, an answer that is
lost after RQM has done the work, an exception, a page that cannot be read.

### RqmPlan

Every client is an object with a thread of its own; RQM (`records`, `links`) is
what they share. `call[c]` is the call the client is in, and one action is the code
from one request to RQM to the next:

| Code | Actions |
|---|---|
| `config` | `BeginConfig`, `GetPlan`, then for the build and the environment `List` and (`UseKnown` or `Create`), `GetTeams` |
| `createTestsuite`, `getAllTestsuites` | `BeginSuite`, then as above from the dict; `BeginSuites`, `List` |
| `linkListTestcase2Testplan` and its kin | `BeginLink`, `GetDocument`, `PutDocument` |
| an empty name, an answer without success | `RefuseEmpty`, `...Fails`, `CreateRefused`, `PutRefused` |
| RQM has the name already | `Create` (a second record) or `CreateSeeOther` (the 303): `OnExisting` leaves the server's rule open |
| the answer is lost | `CreateLost`, `PutLost`: the record or the document is there |

`GoOn` is `config`'s order: the build, then the environment, each only if a name
is wanted, then the team areas. A feed of several pages is read in one step: RQM
appends records, so what was there at the first page is read. `asked`, `troubled`,
`failed`, `reported` and `stale` are history: they record what was called and what
happened, and no action looks at them. A record a client creates while another
is in a call counts as trouble for that other: it may meet the 303.

### ChatRooms

One consumer per connection. `inbox[c]` is what its client sent and `channel[c]`
what the channel layer holds for it; a consumer takes from either, one event at a
time, and interleaves with others at each `await`, so `connect` is three steps:
`Admit`, `GroupAdd`, `Accept`. `UserOf` is the middleware: the user of the token,
the user of the session when the token is too old or cannot be read, else nobody.
`Receive` is `receive` with its `group_send`, one script in Redis, hence atomic,
which passes over full channels. What is not JSON kills the consumer
(`ReceiveGarbage`) without `disconnect`, so that its channel stays in the group.
The text of a post is its number: order and identity are all the properties use.

## 3. Runs

| Run | Asks | Instance | Why it is enough |
|---|---|---|---|
| `races` | `TypeOK`, `OverbookingBound` | three tasks of one target, one of them created; two requests that execute, report, beat and create | one task more than requests, so the bound can be broken; every pair of requests on one row, so stale saves |
| `faults` | `PublishedWasSent`, `ScheduleHandles` | two tasks, one without agent, two requests that execute, stop, edit, hide, fire and destroy, every fault, two jobs | two tasks to confuse the jobs of, two requests to overlap |
| `serial` | `SysTypeOK`, `HardwareExclusive`, `ImplementsLock`, `LostMeansGone` | three tasks, one target, five user requests, an agent that may die once, refused sends | three tasks make a queue behind a busy target |
| `live` | `NoStrandedSchedule`, `QueueDrainsUnlessForgotten`, `LostIsNoticed` | three tasks, two targets, one task scheduled, three user requests, one crash | the third task waits behind the first although its target is idle |
| `download` | `TypeOK`, `LatestIsNewest`, `FinishedIsWhole`, `DownloadEnds` | sizes 0, 4 and 5, three threads, chunks of one byte, all faults, two calls | no page at all, pages that end exactly at the end, a shorter last page; a second call that finds the file |
| `testcases` | `TypeOK`, `ListedExist`, `OwnScript`, `CachesTrue` | two workers, two requests of up to two documents, one fault | two creations, four threads on one session; a listing may be cached already |
| `plan` | `TypeOK`, `RecordsOnce`, `ConfiguredRight`, `FailsOnlyTroubled`, `LinksKept` | two clients, a new name and one RQM has, four calls in all, one fault | a retry beside another client's call; two writers of one document; an id from an earlier call |
| `rooms` | `TypeOK`, `SeenByTheRoom`, `ChatIsSigned`, `EveryoneCatchesUp` | two connections in two rooms, every kind of token, three posts, channels of two | a full channel, a consumer that dies in its group, posts during `connect` |
| `false_lost` | `LostMeansGone` fails | one task, two request threads | see findings |
| `canceled` | `CanceledIsStopped` fails | one scheduled task | see findings |
| `stuck` | `QueueDrains` fails | two tasks, one crash | see findings |
| `refused_update` | `SheetRestored` fails | one worker, refused calls | see findings |

Bounds: `MaxJobs` and `TopicCap` bound jobs and messages; at the first
`apply_async` raises in the model, at the second a send waits for the consumer.
`UserBudget`, `CrashBudget`, `MaxCalls`, `MaxRequests`, `MaxItems` and `MaxFaults`
bound what users, crashes and faults add. Request threads are symmetric
(`WorkerSymmetry`), so are documents; symmetry is used for safety only. Deadlock
is checked except in `faults`, where every row may be deleted, in the runs of
`Artifactory`, `RqmTestcases` and `RqmPlan`, which stop when their calls are used
up, and in `rooms`, where every connection may be closed or dead.

What the properties say where the code is weakest:

- `OverbookingBound`: `is_idling` is no lock, so two overlapping requests can both
  start a task on one target. The bound is what remains: as many tasks as request
  threads, however stale the copies they save.
- `HardwareExclusive` (one task per target) therefore holds, and is checked, with
  one request at a time and no scheduled tasks only: the second because a
  cancelled task may still be running (finding `canceled`).
- `QueueDrainsUnlessForgotten`, `NoStrandedSchedule` and `LostIsNoticed` are also
  about one request at a time. With two, the `save` of PUBLISHED may overwrite the
  agent's COMPLETED and keep the target busy for ever; and the save of an older
  copy can bring a hidden row back. `LostIsNoticed` needs sends that succeed:
  `pop_task` runs first in a heartbeat, and if it raises `check_task` does not run.
- a task without target stays SCHEDULED after its job has fired, because `publish`
  refuses it, and so does one without agent, for which `publish` raises;
  `NoStrandedSchedule` is about tasks with both. A send that fails strands the
  schedule as well: the job is gone, the row is as it was.
- `CachesTrue` is claimed while no call to RQM has failed and no two requests
  overlapped. With overlap it fails in the ways the hazards list (a retrieve that
  stores an old sheet over a new one, a listing stored without a test case just
  created); `ListedExist` and `OwnScript` hold regardless.
- `FinishedIsWhole` leaves out downloads in which a response was not what was asked
  for, or the disk failed: the code looks at no status and no length. It also
  leaves out one kind of size: for some files smaller than `threads_num` squared
  the pages end exactly at the end of the file (`LastIsEmpty`), the page "remained"
  is empty, its Range header is invalid, and the server's whole file is appended
  behind the file. The run contains such a size, 4 bytes with three threads, and
  the property fails there when `LastIsEmpty` is dropped; for all other sizes it
  is proved.
- `RecordsOnce` is about one client, its retries and what was there before all:
  two clients that look a name up at once both create it.
- `FailsOnlyTroubled` names what `config` does not recover from: a 303, which it
  compares as a number with a string, fails a client whose name another client has
  created since; nothing a *failed* call leaves behind does.
- `LinksKept` says exactly when links are lost: a document was written back that
  had been changed since it was read.
- `SeenByTheRoom` leaves out members whose channel was full, which the sender is
  not told of; `ChatIsSigned` is about the chat room only, as the code is.

### Fairness

`TaskSystem.Fairness`: a request thread that can step does (weakly fair: each
thread is scheduled by the operating system). Agents consume and finish (weakly
fair); that they report and beat, and that Celery fires a due job, needs a free
request thread, which is there again and again but not always, hence strong
fairness. Users, crashes and faults are never fair. `Artifactory.Fairness`: the
dispatcher and every thread run on, because each request has a timeout of 60
seconds; a thread that waits for the lock gets it eventually (strong fairness of
`Seek`), as the lock is held for one write at a time. `ChatRooms.Fairness`: the
event loop runs each consumer on (weakly fair), and takes from its two queues, as
a consumer awaits both; clients are never fair. `RqmPlan` states no liveness:
nothing in the repository calls it, and a call may stop anywhere.

### Findings

- `false_lost`: `check_task` compares a list made before with a table read later;
  a task that reported STARTING in between is marked lost while it runs.
- `canceled`: `schedule_id` outlives its job, so stopping a scheduled task that
  has already been published only "revokes" a job that is gone: the row says
  CANCELED, no stop message is sent, the task goes on.
- `stuck`: a task PUBLISHED to an agent that dies before its first report is busy
  to `is_idling` and invisible to `check_task`: its target is blocked for ever.
- `refused_update`: RQM's answers to the PUTs of an update are not looked at; a
  refused update is cached for a day.

## 4. Proofs

All proofs are about every number of tasks, agents, targets, request threads and
clients, every set of requests and faults, and every bound. They assume the named
assumptions of the modules and nothing else: of `TaskBackend`, that keys are
numbers, the foreign keys are functions, the request threads are finitely many,
agents report neither PUBLISHED nor SCHEDULED, null is no value; of `TaskSystem`,
that an agent may list whatever it runs; of `RqmPlan`, that what is wanted and what
exists are names, and null is neither a name nor a client; of `ChatRooms`, that the
anonymous user is no account and that there is a chat room; of `RqmTestcases`, the
bounds on its counters; of `Artifactory`, at least one thread, chunks of at least one
byte and a repository that is finite at first. `TaskSerialProofs` adds `Serial(w)`, see
below.

`TaskBackendProofs`:

- `TypeCorrect` (`Spec => []TypeOK`): `TypeOK` is inductive as it stands.
- `PublishedSent` and `SchedulesHandled` follow from `CopiesAreSound`. Neither
  property is inductive: a row can be overwritten at any time by a copy some
  request loaded long before. `CopiesSound` therefore claims the same of *every*
  copy there is, in the table, in `inst` and in `batch`, and two facts about job
  ids (below `nextJob`, and of the right task). `SoundLater` shows that a sound
  copy stays sound as messages are added and jobs removed, `SoundNewJob` that a
  new job does not collide with an old id.
- `Overbooking` (`Spec => []OverbookingBound`) counts promises before they show:
  `Held(t)` says that `t` is published in the table or that some request is about
  to make it so, or to save an old PUBLISHED copy. The set of held tasks of a
  target never exceeds the number of request threads: when `CheckTarget` adds one
  the target had no published row, so every held task is the label of a thread
  (`LabelBound`); every other step adds none (`StepHolds`, `ArrivalHolds`).

`TargetLockProofs`: `LockIsExclusive`, by the rule for `Grant` alone. It is what
makes the lock worth implementing.

`TaskSerialProofs`. `SystemImplementsBackend` (`SysSpec => Spec`): each step of
users, agents and Celery is a step of the open backend or leaves it alone, so the
theorems above hold of the closed system too. This and `SystemTypes`
(`SysSpec => []SysTypeOK`) hold for any number of threads and every fault. The next
three are about a system in which requests do not overlap: `Serial(w)` says that `w` is the only request thread, no task is
scheduled, and no fault happens but refused sends. Users do what they like and
agents die at any time. Under it,

- `SerialIsExclusive` (`[]HardwareExclusive`): a target has one commitment at most;
- `SerialImplementsLock` (`ImplementsLock`): the system is the lock;
- `SerialLostIsGone` (`LostMeansGone`): no running task is marked lost.

The three share the invariant `SerialInv`. None of them is inductive, since
`is_idling` and `check_task` look at rows, while the properties are about topics and
agents. `ShowsInRow` is the link: while a start message is on its way the row of the
task says PUBLISHED, and while its agent runs it the row keeps the target busy. That
is false between the send and the save of `publish`, so rows are read as `Current`:
as the row will be when the request has made the save it is at. `OneBusy` is then the
exclusion the code maintains (one visible task that keeps a target busy) and
`StartsOnce` the exclusion within topics. `FreshCopy` says that the one request works
on what the table has, `MaySend` what `CheckTarget` has found, `ReportTimely` that
a report comes from the run it is about. For lost tasks, `ListTimely` says that what
runs and is not in the heartbeat's list was published after it was sent, so it is
PUBLISHED, which `check_task` passes over; `LostIsGone` carries that to the loop.
With two threads `FreshCopy` fails first, and the run `false_lost` shows what follows.

`SchedulesAreKept` (`[]NoStrandedSchedule`) assumes less: `Alone(w)` says that `w` is
the only request thread and no send is refused or goes unacknowledged; tasks may be
scheduled, messages doubled, jobs delivered twice and revocations forgotten. The
property is not inductive, as a request that holds the row may be about to save
SCHEDULED again. `ScheduleInv` says which requests do not: one at a save that does not
store SCHEDULED without the job, and the request of a job that has fired, until its
save (`AtWork`). A SCHEDULED row that can be sent is neither scheduled anew nor refused
(`FiredGoesOn`), so that request ends in a save of PUBLISHED or QUEUING. That `revoke`
and a firing job take no other row's job is `CopiesSound` of the open backend.

`RqmPlanProofs`: `RecordedOnce`, `ConfiguresRight`, `FailsTroubled`, `LinksAreKept`,
for every number of clients, calls and faults, from the invariant `PlanInv`. Again none
of the four is inductive: they hold by what a client knows in the middle of a call.
`KnownTrue` says that dicts name records there are (records never move,
`RecordsStay`); `SeesEnough` that at the POST the dict of a client has what was there
from the start, what it made itself, and everything if nobody is in its way, so a
name it posts is new (`NeverTwice`) and the 303 meets only the troubled
(`CreateSeeOtherKeeps`); `SoFar` follows `config` from the build to the environment to
the end, when it becomes `AskedRight`. Others look on while a record is added
(`LooksOn`). `PlanTypes` (`TypeOK`) is a matter of counting: `Counted` says that for
each kind the records there are and the calls that may still add one (`Adders`) are
no more than the names from the start and the calls begun, so ids stay in their bound
although the clients may be infinitely many.

`RqmTestcasesProofs`, three invariants on top of each other. `EveryOwnScript`
(`Spec => []OwnScript`), for every number of requests, documents and threads, whatever
RQM refuses and however the threads trip over their shared login. A test case is created
with the script id its thread was given by an earlier call, so `ScriptInv` says the same
of the ids held between the two POSTs: `PendingIsFree` (the script exists and no test
case links to it) and `PendingApart` (no two threads hold one). `JobsFit` is what updates
need: a request that reads a test case has one that exists, and a single thread, so it
writes the link back that it read.
`TestcaseTypes` (`TypeOK`) and `EveryListedExists` (`ListedExist`) follow from
`ListsInv`. A listing is stored long after it was read, extended with ids that threads
were given in between, so the claim is made of every copy requests hold (`Has`) and of
the ids of threads (`Placed`); test cases are never taken away (`Grows`). `Room` counts
the threads that may still create a test case, so that ids stay in `CaseIds`.
`CachesAreTrue` (`CachesTrue`) follows from `CachesInv`, which is about the middle of
requests, where the caches are *not* true: `Stage` says for each point of a request
what is stale (everything else is `Exact`) and what the request holds that will put it
right. For a creation these are the test cases its threads have made, whose ids are
those missing from the listing (`MadeRightly`); that appending exactly them makes the
listing true again is a fact about `Select` and counting.

`ChatRoomsProofs`: `RoomTypes` (`TypeOK`, inductive) and `ChatHasNames`
(`Spec => []ChatIsSigned`). What is shown was in a channel, what is in a channel was
posted by a member of the group, and a member of a group has passed `connect`:
`RoomsInv` follows a message back along this way (`AllSigned`, `Grouped`, `Admitted`).
Dying consumers stay in their group, which is why `Grouped` does not ask a member to
be open, and channels that are full lose messages but never change one. `RoomSeesAll`
(`SeenByTheRoom`) rests on `ToldInv`. What a member was or will be shown is compared
with what was broadcast since `Accept`, but its channel fills from `GroupAdd` on, one step earlier. `Told` therefore says that there is a moment,
not after `Accept`, such that what was shown and what is in the channel, together, are
what is seen (`Views`) of all that was broadcast in the room since. A broadcast appends
to both sides, `Handle` moves a message from the channel to what was shown, and neither
is claimed of a client whose channel was full.

`SubsequencesProofs`: that picking commutes with concatenation (`SelectConcat`) and
which elements `Select` returns, each position once (`SelectCorresponds`). The library's
induction theorems take an operator as parameter, which the provers cannot instantiate;
`InductionUpTo` is about a *set* of numbers instead, and follows from the least element
of a finite set (`LeastIsThere`). The models filter by positions (`Select`) rather than
by an operator (`SelectSeq`) for this reason.

`ArtifactoryProofs`: `WholeFile` (`FinishedIsWhole`), `NewestIsNamed`
(`LatestIsNewest`) and `ArtifactoryTypes` (`TypeOK`), for every size, number of threads
and repository. The download rests on `DownloadInv`: `Pages` says that what the
dispatcher has handed out covers the file up to where it stands, `Threads` that what a
thread has of its page is in place up to its position, and `OneWrites` that between a
seek and its write nobody else has moved the file object, which is what the lock is
for; then a write changes the one position it is about. The sizes matter in one place
only: the page after the loop is what is left, unless that is nothing. The search for
the newest package rests on `ScanInv`: what the listing of years has found stays true
while weeks and packages are listed, since the repository only grows. `MaxIsThere` (a
finite set of numbers has a largest) is proved from well-founded subsets.

Every invariant and action property of a passing run is thus a theorem. Of the
invariants behind them, `ScheduleInv`, `ListsInv`, `CachesInv` and `Counted` were
checked by TLC on the instances of the runs before they were proved; `ToldInv`
quantifies over all sequences of messages and is proved only.

Model-checked only: all liveness (`DownloadEnds`, `EveryoneCatchesUp`,
`QueueDrainsUnlessForgotten`, `LostIsNoticed`), which rests on fairness and ENABLED,
beyond the provers here; and the four properties that fail, whose counterexamples are
TLC's.

## 5. Not modelled

- The executor registry (an upsert and a clock comparison). `TaskBackend` takes
  the executor of a heartbeat as given.
- Of the RQM client, the XML templates of execution results, execution records and
  suite results: they build a document from their arguments, have no caller, and
  are posted like the resources of `RqmPlan`.
- The single-threaded download, deploy and decompress (straight-line I/O), template
  and file uploads (files overwritten in place).
- Accounts, settings and migrations: the framework's. What matters of the settings
  (a thread per request, autocommit, one Celery thread) is built into the models.

## 6. Plan

Done, in this order: `TaskStatus`, `TaskBackend`, `TaskSystem` and their proofs;
`Artifactory`; `RqmTestcases`; `RqmPlan` and its proofs; `ChatRooms`; `TargetLock`
and the proof that the serial system implements it; the proofs of `RqmTestcases`,
`ChatRooms` and `Artifactory`, which now cover every invariant of the passing runs.
What would add most next:

1. An abstract room (a log and one reading position per member) that `ChatRooms`
   implements; `Told` is most of the mapping.
2. Model the executor registry joined to `TaskSystem`, with a clock: an agent that
   is offline still gets start messages.
