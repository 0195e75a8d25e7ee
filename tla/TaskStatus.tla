---- MODULE TaskStatus ----
(***************************************************************************)
(* The life-cycle states of a test task and the classes the backend sorts  *)
(* them into: Task.StatusChoices of agent/models.py.  Every decision of    *)
(* the task backend (may a task start, may it stop, is its hardware busy,  *)
(* can it have been lost) is membership of one of these classes.           *)
(***************************************************************************)

Status == {"Idling", "Starting", "Running", "Completed", "Error",
           "Terminated", "Queuing", "Published", "Canceled", "Scheduled"}

\* _running_status: what a heartbeat's list can prove lost.
RunningStatus == {"Starting", "Running"}

AllowCancel == {"Queuing", "Published"}

\* _pub_running_status: what keeps a target busy.  The definitions before it
\* are mutated forms: published tasks forgotten, queued ones added.
PubRunningWithoutPublished == {"Starting", "Running"}
PubRunningWithQueuing == {"Starting", "Running", "Published", "Queuing"}
PubRunning == {"Starting", "Running", "Published"}

AllowStartStatus == {"Idling", "Completed", "Canceled", "Queuing", "Scheduled"}
AllowStopStatus == {"Starting", "Running", "Published", "Scheduled"}

\* allow_start and allow_stop.
AllowStart(s) == s \in AllowStartStatus
AllowStop(s) == s \in AllowStopStatus \cup AllowCancel
====
