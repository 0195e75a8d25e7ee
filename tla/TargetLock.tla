---- MODULE TargetLock ----
(***************************************************************************)
(* What the task backend promises of hardware, with no word of rows,       *)
(* messages or agents: a task is given the target it needs only when no    *)
(* other task has it, and a task that has its target does not queue for    *)
(* it.  TaskSystem implements this as long as requests do not overlap and  *)
(* no task is scheduled.                                                   *)
(***************************************************************************)

CONSTANTS Tasks, TargetOf

VARIABLES
  waiting,  \* tasks in the queue
  holding   \* tasks that have their target, or are about to

lock == <<waiting, holding>>

Init == waiting = {} /\ holding = {}

\* publish() finds the target busy.
Wait(t) ==
  /\ t \notin holding
  /\ waiting' = waiting \cup {t}
  /\ UNCHANGED holding

\* The task has started, is hidden, or is otherwise given up by its user.
StopWaiting(t) ==
  /\ waiting' = waiting \ {t}
  /\ UNCHANGED holding

\* publish() finds the target idle; whoever waits for it waits on.
Grant(t) ==
  /\ \A u \in holding : TargetOf[u] # TargetOf[t]
  /\ holding' = holding \cup {t}
  /\ UNCHANGED waiting

\* Tasks end, are stopped or hidden, or their agent dies.
Release(gone) ==
  /\ holding' = holding \ gone
  /\ UNCHANGED waiting

Next ==
  \/ \E t \in Tasks : Wait(t) \/ StopWaiting(t) \/ Grant(t)
  \/ \E gone \in SUBSET Tasks : Release(gone)

Spec == Init /\ [][Next]_lock

\* No target is held twice: what the rule for Grant is for (Target.is_idling).
Exclusive == \A t, u \in holding : TargetOf[t] = TargetOf[u] => t = u
====
