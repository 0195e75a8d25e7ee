---- MODULE TargetLockProofs ----
(***************************************************************************)
(* What a step of TargetLock promises, over a whole behaviour.             *)
(***************************************************************************)
EXTENDS TargetLock, TLAPS

\* No target is ever held twice, for every set of tasks and targets: the test
\* Target.is_idling makes before each start is enough.
THEOREM LockIsExclusive == Spec => []Exclusive
<1>1. Init => Exclusive
  BY DEF Init, Exclusive
<1>2. Exclusive /\ [Next]_lock => Exclusive'
  <2> SUFFICES ASSUME Exclusive, [Next]_lock PROVE Exclusive'
    OBVIOUS
  <2>1. ASSUME NEW t \in Tasks, Wait(t) \/ StopWaiting(t) PROVE Exclusive'
    BY <2>1 DEF Wait, StopWaiting, Exclusive
  <2>2. ASSUME NEW t \in Tasks, Grant(t) PROVE Exclusive'
    BY <2>2 DEF Grant, Exclusive
  <2>3. ASSUME NEW gone \in SUBSET Tasks, Release(gone) PROVE Exclusive'
    BY <2>3 DEF Release, Exclusive
  <2>4. CASE UNCHANGED lock
    BY <2>4 DEF lock, Exclusive
  <2> QED BY <2>1, <2>2, <2>3, <2>4 DEF Next
<1> QED BY <1>1, <1>2, PTL DEF Spec
====
