---- MODULE MCBackend ----
(* Small instances of TaskBackend. *)
EXTENDS TaskBackend, TLC
CONSTANTS e1, g1, w1, w2
\* All tasks belong to one agent and want one target.
SameExecutor == [t \in Tasks |-> e1]
SameTarget == [t \in Tasks |-> g1]
\* The second task has no agent (the foreign key is null).
OneWithoutExecutor == [t \in Tasks |-> IF t = 2 THEN None ELSE e1]
WorkerSymmetry == Permutations(Workers)
====
