---- MODULE MCSystem ----
(* Small instances of TaskSystem. *)
EXTENDS TaskSystem, TLC
CONSTANTS e1, g1, g2, w1, w2
SameExecutor == [t \in Tasks |-> e1]
SameTarget == [t \in Tasks |-> g1]
\* The last task wants another target: it waits behind the first in the queue.
LastElsewhere == [t \in Tasks |-> IF t = 3 THEN g2 ELSE g1]
AllLists == SUBSET Tasks
====
