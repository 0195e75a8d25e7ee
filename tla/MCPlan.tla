---- MODULE MCPlan ----
(* Small instances of RqmPlan. *)
EXTENDS RqmPlan, TLC
CONSTANTS c1, c2, n1, n2
TwoClients == {c1, c2}
TwoNames == {n1, n2}
\* RQM has records of the second name only.
SecondExists == <<n2>>
Want(build, configuration) == [k \in Records |-> IF k = "buildrecord" THEN build ELSE configuration]
\* Both names new, an environment only, and an empty name behind an old one.
SomeWants == {Want(n1, n1), Want(None, n2), Want(n2, "")}
Symmetry == Permutations(TwoClients)
====
