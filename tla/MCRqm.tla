---- MODULE MCRqm ----
(* Small instances of RqmTestcases. *)
EXTENDS RqmTestcases, TLC
CONSTANTS w1, w2, d1, d2
TwoWorkers == {w1, w2}
OneWorker == {w1}
TwoDocs == {d1, d2}
Symmetry == Permutations(TwoWorkers) \cup Permutations(TwoDocs)
====
