------------------------------ MODULE MCJobControl ------------------------------
(* Small instances of JobControl: two jobs, one client. *)
EXTENDS JobControl, TLC

CONSTANTS j1, j2, c1, t1, t2

TwoJobs    == {j1, j2}
OneClient  == {c1}
TwoTasks   == {t1, t2}

Scans  == {"transfer", "scan", "pausescan", "continue"}
Stops  == {"start", "resume", "pause", "cancel"}
Autos  == {"start", "transfer", "cancel"}

Symmetry == Permutations(TwoJobs) \cup Permutations(TwoTasks)
================================================================================
