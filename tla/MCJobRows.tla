------------------------------- MODULE MCJobRows -------------------------------
(* Small instances of JobRows: three jobs, two clients, two accounts and     *)
(* their folders.                                                            *)
EXTENDS JobRows, TLC

CONSTANTS j1, j2, j3, c1, c2, a1, a2, fa, fb, fc

ThreeJobs   == {j1, j2, j3}
TwoClients  == {c1, c2}
TwoAccounts == {a1, a2}
MCFolders   == {fa, fb, fc}
MCOwner     == fa :> a1 @@ fb :> a1 @@ fc :> a2
MCId        == j1 :> 1 @@ j2 :> 2 @@ j3 :> 3

(* What earlier sessions leave behind of a job; "recovered" is one that was  *)
(* cut right after its start.                                                *)
Known(status, prev, new, marked, partly) ==
  [status |-> status, position |-> 0, from |-> "none", begun |-> marked, frontier |-> partly,
   event |-> IF prev = "none" THEN None ELSE [prev |-> prev, new |-> new]]

absent      == Known("ABSENT", "none", "none", FALSE, FALSE)
draft       == Known("DRAFT", "none", "none", FALSE, FALSE)
ready       == Known("READY_FOR_REVIEW", "none", "none", FALSE, FALSE)
halfscanned == Known("PAUSED", "none", "none", FALSE, TRUE)
review      == Known("CANARY_REVIEW", "RUNNING_CANARY", "CANARY_REVIEW", TRUE, FALSE)
stopped     == Known("PAUSED", "RUNNING", "PAUSED", TRUE, FALSE)
done        == Known("COMPLETED", "RUNNING", "COMPLETED", TRUE, FALSE)
recovered   == Known("PAUSED", "READY_FOR_REVIEW", "RUNNING_CANARY", FALSE, FALSE)

Queued(k, n) == [k EXCEPT !.status = "QUEUED", !.position = n, !.from = k.status]

Session(n, x, y, z) == [jobs |-> j1 :> x @@ j2 :> y @@ j3 :> z, requests |-> n]

(* A draft; queues, with jobs that may join them; and a job that leaves the  *)
(* queue and comes back to it while it is being removed.                     *)
MCSessions ==
  {Session(3, draft, absent, done),
   Session(2, Queued(ready, 1), stopped, review),
   Session(2, Queued(review, 2), Queued(ready, 1), absent),
   Session(2, Queued(recovered, 1), Queued(halfscanned, 2), Queued(ready, 3)),
   Session(4, Queued(recovered, 1), done, done)}

Symmetry == Permutations(TwoClients)
================================================================================
