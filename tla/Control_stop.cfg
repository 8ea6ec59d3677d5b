SPECIFICATION FairSpec
CONSTANTS
  j1 = j1
  j2 = j2
  c1 = c1
  t1 = t1
  t2 = t2
  NoJob = NoJob
  Jobs <- TwoJobs
  Clients <- OneClient
  Tasks <- TwoTasks
  Commands <- Stops
  Restarts = 0
INVARIANTS WorkerHoldsLease
PROPERTY LeaseReturns
