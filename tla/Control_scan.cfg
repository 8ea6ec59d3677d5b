SPECIFICATION Spec
CONSTANTS
  j1 = j1
  j2 = j2
  c1 = c1
  t1 = t1
  t2 = t2
  NoJob = NoJob
  Jobs <- TwoJobs
  Clients <- OneClient
  Tasks <- TwoTasks
  Commands <- Scans
  Restarts = 1
SYMMETRY Symmetry
INVARIANTS TypeOK LeaseFitsWork InstallsAlone
