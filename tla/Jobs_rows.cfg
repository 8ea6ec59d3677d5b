SPECIFICATION Spec
CONSTANTS
  j1 = j1
  j2 = j2
  j3 = j3
  c1 = c1
  c2 = c2
  a1 = a1
  a2 = a2
  fa = fa
  fb = fb
  fc = fc
  NoJob = NoJob
  None = None
  Jobs <- ThreeJobs
  Clients <- TwoClients
  Accounts <- TwoAccounts
  Folders <- MCFolders
  Owner <- MCOwner
  FirstRoot = fa
  Id <- MCId
  Sessions <- MCSessions
SYMMETRY Symmetry
CHECK_DEADLOCK FALSE
INVARIANTS TypeOK QueueIsAnOrder
PROPERTIES QueueChangeIsLocal  RootsLocked
