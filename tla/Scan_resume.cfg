SPECIFICATION FairSpec
CONSTANTS
  r1 = r1
  r2 = r2
  d1 = d1
  d2 = d2
  a = a
  b = b
  t = t
  u = u
  x = x
  y = y
  Files <- TreeFiles
  Roots <- TreeRoots
  Pages <- TreePages
  Look <- TreeLook
  Batch = 2
  Concurrency = 2
INVARIANTS TypeOK NothingForgotten ContentsAreDeeper
PROPERTIES ImplementsWalk ScanEnds
CHECK_DEADLOCK FALSE
