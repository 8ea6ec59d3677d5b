SPECIFICATION FairSpec
CONSTANTS
  t1 = t1
  t2 = t2
  Tasks = {t1, t2}
  Ids = {1, 2}
  Sessions <- UsesOrLeaves
  MaxGrants = 2
INVARIANTS TypeOK SingleFlight RejectedTokenGone
PROPERTIES ConnectedHasCredential EveryCommandAnswers
CHECK_DEADLOCK FALSE
