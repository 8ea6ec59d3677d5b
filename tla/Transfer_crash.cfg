SPECIFICATION Spec
CONSTANTS
  f1 = f1
  f2 = f2
  NoItem = NoItem
  Items <- MCItems
  Rank <- MCRank
  CanarySize = 1
  MaxRetry = 1
  EnvKinds <- NoHelp
  Budget <- CrashBudget
INVARIANTS TypeOK VerifiedIsOwned AcceptKnowsPermission CompletedMeansDone
PROPERTIES OwnedIsRecorded ChosenOnce
