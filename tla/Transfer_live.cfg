SPECIFICATION FairSpec
CONSTANTS
  f1 = f1
  f2 = f2
  NoItem = NoItem
  Items <- MCItems
  Rank <- MCRank
  CanarySize = 2
  MaxRetry = 1
  EnvKinds <- AllKinds
  Budget <- CalmBudget
PROPERTY RunEnds
