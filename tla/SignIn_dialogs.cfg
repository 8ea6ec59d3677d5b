SPECIFICATION FairSpec
CONSTANTS
  a1 = a1
  a2 = a2
  Attempts = {a1, a2}
  Clients = {"own"}
  Default = "embedded"
  MaxInFlight = 2
  MaxCallbacks = 3
  Sessions <- DialogsOrSettings
INVARIANTS TypeOK CancelMeansOver OneClient
PROPERTIES NoGrantAfterCancel ReadCallbackCounts DialogEnds
CHECK_DEADLOCK FALSE
