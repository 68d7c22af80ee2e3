SPECIFICATION FairIsoSpec
CONSTANTS
  Runs = {r1}
  Workers = {w1}
  None = None
  Self = w1
  MaxAttempts = 2
  LeaseSeconds = 1
  MaxDelay = 0
  AgeCap = 0
  MaxCancels = 1
  MaxCrashes = 1
  SlowStore = TRUE
  AppendsRaise = TRUE
  TornWrites = TRUE
CHECK_DEADLOCK FALSE
INVARIANTS
  CompletedRunsAreWhole
  EarlyRequestsAreHonoured
  ResultsAreNotLost
  
PROPERTIES
  IsolationImplementsLifecycle
  ExecuteReturns
  ChildrenAreAccountedFor
