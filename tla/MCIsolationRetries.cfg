SPECIFICATION IsoSpec
CONSTANTS
  Runs = {r1}
  Workers = {w1}
  None = None
  Self = w1
  MaxAttempts = 2
  LeaseSeconds = 1
  MaxDelay = 0
  AgeCap = 1
  MaxCancels = 1
  MaxCrashes = 0
  SlowStore = FALSE
  AppendsRaise = FALSE
  TornWrites = FALSE
INVARIANTS
  FailuresAreRetried
