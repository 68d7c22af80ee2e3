SPECIFICATION OpsSpec
CONSTANTS
  Runs = {r1}
  Workers = {w1, w2}
  None = None
  MaxAttempts = 3
  LeaseSeconds = 3
  RefreshSeconds = 1
  MaxDelay = 0
  AgeCap = 2
  Timeout = 1
  Backoff = 0
  MaxCancels = 1
  MaxCrashes = 1
  FaultyCalls = {"heartbeat", "execution"}
  MaxFaults = 1
  MaxTroubles = 2
  StaleAfter = 3
  CanaryTimeout = 2
  Watched = w1
CHECK_DEADLOCK FALSE
INVARIANTS
  StaleWorkersHaveNoHeartbeat
  CanaryIsHonest
  AttemptsAreAccountedFor
