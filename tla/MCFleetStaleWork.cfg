SPECIFICATION FairFleetSpec
CONSTANTS
  Runs = {r1}
  Workers = {w1, w2}
  None = None
  MaxAttempts = 1
  LeaseSeconds = 2
  RefreshSeconds = 1
  MaxDelay = 2
  AgeCap = 3
  Timeout = 2
  Backoff = 1
  MaxCancels = 0
  MaxCrashes = 1
  FaultyCalls = {"heartbeat", "execution"}
  MaxFaults = 0
  MaxTroubles = 1
PROPERTIES
  StaleWorkIsRecovered
