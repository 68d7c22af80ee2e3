SPECIFICATION FairFleetSpec
CONSTANTS
  Runs = {r1, r2}
  Workers = {w1, w2}
  None = None
  MaxAttempts = 2
  LeaseSeconds = 2
  RefreshSeconds = 1
  MaxDelay = 0
  AgeCap = 1
  Timeout = 0
  Backoff = 0
  MaxCancels = 0
  MaxCrashes = 1
  FaultyCalls = {"heartbeat", "execution"}
  MaxFaults = 1
  MaxTroubles = 1
PROPERTIES
  RunsComeToRest
