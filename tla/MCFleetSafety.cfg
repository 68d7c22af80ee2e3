SPECIFICATION FleetSpec
CONSTANTS
  Runs = {r1}
  Workers = {w1, w2}
  None = None
  MaxAttempts = 3
  LeaseSeconds = 3
  RefreshSeconds = 1
  MaxDelay = 3
  AgeCap = 3
  Timeout = 2
  Backoff = 1
  MaxCancels = 2
  MaxCrashes = 2
  FaultyCalls = {"heartbeat", "execution"}
  MaxFaults = 0
  MaxTroubles = 2
SYMMETRY Symmetry
INVARIANTS
  FleetTypeOK
  HoldersOwnTheirRuns
  QueuedHasAttemptsLeft
  TerminalEventIsLast
  TimedOutNeverCompletes
  CancelledAttemptsDoNotComplete
  RetriesAreExplained
PROPERTIES
  TerminalIsFinal
  ImplementsLifecycle
