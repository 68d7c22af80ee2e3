SPECIFICATION ClientSpec
CONSTANTS
  Runs = {r1}
  Workers = {w1, w2}
  None = None
  MaxAttempts = 2
  LeaseSeconds = 2
  MaxDelay = 1
  AgeCap = 1
  MaxEvents = 7
SYMMETRY Symmetry
INVARIANTS
  LeaseMatchesStatus
  AttemptsMatchLog
  StatusFollowsLog
  CancelRequestSticks
