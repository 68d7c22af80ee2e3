SPECIFICATION MemorySpec
CONSTANTS
  Runs = {r1, r2}
  Workers = {w1}
  None = None
  MaxAttempts = 2
  LeaseSeconds = 1
  MaxDelay = 1
  AgeCap = 0
  MaxEvents = 4
PROPERTIES
  MemoryImplementsPostgres
