SPECIFICATION FairExecSpec
CONSTANTS
  None = None
  MaxUses = 2
  MaxToolCalls = 2
  MaxAttempts = 2
  MaxCrashes = 1
  MaxTrail = 45
CHECK_DEADLOCK FALSE
INVARIANTS
  TrailTellsStack
  CancelIsPrompt
  ModelFailuresAreTold
  PageReadsTheTrail
PROPERTIES
  AttemptsEnd
