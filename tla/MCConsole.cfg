SPECIFICATION FairDashboardSpec
CONSTANTS
  Runs = {r1}
  None = None
  Calls = {c1, c2}
  Isolated = FALSE
  MaxRepeats = 1
  MaxTroubles = 1
CHECK_DEADLOCK FALSE
INVARIANTS
  SuccessRateIsReal
PROPERTIES
  CountsAreRight
  ViewsSettle
