SPECIFICATION Spec
CONSTANTS
  Callers = {c1, c2, c3}
  Sizes = {1, 2}
  WindowTicks = 1
  MaxAnswers = 3
  MaxClock = 2
  MaxTroubles = 1
SYMMETRY CallerSymmetry
CHECK_DEADLOCK FALSE
INVARIANTS
  LogIsComplete
  RollingCountsTheCall
PROPERTIES
  AnswersAreLostToTroubles
