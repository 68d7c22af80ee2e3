SPECIFICATION FairDetailsSpec
CONSTANTS
  Runs = {r1}
  Workers = {w1}
  None = None
  Shown = r1
  MaxAttempts = 2
  LeaseSeconds = 1
  MaxDelay = 0
  AgeCap = 0
  MaxEvents = 4
  MaxClicks = 1
  MaxOpen = 2
  MaxTroubles = 1
CHECK_DEADLOCK FALSE
INVARIANTS
  NoEventIsSkipped
  PageIsNotAhead
PROPERTIES
  EventsArrive
  OutcomeIsShown
