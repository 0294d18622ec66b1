SPECIFICATION Spec
CONSTANTS
  Delays = {0, 1, 2}
  Intervals = {1, 2}
  MaxId = 2
  MaxTime = 3
INVARIANTS
  TypeOK
  OnSchedule
PROPERTIES
  SilencedStaysSilent
  DueTimerLeaves
