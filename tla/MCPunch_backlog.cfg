SPECIFICATION LiveSpec
CONSTANTS
  A = A
  B = B
  Filtering = FALSE
  Lossy = FALSE
  Reordering = FALSE
  MaxDup = 0
  PunchTimeout = 6
  IntervalsPerSecond = 2
  Lockstep = TRUE
  MaxSkew = 6
  MaxChat = 0
PROPERTY LateStarterConnects
\* Both programs may have ended.
CHECK_DEADLOCK FALSE
