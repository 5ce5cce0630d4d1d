SPECIFICATION LiveSpec
CONSTANTS
  A = A
  B = B
  Filtering = FALSE
  Lossy = FALSE
  Reordering = FALSE
  MaxDup = 0
  PunchTimeout = 8
  IntervalsPerSecond = 2
  Lockstep = TRUE
  MaxSkew = 4
  MaxChat = 1
PROPERTY BothConnect
\* Both programs may have ended.
CHECK_DEADLOCK FALSE
