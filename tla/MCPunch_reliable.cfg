SPECIFICATION LiveSpec
CONSTANTS
  A = A
  B = B
  Filtering = FALSE
  Lossy = FALSE
  Reordering = FALSE
  MaxDup = 0
  PunchTimeout = 4
  IntervalsPerSecond = 2
  Lockstep = FALSE
  MaxSkew = 0
  MaxChat = 1
INVARIANT TypeOK
INVARIANT AckOwed
INVARIANT AckOrder
PROPERTY PunchEnds
\* Both programs may have ended.
CHECK_DEADLOCK FALSE
