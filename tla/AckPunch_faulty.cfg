SPECIFICATION LiveSpec
CONSTANTS
  A = A
  B = B
  Filtering = TRUE
  Lossy = TRUE
  Reordering = TRUE
  MaxDup = 1
  MaxAttempts = 3
  SendErrors = TRUE
INVARIANT TypeOK
INVARIANT NeverAcked
PROPERTY PunchEnds
\* Both programs end.
CHECK_DEADLOCK FALSE
