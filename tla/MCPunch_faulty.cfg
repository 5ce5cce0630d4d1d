SPECIFICATION Spec
CONSTANTS
  A = A
  B = B
  Filtering = TRUE
  Lossy = TRUE
  Reordering = TRUE
  MaxDup = 1
  PunchTimeout = 3
  IntervalsPerSecond = 2
  Lockstep = FALSE
  MaxSkew = 0
  MaxChat = 1
SYMMETRY PeerSymmetry
INVARIANT TwoWayPath
INVARIANT AckMeansHeard
PROPERTY KeepsContract
\* Both programs may have ended.
CHECK_DEADLOCK FALSE
