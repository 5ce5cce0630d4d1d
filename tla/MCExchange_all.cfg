SPECIFICATION LiveSpec
CONSTANTS
  A = A
  B = B
  Filtering = TRUE
  Lossy = FALSE
  Reordering = FALSE
  MaxDup = 0
  MaxLines = 2
  Clients = {c1, c2}
  MaxStarts = 2
INVARIANT AllTypeOK
INVARIANT OneClientEach
INVARIANT GreetingArrives
PROPERTY ReadyHears
PROPERTY NotBothWait
PROPERTY EchoReturns
PROPERTY ClientEnds
\* Programs end, and a receive may wait for ever.
CHECK_DEADLOCK FALSE
