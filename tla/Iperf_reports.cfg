SPECIFICATION LiveSpec
CONSTANTS
  TicksPerSecond = 3
  TestDuration = 3
  ReportInterval = 1
  PacketSizes = {1, 2}
  MaxPause = 4
  MaxClock = 12
  MaxPackets = 3
INVARIANT TypeOK
INVARIANT NoZeroDivision
INVARIANT BytesConserved
INVARIANT OneAnInterval
INVARIANT AlmostFullTest
PROPERTY TestEnds
\* A test ends, and a server's run is bounded.
CHECK_DEADLOCK FALSE
