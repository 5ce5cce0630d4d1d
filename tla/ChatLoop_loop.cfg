SPECIFICATION LiveSpec
CONSTANTS
  Chatter = {"l1", "l2"}
  Commands = {"/iperf server", "/iperf client", "/quit"}
  KeepaliveInterval = 2
  TestDuration = 3
  Interrupts = TRUE
  MaxTime = 3
  MaxTyped = 2
  MaxInputs = 3
INVARIANT TypeOK
INVARIANT PathKeptWarm
INVARIANT LinesInOrder
PROPERTY QuitEnds
PROPERTY EachLineSaid
\* The program may have ended.
CHECK_DEADLOCK FALSE
