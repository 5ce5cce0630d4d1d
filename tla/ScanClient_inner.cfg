SPECIFICATION ClientLiveSpec
CONSTANTS
  PortLimit = 64
  PortRange = 6
  PortStep = 3
  LowestPort = 8
  Looks = 2
  PunchTimeout = 20
  PunchInterval = 3
  PeerPorts = {1, 6, 7, 20, 54}
  ReplyPorts = {21, 54}
  MaxElapsed = 40
  KeepAliveInterval = 2
  MaxHeld = 4
INVARIANT ClientTypeOK
INVARIANT RangeTried
INVARIANT LateByOneAttempt
INVARIANT KeepaliveConnected
INVARIANT KeptApart
PROPERTY PunchEnds
\* The process ends.
CHECK_DEADLOCK FALSE
