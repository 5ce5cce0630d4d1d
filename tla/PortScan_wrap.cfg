SPECIFICATION LiveSpec
CONSTANTS
  PortLimit = 64
  PortRange = 6
  PortStep = 3
  LowestPort = 6
  Looks = 2
  PunchTimeout = 20
  PunchInterval = 3
  PeerPorts = {55, 56, 57}
  ReplyPorts = {21, 54}
  MaxElapsed = 50
PROPERTY PunchEnds
\* Punching ends.
CHECK_DEADLOCK FALSE
