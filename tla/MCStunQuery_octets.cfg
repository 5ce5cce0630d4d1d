SPECIFICATION Spec
CONSTANTS
  Lengths = {4, 5}
  MaxAttributes = 3
  LittleEndian = TRUE
  Octet = 4
  MaxStray = 1
  MappedOctets <- ZeroToThree
  Cookie <- TwoOneThreeZero
  XorOctet <- OctetXor
INVARIANT AddressIsMapped
\* The query returns.
CHECK_DEADLOCK FALSE
