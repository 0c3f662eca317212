SPECIFICATION Spec
CONSTANTS
  Uint8 = 4
  Uint16 = 8
  IndexN = 6
  GroupIDs = 2
  Lengths <- MCLengths
  FragSizes <- MCFragSizes
  Redundancies <- MCRedundancies
  MulticastGroups <- MCMulticastGroups
INVARIANTS TypeOK FileIsPayload AllHeardMeansAllRows
CHECK_DEADLOCK FALSE
