SPECIFICATION Spec
CONSTANTS
  a = a
  b = b
  Players <- MCPlayers
  MaxPartySize = 4
  MaxRequests = 2
PROPERTY ClosedLeavesRooms
CHECK_DEADLOCK FALSE
