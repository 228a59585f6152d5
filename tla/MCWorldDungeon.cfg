SPECIFICATION Spec
CONSTANTS
  a = a
  b = b
  Players <- MCPlayers
  MaxPartySize = 4
  MaxRequests = 3
INVARIANT EmptyDungeonRemoved
CHECK_DEADLOCK FALSE
