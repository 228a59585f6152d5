SPECIFICATION MCSpec
CONSTANTS
  a = a
  b = b
  Players <- MCPlayers
  MaxPartySize = 4
  MaxRequests = 2
INVARIANTS
  NobodyStranded
  OnlinePresent
  LeftDungeonRemoved
PROPERTIES
  MovesArrive
CHECK_DEADLOCK FALSE
