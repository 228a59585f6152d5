SPECIFICATION Spec
CONSTANTS
  a = a
  b = b
  c = c
  d = d
  Players <- MCPlayers
  MaxPartySize = 3
  Leavers <- MCLeavers
  MaxJobs = 5
SYMMETRY MCSymmetry
INVARIANTS
  PartiesSound
  OnlineListedOnce
  NoPartyOfOne
CHECK_DEADLOCK FALSE
