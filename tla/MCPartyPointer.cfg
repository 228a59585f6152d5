SPECIFICATION Spec
CONSTANTS
  a = a
  b = b
  c = c
  d = d
  Players <- MCPlayers
  MaxPartySize = 3
  Leavers <- MCLeavers
  MaxJobs = 4
SYMMETRY MCSymmetry
INVARIANT PointersValid
CHECK_DEADLOCK FALSE
