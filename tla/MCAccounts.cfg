SPECIFICATION Spec
CONSTANTS
  a = a
  b = b
  n1 = n1
  n2 = n2
  s1 = s1
  s2 = s2
  Servers <- MCServers
  Names <- MCNames
  Sessions <- MCSessions
  MaxMoment = 2
  MaxLogins = 3
  Nobody = Nobody
SYMMETRY MCSymmetry
INVARIANTS
  AccountsApart
  SavedWhole
  ProgressSaved
  WhisperArrives
CHECK_DEADLOCK FALSE
