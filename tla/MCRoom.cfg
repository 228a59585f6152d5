SPECIFICATION Spec
CONSTANTS
  a = a
  b = b
  Players <- MCPlayers
  Width = 3
  Height = 3
  Walls <- MCWalls
  Entry <- MCEntry
  Spawns <- MCSpawns
  AggroRange = 2
  LeashRange = 1
  NoPlayer = NoPlayer
  MaxPackets <- MCMaxPackets
INVARIANTS
  PopulationKept
  CreaturesApart
  LeashHolds
  PathsSound
PROPERTIES
  PopulationRecovers
CHECK_DEADLOCK FALSE
