------------------------------- MODULE MCRoom --------------------------------
\* Two players and two monsters in a room of eight free cells around a wall.
EXTENDS RoomSimulation

CONSTANTS a, b

MCPlayers == {a, b}
MCWalls == {<<1, 1>>}
MCEntry == <<0, 0>>
MCSpawns == <<<<2, 0>>, <<2, 1>>>>
MCMaxPackets == (a :> 2) @@ (b :> 0)
=============================================================================
