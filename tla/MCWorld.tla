------------------------------ MODULE MCWorld -------------------------------
\* Two players, from the start or in the state a first packet can lead to: both
\* are in the town and in a's party.  From there two packets are a move of the
\* party into a dungeon and a move, a blow or a departure that overlaps it.
EXTENDS GameWorld

CONSTANTS a, b

MCPlayers == {a, b}

InParty ==
  /\ session = [s \in Players |-> "loggedIn"]
  /\ player = [s \in Players |-> TRUE]
  /\ gameRoom = [s \in Players |-> Town1]
  /\ players = [r \in Rooms |-> IF r = Town1 THEN Players ELSE {}]
  /\ jobs = [r \in Rooms |-> <<>>]
  /\ instances = {} /\ nextInstance = 1 /\ pending = {}
  /\ room = NoRoom /\ batch = <<>> /\ toVisit = Towns /\ dungeonLoop = FALSE
  /\ pm = AddMember(CreateParty(InitialManager, a), 1, b)
  /\ requests = 0 /\ opened = {} /\ slain = {}

MCSpec == (Init \/ InParty) /\ [][Next]_vars /\ Fairness
=============================================================================
