--------------------------- MODULE RoomSimulation ----------------------------
(***************************************************************************)
(* The inside of one GameRoom with monsters: the fixed tick (Step), the    *)
(* monsters' behaviour (Server/Monster.cpp), arrows (Arrow.cpp), attacks   *)
(* (CombatSystem.cpp), respawning (SpawnSystem.cpp), and the walking,      *)
(* entering and leaving of players.                                        *)
(*                                                                         *)
(* One thread runs jobs and ticks.  A tick updates the monsters, then the  *)
(* arrows, then looks at the respawn queue, one object per step; jobs run  *)
(* between ticks.  Times are abstracted: whenever the code compares a      *)
(* deadline with the clock, either answer may come.  So are hit points: a  *)
(* blow kills or does not.                                                 *)
(***************************************************************************)
EXTENDS PathSearch

CONSTANTS
  Players,
  Width, Height,       \* size of the tile map
  Walls,               \* its tiles of value 1
  Entry,               \* where EnterRoom puts a player
  Spawns,              \* sequence of the free tiles SpawnMonstersFromData chose
  AggroRange, LeashRange,
  NoPlayer,            \* a target or closest player that is null
  MaxPackets           \* bound: C_Move and C_Attack packets of each player

Cells == (0..(Width - 1)) \X (0..(Height - 1))

\* The last argument of every call of FindPath.
MaxDepth == 20

\* CanGo gives each monster a free tile of its own.  Nothing is said of the tile
\* players enter on: that of the dungeon, (5, 5) of Tilemap_02.txt, is a wall.
ASSUME RoomAssumption ==
  /\ Width \in Nat /\ Height \in Nat
  /\ Walls \subseteq Cells
  /\ Entry \in Nat \X Nat
  /\ Spawns \in Seq(Cells \ Walls)
  /\ \A i, j \in DOMAIN Spawns : Spawns[i] = Spawns[j] => i = j
  /\ AggroRange \in Nat /\ LeashRange \in Nat
  /\ NoPlayer \notin Players
  /\ MaxPackets \in [Players -> Nat]

VARIABLES
  where,               \* of each Player object: "room" in _players, "away" in
                       \* another room or on the way, "gone" destroyed
  cell,                \* its position, on whatever map
  strayed,             \* history: players whose last step another room allowed
  monsters,            \* _monsters, by id
  arrows,              \* _projectiles, by id
  nextId,              \* s_idGenerator
  respawnQueue,        \* _respawnQueue: home positions
  stepping,            \* Step is running
  todo,                \* ids of objects the running Step has yet to update
  packets              \* those it has sent

people == <<where, cell, strayed>>
tick == <<stepping, todo>>
vars == <<people, monsters, arrows, nextId, respawnQueue, tick, packets>>

-----------------------------------------------------------------------------
(* Geometry *)

LengthSquared(a, b) == (a[1] - b[1]) * (a[1] - b[1]) + (a[2] - b[2]) * (a[2] - b[2])

IsBlockedByWall(c) == c \notin Cells \ Walls

InRoom == {p \in Players : where[p] = "room"}

\* GetCreatureAt(c) is not null.
Occupied(c) ==
  \/ \E p \in InRoom : cell[p] = c
  \/ \E m \in DOMAIN monsters : monsters[m].cell = c

\* Variant: only monsters are in the way.
CanGoThroughPlayers(c) ==
  /\ ~IsBlockedByWall(c)
  /\ \A m \in DOMAIN monsters : monsters[m].cell # c

CanGo(c) == ~IsBlockedByWall(c) /\ ~Occupied(c)

\* path[1] of the path FindPath returns; without one the monster stays.
NextCell(from, to) ==
  LET path == FindPath({c \in Cells : CanGo(c)}, from, to, MaxDepth)
  IN  IF Len(path) > 1 THEN path[2] ELSE from

-----------------------------------------------------------------------------
(* Objects *)

\* The map without the keys in S.
Without(f, S) == Restrict(f, DOMAIN f \ S)

NewMonster(pos) ==
  [cell |-> pos, home |-> pos, target |-> NoPlayer, waiting |-> FALSE]

NewArrow(pos, dir, owner) ==
  [cell |-> pos, dir |-> dir, owner |-> owner, spawned |-> FALSE, waiting |-> FALSE]

\* RemoveObject of the monsters in dead, one after the other: each is reserved.
Die(dead) ==
  /\ monsters' = Without(monsters, dead)
  /\ \E order \in SetToSeqs(dead) :
       respawnQueue' = respawnQueue \o [i \in DOMAIN order |-> monsters[order[i]].home]

\* InitFromConfig
Init ==
  /\ where = [p \in Players |-> "away"]
  /\ cell = [p \in Players |-> Entry]
  /\ strayed = {}
  /\ monsters = [i \in DOMAIN Spawns |-> NewMonster(Spawns[i])]
  /\ arrows = <<>>
  /\ nextId = Len(Spawns) + 1
  /\ respawnQueue = <<>>
  /\ stepping = FALSE /\ todo = {}
  /\ packets = [p \in Players |-> 0]

-----------------------------------------------------------------------------
(* Jobs *)

Job == ~stepping /\ UNCHANGED tick

\* Player p is put on the entry of a room; nobody looks who or what is there.
PutOnEntry(p) ==
  /\ cell' = [cell EXCEPT ![p] = Entry]
  /\ strayed' = strayed \ {p}

\* EnterRoom.  After changes of map that overlap, the player may be in this room
\* already, or stay in another one.
EnterRoom(p) ==
  /\ Job
  /\ where[p] # "gone"
  /\ where' = [where EXCEPT ![p] = "room"]
  /\ PutOnEntry(p)
  /\ UNCHANGED <<monsters, arrows, nextId, respawnQueue, packets>>

\* Handle_C_ChangeMap
Leave(p) ==
  /\ Job
  /\ where[p] = "room"
  /\ where' = [where EXCEPT ![p] = "away"]
  /\ UNCHANGED <<cell, strayed, monsters, arrows, nextId, respawnQueue, packets>>

\* EnterRoom of another room, of a player that may still be in this one
Arrive(p) ==
  /\ Job
  /\ where[p] # "gone"
  /\ PutOnEntry(p)
  /\ UNCHANGED <<where, monsters, arrows, nextId, respawnQueue, packets>>

\* LeaveRoom of a closed session, here or in the other room
Vanish(p) ==
  /\ Job
  /\ where[p] # "gone"
  /\ where' = [where EXCEPT ![p] = "gone"]
  /\ UNCHANGED <<cell, strayed, monsters, arrows, nextId, respawnQueue, packets>>

\* One more packet of a player that exists is handled, maybe one that it sent
\* before it left.
Packet(p) ==
  /\ Job
  /\ where[p] # "gone"
  /\ packets[p] < MaxPackets[p]
  /\ packets' = [packets EXCEPT ![p] = @ + 1]

\* Handle_C_Move of this room, wherever the player is.
Walk(p, next) == CanGo(next) /\ strayed' = strayed \ {p}

\* Handle_C_Move of another room, wherever the player is: the packet was queued
\* before the player entered this one.  The other map and who stands on it decide.
Stray(p, next) == next \in Nat \X Nat /\ strayed' = strayed \cup {p}

Move(p) ==
  /\ Packet(p)
  /\ \E next \in Neighbours(cell[p]) :
       /\ Walk(p, next) \/ Stray(p, next)
       /\ cell' = [cell EXCEPT ![p] = next]
  /\ UNCHANGED <<where, monsters, arrows, nextId, respawnQueue>>

\* HandleSwordAttack: GetGameObjectAt finds players first.  The slain player is
\* destroyed unless another room lists it too.
SwordAttack(p) ==
  /\ Packet(p)
  /\ \E d \in Directions :
       LET front == Plus(cell[p], d)
           struck == {q \in InRoom : cell[q] = front}
           here == {m \in DOMAIN monsters : monsters[m].cell = front}
       IN  \/ \E q \in struck, left \in {"away", "gone"} :
                /\ where' = [where EXCEPT ![q] = left]
                /\ UNCHANGED <<monsters, respawnQueue>>
           \/ /\ struck = {}
              /\ \E m \in here : Die({m})
              /\ UNCHANGED where
  /\ UNCHANGED <<cell, strayed, arrows, nextId>>

\* HandleBowAttack, in one of the four directions
BowAttack(p) ==
  /\ Packet(p)
  /\ \E d \in Directions : arrows' = With(arrows, nextId, NewArrow(cell[p], d, p))
  /\ nextId' = nextId + 1
  /\ UNCHANGED <<people, monsters, respawnQueue>>

\* Variant: the monsters in the area are erased, not removed.
StaffErases(p) ==
  /\ Packet(p)
  /\ \E d \in Directions \cup {<<0, 0>>} :
       LET centre == Plus(cell[p], Plus(d, d))
           area == {m \in DOMAIN monsters : LengthSquared(monsters[m].cell, centre) <= 2}
       IN  \E dead \in SUBSET area : monsters' = Without(monsters, dead)
  /\ UNCHANGED <<people, arrows, nextId, respawnQueue>>

\* HandleStaffAttack: the three by three cells around the second one ahead, or
\* around the attacker when the direction is none of the four.
StaffAttack(p) ==
  /\ Packet(p)
  /\ \E d \in Directions \cup {<<0, 0>>} :
       LET centre == Plus(cell[p], Plus(d, d))
           area == {m \in DOMAIN monsters : LengthSquared(monsters[m].cell, centre) <= 2}
       IN  \E dead \in SUBSET area : Die(dead)
  /\ UNCHANGED <<people, arrows, nextId>>

-----------------------------------------------------------------------------
(* Step: the monsters *)

BeginStep ==
  /\ ~stepping /\ stepping' = TRUE
  /\ todo' = DOMAIN monsters \cup DOMAIN arrows
  /\ UNCHANGED <<people, monsters, arrows, nextId, respawnQueue, packets>>

Least(S) == CHOOSE i \in S : \A j \in S : i <= j

\* The objects are updated in the order of their ids, monsters first.
Update(id) ==
  /\ stepping
  /\ id = Least(IF todo \cap DOMAIN monsters # {} THEN todo \cap DOMAIN monsters ELSE todo)
  /\ todo' = todo \ {id}
  /\ UNCHANGED stepping

\* Monster m becomes one of next.
MonsterBecomes(m, next) ==
  /\ m \in todo \cap DOMAIN monsters
  /\ Update(m)
  /\ \E n \in next : monsters' = [monsters EXCEPT ![m] = n]
  /\ UNCHANGED <<people, arrows, nextId, respawnQueue, packets>>

\* UpdateMove, UpdateSkill: the wait goes on, or the state becomes IDLE.
Wait(m) ==
  /\ monsters[m].waiting
  /\ MonsterBecomes(m, {monsters[m], [monsters[m] EXCEPT !.waiting = FALSE]})

\* _target.lock()
Target(m) ==
  LET t == monsters[m].target
  IN  IF t # NoPlayer /\ where[t] # "gone" THEN t ELSE NoPlayer

\* FindClosestPlayer; of several, the first in the order of the ids.
ClosestPlayers(pos) ==
  {p \in InRoom : \A q \in InRoom : LengthSquared(pos, cell[p]) <= LengthSquared(pos, cell[q])}

\* The target once the closest player is considered.
Retarget(m) ==
  LET pos == monsters[m].cell
      target == Target(m)
      closer == {p \in ClosestPlayers(pos) :
                   target # NoPlayer => Dist(cell[p], pos) + 1 < Dist(cell[target], pos)}
  IN  IF closer = {} THEN {target} ELSE closer

StepsTo(monster, next) ==
  IF next = monster.cell THEN monster
  ELSE [monster EXCEPT !.cell = next, !.waiting = TRUE]

\* What a monster becomes that goes home (one member).
TowardsHome(monster) ==
  {StepsTo(monster, next) : next \in {NextCell(monster.cell, monster.home)}}

\* UpdateIdle, too far from home: the target is forgotten.
ReturnHome(m) ==
  /\ ~monsters[m].waiting
  /\ Dist(monsters[m].cell, monsters[m].home) > LeashRange
  /\ MonsterBecomes(m, TowardsHome([monsters[m] EXCEPT !.target = NoPlayer]))

\* Variant: the step is not held against the leash.
ChaseAnywhere(monster, target) ==
  {StepsTo(monster, next) : next \in {NextCell(monster.cell, cell[target])}}

\* A step towards the target; one beyond the leash makes the monster give up.
Chase(monster, target) ==
  {IF next # monster.cell /\ Dist(next, monster.home) > LeashRange
   THEN [monster EXCEPT !.target = NoPlayer]
   ELSE StepsTo(monster, next) : next \in {NextCell(monster.cell, cell[target])}}

\* What UpdateIdle makes of a monster near home with this target.
Pursue(monster, target) ==
  LET far == Dist(cell[target], monster.cell)
      aware == [monster EXCEPT !.target = target]
  IN  IF target = NoPlayer THEN TowardsHome(monster)
      ELSE IF far > AggroRange THEN TowardsHome([monster EXCEPT !.target = NoPlayer])
      ELSE IF far = 1 THEN {[aware EXCEPT !.waiting = TRUE]}
      ELSE Chase(aware, target)

\* UpdateIdle; a blow takes hit points only.
UpdateIdle(m) ==
  /\ ~monsters[m].waiting
  /\ Dist(monsters[m].cell, monsters[m].home) <= LeashRange
  /\ \E target \in Retarget(m) : MonsterBecomes(m, Pursue(monsters[m], target))

-----------------------------------------------------------------------------
(* Step: the arrows *)

Ahead(a) == Plus(arrows[a].cell, arrows[a].dir)

UpdateArrow(a) ==
  /\ a \in todo \cap DOMAIN arrows
  /\ Update(a)
  /\ UNCHANGED <<people, nextId, packets>>

RemoveArrow(a) == arrows' = Without(arrows, {a})

\* It waits for its next flight, or the wait is over.
ArrowWaits(a) ==
  /\ UpdateArrow(a)
  /\ arrows[a].waiting
  /\ \E waiting \in BOOLEAN : arrows' = [arrows EXCEPT ![a].waiting = waiting]
  /\ UNCHANGED <<monsters, respawnQueue>>

\* Its first update finds it in a wall, or a later one its life over.
ArrowExpires(a) ==
  /\ UpdateArrow(a)
  /\ arrows[a].spawned \/ IsBlockedByWall(arrows[a].cell)
  /\ RemoveArrow(a)
  /\ UNCHANGED <<monsters, respawnQueue>>

MonstersAhead(a) == {m \in DOMAIN monsters : monsters[m].cell = Ahead(a)}

\* It ends at a wall or at a monster, which it strikes if its owner is in the
\* room; else it flies on.
ArrowFlies(a) ==
  /\ UpdateArrow(a)
  /\ ~arrows[a].waiting
  /\ arrows[a].spawned \/ ~IsBlockedByWall(arrows[a].cell)
  /\ \/ /\ IsBlockedByWall(Ahead(a))
        /\ RemoveArrow(a) /\ UNCHANGED <<monsters, respawnQueue>>
     \/ /\ MonstersAhead(a) # {} /\ RemoveArrow(a)
        /\ \/ UNCHANGED <<monsters, respawnQueue>>
           \/ arrows[a].owner \in InRoom /\ \E m \in MonstersAhead(a) : Die({m})
     \/ /\ ~IsBlockedByWall(Ahead(a)) /\ MonstersAhead(a) = {}
        /\ arrows' = [arrows EXCEPT ![a].cell = Ahead(a), ![a].waiting = TRUE,
                                    ![a].spawned = TRUE]
        /\ UNCHANGED <<monsters, respawnQueue>>

-----------------------------------------------------------------------------
(* Step: SpawnSystem::Tick *)

\* Variant: a reservation waits until its home is free.
RespawnAtHome ==
  /\ stepping /\ todo = {}
  /\ respawnQueue # <<>> /\ CanGo(Head(respawnQueue))
  /\ monsters' = With(monsters, nextId, NewMonster(Head(respawnQueue)))
  /\ nextId' = nextId + 1
  /\ respawnQueue' = Tail(respawnQueue)
  /\ UNCHANGED <<people, arrows, tick, packets>>

\* One turn of ProcessRespawn's loop.  All monsters take as long, so those that
\* are due come first.  A home that is taken is given up for a random cell.
ProcessRespawn ==
  /\ stepping /\ todo = {}
  /\ respawnQueue # <<>>
  /\ LET home == Head(respawnQueue)
     IN  \E pos \in IF CanGo(home) THEN {home} ELSE {c \in Cells : CanGo(c)} :
           monsters' = With(monsters, nextId, NewMonster(pos))
  /\ nextId' = nextId + 1
  /\ respawnQueue' = Tail(respawnQueue)
  /\ UNCHANGED <<people, arrows, tick, packets>>

EndStep ==
  /\ stepping /\ todo = {}
  /\ stepping' = FALSE /\ UNCHANGED todo
  /\ UNCHANGED <<people, monsters, arrows, nextId, respawnQueue, packets>>

-----------------------------------------------------------------------------
PlayerJob(p) ==
  \/ EnterRoom(p) \/ Leave(p) \/ Arrive(p) \/ Vanish(p) \/ Move(p)
  \/ SwordAttack(p) \/ BowAttack(p) \/ StaffAttack(p)

Step ==
  \/ BeginStep \/ EndStep \/ ProcessRespawn
  \/ \E m \in DOMAIN monsters : Wait(m) \/ ReturnHome(m) \/ UpdateIdle(m)
  \/ \E a \in DOMAIN arrows : ArrowWaits(a) \/ ArrowExpires(a) \/ ArrowFlies(a)

Next == Step \/ \E p \in Players : PlayerJob(p)

\* The loop goes on, and so does the clock: a reservation that is looked at
\* again and again is at some tick found to be due.
Fairness == []<><<Step>>_vars /\ SF_vars(ProcessRespawn)

Spec == Init /\ [][Next]_vars /\ Fairness

-----------------------------------------------------------------------------
(* Properties *)

Ids == 1..(nextId - 1)

Monster ==
  [cell : Cells, home : Cells, target : Players \cup {NoPlayer}, waiting : BOOLEAN]

Arrow ==
  [cell : Nat \X Nat, dir : Directions, owner : Players, spawned : BOOLEAN, waiting : BOOLEAN]

TypeOK ==
  /\ where \in [Players -> {"room", "away", "gone"}]
  /\ cell \in [Players -> Nat \X Nat]
  /\ strayed \subseteq Players
  /\ DOMAIN monsters \subseteq Ids /\ DOMAIN arrows \subseteq Ids
  /\ DOMAIN monsters \cap DOMAIN arrows = {}
  /\ \A m \in DOMAIN monsters : monsters[m] \in Monster
  /\ \A a \in DOMAIN arrows : arrows[a] \in Arrow
  /\ nextId \in Nat \ {0} /\ packets \in [Players -> Nat]
  /\ respawnQueue \in Seq(Cells)
  /\ stepping \in BOOLEAN
  /\ todo \subseteq DOMAIN monsters \cup DOMAIN arrows

\* Every monster of the spawn data is alive or waits to respawn, once: none is
\* lost or doubled by sword, staff or arrow, and none is updated after it died.
PopulationKept ==
  /\ TypeOK
  /\ Cardinality(DOMAIN monsters) + Len(respawnQueue) = Len(Spawns)

\* No monster walks or respawns into a wall, a monster or a player, and this room
\* lets no player walk into a wall or a monster: a player who stands in one was put
\* there on entering, or walked there by the map of another room.
CreaturesApart ==
  /\ \A m \in DOMAIN monsters :
       /\ ~IsBlockedByWall(monsters[m].cell)
       /\ \A n \in DOMAIN monsters : monsters[m].cell = monsters[n].cell => m = n
  /\ \A p \in InRoom \ strayed : cell[p] # Entry =>
       /\ ~IsBlockedByWall(cell[p])
       /\ \A m \in DOMAIN monsters : monsters[m].cell # cell[p]

\* A monster farther from home than its leash chases nobody: it got there on a
\* way around, not behind a player.
LeashHolds ==
  \A m \in DOMAIN monsters :
    Dist(monsters[m].cell, monsters[m].home) > LeashRange => Target(m) = NoPlayer

\* When a monster is to decide, FindPath leads it over free and connected cells as
\* near to its home and to every player as it can get, whoever has come to stand in
\* the way or on the home itself.
PathsSound ==
  LET free == {c \in Cells : CanGo(c)}
      next == todo \cap DOMAIN monsters
  IN  next # {} /\ ~monsters[Least(next)].waiting =>
        LET m == monsters[Least(next)]
        IN  \A to \in {m.home} \cup {cell[p] : p \in InRoom} :
              SoundPath(free, m.cell, to, MaxDepth)

\* Once the blows cease, who died comes back, whoever stands on its home.
PopulationRecovers ==
  respawnQueue # <<>> ~> Cardinality(DOMAIN monsters) = Len(Spawns)
=============================================================================
