----------------------------- MODULE GameWorld ------------------------------
(***************************************************************************)
(* Players, rooms and dungeon instances: the life of a GameSession         *)
(* (Server/GameSession.cpp, Handle_C_Login), the job queue of every        *)
(* GameRoom, the jobs that move players (EnterRoom, LeaveRoom,             *)
(* Handle_C_ChangeMap, the party handlers, a fatal Handle_C_Attack) and    *)
(* GameRoomManager::Update, which runs them.                               *)
(*                                                                         *)
(* The IOCP workers log sessions in and out and push jobs; the game logic  *)
(* thread visits the rooms in turn, takes a room's whole queue and runs    *)
(* it, one job per step.  What a job pushes waits for a later visit.       *)
(*                                                                         *)
(* A session logs in once, so it stands for its Player object as well.     *)
(***************************************************************************)
EXTENDS Integers, Sequences, FiniteSets, PartyManager

CONSTANTS
  MaxRequests          \* bound: packets clients send

ASSUME WorldAssumption == MaxRequests \in Nat

\* The static rooms are the two channels of the town; instance ids count up.
Town1 == -1
Town2 == -2
Towns == {Town1, Town2}
Dungeons == 1..MaxRequests       \* a request creates at most one
Rooms == Towns \cup Dungeons
NoRoom == 0
NewDungeon == 0                  \* MAP_ID_DUNGEON, for which a room is created

VARIABLES
  session,             \* state of each GameSession: see Init, Login, Disconnect
  player,              \* the weak session->player was assigned
  gameRoom,            \* session->gameRoom
  players,             \* _players of each room
  jobs,                \* _jobs of each room
  instances,           \* keys of _dungeonInstances
  nextInstance,        \* _instanceIdGen
  pending,             \* _pendingRemoveDungeon
  room,                \* room the game thread is in
  batch,               \* jobs it has taken there and not run yet
  toVisit,             \* rooms the running loop of Update has yet to visit
  dungeonLoop,         \* the running loop is the one over _dungeonInstances
  pm,                  \* GPartyManager
  requests,            \* packets handled so far
  opened,              \* history: dungeons a player has entered
  slain                \* history: players a fatal attack has removed

thread == <<room, batch, toVisit, dungeonLoop>>
manager == <<instances, nextInstance, pending>>
history == <<requests, opened, slain>>
vars == <<session, player, gameRoom, players, jobs, manager, thread, pm, history>>

Job(op, s, arg) == [op |-> op, session |-> s, arg |-> arg]
Enter(s) == Job("enter", s, NoRoom)
Leave(s) == Job("leave", s, NoRoom)

Init ==
  /\ session = [s \in Players |-> "connected"]
  /\ player = [s \in Players |-> FALSE]
  /\ gameRoom = [s \in Players |-> NoRoom]
  /\ players = [r \in Rooms |-> {}]
  /\ jobs = [r \in Rooms |-> <<>>]
  /\ instances = {} /\ nextInstance = 1 /\ pending = {}
  /\ room = NoRoom /\ batch = <<>> /\ toVisit = Towns /\ dungeonLoop = FALSE
  /\ pm = InitialManager
  /\ requests = 0 /\ opened = {} /\ slain = {}

-----------------------------------------------------------------------------
(* References *)

Live(r) == r \in Towns \cup instances

Queued(job) ==
  \/ \E r \in Rooms : job \in Range(jobs[r])
  \/ job \in Range(batch)

\* session->player.lock() is not null: a room, an EnterRoom job that has yet to
\* run or OnDisconnected holds the Player.
HasPlayer(s) ==
  /\ player[s]
  /\ \/ \E r \in Rooms : s \in players[r]
     \/ Queued(Enter(s))
     \/ session[s] = "saving"

\* PushJob on gameRoom.lock().  The queue of a released room is never run again,
\* whether something still holds the room or not.
Push(q, r, job) == IF Live(r) THEN [q EXCEPT ![r] = Append(@, job)] ELSE q

-----------------------------------------------------------------------------
(* IOCP workers *)

\* Handle_C_Login
Login(s) ==
  /\ session[s] = "connected"
  /\ session' = [session EXCEPT ![s] = "loggedIn"]
  /\ jobs' = Push(jobs, Town1, Enter(s))
  /\ UNCHANGED <<player, gameRoom, players, manager, thread, pm, history>>

\* A packet handler queues its job on the room the session is in.
Request(s, op, arg) ==
  /\ session[s] = "loggedIn"
  /\ gameRoom[s] # NoRoom
  /\ requests < MaxRequests
  /\ requests' = requests + 1
  /\ jobs' = Push(jobs, gameRoom[s], Job(op, s, arg))
  /\ UNCHANGED <<session, player, gameRoom, players, manager, thread, pm,
                 opened, slain>>

RequestChangeMap(s) == \E to \in Towns \cup {NewDungeon} : Request(s, "changeMap", to)

\* Whatever inviter the packet names, s itself as well.
RequestPartyAnswer(s) == \E inviter \in Players : Request(s, "answer", inviter)

RequestPartyLeave(s) == Request(s, "leaveParty", NoRoom)

RequestAttack(s) == Request(s, "attack", NoRoom)

\* OnDisconnected: the player, if any, is saved and leaves its party (the steps
\* of which PartyHandlers has) ...
Disconnect(s) ==
  /\ session[s] \in {"connected", "loggedIn"}
  /\ session' = [session EXCEPT ![s] = IF HasPlayer(s) THEN "saving" ELSE "closing"]
  /\ pm' = IF HasPlayer(s) THEN RemoveMember(pm, GetPartyIdByPlayer(pm, s), s) ELSE pm
  /\ UNCHANGED <<player, gameRoom, players, jobs, manager, thread, history>>

\* ... and a LeaveRoom job goes to the room the session is in by then.
QueueLeave(s) ==
  /\ session[s] \in {"saving", "closing"}
  /\ session' = [session EXCEPT ![s] = "closed"]
  /\ jobs' = IF gameRoom[s] # NoRoom THEN Push(jobs, gameRoom[s], Leave(s)) ELSE jobs
  /\ UNCHANGED <<player, gameRoom, players, manager, thread, pm, history>>

-----------------------------------------------------------------------------
(* GameRoom jobs *)

\* The front job of the batch is run and popped.
Run(job) == batch # <<>> /\ Head(batch) = job /\ batch' = Tail(batch)

JobDone ==
  UNCHANGED <<session, room, toVisit, dungeonLoop, requests>>

NothingMoves ==
  UNCHANGED <<player, gameRoom, players, jobs, manager, opened, slain>>

\* Variant: the count is taken before the leaver is removed.
ReleaseBeforeRemoval(leavers) ==
  IF room \in Dungeons /\ leavers # {} /\ players[room] = {} THEN {room} ELSE {}

\* Variant: the count is not consulted.
ReleaseAlways(leavers) == IF room \in Dungeons THEN {room} ELSE {}

\* The dungeon to be released once the leavers have gone; when nobody is asked
\* to leave, nothing looks at the count.
Release(leavers) ==
  IF room \in Dungeons /\ leavers # {} /\ players[room] \ leavers = {}
  THEN {room} ELSE {}

\* LeaveRoom for each of the leavers.
Depart(leavers) ==
  /\ players' = [players EXCEPT ![room] = @ \ leavers]
  /\ pending' = pending \cup Release(leavers)

\* Variant: the job is not pushed when the destination is this very room.
DepartForOther(q, to) ==
  /\ Depart(Range(q))
  /\ jobs' = IF to = room THEN jobs
             ELSE [jobs EXCEPT ![to] = @ \o [i \in DOMAIN q |-> Enter(q[i])]]

\* The players of the sequence leave, and an EnterRoom job for each, holding the
\* Player, waits in the destination's queue.
DepartFor(q, to) ==
  /\ Depart(Range(q))
  /\ jobs' = [jobs EXCEPT ![to] = @ \o [i \in DOMAIN q |-> Enter(q[i])]]

EnterRoom(s) ==
  /\ Run(Enter(s))
  /\ gameRoom' = [gameRoom EXCEPT ![s] = room]
  /\ player' = [player EXCEPT ![s] = TRUE]
  /\ players' = [players EXCEPT ![room] = @ \cup {s}]
  /\ opened' = opened \cup ({room} \cap Dungeons)
  /\ UNCHANGED <<jobs, manager, pm, slain>> /\ JobDone

LeaveRoom(s) ==
  /\ Run(Leave(s))
  /\ IF HasPlayer(s) THEN Depart({s}) ELSE UNCHANGED <<players, pending>>
  /\ UNCHANGED <<player, gameRoom, jobs, instances, nextInstance, pm, opened, slain>>
  /\ JobDone

\* Handle_C_ChangeMap to a channel of the town.
ChangeMapToTown(s, town) ==
  /\ Run(Job("changeMap", s, town))
  /\ IF HasPlayer(s) THEN DepartFor(<<s>>, town)
     ELSE UNCHANGED <<players, pending, jobs>>
  /\ UNCHANGED <<player, gameRoom, instances, nextInstance, pm, opened, slain>>
  /\ JobDone

MayEnterDungeon(s) ==
  HasPlayer(s) /\ (IsInParty(pm, s) => IsLeader(pm, s))

\* Who goes with s: for a leader, the members found in this room, in the order
\* of memberIds; else s alone.
Movers(s) ==
  IF ~IsLeader(pm, s) THEN <<s>>
  ELSE LET members == pm.parties[GetPartyIdByPlayer(pm, s)].members
           here == {i \in DOMAIN members : members[i] \in players[room]}
           order == CHOOSE f \in [1..Cardinality(here) -> here] :
                      \A i, j \in 1..Cardinality(here) : i < j => f[i] < f[j]
       IN  [i \in DOMAIN order |-> members[order[i]]]

\* An unordered_map may put a new key behind or before the iterator: the running
\* loop over the dungeons reaches the new room or does not.
ChangeMapToDungeon(s) ==
  /\ Run(Job("changeMap", s, NewDungeon))
  /\ IF MayEnterDungeon(s)
     THEN /\ nextInstance \in Dungeons     \* bound: never in the way
          /\ instances' = instances \cup {nextInstance}
          /\ nextInstance' = nextInstance + 1
          /\ DepartFor(Movers(s), nextInstance)
          /\ \E reached \in SUBSET {nextInstance} :
               toVisit' = IF dungeonLoop THEN toVisit \cup reached ELSE toVisit
     ELSE UNCHANGED <<instances, nextInstance, players, pending, jobs, toVisit>>
  /\ UNCHANGED <<session, player, gameRoom, room, dungeonLoop, pm, history>>

\* Handle_C_PartyAnswer: the inviter's party, or a new one, takes s in.
PartyAnswer(s, inviter) ==
  LET own == GetPartyIdByPlayer(pm, inviter)
      id == IF own = NoParty THEN pm.nextId ELSE own
      created == IF own = NoParty THEN CreateParty(pm, inviter) ELSE pm
  IN  /\ Run(Job("answer", s, inviter))
      /\ pm' = IF ~HasPlayer(s) \/ IsInParty(pm, s) THEN pm
               ELSE IF CanAdd(created, id, s) THEN AddMember(created, id, s)
               ELSE created
      /\ NothingMoves /\ JobDone

\* Handle_C_PartyLeave
PartyLeave(s) ==
  /\ Run(Job("leaveParty", s, NoRoom))
  /\ pm' = IF HasPlayer(s) THEN RemoveMember(pm, GetPartyIdByPlayer(pm, s), s) ELSE pm
  /\ NothingMoves /\ JobDone

\* Handle_C_Attack: a blow may take a player's last hit points, and the object is
\* removed; LeaveRoom, and with it the count, is not asked.
Attack(s) ==
  /\ Run(Job("attack", s, NoRoom))
  /\ \E victims \in SUBSET (players[room] \ {s}) :
       /\ Cardinality(victims) <= 1
       /\ HasPlayer(s) \/ victims = {}
       /\ players' = [players EXCEPT ![room] = @ \ victims]
       /\ slain' = slain \cup victims
  /\ UNCHANGED <<player, gameRoom, jobs, manager, pm, opened>> /\ JobDone

-----------------------------------------------------------------------------
(* GameRoomManager::Update *)

\* GameRoom::Update: the whole queue is swapped out under the lock.
Visit(r) ==
  /\ batch = <<>>
  /\ r \in toVisit
  /\ ~dungeonLoop /\ r # Town1 => Town1 \notin toVisit
  /\ room' = r
  /\ batch' = jobs[r]
  /\ jobs' = [jobs EXCEPT ![r] = <<>>]
  /\ toVisit' = toVisit \ {r}
  /\ UNCHANGED <<session, player, gameRoom, players, manager, dungeonLoop, pm, history>>

BeginDungeonLoop ==
  /\ batch = <<>> /\ toVisit = {} /\ ~dungeonLoop
  /\ dungeonLoop' = TRUE
  /\ toVisit' = instances
  /\ UNCHANGED <<session, player, gameRoom, players, jobs, manager, room, batch,
                 pm, history>>

\* Variant: every dungeon without players is released.
EndUpdateSweeping ==
  /\ batch = <<>> /\ toVisit = {} /\ dungeonLoop
  /\ instances' = {d \in instances : players[d] # {}}
  /\ pending' = {}
  /\ dungeonLoop' = FALSE /\ toVisit' = Towns /\ room' = NoRoom
  /\ UNCHANGED <<session, player, gameRoom, players, jobs, nextInstance, batch,
                 pm, history>>

\* The pending removals, then the next call of Update.
EndUpdate ==
  /\ batch = <<>> /\ toVisit = {} /\ dungeonLoop
  /\ instances' = instances \ pending
  /\ pending' = {}
  /\ dungeonLoop' = FALSE /\ toVisit' = Towns /\ room' = NoRoom
  /\ UNCHANGED <<session, player, gameRoom, players, jobs, nextInstance, batch,
                 pm, history>>

-----------------------------------------------------------------------------
ClientStep(s) ==
  \/ Login(s) \/ Disconnect(s)
  \/ RequestChangeMap(s) \/ RequestAttack(s)
  \/ RequestPartyAnswer(s) \/ RequestPartyLeave(s)

RunJob(s) ==
  \/ EnterRoom(s) \/ LeaveRoom(s) \/ Attack(s) \/ PartyLeave(s)
  \/ \E town \in Towns : ChangeMapToTown(s, town)
  \/ ChangeMapToDungeon(s)
  \/ \E inviter \in Players : PartyAnswer(s, inviter)

GameStep ==
  \/ \E r \in Rooms : Visit(r)
  \/ \E s \in Players : RunJob(s)
  \/ BeginDungeonLoop \/ EndUpdate

Next ==
  \/ \E s \in Players : ClientStep(s) \/ QueueLeave(s)
  \/ GameStep

\* The game thread loops for ever, and a worker ends the OnDisconnected it began.
\* Which room of an unordered map comes next is not assumed.
Fairness == WF_vars(GameStep) /\ \A s \in Players : WF_vars(QueueLeave(s))

Spec == Init /\ [][Next]_vars /\ Fairness

-----------------------------------------------------------------------------
(* Properties *)

JobsOf(s) ==
  {Enter(s), Leave(s), Job("leaveParty", s, NoRoom), Job("attack", s, NoRoom)}
    \cup {Job("changeMap", s, to) : to \in Towns \cup {NewDungeon}}
    \cup {Job("answer", s, p) : p \in Players}

Jobs == UNION {JobsOf(s) : s \in Players}

TypeOK ==
  /\ session \in [Players -> {"connected", "loggedIn", "saving", "closing", "closed"}]
  /\ player \in [Players -> BOOLEAN]
  /\ gameRoom \in [Players -> Rooms \cup {NoRoom}]
  /\ players \in [Rooms -> SUBSET Players]
  /\ jobs \in [Rooms -> Seq(Jobs)]
  /\ batch \in Seq(Jobs)
  /\ instances \subseteq Dungeons /\ pending \subseteq Dungeons
  /\ nextInstance \in 1..(MaxRequests + 1)
  /\ room \in Rooms \cup {NoRoom} /\ toVisit \subseteq Rooms /\ dungeonLoop \in BOOLEAN
  /\ opened \subseteq Dungeons /\ slain \subseteq Players

\* A dungeon is removed at the end of the Update that emptied it, while sessions
\* and queues still name it: nobody is in a removed dungeon or on the way into
\* it, where no tick and no job would ever reach them again.
NobodyStranded ==
  /\ TypeOK
  /\ \A d \in Dungeons : ~Live(d) =>
       /\ players[d] = {}
       /\ \A s \in Players : Enter(s) \notin Range(jobs[d])

\* A player that is connected, not slain and not on the way anywhere is in the
\* room its session's packets go to, however moves, party moves and requests to
\* the same or another room overlapped.
OnlinePresent ==
  \A s \in Players :
    session[s] = "loggedIn" /\ player[s] /\ s \notin slain /\ ~Queued(Enter(s))
      => s \in players[gameRoom[s]]

\* A player that left a room arrives in the next: an EnterRoom job is run.
MovesArrive == \A s \in Players : Queued(Enter(s)) ~> ~Queued(Enter(s))

\* Nobody is in d or on the way into it, and the game thread is between two
\* Updates, the first of which has done its removals.
Deserted(d) ==
  /\ room = NoRoom /\ d \in instances
  /\ players[d] = {}
  /\ \A s \in Players : Enter(s) \notin Range(jobs[d])

\* A dungeon that its last player left, alone or with a party, to another room or
\* for good, is gone once the Update ends.  (Players removed by a blow do not
\* leave.)
LeftDungeonRemoved ==
  slain = {} => \A d \in opened : ~Deserted(d)

\* What the README promises, "dynamic dungeon instances / released at 0 players"
\* at the end of Update, of every dungeon: none is kept without players.
EmptyDungeonRemoved == \A d \in Dungeons : ~Deserted(d)

\* OnDisconnected's "leave the room": once the connection is closed and the jobs
\* about it have run, the player is in no room.
ClosedLeavesRooms ==
  \A s \in Players :
    session[s] = "closed" ~> \A r \in Rooms : s \notin players[r]
=============================================================================
