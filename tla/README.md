# A TLA+ verification of the Zelda MMORPG server

Models, model-checking runs and machine-checked proofs for the C++ game server in
`src/Zelda-Winapi` (ServerCore, Server; ChatServer and Client where they meet it).
Paths below are relative to `src/Zelda-Winapi/` unless they begin with `src/`.

1. [The system](#1-the-system): components, state, interactions, what is hard
2. [Modules](#2-modules): what models what
3. [Runs](#3-runs): what TLC checks, with which bounds, under which fairness
4. [Proofs](#4-proofs): what TLAPS proves, from what, along which argument
5. [What the models found](#5-what-the-models-found)
6. [What is not modelled](#6-what-is-not-modelled)
7. [Plan](#7-plan)

To check: `tlc -config MCSend.cfg MCSend` (and so on for every line of the table in
section 3), `tlapm SendPipelineProofs.tla` (and so on for every module of section 4).

---------------------------------------------------------------------------

## 1. The system

### Threads and processes

The server is one Windows process (`Server/Server.cpp`). In *single mode* (lines
104-120) one thread alternately dispatches the I/O completion port and calls
`GameRoomManager::Update`. In *multi mode* (121-153) N worker threads dispatch the
completion port and one more thread, the *game thread*, runs `Update` in a loop. A
chat server is a second process: the game server is its client (`ChatConnector`),
game clients relay chat through the game server, and Redis carries global chat, the
location of players for whispers and the ranking. Every behaviour of single mode is
a behaviour of multi mode, so the modules model multi mode; `PlayerItems`, where the
difference decides a property, has it as the constant `Multi`, and `Accounts` is about
several servers in single mode. Several game servers may run on one machine
(`src/README.md:47`; the port is an argument): they are started from one directory,
open the same `game.db` (`Server/Server.cpp:67`), and share Redis and the chat server.

    client --TCP--> Session (IOCP worker) --PushJob--> GameRoom._jobs
                       |                                    |
                       | OnDisconnected                     v   GameRoomManager::Update
                       |                             game thread: jobs, tick
                       v                                    |
                 PartyManager (lock) <----------------------+
                 DBManager (SQLite)                         |
                 GSessionManager (lock)    Session::Send <--+

The workers touch the world only through the job queues of the rooms, with one
exception that most of the findings come from: `GameSession::OnDisconnected` runs on
a worker and reads the player, its room and its party directly.

### Components

| component | state | operations | what is hard | correct when |
|---|---|---|---|---|
| **Session, send path** `ServerCore/Session.cpp` | `_sendQueue`, flag `_sendRegistered`, one `_sendEvent` that pins buffers and session | `Send`, `RegisterSend`, `ProcessSend`, failing `WSASend`, `Disconnect` | any thread sends while a completion is handled; a failed send returns at once | one user of the event, buffers pinned while in flight, order and at-most-once, nothing accepted is forgotten |
| **Session, receive path** `Session.cpp`, `RecvBuffer.cpp` | `_recvBuffer` with two cursors | `RegisterRecv`, `ProcessRecv`, framing in `PacketSession::OnRecv`, `OnWrite`, `OnRead`, `Clean` | TCP chunks anyhow; cursors move; boundary cases | packets are delivered whole, in order, all; there is always room to receive |
| **Session life cycle** `Session.cpp`, `Service.cpp`, `Listener.cpp`, `IocpCore.cpp` | `_connected`, the session set, accept events | accept, connect, disconnect, release | disconnect races, double release, side effect in an `assert` | each session is released once, accepts never run dry |
| **PartyManager** `Server/PartyManager.cpp` | `_parties`, `_playerToParty`, `_partyIdGen` under a mutex | create, add, remove, disband, queries | callers combine several locked calls; `GetParty` leaks a pointer | maps agree, leader is a member, size limit, no party of one |
| **Party handlers** `ServerPacketHandler.cpp`, `GameSession.cpp` | locals between two locked calls | invite, answer, leave, clean-up at disconnect | game thread against workers | the above, in every interleaving |
| **GameRoomManager** `Server/GameRoomManager.cpp` | static rooms, `_dungeonInstances`, `_pendingRemoveDungeon` | `Update`, create, request removal | map changes while it is iterated; removal while others still hold the room | nobody is stranded in a removed dungeon; empty dungeons go |
| **GameRoom** `Server/GameRoom.cpp` | `_jobs`, `_players`, `_monsters`, arrows | `PushJob`, drain, `EnterRoom`, `LeaveRoom`, `ChangeMap`, move, attack, tick | a player moving between rooms is in none; requests overlap | a connected player is where its packets go; moves end; a closed session leaves |
| **GameSession** `Server/GameSession.cpp` | `player`, `gameRoom` | login, packets, `OnDisconnected` | jobs queued before a disconnect run after it | logout saves a state the player had, and leaves party and room |
| **Player** `Server/Player.cpp` | level, experience, cached statistics, inventory, equipment | add, equip, unequip, use, gain, damage, save, load | cached statistics; stacks, full inventory, swaps; several levels at once | statistics agree, items are conserved, experience short of the next level |
| **CombatSystem, SpawnSystem, Monster, Arrow** `Server/` | hit points, spawn reservations, AI state, flight | attack, die, drop, respawn, chase, hit | objects that vanish while another one aims at them | one respawn for each death; no target in another room |
| **DBManager** `Server/DBManager.cpp` | one SQLite connection for each server, the file `game.db` | find or create account, load, save | several servers on one file; crashes; results nobody looks at | accounts stay apart, a save is of one moment, progress is not lost |
| **Path search** `Server/GameRoom.cpp` (`FindPath`) | none | greedy search with a distance limit | ties, a goal out of reach, a new search at every step | the path is connected, free and ends as near as can be reached; who follows it arrives |
| **GameSessionManager** `Server/GameSessionManager.cpp` | `_sessions` under a mutex | add, remove, broadcast, find by name | sends under its lock | the sessions of connected clients, and no others |
| **ChatConnector** `Server/ChatConnector.cpp` | `_session`, `_service`, `_lastTryAt` | connect, reconnect, relay | timer against a pending connect, threads that send | the link comes back, one receive for each |
| **Chat** `ChatServer/`, `RedisSubscriber.cpp`, Redis | player:loc | relay, whisper | logout against login elsewhere, crashes | a whisper comes to its target, or its sender learns that there is none |
| **Client, DummyClient** | prediction, UI, rendering | inputs | latency | (inputs of the server's modules) |

`PROJECT.json` lists every component with its sources and status, and under
"hazards" every place in this code that is hard to test, at its line, with the
properties that watch it or the reason why none does yet.

---------------------------------------------------------------------------

## 2. Modules

| module | models | composes |
|---|---|---|
| `SendChannel` | abstract: what `Session::Send` promises (lossy FIFO, batches, at most once) | |
| `SendPipeline` | the send path of a `Session`, statement by statement | implements `SendChannel` |
| `RecvStream` | the receive path and `RecvBuffer` | |
| `PartyManager` | the manager's data and methods as operators on its state | |
| `PartyHandlers` | the party handlers and `OnDisconnected`, call by call | `PartyManager` |
| `GameWorld` | sessions, rooms, queues, moves, `Update`, dungeon instances | `PartyManager` |
| `PlayerItems` | one `Player` with its logout and login | |
| `PathSearch` | `GameRoom::FindPath` as operators, with the heap that decides between equals | |
| `RoomSimulation` | the tick of one room: monsters, arrows, attacks, respawn, who stands where | `PathSearch` |
| `Homeward` | one monster that walks home, a search for each step | `PathSearch` |
| `Connections` | accept, connect, disconnect, the two session sets, broadcasts, the link to the chat server | |
| `Accounts` | several servers on one `game.db`: login, load, save, crash; `player:loc` and whispers | |
| `SendPipelineProofs`, `RecvProofs`, `ConnectionsProofs`, `PartyProofs`, `WorldProofs`, `PlayerProofs`, `AccountsProofs`, `RoomProofs` | theorems and proofs about the module each extends | |
| `MCSend`, `MCRecv`, `MCParty`, `MCWorld`, `MCPlayer`, `MCRoom`, `MCHomeward`, `MCConnections`, `MCAccounts` | instances for TLC | |

Operators whose comment begins with "Variant:" are plausible wrong versions of the
definition below them. No specification uses them; `PROJECT.json` ("mutants") says
which property rejects which variant.

### SendPipeline

An action is one critical section or one statement that another thread can come
between; `pc[t]` names the statement that thread `t` runs next. `Send` is the push
and the exchange under the lock; `CheckConnected`, `PrepareEvent`, `DrainQueue`,
`IssueSend`/`IssueFails`, `HandleError`, `ReleaseFailed`, `Unregister` are the
statements of `RegisterSend` in order; `Dispatch` takes a completion, `ReleaseSent`
and `Settle` are `ProcessSend`. A send buffer is the number of the `Send` call.
`ProcessConnect` is the moment the connection is there, or not: a link of `ChatConnector`
may be sent to before. `wire` and `lost` are history. The refinement maps `pending` of the abstract channel
to what was drained and not yet issued, followed by the queue.

Three facts of the code are kept as they are. When `RegisterSend` sees a closed
connection the flag stays on for ever: harmless, since nothing will be sent. When it sees
one that is yet to come the flag stays on as well, and the session never sends anything
(`early`): a client's session is sent to only after `OnConnected`, but a new link can be,
when `TryReconnect` replaces `_session` between a sender's two looks at it. When
`WSASend` fails at once the flag goes off without a look at the queue: what was
queued meanwhile waits for the next `Send`. `NoLostWakeup` says that this is the
only way to get there, and the liveness property excepts both by name (`early`, `stalled`).

### RecvStream

A byte is its offset in the peer's stream, the buffer holds offsets, and `stream`
knows at which offsets packets begin. One receive is outstanding at a time, so the
path has one thread of control, `phase`; another thread may disconnect at any time.
`RecvCompletes` puts any number of bytes at the write cursor; the framing loop is
`DeliverPacket`/`LeaveLoop`; `OnRead` and `Clean` follow. `RegisterRecvFails` is the
`WSARecv` that fails at once: on an error that is not one of the three reset codes
the session stays connected and never receives again (phase "deaf").
The peer frames its packets (`Framed`): header sizes of at least a header. A size
below that is a malformed packet and outside this model.

### PartyManager and PartyHandlers

Each public method holds the lock for its whole body, so it is an operator from the
manager's state to its next. `memberIds`, a vector appended to at the end and erased
from anywhere, is a function from join numbers to players, with gaps: the order is
the order of the numbers.

`PartyHandlers` runs the callers. The game thread runs one job at a time (invite,
answer, leave, the `LeaveRoom` of a closed session). An answer may name any inviter:
nobody keeps the invitations, so a client can answer without one, more than once, or
with its own id. In the last case `CreateParty` makes a party of which it is a member
already, `AddMember` refuses it, and a party of one stays until somebody joins it: the
history `alone` names these. For each player in `Leavers` a
worker may run `OnDisconnected`. Each call under the lock is a step; the ids and
`Party*` that a handler carries from call to call are in its `frame`; following a
`Party*` is a step outside the lock and sets `dangling` if the party is gone. Several
*tests* made in a row by the game thread are one step: only the game thread adds
members, so what passes them one after the other also passes them together at the
last one.

Other code follows a `Party*` too, and changes no party: the move of a party
(`GameRoom.cpp:374-389`; `GameWorld` has it at the grain of a job), the party list on
entering a room (`153-190`), the sharing of experience (`CombatSystem.cpp:157-175`), the
relay of party chat (`ChatConnector.cpp:44-48`). In multi mode each of them has the hazard
that run party_pointer shows for the handlers.

### GameWorld

`session` is the life of a `GameSession` that logs in once; `player` and `gameRoom`
its two references; `players` and `jobs` belong to each room. The room a worker pushes
to is the one `gameRoom` names at that moment. The game thread takes the whole queue
of a room (`Visit`) and runs the batch job by job; what these jobs push waits for the
next visit, as in `GameRoom::Update`. `BeginDungeonLoop` and `EndUpdate` are the
second loop of `GameRoomManager::Update` and the removals at its end. A dungeon made
while that loop runs is reached by it or not, as the iteration of an `unordered_map`
may have it. Removed rooms keep their identity: a session or a job may still hold
one, and what is pushed to it is never run. `HasPlayer` is the weak pointer: it locks
as long as a room, an `EnterRoom` job or `OnDisconnected` holds the player.

`MaxRequests` bounds the packets handled, and with them the dungeons: a request creates
at most one, so the bound on ids in `ChangeMapToDungeon` is never in the way.

Left out because they change none of this state: a change of map to a channel that
does not exist (early return), movement, turning, the tick, monsters. A fatal blow
against another player is `Attack`: the code removes the object without
`LeaveRoom`.

### PlayerItems

Operations are atomic (jobs of one thread), except the loop of `GainExp`, which is a
turn at a time so that the property between turns can be told from the one after the
loop. `ToSaveData` copies one field a step, as it does in C++ without a lock; a slot is
copied at once (a torn slot is not needed for anything shown here). In single mode no
job runs between two of these steps, and a save begins between two jobs, with one
exception: the broadcast of `ProcessLevelUp` can find the player's own connection broken
(a `WSASend` that fails at once), and then `OnDisconnected` runs on this thread inside
`GainExp`'s loop (`LevelUp` with `BeginSave`). `SavePlayerData` is one transaction. `owned`,
`had` and `cut` are history: what was received and not used, what there was to save
since the logout began, and that a save began with a level-up still due.

### RoomSimulation

One thread runs the jobs of a room and its ticks (`GameRoom::Step`), so a job is one
action, which may come between any two ticks, and a tick is a chain of actions:
`BeginStep`, one update per object (the monsters, then the arrows, each in the order of
their ids), `ProcessRespawn` once for each reservation that is due, `EndStep`. `Wait`,
`ReturnHome` and `UpdateIdle` are `Monster::Update`; `ArrowWaits`, `ArrowExpires` and
`ArrowFlies` are `Arrow::Update`; `Die` is `RemoveObject` of a monster with the
reservation it makes.

The clock is abstracted: wherever the code compares a deadline with it, both answers
are possible. So are hit points: a blow kills or does not. A monster moves to the second
cell of the path that `PathSearch` finds among the cells that are free at that moment
(`NextCell`).

Players enter at `Entry`, whatever is there: in the dungeon, the one room with monsters,
(5,5) of `Tilemap_02.txt` is a wall, so nothing is assumed of the tile. A `C_Move` is run
by the room it was queued for, wherever the player is by then: `Walk` is this room's
`Handle_C_Move`, also for a player who has left; `Stray` is another room's, by whose map a
player of this room then moves (`strayed`, history, has the players whose last step was
one). Overlapping changes of map can have a player listed in two rooms, so `EnterRoom`
and `Arrive` (of another room) ask only that it exists. `where` keeps apart a player in
this room, one in another room, and a destroyed one, because `_target` is a weak
pointer that locks for the first two and whose position is then looked at.
Respawning is enabled, as in the rooms whose configuration lists monsters.

### PathSearch and Homeward

`FindPath` is a pure function of the free cells, so it is operators. `Turn` is one turn
of its loop on the open cells (`heap`) and the map `parent`; `Searched` iterates it with
a recursive function (not a `RECURSIVE` operator, so that proofs remain possible);
`PathEnd` is the fallback to the nearest cell when the goal was not found. Two facts
shorten it: the cost of a cell is its distance to the goal, whatever the way, so a cell
is entered once, and `best` has the keys of `parent`. Of two open cells at the same
distance the heap of `std::priority_queue` decides: `HeapPush` and `HeapPop` are the
sifting of a binary heap, each in one expression over the places that are `visited` (from
the last one up, as long as the parent is farther) or that the `hole` passes (to a leaf,
from where the last cell rises again).

`Homeward` is what is left of `Monster::UpdateIdle` when nobody is near: a step by the
path from where the monster is, and a wait. The leash, which sends it home with a
target gone, is the same step.

### Connections

A thread runs one handler, statement by statement where another thread can see the
difference: `at[t]` is the statement it is before, `session[t]` whom it works for.
`ProcessAccept`, `ProcessConnect`, `ProcessRecv`, `ProcessDisconnect` begin the handlers
that a completion starts; `AddSession`, `OnConnected`, `RegisterRecv` are the rest of
`ProcessConnect`, `OnDisconnected` and `ReleaseSession` the rest of `Disconnect`, which
begins with the exchange on `_connected` wherever it is called from. `acceptor` is the
thread that holds the one accept event: it comes back to `RegisterAccept` when
`ProcessConnect` returns, by whichever way; there `CreateSession` may return null, when the completion port refuses
the new socket, and `RegisterAccept` follows it (`crashed`). `lockOwner` is the lock of
`GameSessionManager` while a broadcast holds it across sends; the other methods hold
it for one step and wait for it.

Sessions are objects that live while something refers to them (`Unreferenced`: the
session sets, the accept event, a posted event's `owner`, `GChatConnector`, a thread).
One that nothing refers to stands for the next that is made, so a bound on objects is
a bound on those alive at a time. `ServiceLives`: `GetService()` locks a weak pointer;
the service of a link is held by `GChatConnector` alone, and goes when `TryReconnect`
replaces it. Where the code then follows a null pointer, and where `ReleaseSession`'s
assertion fails, the process is gone (`crashed`).

### Accounts

Each server is one thread with its own SQLite connection to one file. `Login` begins
`Handle_C_Login`; `FindAccount`, `CreateAccount`, `LastInsertRowid`, `HasPlayerData`,
`LoadPlayerData`, `QueueEnterRoom`, `SetLoc` are its statements; `SavePlayerData` is
`BEGIN`, the statements for three tables and `COMMIT`; `Leave` begins `OnDisconnected`,
`DelLoc` ends it. `Crash` takes a server's sessions and its transaction. SQLite is
external: a transaction is `draft`, a write lock `writer`, committed rows `file`; a
`BEGIN` takes no lock until the first write; a statement that finds the lock taken is
refused at once, as there is no busy handler, and nobody looks at the answer. A `SELECT`
may be refused then too (`Found`), and looks like one that found no row: the account is
to be created (and the `INSERT` fails), the player is a new one (and is saved over what
there was), a table is empty.

What a player has is the number of a moment of its life; a save writes it to three
tables, so a torn save is one with different numbers. Rows that a refused `DELETE` left
make the later `INSERT` fail on the primary key of their slots: rows of two moments
(`Mixed`). `Whisper` is what `ChatPacketHandler` and the subscriber of the server it
publishes to do with the location in Redis, taken as a question about a state:
who would get it.

`contested`, `refused` and `abandoned` are history: they name the logins, loads and saves,
and departures that the properties except (section 5).

---------------------------------------------------------------------------

## 3. Runs

`pass`: TLC explores everything and finds no error. `violation`: the run states one
sentence of a document or comment of the repository as a property, and TLC shows a
behaviour of the code that breaks it (section 5).

| run | configuration | distinct states | question |
|---|---|---|---|
| send | `MCSend.cfg` | 2 300 | Is `_sendEvent` used by one party at a time, are its buffers pinned, do buffers leave in order and once, is nothing forgotten? |
| recv | `MCRecv.cfg` | 640 000 | Are packets cut as the peer cut them, however TCP chunks them and the cursors move? Is there always room? |
| party | `MCParty.cfg` | 233 000 | Do the manager's two maps stay sound when workers remove players between any two calls of a handler? |
| party_pointer | `MCPartyPointer.cfg` | violation | Is a `Party*` only followed while its party exists? |
| world | `MCWorld.cfg` | 266 000 | While players move, party up, fall and disconnect, is each where its packets go, nobody in a removed dungeon, and does who left a room arrive in the next? |
| world_dungeon | `MCWorldDungeon.cfg` | violation | Is every empty dungeon released? |
| world_ghost | `MCWorldGhost.cfg` | violation | Does a closed session's player leave its room? |
| player | `MCPlayer.cfg` | 1 377 000 | Single mode: do cached statistics, slots, items, experience and saved data agree through every order of operations, logouts and logins? |
| room | `MCRoom.cfg` | 362 000 | While players walk, strike, enter and leave between ticks, is the population kept, are creatures apart, does the leash hold, is every path sound, do the dead come back? |
| path_home | `MCHomeward.cfg` | violation | Does a monster with a free way home get there? |
| connections | `MCConnections.cfg` | 373 000 | Clients come and go, the link to the chat server is lost and made again, messages are broadcast: has each session one receive, are closed ones in no list, is the accept event never lost? |
| accounts | `MCAccounts.cfg` | 2 934 000 | Two servers create accounts, load, save, crash and start again: do accounts stay apart, are saves whole, is progress kept, do whispers arrive? |

`MCPlayerTorn.cfg` is a smaller instance of `PlayerItems` in multi mode, where TLC finds
`SavedWasHeld` violated; it is kept beside the runs for a reader who wants to see the
torn save of section 5. Run player, in single mode, cannot meet that race: what it checks
with `SavedWasHeld` is that a save and a load take every field, whole.

### Bounds, and why they are enough

* **send**: 3 threads, 4 sends, from before the connection is there. A completion being handled, a sender that wins the
  flag and one that loses it can overlap; a batch of two or more can be in flight
  while another waits. The threads are alike. The safety properties and the
  refinement are proved for any numbers.
* **recv**: the code's 64 KB, buffer of ten times that, scaled to `BufferSize` 5,
  `Capacity` 15, packets of 2 to 4 bytes, every sequence of five packets. What matters
  is the relation that `RecvAssumption` names: a packet is shorter than
  `BufferSize`, the capacity at least three of them. Five packets drive the cursor
  into the last third, where `Clean` compacts, with and without unread bytes.
* **party**: 4 players, parties of at most 3 (one player finds the party full), 5
  jobs, one player whose connection goes (`Leavers`). An answer needs no invitation, so
  3 jobs fill a party and find it full, and 5 are a party founded, a member leaving and a
  new party founded while the leaver's `OnDisconnected` holds the old id. Players that cannot disconnect are symmetric.
* **world**: 2 players, both channels of the town, up to 3 dungeons, 2 packets handled.
  Behaviours begin at the start, or with both players in the town and in a's party,
  which a first packet leads to (`MCSpec`); from there two packets move the party into a
  dungeon and overlap that with a second move, a blow, a leave or a disconnect. Logins
  and disconnects are not counted. No symmetry, since the run has a liveness property.
* **player**: 2 slots, 3 items (a stackable potion of 2, a weapon, an armor), so that the
  inventory fills, stacks fill, and swaps with a worn item happen; 3 levels with
  costs of 1 and 2 and gains of 2 and 3, so that one gain is worth exactly one level, one
  and a rest, or two; 3 drops, 1 gain, 1 blow; logout and login at any point, any
  number of times.
* **room**: eight free cells around a wall; two monsters, two players that enter, leave and
  disconnect at will, one of which walks or strikes twice (two blows, a walk and a blow;
  one staff blow from the entrance reaches both monsters; a walk by the map of another
  room and a blow from the wall it led into); `AggroRange` 2 above
  `LeashRange` 1, so that the leash and not the aggro range decides. (The code's defaults
  are 8 and 10; the way home can lead farther than the leash for any values.)
  The room is never full: one cell stays free for a respawn.
* **path_home**: a ring of tiles with two dead ends, from every tile to every other; the
  code's depth of 20 is never reached.
* **connections**: two clients' sessions and two links alive at a time, two threads; one is
  also the game thread and the subscriber. Two links are what a replaced link that is
  still connecting needs; two clients' sessions are one in use and the one the accept
  event holds. With one thread free and one inside a handler every pair of statements
  interleaves. The number of connections is not bounded: objects are used again.
* **accounts**: two servers, two names, two sessions, two moments of a life, three
  logins. Two servers write at once, two names are created at once, one name logs
  in on both; the third login comes after a save, a crash or a departure. Servers, names
  and sessions are symmetric (safety only).

`CHECK_DEADLOCK FALSE` is set in every configuration: each bound ends behaviours
(sends, packets, jobs), and closed connections stop for good.

### Properties

*send.* `Ownership` is the inductive invariant: the flag is on exactly while a thread
or the kernel has the duty to use `_sendEvent` (or after a close), with what the event
and the queue hold at each statement. `SingleFlight`, `BuffersPinned`, `NoEmptySend`
are what the reader wants of it. `NoLostWakeup`: a queue nobody is on the way to
send exists only after a send that failed at once. `ImplementsChannel`: refinement of
`SendChannel`. `EverySendSettles` (liveness): an accepted buffer reaches the socket,
or the session closes, or a send failed at once, or one was tried before the connection
was there.

*recv.* `StreamIntact`: between receives the buffer holds, in order, exactly what
arrived and was not delivered. `FramedAsSent`: deliveries end where the peer's
packets end. `RoomToReceive`: a receive is never posted with less than `BUFFER_SIZE`
free, so 0 bytes always mean the end. `CleanNeverOverlaps`: the `memcpy` in `Clean`
has disjoint ranges. `NeverOverflows`: the two overflow exits are dead code for a peer
that frames. `EveryPacketDelivered` (liveness).

*party.* `PartiesSound`: leader among the members, at most `MAX_PARTY_SIZE`, every
entry names a party that lists the player. `OnlineListedOnce`: the other
direction, for a player whose `OnDisconnected` has not begun. The restriction is
needed: `OnDisconnected` reads the party id and removes in two locked calls; a player
that changes party in between is removed from the old one by id, loses its entry, and
stays listed in the new one. `NoPartyOfOne`: no party of one outlives the two calls of
`Handle_C_PartyAnswer`, even if the inviter goes in between, but for that of a player who
answered itself (`alone`).

*world.* `NobodyStranded`: no player in, or on the way into, a removed dungeon.
`OnlinePresent`: a connected player that is not on the way is in the room its packets
go to. `LeftDungeonRemoved`: a dungeon that was entered and left by everybody is gone
after the Update. `MovesArrive` (liveness).

*player.* `StatsAgree`, `SlotsSound`, `ItemsConserved`, `ExpShortOfNext`,
`SavedWasHeld`, in the comments above them. `ExpShortOfNext` excepts a gain of several
levels that a broken connection cut short (`cut`); the shipped tables have none, since no
monster gives two levels at once.

*room.* `PopulationKept`: each monster of the spawn data is alive or reserved, once,
whoever killed it and with what. `CreaturesApart`: nobody walks or respawns into a wall or
into another, except where `EnterRoom` puts a player without a look, and where a move by
another room's map leads one. `LeashHolds`: a
monster beyond its leash has no target, even though a target may be far away in another
room. `PathsSound`: when a monster is to decide, whatever is in the way, its path home
and to every player goes from neighbour to free neighbour, nowhere twice, to the goal or to the cell that a
reference search (`Reachable`) says is the nearest that can be reached.
`PopulationRecovers` (liveness): a taken home does not hold up a respawn.

*path_home.* `ComesHome` (liveness): a monster whose home can be reached comes home. It is
violated (section 5).

*connections.* `OneReceiver`: of each session there is one receive, with the kernel or in
one thread's hands, through connecting and disconnecting, and a connected session is not
left without one (`RecvStream` relies on that). `ListsAgree`: a client that is closed is in
neither session set, nor about to be, unless a thread is on the way to take it out;
one that is released is in the set, as the assertion wants. `AcceptsAgain`: the accept event
is with the kernel, with a session nothing else refers to, or with a thread that will
post it again.

*accounts.* `AccountsApart`: nobody is logged in to another one's account, no two names
share one. `SavedWhole`: the tables of a player are of one moment after any crash.
`ProgressSaved`: what a player has is never behind what is saved of it, and is all saved
when its logout goes on. `WhisperArrives`: a whisper comes to its target, or its sender learns
that there is none. The cases they except are in their comments and in section 5.

### Fairness

* **SendPipeline**: weak fairness for each thread's statements inside `RegisterSend`
  and `ProcessSend` (no lock is held across them, a thread that runs goes on), and
  for `Dispatch` by *some* thread: the kernel completes every overlapped send, failed
  or not, and the workers poll the port in an endless loop. Nobody is obliged to
  call `Send` or `Disconnect`.
* **RecvStream**: weak fairness of the kernel (bytes that were sent reach a posted
  receive) and of the worker's handler.
* **GameWorld**: weak fairness of the game thread's next step (`while (true)` around
  `Update`), not of any particular job or room, and of the worker that has begun an
  `OnDisconnected`. Clients owe nothing.
* **RoomSimulation**: the tick goes on for ever (`[]<><<Step>>_vars`: some statement of a
  tick is always enabled, and the game loop runs; TLC is spared the `ENABLED`), strong
  fairness of `ProcessRespawn`: it is enabled in every tick that finds a reservation,
  and since the clock goes on, one of these ticks is after the deadline. Players owe
  nothing.
* **Homeward**: weak fairness of the monster's step and of the end of its wait: the tick
  updates it again and again. `ENABLED` of the step is written out as `CanWalk`, so that
  the search is evaluated once.
* **PartyHandlers**, **PlayerItems**, **Connections**, **Accounts**: no fairness, safety only.
  What `AcceptsAgain` says is the safety half of accepting again; that the
  thread with the event gets on needs its scheduling only, unless it waits for the lock
  of a broadcaster that waits for itself (section 5).

---------------------------------------------------------------------------

## 4. Proofs

For every value of the constants that satisfies the named assumptions.

### SendPipelineProofs (assumes `SendAssumption`: `MaxSends \in Nat`)

* `SendOwnershipInvariant`: `Spec => []Ownership`. `SingleFlight` alone is not inductive:
  that a second thread cannot enter `RegisterSend` follows from the flag, and that
  the flag is on while anybody has the duty has to be carried along, with the
  contents of the event at each statement. `HolderIsAlone` and `HolderStep` make the
  argument once for every statement of the one holder: nobody else is there, the
  kernel has nothing, and moving on to the next statement keeps it so. One
  lemma per function (`Send`, `RegisterSend`, `Dispatch`, `ProcessSend`).
* `SendSafety`, `SendBuffersPinned`, `SendNeverEmpty`: `SingleFlight`, `BuffersPinned`,
  `NoEmptySend`, from `Ownership`.
* `SendNoLostWakeup`: inductive by itself.
* `SendRefinesChannel`: `Spec => ImplementsChannel`. Only `Send`, `IssueSend` and
  `ReleaseFailed` are steps of the channel, everything else stutters; `Ownership`
  gives that the drained buffers are the front of what is pending.

### PartyProofs (assumes `PartyAssumption`: `MaxPartySize >= 2`; `HandlerAssumption`)

* `PartiesStaySound`, `OnlineStayListedOnce`, `NoPartyStaysOfOne`, from the invariant

      IInv == TypeOK /\ Sound(pm) /\ JobAgrees /\ WorkersOffline
                     /\ OnlineListedOnce /\ OneOnlyFounded

  `Sound(pm)` is inductive over any sequence of locked calls: the lemmas
  `CreateSound`, `AddSound`, `RemoveSound` say so of the methods, with no word about who
  calls. The other properties depend on the callers. `JobAgrees` keeps what a job
  tested valid until it acts on it (an acceptor, unless it answers itself, is in no party
  until `AddMember`, since only this thread adds; a leaver's entry is the id it read or gone, since workers only
  remove); `WorkersOffline` says that workers only remove players that are offline;
  `OneOnlyFounded` names the party of one that a running `Handle_C_PartyAnswer`
  founded, which is why a disconnect of the inviter in between leaves none behind: the
  acceptor is another player, whom `AddMember` finds in no party. If it is the inviter
  itself the party is one of those `alone` names. Nothing is assumed of what clients send.
* Shape lemmas state each method's result part by part, frame lemmas what a step of
  one process leaves to the others, and one lemma per group of actions preserves `IInv`.

### RecvProofs (assumes `RecvAssumption`: packets shorter than `BufferSize`, a capacity of three of them, streams of framed packets)

* `RecvStreamStaysIntact`, `RecvFramesAsSent`, `RecvHasRoom`, `RecvCleansApart`,
  `RecvNeverOverflows`, from

      IInv == TypeOK /\ CursorsApart /\ BytesInOrder /\ FramedAsSent
                     /\ LessThanAPacket /\ RoomAfterClean /\ NeverOverflows

  None of the five is inductive. The half that was missing is a bound on what is unread:
  the framing loop leaves less than one packet (`LessThanAPacket`), because the header of
  the next packet is the one the peer wrote (`HeaderOfNextPacket`, from `BytesInOrder` and
  `FramedAsSent`). So `Clean` has less than `BufferSize` to move, from beyond the first
  two thirds to the front, and leaves a `BufferSize` free. `BytesInOrder` follows one byte
  by its place in the buffer, so chunks and compactions only move the bounds.

### ConnectionsProofs (assumes `ConnectionsAssumption`: clients, links and threads are not `Nobody`)

* `ConnectionsHaveOneReceiver`, `ConnectionListsAgree`, `ConnectionsAcceptAgain`, from

      IInv == TypeOK /\ ThreadsSound /\ ReceiversApart /\ ClosersApart /\ ClientsListed
                     /\ AcceptorOnItsWay /\ AcceptsAgain

  The invariant says for whom each thread works at each statement. `ClosersApart`: the
  exchange on `_connected` lets one thread close a session. `ClientsListed`: which lists
  have a client between `AddSession`, `OnConnected` and `ReleaseSession`, and that no
  broadcast can close a client that is not in the service's list yet (`ThreadsSound`: who
  broadcasts has the lock and an audience out of the manager's list). `AcceptorOnItsWay`:
  the thread with the accept event is in a handler that ends in `RegisterAccept`.

### WorldProofs (assumes `WorldAssumption`: `MaxRequests \in Nat`)

* `NobodyIsStranded`, `OnlineArePresent`, `LeftDungeonsGo`, from

      IInv == TypeOK /\ IsManager(pm) /\ Numbered /\ EntersFirst /\ EmptyOnesGo
                     /\ LeaversGone /\ Located /\ OnlinePresent

  Why no player comes into a dungeon that is pending: its `EnterRoom` jobs are pushed
  when its id is new, before any session can name it, so they are its whole first batch
  (`Unopened`, `EntersFirst`), and only a job behind them can ask for the removal.
  `EmptyOnesGo` ties pending, removed and empty dungeons together, the other half of
  `LeftDungeonRemoved`. `LeaversGone`: a `LeaveRoom` job is about a closed session.
* `DepartStep` makes the argument once for every job that may take players out of a room;
  `WorkerStep` for every step that queues a job. `MoversArePlayers` needs that a finite set
  of join numbers can be counted upwards (`Enumeration`): by least counterexample, since the
  induction theorems of the library cannot be used (below).
* The theorems are about `Spec`; the run starts in a second state as well (`MCSpec`).

### PlayerProofs (assumes `PlayerAssumption`: the tables are tables)

* `SlotsStaySound`, `StatsStayAgreed`, `ItemsStayConserved`: their conjunction is
  inductive. That nothing is lost or doubled is a count: `CountIn` is the number of pieces
  (a slot and a number up to what it holds), and `PiecesSplit` sets one slot aside, so that each
  operation is an equation about the slots it writes, swaps and part stacks included.
* `SingleModeExpShort`, `SingleModeSavesHeld`, each with the assumption `~Multi`, which
  is single mode and needed: in multi mode TLC finds `SavedWasHeld` violated
  (`MCPlayerTorn.cfg`). `SingleInv` adds that what `ToSaveData` has copied so far is
  what the player still has (`CopiedSoFar`), and that a save which began inside a gain with
  a level-up due is `cut`.

### AccountsProofs (assumes `AccountsAssumption`: finitely many names, at least one moment)

* `AccountsStayApart`, `SavesStayWhole`, `ProgressStaysSaved`, `WhispersArrive`, from

      IInv == TypeOK /\ ThreadsSound /\ SessionsSound /\ TransactionsSound
                     /\ AccountsNumbered /\ OneSession /\ SavesSound /\ LocationsSound

  `TransactionsSound`: the writer's `draft` differs from `file` in the rows of its
  session's account only, so what others read and what a crash leaves is one thing.
  `AccountsNumbered`: ids are given out in order, and between `INSERT` and
  `last_insert_rowid` the connection's last row is its own account, whatever other
  servers insert. `SavesSound` says what the tables and the player have before each
  statement of a load and of a save, for accounts that are `Undisturbed`: not contested,
  no statement refused (`SelectSees`: a `SELECT` that misses rows disturbs its account). `LocationsSound`: Redis has the location from `SetLoc` to `DelLoc`.
* One lemma for each group of statements, and shared lemmas for what a statement finds
  (`Handling`, `ViewsFile`) and what it leaves to the others.

### RoomProofs (assumes `RoomAssumption`: the walls and the spawn cells are on the map, the spawn cells free and apart; nothing of the entry)

* `MonstersAreKept`, `CreaturesKeepApart`, `NoChaseBeyondLeash`, `PathsStaySound`, from

      IInv == TypeOK /\ Counted /\ CreaturesApart /\ LeashHolds /\ AllUpdated

  `AllUpdated` (between ticks nothing is left to update) keeps a death by sword or staff
  out of the list a tick goes through; within a tick the arrows come after the monsters
  (`UpdateArrowIs`), so theirs is no danger either. `CreaturesApart` needs that monsters step
  on cells they `CanGo`, which is what `FindPath` says of its path, not what the caller
  asks again. Of players it speaks as far as this room decides: one that is not `strayed`
  made its last step by this room's `CanGo`, or none since it was put on the entry.
* `FindPathSound` is that fact and all of `SoundPath`, for every finite set of free cells.
  It goes from the heap to the search to the end of the path:
  `HeapPushSound`, `HeapPopSound`: sifting keeps the order of the heap, and loses nothing
  but the first cell. The functions `visited` and `hole` exist because they are least
  fixed points (`VisitedExists`, `HoleExists`); what moves in a pop is one way down, since
  of two siblings one is chosen, and stops where the last cell is nearer.
  `Leads` is the invariant of `parent`: the ways back along it exist and go over free
  neighbours, nowhere twice. `Expanded` says that a cell which has left the heap has all
  its free neighbours entered, `Taken` that after `n` turns the entered cells are those in
  the heap and `n` more; with no more cells to enter than are free the search is over when
  the turns are (`SearchSound`). Then either the heap is empty and what is entered is
  closed, so all of `Reachable` is in it (`ReachedIn`), or the destination came first and
  nothing is nearer. `PathEndIn`: a best cell to end at exists, found by the least
  distance, then the next criterion, and so on.
* `SearchExists`, `SearchSound`, `ReachedExists`, `ReachedIn` go through turns and steps by
  least counterexample: the induction theorems of the library take an operator as a
  parameter, which no installed prover can instantiate.
* `NobodyNew`, `PeopleKeep`, `BecomesInv` make the argument once for the steps that remove
  or keep monsters, that move players, and that move a monster.

### Only model-checked

* `EverySendSettles`, `EveryPacketDelivered`, `MovesArrive`, `PopulationRecovers`: liveness
  under fairness is out of this prover's reach, as is anything with `ENABLED`.
* What `MCSpec` adds to the first states of `GameWorld`. In multi mode nothing is claimed
  of `SavedWasHeld`, which is violated there (section 5), or of `ExpShortOfNext`.

No module has a `RECURSIVE` operator, so none is barred from proofs by that.

---------------------------------------------------------------------------

## 5. What the models found

1. **A `Party*` outlives its party** (run party_pointer; `Server/PartyManager.cpp:82`).
   `GetParty` looks up under the lock and returns a pointer that callers follow after
   the unlock. A worker's `OnDisconnected` can disband the party in between.
   `src/README.md:208` calls the manager thread safe by its lock.
2. **A dungeon nobody enters is never released** (world_dungeon;
   `Server/GameRoom.cpp:358`). `Handle_C_ChangeMap` creates the instance before it
   knows who moves. Two requests of one leader in one queue: the second finds nobody
   in the room to move, and the removal is only ever asked for by a leave.
   `src/README.md:45,123` say instances at 0 players are released.
3. **A ghost in the town** (world_ghost; `Server/ServerPacketHandler.cpp:457`). A
   connection that closes between the login and its `EnterRoom` job has no room and no
   player yet in `OnDisconnected`; the job then puts the player into the town for good.
   `Server/GameSession.cpp:76` says "leave the room" of that place.
4. **A monster that never comes home** (path_home; `Server/GameRoom.cpp:592`). `FindPath`
   orders its open cells by the distance to the goal alone and is asked anew at every
   step. Of two neighbouring tiles each can be the first step of the other's path: in the
   run a monster walks between (2,1) and (2,2) for ever with the way home free.
   `src/README.md:178` says A*, with which the rest of a path is one step shorter each time.

Met on the way, with no document to hold them against (so no run, see "hazards"):

* **A party of one**: `Handle_C_PartyAnswer` (`Server/ServerPacketHandler.cpp:304-339`) takes
  any inviter id, and an acceptor that names itself founds a party nobody else is in
  (`alone`). `CreateParty` also takes the id of nobody.
* `GoneFromParties` of `PartyHandlers` does not hold: an invitation can be accepted after
  the inviter is gone, and `CreateParty` makes a party whose leader nobody removes.
* A `WSARecv` that fails with a code other than the three reset codes leaves a
  connected session that never receives again.
* A `WSASend` that fails so leaves what was queued meanwhile to the next `Send`.
* A link to the chat server that is sent to before its connection is there
  (`ServerCore/Session.cpp:155`) keeps `_sendRegistered` and never sends (`early`).
* A player killed by another player is removed without `LeaveRoom`: its dungeon's count is
  not looked at, and its logout neither saves nor leaves the party. `OnlinePresent` and
  `LeftDungeonRemoved` except slain players by name, so no property catches it;
  `src/README.md:146` promises the save at logout without that exception.
* A `C_Move` queued on the old room and run after `EnterRoom` walks a player by the old
  room's map (`Server/GameRoom.cpp:241`), into walls and monsters of the new one (`strayed`).
* The entry (5,5) is a wall in the dungeon's map (`Resources/Tilemap/Tilemap_02.txt`); a
  player is put into it, and can walk out.
* A monster strikes a target that is in another room, when the coordinates there suit
  (`Server/Monster.cpp:72,147`): the weak pointer still locks, and nobody compares rooms.
* A respawn at a random cell makes that cell the new home: homes drift.
* `EnterRoom` puts a player at (5,5) whoever stands there: `CreaturesApart` excepts that
  cell by name. `GetRandomEmptyCellPos` does not return on a full map.
* `CanUseSkill` (`Server/GameRoom.cpp:746`) is never called.
* **A torn save** (`Server/GameSession.cpp:26`). In multi mode `ToSaveData` copies the player
  on a worker while the game thread equips: an item is saved twice or not at all
  (`MCPlayerTorn.cfg`). In single mode run player shows the save is exact.
* **A broadcaster that waits for itself** (`Server/GameSessionManager.cpp:25`): a `WSASend` that
  fails at once inside `Broadcast` disconnects the session on this thread, and
  `OnDisconnected` takes the lock that `Broadcast` holds. From then on nobody logs on or off.
* **A null service** (`Server/ChatConnector.cpp:106`): `TryReconnect` replaces the service while
  the old link is connecting or disconnecting, whose `GetService()` is then null;
  `_lastTryAt` is 0, so the first attempt comes at the first turn of the loop, while
  `Connect`'s is still on its way. A link that is sent to between `_connected.store` and
  `AddSession` (`ServerCore/Session.cpp:217-220`) can be released before it is added.
  `OneReceiver` names both as `Stuck`.
* **Side effects inside `assert`**: `ReleaseSession`'s erase (`ServerCore/Service.cpp:45`; the mutant
  of `ListsAgree`) and `service->Start()` (`Server/Server.cpp:83`) are gone in a build with
  `NDEBUG`, which the project's Release configurations define.
* **A save that is partly refused** (`Server/DBManager.cpp:232`): while another server writes,
  SQLite refuses a statement; the rest of the save is committed (`refused`).
* **A player that could not be read** (`Server/DBManager.cpp:128-132`): a refused `SELECT` is
  taken for a new player, which is saved over the old one (`refused`).
* **Two logins of one account** (`Server/ServerPacketHandler.cpp:430`): the second loads what
  the first has not saved yet, and the last logout wins; both have one location
  (`contested`).
* **A location left behind** (`abandoned`): a crash, a player slain by another one, and a
  connection that closes before `EnterRoom` leave `player:loc`, and whispers to that name are
  lost without a notice until its next login.
* The service's `_maxSessionCount` of 100 is looked at by nobody when it accepts.

---------------------------------------------------------------------------

## 6. What is not modelled

* **Not in scope**: logging, rendering and UI of the client, the load generator, vendored
  SQLite and protobuf, generated message classes, CSV/JSON parsing at start, thin
  wrappers of Winsock and `std::thread`, byte layout of packets.
* **Abstracted**: names and texts of messages; who is notified of what; positions, except
  in `RoomSimulation`; hit points and the arithmetic of damage; deadlines of the tick; map
  data; the level and item tables are
  constants with the assumptions the code relies on (levels beyond the first cost
  experience, weapons and armor do not stack).
* **Undefined behaviour**: a rehash of `_dungeonInstances` under its running
  iterator, and a race on `session->gameRoom` (a `weak_ptr` written by the game thread
  and read by workers), have outcomes that no state here represents; the models take
  both visiting orders of a new dungeon and either value of the reference.
* **Reference counts**: rooms, objects and sessions refer to each other by `shared_ptr`;
  whether a cycle frees memory is not a state of these models. Whether a weak
  pointer still locks is (`HasPlayer`).
* **Parameters of the environment**: a session logs in once (`GameWorld`, `Accounts`), one
  player object per account (`PlayerItems`), a peer that frames its packets
  (`RecvStream`): a header of size 0 keeps the worker in the framing loop for ever; a
  client that shoots in one of the four directions (`RoomSimulation`): `Arrow.cpp:83` indexes
  `deltaXY` by whatever direction the packet had. Everything else a client may send, it may
  send in any order and with any ids, as `src/README.md:69` takes input for a mere suggestion.
* **Two workers on one SQLite connection** (multi mode): their statements share one
  transaction and one `last_insert_rowid`; `Accounts` has one thread for each connection.
* **Failing reads** of game.db for another reason than a write of another server (a broken
  file, no memory): they look the same as those modelled, and no history would name them.
* **The ways to the chat server and Redis**: a whisper needs the link, which may be down
  (`ChatConnector.cpp:122-126` then drops it), and a subscriber that was started before
  `GServerAddr` was set (`Server.cpp:71,74`) listens to no address; `Accounts` has both up.
* **Chat** beyond whispers: global and party messages are relayed without state
  of the server's own; the chat server's own session set; the ranking; what
  `CombatSystem::DistributeExp` gives to each member of a party (arithmetic).
* **Handed over from module to module**: `Connections` has no sends in flight
  (`SendPipeline`), no bytes (`RecvStream`); `OnDisconnected` is there the removal from the
  manager, and its party, room and save parts are in `PartyHandlers`, `GameWorld`, `Accounts`.

### How much of the repository this is

Of the repository's million lines nearly all are vendored or generated: SQLite alone is
223 000, the protobuf headers and sources several hundred thousand. A share of all lines
says little here; the table of section 1 and the components of `PROJECT.json` say which
of the program's own parts are modelled. The program's own server code (ServerCore, Server and
ChatServer without generated files) is some 7 800 lines.

---------------------------------------------------------------------------

## 7. Plan

Done: the send path with its proofs, the receive path, the party manager and handlers
with their proofs, the world of rooms and dungeons, the player, the tick of a room with
its path search, the life of connections with the link to the chat server, accounts and
their saves across servers.

Proved: every safety property of the passing runs, for all values of the constants. What is
left to prove is out of the prover's reach (section 4, "Only model-checked"). What is left
of the code is listed in section 6.
