------------------------------ MODULE Accounts ------------------------------
(***************************************************************************)
(* Accounts, their saved players and where players are: Handle_C_Login and *)
(* GameSession::OnDisconnected with DBManager, SQL statement by SQL        *)
(* statement, over game.db, and player:loc in Redis, by which the          *)
(* ChatServer routes a whisper.                                            *)
(*                                                                         *)
(* Several game servers run, in single mode: a server is one thread, and   *)
(* what it does in one handler interleaves with the other servers.  They   *)
(* are started from one directory: each has its own SQLite connection to   *)
(* the same file, without a busy handler.  A server may crash and start    *)
(* again; Redis and the file stay.                                         *)
(*                                                                         *)
(* What a player has is the number of a moment: everything of a later      *)
(* moment is progress on an earlier one.  A save writes it to three tables.*)
(* A session logs in once; SQLite and Redis are modelled by what DBManager *)
(* asks of them.                                                           *)
(***************************************************************************)
EXTENDS Naturals, FiniteSets

CONSTANTS
  Servers,             \* game server processes
  Names,               \* usernames
  Sessions,            \* bound: connections at a time
  MaxMoment,           \* bound: moments of a player's life
  MaxLogins,           \* bound: C_Login packets handled
  Nobody               \* no server, no session, no name

ASSUME AccountsAssumption ==
  /\ MaxMoment \in Nat \ {0} /\ MaxLogins \in Nat
  /\ IsFiniteSet(Names)
  /\ Nobody \notin Servers \cup Names \cup Sessions

Ids == 1 .. Cardinality(Names)
Tables == {"players", "inventory", "equipment"}
NoRows == [table \in Tables |-> 0]

\* Rows of two moments in one table.
Mixed == MaxMoment + 1

VARIABLES
  file,                \* game.db: accounts [Names -> 0 or id], saved [Ids -> rows]
  draft,               \* the same as the connection that writes sees it
  writer,              \* whose transaction holds the write lock of game.db
  inTransaction,       \* servers between a BEGIN and its COMMIT
  lastRowid,           \* sqlite3_last_insert_rowid of each connection
  state,               \* sessions: free (or not logged in), login, queued
                       \* (for EnterRoom), playing, slain
  server, name,        \* of each session
  accountId,           \* _accountId of each session
  data,                \* what the player of each session has
  loc,                 \* Redis: player:loc of each name
  at, session,         \* of each server: its statement, the session it works for
  logins,              \* C_Login packets handled so far
  contested,           \* history: names with two sessions at a time
  refused,             \* history: accounts a statement of whose load or save was
                       \* refused
  abandoned            \* history: names whose player went without OnDisconnected's DEL

db == <<file, draft, writer, inTransaction, lastRowid>>
sessions == <<state, server, name, accountId, data>>
thread == <<at, session>>
history == <<logins, contested, refused, abandoned>>
vars == <<db, sessions, loc, thread, history>>

Init ==
  /\ file = [accounts |-> [n \in Names |-> 0], saved |-> [i \in Ids |-> NoRows]]
  /\ draft = file /\ writer = Nobody /\ inTransaction = {}
  /\ lastRowid = [v \in Servers |-> 0]
  /\ state = [s \in Sessions |-> "free"]
  /\ server = [s \in Sessions |-> Nobody]
  /\ name = [s \in Sessions |-> Nobody]
  /\ accountId = [s \in Sessions |-> 0]
  /\ data = [s \in Sessions |-> NoRows]
  /\ loc = [n \in Names |-> Nobody]
  /\ at = [v \in Servers |-> "idle"]
  /\ session = [v \in Servers |-> Nobody]
  /\ logins = 0 /\ contested = {} /\ refused = {} /\ abandoned = {}

-----------------------------------------------------------------------------
(* Statements *)

\* What a SELECT of server v sees.
View(v) == IF writer = v THEN draft ELSE file

\* v runs the statement st for its session, and goes on with next.
Step(v, st, next) ==
  /\ at[v] = st
  /\ at' = [at EXCEPT ![v] = next] /\ UNCHANGED session

\* v ends its handler.
Idle(v) ==
  /\ at' = [at EXCEPT ![v] = "idle"]
  /\ session' = [session EXCEPT ![v] = Nobody]

\* Another connection writes: SQLite answers SQLITE_BUSY at once.
Busy(v) == writer \notin {Nobody, v}

\* A statement of v that writes new, inside a transaction or by itself.
Write(v, new) ==
  /\ IF v \in inTransaction
     THEN draft' = new /\ writer' = v /\ UNCHANGED file
     ELSE file' = new /\ draft' = new /\ UNCHANGED writer
  /\ UNCHANGED inTransaction

-----------------------------------------------------------------------------
(* Sessions *)

\* The session is over; what it refers to goes with it.
Free(ss) ==
  /\ state' = [s \in Sessions |-> IF s \in ss THEN "free" ELSE state[s]]
  /\ server' = [s \in Sessions |-> IF s \in ss THEN Nobody ELSE server[s]]
  /\ name' = [s \in Sessions |-> IF s \in ss THEN Nobody ELSE name[s]]
  /\ accountId' = [s \in Sessions |-> IF s \in ss THEN 0 ELSE accountId[s]]
  /\ data' = [s \in Sessions |-> IF s \in ss THEN NoRows ELSE data[s]]

\* Jobs of the room, which v runs between two handlers: EnterRoom, what the player
\* goes through, and its death by another player's hand.
EnterRoom(v, s) ==
  /\ at[v] = "idle" /\ server[s] = v /\ state[s] = "queued"
  /\ state' = [state EXCEPT ![s] = "playing"]
  /\ UNCHANGED <<db, server, name, accountId, data, loc, thread, history>>

Play(v, s) ==
  /\ at[v] = "idle" /\ server[s] = v /\ state[s] = "playing"
  /\ data[s]["players"] < MaxMoment
  /\ data' = [data EXCEPT ![s] = [table \in Tables |-> data[s]["players"] + 1]]
  /\ UNCHANGED <<db, state, server, name, accountId, loc, thread, history>>

Slain(v, s) ==
  /\ at[v] = "idle" /\ server[s] = v /\ state[s] = "playing"
  /\ state' = [state EXCEPT ![s] = "slain"]
  /\ UNCHANGED <<db, server, name, accountId, data, loc, thread, history>>

-----------------------------------------------------------------------------
(* Handle_C_Login *)

Login(v, s, n) ==
  /\ at[v] = "idle" /\ state[s] = "free"
  /\ logins < MaxLogins /\ logins' = logins + 1
  /\ at' = [at EXCEPT ![v] = "findAccount"]
  /\ session' = [session EXCEPT ![v] = s]
  /\ state' = [state EXCEPT ![s] = "login"]
  /\ server' = [server EXCEPT ![s] = v]
  /\ name' = [name EXCEPT ![s] = n]
  /\ contested' =
       IF \E other \in Sessions : name[other] = n
       THEN contested \cup {n} ELSE contested
  /\ UNCHANGED <<db, accountId, data, loc, refused, abandoned>>

LoggedInAs(v, id) == accountId' = [accountId EXCEPT ![session[v]] = id]

\* What a SELECT of v may find of what is there (0: no row): one that fails, as
\* another connection commits, looks like one that finds nothing.
Found(v, there) == {there} \cup (IF Busy(v) THEN {0} ELSE {})

\* FindOrCreateAccount: SELECT.
FindAccount(v) ==
  /\ at[v] = "findAccount"
  /\ \E found \in Found(v, View(v).accounts[name[session[v]]]) :
       /\ Step(v, "findAccount", IF found = 0 THEN "createAccount" ELSE "hasPlayerData")
       /\ IF found = 0 THEN UNCHANGED accountId ELSE LoggedInAs(v, found)
  /\ UNCHANGED <<db, state, server, name, data, loc, history>>

\* INSERT with AUTOINCREMENT; the username is unique.
CreateAccountWith(v, unchecked) ==
  LET n == name[session[v]]
      id == Cardinality({m \in Names : View(v).accounts[m] # 0}) + 1
      fails == Busy(v) \/ View(v).accounts[n] # 0
  IN  /\ at[v] = "createAccount"
      /\ IF fails
         THEN UNCHANGED db
         ELSE /\ Write(v, [View(v) EXCEPT !.accounts[n] = id])
              /\ lastRowid' = [lastRowid EXCEPT ![v] = id]
      /\ IF fails /\ ~unchecked
         THEN Free({session[v]}) /\ Idle(v)
         ELSE Step(v, "createAccount", "lastInsertRowid") /\ UNCHANGED sessions
      /\ UNCHANGED <<loc, history>>

\* Variant: the result of the INSERT is not looked at.
CreateAccountUnchecked(v) == CreateAccountWith(v, TRUE)

CreateAccount(v) == CreateAccountWith(v, FALSE)

LastInsertRowid(v) ==
  /\ at[v] = "lastInsertRowid"
  /\ IF lastRowid[v] = 0
     THEN Free({session[v]}) /\ Idle(v)
     ELSE /\ Step(v, "lastInsertRowid", "hasPlayerData")
          /\ LoggedInAs(v, lastRowid[v])
          /\ UNCHANGED <<state, server, name, data>>
  /\ UNCHANGED <<db, loc, history>>

\* A SELECT for the player of the session found this much of what is there.
SelectRefused(v, there, found) ==
  /\ refused' = IF found = there THEN refused ELSE refused \cup {accountId[session[v]]}
  /\ UNCHANGED <<logins, contested, abandoned>>

\* A new player is at its first moment; so is one whose rows could not be read, and
\* it is saved over the old one.
HasPlayerData(v) ==
  LET s == session[v]
      there == View(v).saved[accountId[s]]["players"]
  IN  /\ at[v] = "hasPlayerData"
      /\ \E found \in Found(v, there) :
           /\ Step(v, "hasPlayerData", IF found # 0 THEN "load players" ELSE "begin")
           /\ data' = [data EXCEPT ![s] = IF found # 0 THEN NoRows ELSE [table \in Tables |-> 1]]
           /\ SelectRefused(v, there, found)
      /\ UNCHANGED <<db, state, server, name, accountId, loc>>

\* LoadPlayerData: one SELECT for each table; without the row of players there is no
\* other.  Its result is not looked at.
Load(v, table, st, next) ==
  LET s == session[v]
      there == View(v).saved[accountId[s]][table]
  IN  /\ at[v] = st
      /\ \E found \in Found(v, there) :
           /\ Step(v, st, IF table = "players" /\ found = 0 THEN "enter" ELSE next)
           /\ data' = [data EXCEPT ![s][table] = found]
           /\ SelectRefused(v, there, found)
      /\ UNCHANGED <<db, state, server, name, accountId, loc>>

\* Variant: the equipment is not loaded.
LoadPlayerDataShort(v) ==
  \/ Load(v, "players", "load players", "load inventory")
  \/ Load(v, "inventory", "load inventory", "enter")

LoadPlayerData(v) ==
  \/ Load(v, "players", "load players", "load inventory")
  \/ Load(v, "inventory", "load inventory", "load equipment")
  \/ Load(v, "equipment", "load equipment", "enter")

\* PushJob of EnterRoom.
QueueEnterRoom(v) ==
  /\ Step(v, "enter", "setLoc")
  /\ state' = [state EXCEPT ![session[v]] = "queued"]
  /\ UNCHANGED <<db, server, name, accountId, data, loc, history>>

SetLoc(v) ==
  LET n == name[session[v]]
  IN  /\ at[v] = "setLoc"
      /\ loc' = [loc EXCEPT ![n] = v]
      /\ abandoned' = abandoned \ {n}
      /\ Idle(v)
      /\ UNCHANGED <<db, sessions, logins, contested, refused>>

-----------------------------------------------------------------------------
(* SavePlayerData, which looks at no result *)

\* Variant: each statement commits by itself.
BeginNothing(v) ==
  /\ Step(v, "begin", "save players")
  /\ UNCHANGED <<db, sessions, loc, history>>

Begin(v) ==
  /\ Step(v, "begin", "save players")
  /\ inTransaction' = inTransaction \cup {v}
  /\ UNCHANGED <<file, draft, writer, lastRowid, sessions, loc, history>>

\* A statement that writes rows to table, or is refused.
SaveRows(v, st, next, table, rows) ==
  LET id == accountId[session[v]]
  IN  /\ Step(v, st, next)
      /\ IF Busy(v)
         THEN refused' = refused \cup {id} /\ UNCHANGED <<file, draft, writer, inTransaction>>
         ELSE Write(v, [View(v) EXCEPT !.saved[id][table] = rows]) /\ UNCHANGED refused
      /\ UNCHANGED <<lastRowid, sessions, loc, logins, contested, abandoned>>

\* The INSERTs of a save set last_insert_rowid too; nobody reads it before the next
\* account is created.
SavePlayers(v) ==
  /\ SaveRows(v, "save players", "delete inventory", "players", data[session[v]]["players"])

Delete(v, table, st, next) ==
  /\ SaveRows(v, st, next, table, 0)

\* Slots whose rows were not deleted keep them: the INSERT breaks the primary key.
Insert(v, table, st, next) ==
  LET there == View(v).saved[accountId[session[v]]][table]
      new == data[session[v]][table]
  IN  /\ SaveRows(v, st, next, table, IF there \in {0, new} THEN new ELSE Mixed)

\* The login of a new account goes on with EnterRoom, OnDisconnected with DEL.
Commit(v) ==
  /\ Step(v, "commit", IF state[session[v]] = "login" THEN "enter" ELSE "delLoc")
  /\ inTransaction' = inTransaction \ {v}
  /\ IF writer = v THEN file' = draft /\ writer' = Nobody ELSE UNCHANGED <<file, writer>>
  /\ UNCHANGED <<draft, lastRowid, sessions, loc, history>>

SavePlayerData(v) ==
  \/ Begin(v) \/ SavePlayers(v)
  \/ Delete(v, "inventory", "delete inventory", "insert inventory")
  \/ Insert(v, "inventory", "insert inventory", "delete equipment")
  \/ Delete(v, "equipment", "delete equipment", "insert equipment")
  \/ Insert(v, "equipment", "insert equipment", "commit")
  \/ Commit(v)

-----------------------------------------------------------------------------
(* OnDisconnected, a crash *)

\* A player that is in no room yet, or slain, is not found: nothing is saved and
\* the location stays.
Leave(v, s) ==
  /\ at[v] = "idle" /\ server[s] = v
  /\ \/ /\ state[s] = "playing"
        /\ at' = [at EXCEPT ![v] = "begin"]
        /\ session' = [session EXCEPT ![v] = s]
        /\ UNCHANGED <<sessions, abandoned>>
     \/ /\ state[s] \in {"queued", "slain"}
        /\ Free({s})
        /\ abandoned' = abandoned \cup {name[s]}
        /\ UNCHANGED thread
  /\ UNCHANGED <<db, loc, logins, contested, refused>>

EndOfSession(v) ==
  /\ at[v] = "delLoc"
  /\ Free({session[v]})
  /\ Idle(v)
  /\ UNCHANGED <<db, history>>

\* Variant: the location is not deleted.
LeaveLoc(v) == EndOfSession(v) /\ UNCHANGED loc

DelLoc(v) == EndOfSession(v) /\ loc' = [loc EXCEPT ![name[session[v]]] = Nobody]

\* The process is gone; SQLite rolls its transaction back.
Crash(v) ==
  LET lost == {s \in Sessions : server[s] = v}
  IN  /\ lost # {}
      /\ Free(lost)
      /\ abandoned' = abandoned \cup {name[s] : s \in lost}
      /\ Idle(v)
      /\ inTransaction' = inTransaction \ {v}
      /\ writer' = IF writer = v THEN Nobody ELSE writer
      /\ lastRowid' = [lastRowid EXCEPT ![v] = 0]
      /\ draft' = IF writer = v THEN file ELSE draft
      /\ UNCHANGED <<file, loc, logins, contested, refused>>

-----------------------------------------------------------------------------
(* Whispers *)

Whereabouts(n) == {s \in Sessions : name[s] = n}

\* Sessions FindByPlayerName can find, on any server: OnDisconnected has not begun.
Present(n) ==
  {s \in Whereabouts(n) : state[s] = "playing" /\ session[server[s]] # s}

FindByPlayerName(v, n) == {s \in Present(n) : server[s] = v}

\* Handle_SS_RelayChat and the subscriber of the server it publishes to: who gets what
\* comes of a whisper, the whisper or the notice that there is no such player.
Whisper(from, to) ==
  IF loc[to] # Nobody THEN FindByPlayerName(loc[to], to) ELSE FindByPlayerName(loc[from], from)

-----------------------------------------------------------------------------
Next ==
  \E v \in Servers :
    \/ \E s \in Sessions :
         \/ EnterRoom(v, s) \/ Play(v, s) \/ Slain(v, s) \/ Leave(v, s)
         \/ \E n \in Names : Login(v, s, n)
    \/ FindAccount(v) \/ CreateAccount(v) \/ LastInsertRowid(v)
    \/ HasPlayerData(v) \/ LoadPlayerData(v) \/ QueueEnterRoom(v) \/ SetLoc(v)
    \/ SavePlayerData(v) \/ DelLoc(v)
    \/ Crash(v)

Spec == Init /\ [][Next]_vars

-----------------------------------------------------------------------------
(* Properties *)

Rows == [Tables -> 0 .. Mixed]
DB == [accounts : [Names -> Ids \cup {0}], saved : [Ids -> Rows]]
States == {"free", "login", "queued", "playing", "slain"}

TypeOK ==
  /\ file \in DB /\ draft \in DB
  /\ writer \in Servers \cup {Nobody} /\ inTransaction \subseteq Servers
  /\ lastRowid \in [Servers -> Ids \cup {0}]
  /\ state \in [Sessions -> States]
  /\ server \in [Sessions -> Servers \cup {Nobody}]
  /\ name \in [Sessions -> Names \cup {Nobody}]
  /\ accountId \in [Sessions -> Ids \cup {0}]
  /\ data \in [Sessions -> Rows]
  /\ loc \in [Names -> Servers \cup {Nobody}]
  /\ session \in [Servers -> Sessions \cup {Nobody}]
  /\ logins \in 0 .. MaxLogins
  /\ contested \subseteq Names /\ refused \subseteq Ids /\ abandoned \subseteq Names

\* Names whose loads and saves went one after the other, and all through.
Undisturbed(n) == n \notin contested /\ file.accounts[n] \notin refused

\* Two servers may create accounts, or the same account, at once: nobody is logged in
\* to another one's account, and no two names share one.
AccountsApart ==
  /\ TypeOK
  /\ \A s \in Sessions : accountId[s] # 0 => file.accounts[name[s]] = accountId[s]
  /\ \A m, n \in Names :
       m # n /\ file.accounts[m] # 0 => file.accounts[m] # file.accounts[n]

\* However a save is interrupted, by a crash at any statement, the three tables have
\* one moment of the player.  (Not if SQLite refused a statement, since another server
\* wrote: the rest of the save is committed.)
SavedWhole ==
  \A n \in Names :
    file.accounts[n] # 0 /\ Undisturbed(n) =>
      \A table \in Tables :
        file.saved[file.accounts[n]][table] = file.saved[file.accounts[n]]["players"]

\* What a player has is never behind what is saved of it, in any table, and is all
\* saved when its OnDisconnected goes on after the save.
ProgressSaved ==
  \A s \in Sessions :
    state[s] \in {"queued", "playing", "slain"} /\ Undisturbed(name[s]) =>
      \A table \in Tables :
        LET saved == file.saved[accountId[s]][table]
        IN  /\ saved <= data[s][table]
            /\ at[server[s]] = "delLoc" /\ session[server[s]] = s => saved = data[s][table]

\* A whisper comes to its target, wherever it plays, or else its sender learns that
\* there is none.  (It is lost if the target is coming or going, or has left its
\* location behind: when its server crashed, or it was slain, or closed before
\* EnterRoom.  A name that plays twice has one location.)
WhisperArrives ==
  \A from, to \in Names \ contested :
    Present(from) # {} /\ Whereabouts(to) = Present(to) /\ to \notin abandoned =>
      Whisper(from, to) = IF Present(to) # {} THEN Present(to) ELSE Present(from)
=============================================================================
