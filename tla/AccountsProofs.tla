---------------------------- MODULE AccountsProofs ----------------------------
(***************************************************************************)
(* Proofs about accounts, saved players and whispers, for any number of     *)
(* servers, names, connections and moments.                                 *)
(***************************************************************************)
EXTENDS Accounts, FiniteSetTheorems, TLAPS

Saving == {"save players", "delete inventory", "insert inventory", "delete equipment",
           "insert equipment", "commit"}
Loading == {"hasPlayerData", "load players", "load inventory", "load equipment"}
Statements == Saving \cup Loading \cup
  {"idle", "findAccount", "createAccount", "lastInsertRowid", "begin", "enter", "setLoc",
   "delLoc"}

\* The statement that the session's server is before for the session.
Statement(s) == IF session[server[s]] = s THEN at[server[s]] ELSE "idle"

Whole(rows) == \A table \in Tables : rows[table] = rows["players"]

\* What there is of a session when its handler is before the statement st.
Handled(st, status, id) ==
  /\ st \in {"findAccount", "createAccount", "lastInsertRowid"} => status = "login" /\ id = 0
  /\ st \in Loading \cup {"enter"} => status = "login" /\ id # 0
  /\ st \in Saving \cup {"begin"} => status \in {"login", "playing"} /\ id # 0
  /\ st = "setLoc" => status = "queued"
  /\ st = "delLoc" => status = "playing"

ThreadsSound ==
  \A v \in Servers :
    /\ at[v] = "idle" <=> session[v] = Nobody
    /\ at[v] # "idle" =>
         /\ server[session[v]] = v
         /\ Handled(at[v], state[session[v]], accountId[session[v]])

SessionsSound ==
  \A s \in Sessions :
    /\ state[s] = "free" => server[s] = Nobody /\ name[s] = Nobody /\ accountId[s] = 0
    /\ state[s] # "free" => server[s] \in Servers /\ name[s] \in Names
    /\ state[s] = "login" => session[server[s]] = s
    /\ state[s] \in {"queued", "playing", "slain"} => accountId[s] # 0

\* Who is inside a transaction and has written: the only difference between the
\* draft and the file is in the rows of its account.
TransactionsSound ==
  /\ inTransaction = {v \in Servers : at[v] \in Saving}
  /\ writer # Nobody => writer \in inTransaction /\ at[writer] # "save players"
  /\ \A v \in Servers :
       writer = v =>
         /\ draft.accounts = file.accounts
         /\ \A i \in Ids : i # accountId[session[v]] => draft.saved[i] = file.saved[i]

\* Ids are given out one after the other, and an id without account has no rows.
Registered == {m \in Names : file.accounts[m] # 0}
AccountsNumbered ==
  /\ \A n \in Names : file.accounts[n] <= Cardinality(Registered)
  /\ \A m, n \in Names :
       m # n /\ file.accounts[m] # 0 => file.accounts[m] # file.accounts[n]
  /\ \A i \in Ids : (\A n \in Names : file.accounts[n] # i) => file.saved[i] = NoRows
  /\ \A s \in Sessions : accountId[s] # 0 => file.accounts[name[s]] = accountId[s]
  /\ \A v \in Servers :
       at[v] = "lastInsertRowid" =>
         lastRowid[v] # 0 /\ lastRowid[v] = file.accounts[name[session[v]]]

OneSession ==
  \A s, u \in Sessions :
    name[s] # Nobody /\ name[s] \notin contested /\ name[s] = name[u] => s = u

\* What a session has, what is saved of it and, if its server writes, the draft of that,
\* before the statement st.
AsPlayed(st, has, there, new, writes) ==
  /\ st = "load players" => \A table \in Tables : has[table] = 0
  /\ st \in {"load inventory", "load equipment"} => has["players"] = there["players"]
  /\ st = "load equipment" => has["inventory"] = there["inventory"]
  /\ st \notin Loading =>
       Whole(has) /\ \A table \in Tables : there[table] <= has[table]
  /\ st = "delLoc" => \A table \in Tables : there[table] = has[table]
  /\ st \in Saving \ {"save players"} => writes /\ new["players"] = has["players"]
  /\ st = "insert inventory" => new["inventory"] = 0
  /\ st \in {"delete equipment", "insert equipment", "commit"} =>
       new["inventory"] = has["inventory"]
  /\ st = "insert equipment" => new["equipment"] = 0
  /\ st = "commit" => new["equipment"] = has["equipment"]

SavesAsPlayed(s) ==
  AsPlayed(Statement(s), data[s], file.saved[accountId[s]], draft.saved[accountId[s]],
           writer = server[s])

\* So it is of every session whose account nobody else uses, if no statement of its
\* loads and saves was refused.
SavesSound ==
  /\ \A n \in Names : file.accounts[n] # 0 /\ Undisturbed(n) => Whole(file.saved[file.accounts[n]])
  /\ \A s \in Sessions : accountId[s] # 0 /\ Undisturbed(name[s]) => SavesAsPlayed(s)

\* Redis has the location of a player from SetLoc to DelLoc.
Located(s) ==
  state[s] \in {"queued", "playing", "slain"} /\ Statement(s) # "setLoc"
LocationsSound ==
  \A n \in Names \ contested :
    /\ \A s \in Sessions : name[s] = n /\ Located(s) => loc[n] = server[s]
    /\ n \notin abandoned /\ (\A s \in Sessions : name[s] = n => ~Located(s)) => loc[n] = Nobody

IInv ==
  /\ TypeOK /\ at \in [Servers -> Statements]
  /\ ThreadsSound
  /\ SessionsSound
  /\ TransactionsSound
  /\ AccountsNumbered
  /\ OneSession
  /\ SavesSound
  /\ LocationsSound

-----------------------------------------------------------------------------
(* Lemmas about handlers and statements *)

LEMMA Sorts ==
  /\ Ids \subseteq Nat \ {0} /\ 0 \notin Ids
  /\ Mixed \in Nat /\ NoRows \in Rows /\ Whole(NoRows)
  /\ \A table \in Tables : NoRows[table] = 0
  /\ \A d \in DB : d.accounts \in [Names -> Ids \cup {0}] /\ d.saved \in [Ids -> Rows]
<1>1. Cardinality(Names) \in Nat
  BY AccountsAssumption, FS_CardinalityType
<1>2. QED
  BY <1>1, AccountsAssumption DEF Ids, Mixed, NoRows, Rows, Whole, Tables, DB

\* The session a handler works for.
LEMMA Handling ==
  ASSUME IInv, NEW v \in Servers, at[v] # "idle"
  PROVE  /\ session[v] \in Sessions /\ server[session[v]] = v
         /\ name[session[v]] \in Names /\ state[session[v]] # "free"
         /\ Statement(session[v]) = at[v]
BY AccountsAssumption DEF IInv, TypeOK, ThreadsSound, SessionsSound, Handled, Statement

\* Outside a save, a server sees what is committed.
LEMMA ViewsFile ==
  ASSUME IInv, NEW v \in Servers, at[v] \notin Saving
  PROVE  writer # v /\ View(v) = file
BY AccountsAssumption DEF IInv, TypeOK, TransactionsSound, View

\* A session of an account has a name and a server.
LEMMA Known ==
  ASSUME IInv, NEW s \in Sessions, accountId[s] # 0 \/ state[s] # "free"
  PROVE  /\ name[s] \in Names /\ server[s] \in Servers /\ state[s] # "free"
         /\ accountId[s] # 0 => file.accounts[name[s]] = accountId[s]
BY DEF IInv, TypeOK, SessionsSound, AccountsNumbered

\* One statement of a handler: the other sessions are where they were.
LEMMA NextStatement ==
  ASSUME IInv, NEW v \in Servers, NEW st, NEW next, Step(v, st, next), st # "idle",
         server' = server, NEW s, s = session[v]
  PROVE  /\ Statement(s) = st /\ Statement(s)' = next
         /\ \A u \in Sessions : u # s /\ state[u] # "free" =>
              Statement(u)' = Statement(u)
<1>1. at[v] = st /\ at' = [at EXCEPT ![v] = next] /\ session' = session
  BY DEF Step
<1>2. session[v] \in Sessions /\ server[session[v]] = v
  BY <1>1, Handling
<1>3. at'[v] = next /\ \A w \in Servers : w # v => at'[w] = at[w]
  BY <1>1 DEF IInv
<1>4. \A u \in Sessions : state[u] # "free" => server[u] \in Servers
  BY Known
<1>5. QED
  BY <1>1, <1>2, <1>3, <1>4 DEF Statement

\* A handler that ends, or begins: the same.
LEMMA OtherStatements ==
  ASSUME IInv, NEW v \in Servers, NEW st, NEW s,
         at' = [at EXCEPT ![v] = st], session' = [session EXCEPT ![v] = s],
         NEW u \in Sessions, server[u] \in Servers, server'[u] = server[u], u # session[v], u # s
  PROVE  Statement(u)' = Statement(u)
BY DEF IInv, TypeOK, Statement

-----------------------------------------------------------------------------
(* Jobs of the room *)

\* EnterRoom, or the player's death: of all the invariant says only that it plays.
LEMMA StateKeeps ==
  ASSUME IInv, NEW v \in Servers, NEW s \in Sessions, EnterRoom(v, s) \/ Slain(v, s)
  PROVE  IInv'
<1>1. /\ at[v] = "idle" /\ session[v] # s /\ server[s] = v
      /\ \/ state[s] = "queued" /\ state' = [state EXCEPT ![s] = "playing"]
         \/ state[s] = "playing" /\ state' = [state EXCEPT ![s] = "slain"]
      /\ UNCHANGED <<db, server, name, accountId, data, loc, thread, history>>
  BY AccountsAssumption DEF EnterRoom, Slain, IInv, TypeOK, ThreadsSound
<1>2. TypeOK' /\ at' \in [Servers -> Statements]
  BY <1>1 DEF IInv, TypeOK, States, db, thread, history
<1>3. ThreadsSound'
  <2>1. ASSUME NEW w \in Servers, at[w] # "idle"
        PROVE  state'[session[w]] = state[session[w]]
    BY <1>1, <2>1, Handling DEF IInv, TypeOK
  <2>2. QED
    BY <1>1, <2>1 DEF IInv, ThreadsSound, thread
<1>4. SessionsSound'
  BY <1>1 DEF IInv, TypeOK, SessionsSound, thread
<1>5. TransactionsSound' /\ AccountsNumbered' /\ OneSession'
  BY ZenonT(60), <1>1 DEF IInv, TransactionsSound, AccountsNumbered, Registered, OneSession, db, thread,
       history
<1>6. \A u \in Sessions : Statement(u)' = Statement(u)
  BY <1>1 DEF Statement, thread
<1>7. SavesSound'
  <2>1. \A u \in Sessions : SavesAsPlayed(u)' <=> SavesAsPlayed(u)
    BY <1>1, <1>6 DEF SavesAsPlayed, db
  <2>2. QED
    BY <1>1, <2>1 DEF IInv, SavesSound, Undisturbed, Whole, db, history
<1>8. \A u \in Sessions : Located(u)' <=> Located(u)
  BY <1>1, <1>6 DEF IInv, TypeOK, Located
<1>9. LocationsSound'
  BY <1>1, <1>8 DEF IInv, LocationsSound, history
<1>10. QED
  BY <1>2, <1>3, <1>4, <1>5, <1>7, <1>9 DEF IInv

\* A moment of play: what is saved is an earlier one, and no save is going on.
LEMMA PlayKeeps ==
  ASSUME IInv, NEW v \in Servers, NEW s \in Sessions, Play(v, s)
  PROVE  IInv'
<1> DEFINE moment == data[s]["players"] + 1
<1>1. /\ at[v] = "idle" /\ server[s] = v /\ state[s] = "playing"
      /\ data[s]["players"] < MaxMoment
      /\ data' = [data EXCEPT ![s] = [table \in Tables |-> moment]]
      /\ UNCHANGED <<db, state, server, name, accountId, loc, thread, history>>
  BY DEF Play
<1>2. moment \in 0 .. Mixed /\ \A table \in Tables : data[s][table] \in 0 .. Mixed
  BY <1>1, AccountsAssumption DEF IInv, TypeOK, Rows, Tables, Mixed
<1>3. TypeOK' /\ at' \in [Servers -> Statements]
  <2>1. [table \in Tables |-> moment] \in Rows
    BY <1>2 DEF Rows
  <2>2. QED
    BY <1>1, <2>1 DEF IInv, TypeOK, db, thread, history
<1>4. /\ ThreadsSound' /\ SessionsSound' /\ TransactionsSound' /\ AccountsNumbered'
      /\ OneSession' /\ LocationsSound'
  <2>1. ThreadsSound' /\ SessionsSound' /\ OneSession'
    BY <1>1 DEF IInv, ThreadsSound, SessionsSound, OneSession, thread, history
  <2>2. TransactionsSound' /\ AccountsNumbered'
    BY <1>1 DEF IInv, TransactionsSound, AccountsNumbered, Registered, db, thread
  <2>3. \A u \in Sessions : Located(u)' <=> Located(u)
    BY <1>1 DEF Located, Statement, thread
  <2>4. QED
    BY <1>1, <2>1, <2>2, <2>3 DEF IInv, LocationsSound, history
<1>5. \A u \in Sessions : Statement(u)' = Statement(u)
  BY <1>1 DEF Statement, thread
<1>6. Statement(s) = "idle"
  BY <1>1, AccountsAssumption DEF IInv, TypeOK, ThreadsSound, Statement
<1>7. /\ \A table \in Tables : data'[s][table] = moment
      /\ \A u \in Sessions : u # s => data'[u] = data[u]
  BY <1>1 DEF IInv, TypeOK
<1>8. SavesSound'
  <2>1. ASSUME NEW u \in Sessions, accountId'[u] # 0, Undisturbed(name[u])'
        PROVE  SavesAsPlayed(u)'
    <3>1. SavesAsPlayed(u)
      BY <1>1, <2>1 DEF IInv, SavesSound, Undisturbed, db, history
    <3>2. CASE u # s
      BY <1>1, <1>5, <1>7, <3>1, <3>2 DEF SavesAsPlayed, Whole, db
    <3>3. CASE u = s
      <4>1. file.saved[accountId[s]] \in Rows
        BY ZenonT(60), <2>1, <3>3, <1>1, Sorts DEF IInv, TypeOK
      <4>2. \A table \in Tables : file.saved[accountId[s]][table] \in Nat
        BY <4>1, Sorts DEF Rows
      <4>3. \A table \in Tables : file.saved[accountId[s]][table] <= moment
        BY <4>2, <3>1, <3>3, <1>2, <1>6 DEF SavesAsPlayed, AsPlayed, Whole, Loading
      <4>4. Whole(data[s])'
        BY <1>7 DEF Whole, Tables
      <4>5. QED
        BY <1>1, <1>5, <1>6, <1>7, <4>3, <4>4, <3>3
          DEF SavesAsPlayed, AsPlayed, Loading, Saving, db
    <3>4. QED
      BY <3>2, <3>3
  <2>2. QED
    BY <1>1, <2>1 DEF IInv, SavesSound, Undisturbed, Whole, db, history
<1>9. QED
  BY <1>3, <1>4, <1>8 DEF IInv

-----------------------------------------------------------------------------
(* The login *)

\* Login takes a free session: it has no account yet, and no name played before it
\* unless the name is contested now.
LEMMA LoginKeeps ==
  ASSUME IInv, NEW v \in Servers, NEW s \in Sessions, NEW n \in Names, Login(v, s, n)
  PROVE  IInv'
<1>1. /\ at[v] = "idle" /\ state[s] = "free"
      /\ at' = [at EXCEPT ![v] = "findAccount"]
      /\ session' = [session EXCEPT ![v] = s]
      /\ state' = [state EXCEPT ![s] = "login"]
      /\ server' = [server EXCEPT ![s] = v]
      /\ name' = [name EXCEPT ![s] = n]
      /\ UNCHANGED <<db, accountId, data, loc, refused, abandoned>>
  BY DEF Login
<1>2. /\ contested \subseteq contested' /\ contested' \subseteq contested \cup {n}
      /\ n \notin contested' => \A other \in Sessions : name[other] # n
  BY DEF Login
<1>3. TypeOK' /\ at' \in [Servers -> Statements]
  <2>1. logins' \in 0 .. MaxLogins
    BY AccountsAssumption DEF Login, IInv, TypeOK
  <2>2. contested' \subseteq Names
    BY <1>2 DEF IInv, TypeOK
  <2>3. QED
    BY <1>1, <2>1, <2>2 DEF IInv, TypeOK, States, Statements, db
<1>4. /\ server[s] = Nobody /\ name[s] = Nobody /\ accountId[s] = 0
      /\ \A w \in Servers : session[w] # s
  <2>1. server[s] = Nobody /\ name[s] = Nobody /\ accountId[s] = 0
    BY <1>1 DEF IInv, SessionsSound
  <2>2. \A w \in Servers : session[w] # s
    BY <1>1, Handling, AccountsAssumption DEF IInv, ThreadsSound
  <2>3. QED
    BY <2>1, <2>2
<1>5. ThreadsSound'
  <2>1. ASSUME NEW w \in Servers, w # v
        PROVE  /\ at'[w] = at[w] /\ session'[w] = session[w]
               /\ at[w] # "idle" => /\ state'[session[w]] = state[session[w]]
                                    /\ server'[session[w]] = server[session[w]]
    BY <1>1, <1>4, <2>1, Handling DEF IInv, TypeOK
  <2>2. at'[v] = "findAccount" /\ session'[v] = s /\ state'[s] = "login" /\ server'[s] = v
    BY <1>1 DEF IInv, TypeOK
  <2>3. Handled("findAccount", "login", 0) /\ s # Nobody
    BY AccountsAssumption DEF Handled, Loading, Saving
  <2>4. QED
    BY <1>1, <1>4, <2>1, <2>2, <2>3 DEF IInv, ThreadsSound
<1>6. SessionsSound'
  <2>1. ASSUME NEW u \in Sessions, u # s
        PROVE  server'[u] = server[u] /\ name'[u] = name[u] /\ state'[u] = state[u]
    BY <1>1, <2>1 DEF IInv, TypeOK
  <2>2. session[v] = Nobody /\ \A w \in Servers : w # v => session'[w] = session[w]
    BY <1>1 DEF IInv, TypeOK, ThreadsSound
  <2>3. ASSUME NEW u \in Sessions, state'[u] = "login" PROVE session'[server'[u]] = u
    <3>1. CASE u = s
      BY <1>1, <3>1 DEF IInv, TypeOK
    <3>2. CASE u # s
      BY <1>1, <2>1, <2>2, <2>3, <3>2, AccountsAssumption DEF IInv, TypeOK, SessionsSound
    <3>3. QED
      BY <3>1, <3>2
  <2>4. state'[s] = "login" /\ server'[s] = v /\ name'[s] = n
    BY <1>1 DEF IInv, TypeOK
  <2>5. QED
    BY <1>1, <2>1, <2>3, <2>4 DEF IInv, SessionsSound
<1>7. TransactionsSound'
  <2>1. \A w \in Servers : at'[w] = IF w = v THEN "findAccount" ELSE at[w]
    BY <1>1 DEF IInv
  <2>2. \A w \in Servers : w # v => session'[w] = session[w]
    BY <1>1 DEF IInv, TypeOK
  <2>3. inTransaction' = {w \in Servers : at'[w] \in Saving}
    BY <1>1, <2>1 DEF IInv, TransactionsSound, Saving, db
  <2>4. writer # v
    BY <1>1, ViewsFile DEF Saving
  <2>5. writer # Nobody => writer \in inTransaction /\ writer \in Servers
    BY DEF IInv, TypeOK, TransactionsSound
  <2>6. (writer # Nobody => writer \in inTransaction /\ at[writer] # "save players")'
    BY <1>1, <2>1, <2>5 DEF IInv, TransactionsSound, db
  <2>7. ASSUME NEW w \in Servers, writer' = w
        PROVE  /\ draft'.accounts = file'.accounts
               /\ \A i \in Ids : i # accountId'[session'[w]] => draft'.saved[i] = file'.saved[i]
    <3>1. w # v /\ writer = w /\ session'[w] = session[w]
      BY <1>1, <2>2, <2>4, <2>7 DEF db
    <3>2. draft' = draft /\ file' = file /\ accountId' = accountId
      BY <1>1 DEF db
    <3>3. QED
      BY <3>1, <3>2 DEF IInv, TransactionsSound
  <2>8. QED
    BY <2>3, <2>6, <2>7 DEF TransactionsSound
<1>8. AccountsNumbered'
  <2>1. ASSUME NEW w \in Servers, at'[w] = "lastInsertRowid"
        PROVE  /\ at[w] = "lastInsertRowid" /\ session'[w] = session[w]
               /\ name'[session[w]] = name[session[w]]
    BY <1>1, <1>4, <2>1, Handling DEF IInv, TypeOK
  <2>2. \A u \in Sessions : accountId'[u] # 0 => name'[u] = name[u]
    BY <1>1, <1>4 DEF IInv, TypeOK
  <2>3. QED
    BY <1>1, <2>1, <2>2 DEF IInv, AccountsNumbered, Registered, db
<1>9. OneSession'
  BY <1>1, <1>2 DEF IInv, TypeOK, OneSession
<1>10. \A u \in Sessions : accountId[u] # 0 \/ state[u] # "free" =>
         /\ u # s /\ server[u] \in Servers /\ server'[u] = server[u] /\ name'[u] = name[u]
         /\ state'[u] = state[u]
         /\ Statement(u)' = Statement(u)
  <2>1. ASSUME NEW u \in Sessions, accountId[u] # 0 \/ state[u] # "free"
        PROVE  u # s /\ server[u] \in Servers
    BY <1>1, <1>4, <2>1, Known
  <2>2. ASSUME NEW u \in Sessions, u # s, server[u] \in Servers
        PROVE  server'[u] = server[u] /\ name'[u] = name[u] /\ state'[u] = state[u]
    BY <1>1, <2>2 DEF IInv, TypeOK
  <2>3. session[v] = Nobody
    BY <1>1 DEF IInv, ThreadsSound
  <2>4. ASSUME NEW u \in Sessions, u # s, server[u] \in Servers
        PROVE  Statement(u)' = Statement(u)
    <3>1. server'[u] = server[u] /\ u # session[v]
      BY <2>2, <2>3, <2>4, AccountsAssumption
    <3>2. QED
      BY <1>1, <2>4, <3>1 DEF Statement, IInv, TypeOK
  <2>5. QED
    BY <2>1, <2>2, <2>4
<1>11. SavesSound'
  <2>1. ASSUME NEW u \in Sessions, accountId'[u] # 0, Undisturbed(name[u])'
        PROVE  SavesAsPlayed(u)'
    <3>1. SavesAsPlayed(u)
      BY <1>1, <1>2, <1>10, <2>1 DEF IInv, SavesSound, Undisturbed, db
    <3>2. QED
      BY <1>1, <1>10, <2>1, <3>1 DEF SavesAsPlayed, db
  <2>2. QED
    BY <1>1, <1>2, <2>1 DEF IInv, SavesSound, Undisturbed, db
<1>12. LocationsSound'
  <2>1. ASSUME NEW u \in Sessions, Located(u)
        PROVE  Located(u)' /\ server'[u] = server[u] /\ name'[u] = name[u]
    BY <1>10, <2>1 DEF Located
  <2>2. ASSUME NEW u \in Sessions, Located(u)'
        PROVE  Located(u)
    BY <1>1, <1>10, <2>2 DEF Located, IInv, TypeOK
  <2>3. ASSUME NEW u \in Sessions
        PROVE  name'[u] = IF u = s THEN n ELSE name[u]
    BY <1>1 DEF IInv, TypeOK
  <2>4. ~Located(s)
    BY <1>1 DEF Located
  <2>5. QED
    BY <1>1, <1>2, <1>4, <2>1, <2>2, <2>3, <2>4, AccountsAssumption DEF IInv, LocationsSound
<1>13. QED
  BY <1>3, <1>5, <1>6, <1>7, <1>8, <1>9, <1>11, <1>12 DEF IInv

\* A statement of a handler that changes neither who plays nor where.
LEMMA GoesOn ==
  ASSUME IInv, NEW v \in Servers, NEW st, NEW next \in Statements, Step(v, st, next),
         st \notin {"idle", "setLoc"}, next \notin {"idle", "setLoc"},
         UNCHANGED <<state, server, name, loc, contested, abandoned>>,
         Handled(next, state[session[v]], accountId'[session[v]]),
         \A u \in Sessions : u # session[v] => accountId'[u] = accountId[u],
         state[session[v]] = "login" \/ accountId' = accountId
  PROVE  /\ at' \in [Servers -> Statements]
         /\ ThreadsSound' /\ SessionsSound' /\ OneSession' /\ LocationsSound'
<1>1. at[v] = st /\ at' = [at EXCEPT ![v] = next] /\ session' = session
  BY DEF Step
<1>2. /\ at' \in [Servers -> Statements] /\ at'[v] = next
      /\ \A w \in Servers : w # v => at'[w] = at[w]
  BY <1>1 DEF IInv
<1>3. session[v] \in Sessions /\ server[session[v]] = v
  BY <1>1, Handling
<1>4. ThreadsSound'
  <2>1. ASSUME NEW w \in Servers, w # v, at[w] # "idle"
        PROVE  session[w] \in Sessions /\ session[w] # session[v]
    BY <2>1, <1>3, Handling
  <2>2. QED
    BY <1>1, <1>2, <1>3, <2>1 DEF IInv, ThreadsSound
<1>5. SessionsSound'
  BY <1>1, <1>3 DEF IInv, SessionsSound
<1>6. OneSession'
  BY DEF IInv, OneSession
<1>7. ASSUME NEW u \in Sessions PROVE Located(u)' <=> Located(u)
  <2>1. CASE u = session[v]
    <3>1. Statement(u) = st /\ Statement(u)' = next
      BY <2>1, NextStatement
    <3>2. QED
      BY <3>1 DEF Located
  <2>2. CASE u # session[v]
    <3>1. PICK s : s = session[v]
      OBVIOUS
    <3>2. state[u] # "free" => Statement(u)' = Statement(u)
      BY <2>2, <3>1, NextStatement
    <3>3. QED
      BY <3>2 DEF Located
  <2>3. QED
    BY <2>1, <2>2
<1>8. LocationsSound'
  BY <1>7 DEF IInv, LocationsSound
<1>9. QED
  BY <1>2, <1>4, <1>5, <1>6, <1>8

\* The file and its transactions, when a handler outside a save writes nothing.
LEMMA NothingWritten ==
  ASSUME IInv, NEW v \in Servers, NEW next, at[v] \notin Saving, next \notin Saving,
         at' = [at EXCEPT ![v] = next], UNCHANGED <<file, draft, writer, inTransaction>>,
         \A w \in Servers : w # v => session'[w] = session[w],
         \A w \in Servers : w # v /\ at[w] # "idle" =>
           accountId'[session[w]] = accountId[session[w]]
  PROVE  TransactionsSound'
<1>1. writer # v
  BY ViewsFile
<1>2. at'[v] = next /\ \A w \in Servers : w # v => at'[w] = at[w]
  BY DEF IInv
<1>3. inTransaction' = {w \in Servers : at'[w] \in Saving}
  BY <1>2 DEF IInv, TransactionsSound
<1>4. writer # Nobody => writer \in inTransaction /\ writer \in Servers
  BY DEF IInv, TypeOK, TransactionsSound
<1>5. (writer # Nobody => writer \in inTransaction /\ at[writer] # "save players")'
  BY <1>1, <1>2, <1>4 DEF IInv, TransactionsSound
<1>6. ASSUME NEW w \in Servers, writer' = w
      PROVE  /\ draft'.accounts = file'.accounts
             /\ \A i \in Ids : i # accountId'[session'[w]] => draft'.saved[i] = file'.saved[i]
  <2>1. w # v /\ writer = w /\ at[w] # "idle"
    <3>1. writer = w /\ w # v
      BY <1>1, <1>6
    <3>2. w \in inTransaction
      BY <3>1, <1>4, AccountsAssumption
    <3>3. at[w] \in Saving
      BY <3>2 DEF IInv, TransactionsSound
    <3>4. QED
      BY <3>1, <3>3 DEF Saving
  <2>2. QED
    BY <2>1 DEF IInv, TransactionsSound
<1>7. QED
  BY <1>3, <1>5, <1>6 DEF TransactionsSound

\* The saves, when the file stays and one session goes on: what the next statement
\* of that session asks for is left to show, unless this one was refused.
LEMMA OneReadGoesOn ==
  ASSUME IInv, NEW s \in Sessions,
         UNCHANGED <<file, draft, writer, server, name, contested>>, refused \subseteq refused',
         \A u \in Sessions : u # s =>
           /\ accountId'[u] = accountId[u] /\ data'[u] = data[u]
           /\ accountId[u] # 0 => Statement(u)' = Statement(u),
         accountId'[s] # 0 /\ Undisturbed(name[s])' => SavesAsPlayed(s)'
  PROVE  SavesSound'
<1>1. \A n : Undisturbed(n)' => Undisturbed(n)
  BY DEF Undisturbed
<1>2. ASSUME NEW u \in Sessions, accountId'[u] # 0, Undisturbed(name[u])'
      PROVE  SavesAsPlayed(u)'
  <2>1. CASE u = s
    BY <1>2, <2>1
  <2>2. CASE u # s
    <3>1. Undisturbed(name[u])
      BY <1>1, <1>2
    <3>2. SavesAsPlayed(u)
      BY <1>2, <2>2, <3>1 DEF IInv, SavesSound
    <3>3. QED
      BY <1>2, <2>2, <3>2 DEF SavesAsPlayed
  <2>3. QED
    BY <2>1, <2>2
<1>3. QED
  BY <1>1, <1>2 DEF IInv, SavesSound

\* The same, when no statement is refused.
LEMMA OneSaveGoesOn ==
  ASSUME IInv, NEW s \in Sessions,
         UNCHANGED <<file, draft, writer, server, name, contested, refused>>,
         \A u \in Sessions : u # s =>
           /\ accountId'[u] = accountId[u] /\ data'[u] = data[u]
           /\ accountId[u] # 0 => Statement(u)' = Statement(u),
         accountId'[s] # 0 /\ Undisturbed(name[s]) => SavesAsPlayed(s)'
  PROVE  SavesSound'
<1>1. Undisturbed(name[s])' => Undisturbed(name[s])
  BY DEF Undisturbed
<1>2. QED
  BY <1>1, OneReadGoesOn

\* FindOrCreateAccount and what follows: the session has the account of its name.
LEMMA LoggedInAsKeeps ==
  ASSUME IInv, NEW v \in Servers, NEW st, NEW id \in Ids, LoggedInAs(v, id),
         Step(v, st, "hasPlayerData"), st \in {"findAccount", "lastInsertRowid"},
         file.accounts[name[session[v]]] = id,
         UNCHANGED <<db, state, server, name, data, loc, history>>
  PROVE  IInv'
<1>0. PICK s : s = session[v]
  OBVIOUS
<1>1. /\ at[v] = st /\ at' = [at EXCEPT ![v] = "hasPlayerData"] /\ session' = session
      /\ accountId' = [accountId EXCEPT ![s] = id]
  BY <1>0 DEF Step, LoggedInAs
<1>2. s \in Sessions /\ state[s] = "login" /\ id # 0
  BY <1>0, <1>1, Handling, Sorts DEF IInv, ThreadsSound, Handled
<1>3. accountId'[s] = id /\ \A u \in Sessions : u # s => accountId'[u] = accountId[u]
  BY <1>1, <1>2 DEF IInv, TypeOK
<1>4. Handled("hasPlayerData", state[s], accountId'[s])
  BY <1>2, <1>3 DEF Handled, Loading, Saving
<1>5. "hasPlayerData" \in Statements
  BY DEF Statements, Loading
<1>6. /\ at' \in [Servers -> Statements]
      /\ ThreadsSound' /\ SessionsSound' /\ OneSession' /\ LocationsSound'
  BY <1>0, <1>2, <1>3, <1>4, <1>5, GoesOn DEF history
<1>7. TypeOK'
  BY <1>1, <1>2 DEF IInv, TypeOK, db, history
<1>8. \A w \in Servers : w # v /\ at[w] # "idle" => session[w] \in Sessions /\ session[w] # s
  BY <1>0, <1>1, Handling
<1>9. TransactionsSound'
  BY <1>0, <1>1, <1>3, <1>8, NothingWritten DEF Saving, db
<1>10. AccountsNumbered'
  <2>1. \A u \in Sessions : accountId'[u] # 0 => file.accounts[name[u]] = accountId'[u]
    BY <1>0, <1>2, <1>3 DEF IInv, AccountsNumbered
  <2>2. \A w \in Servers : at'[w] = "lastInsertRowid" => at[w] = "lastInsertRowid"
    BY <1>1 DEF IInv
  <2>3. QED
    BY <1>1, <2>1, <2>2 DEF IInv, AccountsNumbered, Registered, db
<1>11. SavesSound'
  <2>1. Statement(s)' = "hasPlayerData"
    BY <1>0, <1>1, <1>5, NextStatement
  <2>2. SavesAsPlayed(s)'
    BY <2>1 DEF SavesAsPlayed, AsPlayed, Loading, Saving
  <2>3. \A u \in Sessions : u # s /\ accountId[u] # 0 => Statement(u)' = Statement(u)
    BY <1>0, <1>1, <1>5, NextStatement, Known
  <2>4. QED
    <3>1. UNCHANGED <<file, draft, writer, server, name, contested, refused>> /\ data' = data
      BY DEF db, history
    <3>2. \A u \in Sessions : u # s =>
            /\ accountId'[u] = accountId[u] /\ data'[u] = data[u]
            /\ accountId[u] # 0 => Statement(u)' = Statement(u)
      BY <1>3, <2>3, <3>1
    <3>3. QED
      BY <1>2, <2>2, <3>1, <3>2, OneSaveGoesOn
<1>12. QED
  BY <1>6, <1>7, <1>9, <1>10, <1>11 DEF IInv

\* FindOrCreateAccount, the SELECT.
LEMMA FindAccountKeeps ==
  ASSUME IInv, NEW v \in Servers, FindAccount(v)
  PROVE  IInv'
<1>0. PICK s : s = session[v]
  OBVIOUS
<1>1. PICK found \in Found(v, View(v).accounts[name[session[v]]]) :
        /\ Step(v, "findAccount", IF found = 0 THEN "createAccount" ELSE "hasPlayerData")
        /\ IF found = 0 THEN UNCHANGED accountId ELSE LoggedInAs(v, found)
        /\ UNCHANGED <<db, state, server, name, data, loc, history>>
  BY DEF FindAccount
<1>2. at[v] = "findAccount" /\ session' = session
  BY <1>1 DEF Step
<1>3. found = file.accounts[name[session[v]]] \/ found = 0
  BY <1>1, <1>2, ViewsFile DEF Saving, Found
<1>4. s \in Sessions /\ name[s] \in Names /\ state[s] = "login" /\ accountId[s] = 0
  BY <1>0, <1>2, Handling DEF IInv, ThreadsSound, Handled
<1>5. found \in Ids \cup {0}
  BY <1>0, <1>3, <1>4, Sorts DEF IInv, TypeOK
<1>6. CASE found # 0
  BY <1>1, <1>3, <1>5, <1>6, LoggedInAsKeeps
<1>7. CASE found = 0
  <2>1. Step(v, "findAccount", "createAccount") /\ accountId' = accountId
    BY <1>1, <1>7
  <2>2. /\ at' = [at EXCEPT ![v] = "createAccount"]
        /\ UNCHANGED <<file, draft, writer, inTransaction, lastRowid, state, server, name, loc,
                       data, logins, contested, refused, abandoned>>
    BY <1>1, <2>1 DEF Step, db, history
  <2>3. "createAccount" \in Statements
    BY DEF Statements
  <2>4. Handled("createAccount", state[s], accountId[s])
    BY <1>4 DEF Handled, Loading, Saving
  <2>5. /\ at' \in [Servers -> Statements]
        /\ ThreadsSound' /\ SessionsSound' /\ OneSession' /\ LocationsSound'
    BY <1>0, <1>4, <2>1, <2>2, <2>3, <2>4, GoesOn
  <2>6. TypeOK'
    BY <1>2, <2>1, <2>2 DEF IInv, TypeOK
  <2>7. TransactionsSound'
    BY <1>2, <2>1, <2>2, NothingWritten DEF Saving
  <2>8. \A w \in Servers : at'[w] = "lastInsertRowid" => at[w] = "lastInsertRowid"
    BY <2>2 DEF IInv
  <2>9. AccountsNumbered'
    BY <1>2, <2>1, <2>2, <2>8 DEF IInv, AccountsNumbered, Registered
  <2>10. SavesSound'
    <3>1. \A u \in Sessions : u # s /\ accountId[u] # 0 => Statement(u)' = Statement(u)
      BY <1>0, <2>1, <2>2, <2>3, NextStatement, Known
    <3>2. \A u \in Sessions : u # s =>
            /\ accountId'[u] = accountId[u] /\ data'[u] = data[u]
            /\ accountId[u] # 0 => Statement(u)' = Statement(u)
      BY <2>1, <2>2, <3>1
    <3>3. accountId'[s] = 0
      BY <1>4, <2>1
    <3>4. QED
      BY <1>4, <2>2, <3>2, <3>3, OneSaveGoesOn
  <2>11. QED
    BY <2>5, <2>6, <2>7, <2>9, <2>10 DEF IInv
<1>8. QED
  BY <1>6, <1>7

-----------------------------------------------------------------------------
(* Sessions that end *)

\* What a session that is over is, and that the others stay.
LEMMA Freed ==
  ASSUME IInv, NEW ss \in SUBSET Sessions, Free(ss)
  PROVE  /\ state' \in [Sessions -> States]
         /\ server' \in [Sessions -> Servers \cup {Nobody}]
         /\ name' \in [Sessions -> Names \cup {Nobody}]
         /\ accountId' \in [Sessions -> Ids \cup {0}]
         /\ data' \in [Sessions -> Rows]
         /\ \A s \in ss : /\ state'[s] = "free" /\ server'[s] = Nobody /\ name'[s] = Nobody
                          /\ accountId'[s] = 0
         /\ \A s \in Sessions \ ss :
              /\ state'[s] = state[s] /\ server'[s] = server[s] /\ name'[s] = name[s]
              /\ accountId'[s] = accountId[s] /\ data'[s] = data[s]
BY Sorts DEF Free, IInv, TypeOK, States

\* v frees sessions of its own, with the one it worked for, and is idle.
Leaves(v, ss) ==
  /\ ss \in SUBSET Sessions /\ Free(ss)
  /\ \A s \in ss : server[s] = v
  /\ session[v] # Nobody => session[v] \in ss
  /\ at' = [at EXCEPT ![v] = "idle"] /\ session' = [session EXCEPT ![v] = Nobody]
  /\ UNCHANGED <<file, logins, contested, refused>>
  /\ \A w \in Servers : w # v => lastRowid'[w] = lastRowid[w]
  /\ writer # v => UNCHANGED <<draft, writer>>

LEMMA LeavesThreads ==
  ASSUME IInv, NEW v \in Servers, NEW ss, Leaves(v, ss)
  PROVE  /\ at' \in [Servers -> Statements] /\ at'[v] = "idle"
         /\ session' \in [Servers -> Sessions \cup {Nobody}] /\ session'[v] = Nobody
         /\ \A w \in Servers : w # v =>
              /\ at'[w] = at[w] /\ session'[w] = session[w]
              /\ at[w] # "idle" => session[w] \in Sessions \ ss
         /\ \A u \in Sessions \ ss : server[u] \in Servers => Statement(u)' = Statement(u)
<1>1. /\ at' \in [Servers -> Statements] /\ at'[v] = "idle"
      /\ session' \in [Servers -> Sessions \cup {Nobody}] /\ session'[v] = Nobody
      /\ \A w \in Servers : w # v => at'[w] = at[w] /\ session'[w] = session[w]
  BY DEF Leaves, IInv, TypeOK, Statements
<1>2. \A w \in Servers : w # v /\ at[w] # "idle" => session[w] \in Sessions \ ss
  BY Handling DEF Leaves
<1>3. ASSUME NEW u \in Sessions \ ss, server[u] \in Servers
      PROVE  Statement(u)' = Statement(u)
  <2>1. server'[u] = server[u]
    BY Freed DEF Leaves
  <2>2. session[v] # u
    BY <1>3, AccountsAssumption DEF Leaves
  <2>3. QED
    BY <1>1, <1>3, <2>1, <2>2, AccountsAssumption DEF Statement
<1>4. QED
  BY <1>1, <1>2, <1>3

LEMMA LeavesKeeps ==
  ASSUME IInv, NEW v \in Servers, NEW ss, Leaves(v, ss)
  PROVE  ThreadsSound' /\ SessionsSound' /\ AccountsNumbered' /\ OneSession' /\ SavesSound'
<1>1. /\ ss \in SUBSET Sessions /\ Free(ss) /\ \A s \in ss : server[s] = v
      /\ UNCHANGED <<file, logins, contested, refused>>
  BY DEF Leaves
<1>2. ThreadsSound'
  <2>1. ASSUME NEW w \in Servers, w # v, at[w] # "idle"
        PROVE  /\ server'[session[w]] = server[session[w]]
               /\ state'[session[w]] = state[session[w]]
               /\ accountId'[session[w]] = accountId[session[w]]
    BY <1>1, <2>1, LeavesThreads, Freed
  <2>2. QED
    BY <2>1, LeavesThreads DEF IInv, ThreadsSound
<1>3. SessionsSound'
  <2>1. ASSUME NEW s \in Sessions, s \notin ss, state[s] = "login"
        PROVE  session'[server[s]] = s
    <3>1. session[server[s]] = s /\ server[s] \in Servers
      BY <2>1 DEF IInv, SessionsSound
    <3>2. server[s] # v
      BY <2>1, <3>1, AccountsAssumption DEF Leaves
    <3>3. QED
      BY <3>1, <3>2, LeavesThreads
  <2>2. QED
    BY <1>1, <2>1, Freed DEF IInv, SessionsSound
<1>4. AccountsNumbered'
  <2>1. ASSUME NEW w \in Servers, at'[w] = "lastInsertRowid"
        PROVE  /\ at[w] = "lastInsertRowid" /\ lastRowid'[w] = lastRowid[w]
               /\ name'[session'[w]] = name[session[w]]
    <3>1. w # v /\ at[w] = "lastInsertRowid" /\ session'[w] = session[w]
      BY <2>1, LeavesThreads
    <3>2. session[w] \in Sessions \ ss
      BY <3>1, LeavesThreads
    <3>3. QED
      BY <1>1, <3>1, <3>2, Freed DEF Leaves
  <2>2. \A s \in Sessions : accountId'[s] # 0 => file.accounts[name'[s]] = accountId'[s]
    BY <1>1, Freed DEF IInv, AccountsNumbered
  <2>3. QED
    BY <1>1, <2>1, <2>2 DEF IInv, AccountsNumbered, Registered
<1>5. OneSession'
  BY <1>1, Freed DEF IInv, OneSession
<1>6. SavesSound'
  <2>1. \A n : Undisturbed(n)' <=> Undisturbed(n)
    BY <1>1 DEF Undisturbed
  <2>2. ASSUME NEW u \in Sessions, accountId'[u] # 0, Undisturbed(name'[u])
        PROVE  SavesAsPlayed(u)'
    <3>1. /\ u \in Sessions \ ss /\ accountId'[u] = accountId[u] /\ name'[u] = name[u]
          /\ server'[u] = server[u] /\ data'[u] = data[u]
      BY <1>1, <2>2, Freed
    <3>2. server[u] \in Servers /\ SavesAsPlayed(u)
      BY <2>2, <3>1, Known DEF IInv, SavesSound
    <3>3. Statement(u)' = Statement(u)
      BY <3>1, <3>2, LeavesThreads
    <3>4. CASE writer # v
      BY <1>1, <3>1, <3>2, <3>3, <3>4 DEF SavesAsPlayed, Leaves
    <3>5. CASE writer = v
      <4>1. Statement(u) \notin Saving \ {"save players"}
        <5>1. server[u] = v => session[v] # u
          BY <3>1, AccountsAssumption DEF Leaves
        <5>2. server[u] = v => Statement(u) = "idle"
          BY <5>1 DEF Statement
        <5>3. QED
          BY <3>2, <3>5, <5>2 DEF SavesAsPlayed, AsPlayed, Saving
      <4>2. QED
        BY <1>1, <3>1, <3>2, <3>3, <4>1 DEF SavesAsPlayed, AsPlayed, Saving
    <3>6. QED
      BY <3>4, <3>5
  <2>3. QED
    BY <1>1, <2>1, <2>2 DEF IInv, SavesSound
<1>7. QED
  BY <1>2, <1>3, <1>4, <1>5, <1>6

\* The locations stay: players leave theirs behind, and are abandoned.
LEMMA LeavesLocations ==
  ASSUME IInv, NEW v \in Servers, NEW ss, Leaves(v, ss), UNCHANGED loc,
         abandoned \subseteq abandoned', \A s \in ss : Located(s) => name[s] \in abandoned'
  PROVE  LocationsSound'
<1>1. ss \in SUBSET Sessions /\ Free(ss) /\ contested' = contested
  BY DEF Leaves
<1>2. \A s \in ss : ~Located(s)'
  BY <1>1, Freed DEF Located
<1>3. \A s \in Sessions \ ss : /\ Located(s)' <=> Located(s)
                               /\ server'[s] = server[s] /\ name'[s] = name[s]
  BY <1>1, Freed, LeavesThreads, Known DEF Located
<1>4. \A s \in ss : name'[s] = Nobody
  BY <1>1, Freed
<1>5. QED
  BY <1>1, <1>2, <1>3, <1>4, AccountsAssumption DEF IInv, LocationsSound

\* Of the file's transactions there is nothing, unless v was inside one.
LEMMA LeavesTransactions ==
  ASSUME IInv, NEW v \in Servers, NEW ss, Leaves(v, ss), at[v] \notin Saving,
         UNCHANGED <<draft, writer, inTransaction>>
  PROVE  TransactionsSound'
<1>1. \A w \in Servers : w # v /\ at[w] # "idle" =>
        accountId'[session[w]] = accountId[session[w]]
  <2>1. ss \in SUBSET Sessions /\ Free(ss)
    BY DEF Leaves
  <2>2. \A w \in Servers : w # v /\ at[w] # "idle" => session[w] \in Sessions \ ss
    BY LeavesThreads
  <2>3. QED
    BY <2>1, <2>2, Freed
<1>2. /\ at' = [at EXCEPT ![v] = "idle"] /\ file' = file
      /\ \A w \in Servers : w # v => session'[w] = session[w]
  BY LeavesThreads DEF Leaves
<1>3. QED
  BY <1>1, <1>2, NothingWritten DEF Saving

\* A handler that gives its session up before it has played.
LEMMA GivesUpKeeps ==
  ASSUME IInv, NEW v \in Servers, at[v] \in {"createAccount", "lastInsertRowid"},
         Free({session[v]}), Idle(v), UNCHANGED <<db, loc, history>>
  PROVE  IInv'
<1>0. PICK s : s = session[v]
  OBVIOUS
<1>1. s \in Sessions /\ server[s] = v /\ state[s] = "login"
  BY <1>0, Handling DEF IInv, ThreadsSound, Handled
<1>2. Leaves(v, {s}) /\ at[v] \notin Saving /\ ~Located(s)
  BY <1>0, <1>1 DEF Leaves, Idle, Saving, Located, db, history
<1>3. ThreadsSound' /\ SessionsSound' /\ AccountsNumbered' /\ OneSession' /\ SavesSound'
  BY <1>2, LeavesKeeps
<1>4. TransactionsSound' /\ LocationsSound'
  BY <1>2, LeavesTransactions, LeavesLocations DEF db, history
<1>5. at' \in [Servers -> Statements] /\ session' \in [Servers -> Sessions \cup {Nobody}]
  BY <1>2, LeavesThreads
<1>6. TypeOK'
  BY <1>2, <1>5, Freed DEF IInv, TypeOK, Leaves, db, history
<1>7. QED
  BY <1>3, <1>4, <1>5, <1>6 DEF IInv

\* The id just created is the account's: no other account is created in between by
\* the same connection.
LEMMA LastInsertRowidKeeps ==
  ASSUME IInv, NEW v \in Servers, LastInsertRowid(v)
  PROVE  IInv'
<1>1. /\ at[v] = "lastInsertRowid"
      /\ lastRowid[v] # 0 /\ file.accounts[name[session[v]]] = lastRowid[v]
  BY DEF LastInsertRowid, IInv, AccountsNumbered
<1>2. /\ Step(v, "lastInsertRowid", "hasPlayerData") /\ LoggedInAs(v, lastRowid[v])
      /\ UNCHANGED <<db, state, server, name, data, loc, history>>
  BY <1>1 DEF LastInsertRowid
<1>3. lastRowid[v] \in Ids
  BY <1>1 DEF IInv, TypeOK
<1>4. QED
  BY <1>1, <1>2, <1>3, LoggedInAsKeeps

\* The INSERT of an account that is not there, while no server has written in a
\* transaction: it gets the next id, under which nothing is saved.
LEMMA CreateAccountKeeps ==
  ASSUME IInv, NEW v \in Servers, CreateAccount(v)
  PROVE  IInv'
<1> DEFINE fails == Busy(v) \/ View(v).accounts[name[session[v]]] # 0
<1>1. CASE fails
  BY <1>1, GivesUpKeeps DEF CreateAccount, CreateAccountWith, history
<1>2. CASE ~fails
  <2>0. PICK s, n, id : /\ s = session[v] /\ n = name[s]
                        /\ id = Cardinality({m \in Names : View(v).accounts[m] # 0}) + 1
    OBVIOUS
  <2>1. at[v] = "createAccount" /\ View(v) = file
    BY ViewsFile DEF CreateAccount, CreateAccountWith, Saving
  <2>2. /\ Write(v, [file EXCEPT !.accounts[n] = id])
        /\ lastRowid' = [lastRowid EXCEPT ![v] = id]
        /\ Step(v, "createAccount", "lastInsertRowid")
        /\ UNCHANGED <<state, server, name, accountId, data, loc, logins, contested, refused,
                       abandoned>>
    BY <1>2, <2>0, <2>1 DEF CreateAccount, CreateAccountWith, sessions, history
  <2>3. /\ at' = [at EXCEPT ![v] = "lastInsertRowid"] /\ session' = session
        /\ "lastInsertRowid" \in Statements
    BY <2>2 DEF Step, Statements
  <2>4. /\ s \in Sessions /\ n \in Names /\ state[s] = "login" /\ accountId[s] = 0
        /\ server[s] = v
    BY <2>0, <2>1, Handling DEF IInv, ThreadsSound, Handled
  <2>5. writer = Nobody /\ v \notin inTransaction /\ file.accounts[n] = 0
    BY <1>2, <2>0, <2>1, ViewsFile DEF Busy, Saving, IInv, TransactionsSound
  <2>6. /\ file' = [file EXCEPT !.accounts[n] = id] /\ draft' = file'
        /\ writer' = writer /\ inTransaction' = inTransaction
    BY <2>2, <2>5 DEF Write
  <2>7. /\ file \in DB
        /\ file'.accounts = [file.accounts EXCEPT ![n] = id] /\ file'.saved = file.saved
        /\ file'.accounts[n] = id
        /\ \A m \in Names : m # n => file'.accounts[m] = file.accounts[m]
    BY <2>4, <2>6, Sorts DEF IInv, TypeOK, DB
  <2>8. /\ id = Cardinality(Registered) + 1 /\ id \in Ids
        /\ Cardinality(Registered) \in Nat /\ Cardinality(Registered') = id
    <3>1. id = Cardinality(Registered) + 1
      BY <2>0, <2>1 DEF Registered
    <3>2. IsFiniteSet(Registered) /\ Registered \subseteq Names /\ n \notin Registered
      BY <2>5, FS_Subset, AccountsAssumption DEF Registered
    <3>3. Cardinality(Registered) \in Nat
      BY <3>2, FS_CardinalityType
    <3>4. Cardinality(Registered \cup {n}) = id
      BY <3>1, <3>2, FS_AddElement
    <3>5. Cardinality(Registered \cup {n}) <= Cardinality(Names) /\ Cardinality(Names) \in Nat
      <4>1. Registered \cup {n} \in SUBSET Names
        BY <3>2, <2>4
      <4>2. QED
        BY <4>1, FS_Subset, FS_CardinalityType, AccountsAssumption
    <3>6. id # 0
      BY <3>1, <3>3
    <3>7. Registered' = Registered \cup {n}
      BY <2>4, <2>7, <3>6 DEF Registered
    <3>8. id \in Ids
      BY <3>1, <3>3, <3>4, <3>5 DEF Ids
    <3>9. QED
      BY <3>1, <3>3, <3>4, <3>7, <3>8
  <2>9. Handled("lastInsertRowid", state[s], accountId[s])
    BY <2>4 DEF Handled, Loading, Saving
  <2>10. /\ at' \in [Servers -> Statements]
         /\ ThreadsSound' /\ SessionsSound' /\ OneSession' /\ LocationsSound'
    BY <2>0, <2>2, <2>3, <2>4, <2>9, GoesOn
  <2>11. TypeOK'
    <3>1. file' \in DB
      BY <2>6, <2>7, <2>8, Sorts DEF DB
    <3>2. QED
      BY <2>2, <2>3, <2>6, <2>8, <3>1 DEF IInv, TypeOK
  <2>12. TransactionsSound'
    <3>1. \A w \in Servers : at'[w] \in Saving <=> at[w] \in Saving
      BY <2>1, <2>3 DEF IInv, Saving
    <3>2. writer' = Nobody /\ inTransaction' = {w \in Servers : at'[w] \in Saving}
      BY <2>5, <2>6, <3>1 DEF IInv, TransactionsSound
    <3>3. QED
      BY <3>2, AccountsAssumption DEF TransactionsSound
  <2>13. AccountsNumbered'
    <3>1. \A m \in Names : file.accounts[m] < id /\ file.accounts[m] \in Nat
      <4>1. \A m \in Names : file.accounts[m] <= Cardinality(Registered)
        BY DEF IInv, AccountsNumbered
      <4>2. \A m \in Names : file.accounts[m] \in Nat
        BY <2>7, Sorts
      <4>3. QED
        BY <2>8, <4>1, <4>2
    <3>2. \A m \in Names : file'.accounts[m] <= Cardinality(Registered')
      BY <2>7, <2>8, <3>1, Sorts
    <3>3. \A m, k \in Names :
            m # k /\ file'.accounts[m] # 0 => file'.accounts[m] # file'.accounts[k]
      BY <2>7, <2>8, <3>1, Sorts DEF IInv, AccountsNumbered
    <3>4. ASSUME NEW i \in Ids, \A m \in Names : file'.accounts[m] # i
          PROVE  file'.saved[i] = NoRows
      <4>1. \A m \in Names : file.accounts[m] # i
        BY <2>5, <2>7, <3>4, Sorts
      <4>2. QED
        BY <2>7, <4>1 DEF IInv, AccountsNumbered
    <3>5. \A u \in Sessions : accountId'[u] # 0 => file'.accounts[name'[u]] = accountId'[u]
      BY <2>2, <2>5, <2>7, Known DEF IInv, AccountsNumbered
    <3>6. ASSUME NEW w \in Servers, at'[w] = "lastInsertRowid"
          PROVE  lastRowid'[w] # 0 /\ lastRowid'[w] = file'.accounts[name'[session'[w]]]
      <4>1. CASE w = v
        BY <2>0, <2>2, <2>3, <2>7, <2>8, <4>1, Sorts DEF IInv, TypeOK
      <4>2. CASE w # v
        <5>1. at[w] = "lastInsertRowid" /\ lastRowid'[w] = lastRowid[w]
          BY <2>2, <2>3, <3>6, <4>2 DEF IInv, TypeOK
        <5>2. lastRowid[w] # 0 /\ lastRowid[w] = file.accounts[name[session[w]]]
          BY <5>1 DEF IInv, AccountsNumbered
        <5>3. name[session[w]] \in Names /\ name[session[w]] # n
          BY <2>5, <5>1, <5>2, Handling
        <5>4. QED
          BY <2>2, <2>3, <2>7, <5>1, <5>2, <5>3
      <4>3. QED
        BY <4>1, <4>2
    <3>7. QED
      BY <3>2, <3>3, <3>4, <3>5, <3>6 DEF AccountsNumbered
  <2>14. SavesSound'
    <3>1. \A m \in Names : m # n => (Undisturbed(m)' <=> Undisturbed(m))
      BY <2>2, <2>7 DEF Undisturbed
    <3>2. Whole(file'.saved[id])
      <4>1. \A m \in Names : file.accounts[m] # id
        BY <2>7, <2>8, Sorts DEF IInv, AccountsNumbered
      <4>2. QED
        BY <2>7, <2>8, <4>1, Sorts DEF IInv, AccountsNumbered
    <3>3. \A m \in Names :
            file'.accounts[m] # 0 /\ Undisturbed(m)' => Whole(file'.saved[file'.accounts[m]])
      BY <2>7, <3>1, <3>2 DEF IInv, SavesSound
    <3>4. ASSUME NEW u \in Sessions, accountId[u] # 0, Undisturbed(name[u])'
          PROVE  SavesAsPlayed(u)'
      <4>1. u # s /\ name[u] \in Names /\ name[u] # n /\ server[u] \in Servers
        BY <2>4, <2>5, <3>4, Known
      <4>2. SavesAsPlayed(u)
        BY <2>2, <3>1, <3>4, <4>1 DEF IInv, SavesSound
      <4>3. Statement(u)' = Statement(u)
        BY <2>0, <2>2, <2>3, <3>4, <4>1, NextStatement, Known
      <4>4. writer # server[u]
        BY <2>5, <4>1, AccountsAssumption
      <4>5. Statement(u) \notin Saving \ {"save players"}
        BY <4>2, <4>4 DEF SavesAsPlayed, AsPlayed
      <4>6. QED
        BY <2>2, <2>7, <4>2, <4>3, <4>5 DEF SavesAsPlayed, AsPlayed, Saving
    <3>5. QED
      BY <2>2, <3>3, <3>4 DEF SavesSound, Whole
  <2>15. QED
    BY <2>10, <2>11, <2>12, <2>13, <2>14 DEF IInv
<1>3. QED
  BY <1>1, <1>2

\* OnDisconnected: a player in a room is saved first.
LEMMA LeaveKeeps ==
  ASSUME IInv, NEW v \in Servers, NEW s \in Sessions, Leave(v, s)
  PROVE  IInv'
<1>1. /\ at[v] = "idle" /\ server[s] = v /\ session[v] = Nobody
      /\ UNCHANGED <<db, loc, logins, contested, refused>>
  BY DEF Leave, IInv, ThreadsSound
<1>2. CASE /\ state[s] \in {"queued", "slain"} /\ Free({s})
           /\ abandoned' = abandoned \cup {name[s]} /\ UNCHANGED thread
  <2>1. /\ at' = [at EXCEPT ![v] = "idle"] /\ session' = [session EXCEPT ![v] = Nobody]
        /\ name[s] \in Names
    BY <1>1, <1>2, Known DEF IInv, TypeOK, thread
  <2>2. Leaves(v, {s}) /\ at[v] \notin Saving
    BY <1>1, <1>2, <2>1 DEF Leaves, Saving, db
  <2>3. ThreadsSound' /\ SessionsSound' /\ AccountsNumbered' /\ OneSession' /\ SavesSound'
    BY <2>2, LeavesKeeps
  <2>4. TransactionsSound' /\ LocationsSound'
    BY <1>1, <1>2, <2>2, LeavesTransactions, LeavesLocations DEF db
  <2>5. at' \in [Servers -> Statements] /\ session' \in [Servers -> Sessions \cup {Nobody}]
    BY <2>2, LeavesThreads
  <2>6. TypeOK'
    BY <1>1, <1>2, <2>1, <2>5, Freed DEF IInv, TypeOK, db
  <2>7. QED
    BY <2>3, <2>4, <2>5, <2>6 DEF IInv
<1>3. CASE /\ state[s] = "playing" /\ at' = [at EXCEPT ![v] = "begin"]
           /\ session' = [session EXCEPT ![v] = s] /\ UNCHANGED <<sessions, abandoned>>
  <2>1. UNCHANGED <<file, draft, writer, inTransaction, lastRowid, state, server, name,
                    accountId, data, loc, logins, contested, refused, abandoned>>
    BY <1>1, <1>3 DEF db, sessions
  <2>2. /\ at' \in [Servers -> Statements] /\ at'[v] = "begin" /\ session'[v] = s
        /\ \A w \in Servers : w # v => at'[w] = at[w] /\ session'[w] = session[w]
    BY <1>3 DEF IInv, TypeOK, Statements
  <2>3. TypeOK'
    BY <1>3, <2>1 DEF IInv, TypeOK
  <2>4. accountId[s] # 0
    BY <1>3 DEF IInv, SessionsSound
  <2>5. ThreadsSound'
    <3>1. Handled("begin", state[s], accountId[s]) /\ s # Nobody
      BY <1>3, <2>4, AccountsAssumption DEF Handled, Loading, Saving
    <3>2. QED
      BY <1>1, <2>1, <2>2, <3>1 DEF IInv, ThreadsSound
  <2>6. SessionsSound'
    <3>1. ASSUME NEW u \in Sessions, state[u] = "login" PROVE session'[server[u]] = u
      BY <1>1, <2>2, <3>1, AccountsAssumption DEF IInv, TypeOK, SessionsSound
    <3>2. QED
      BY <2>1, <3>1 DEF IInv, SessionsSound
  <2>7. TransactionsSound'
    BY <1>1, <1>3, <2>1, <2>2, NothingWritten DEF Saving
  <2>8. AccountsNumbered'
    BY <2>1, <2>2 DEF IInv, AccountsNumbered, Registered
  <2>9. OneSession'
    BY <2>1 DEF IInv, OneSession
  <2>10. /\ Statement(s) = "idle" /\ Statement(s)' = "begin"
         /\ \A u \in Sessions : u # s /\ server[u] \in Servers => Statement(u)' = Statement(u)
    BY <1>1, <2>1, <2>2, AccountsAssumption DEF Statement
  <2>11. SavesSound'
    <3>1. ASSUME accountId[s] # 0, Undisturbed(name[s]) PROVE SavesAsPlayed(s)'
      <4>1. SavesAsPlayed(s)
        BY <3>1 DEF IInv, SavesSound
      <4>2. QED
        BY <2>1, <2>10, <4>1 DEF SavesAsPlayed, AsPlayed, Loading, Saving
    <3>2. \A u \in Sessions : u # s =>
            /\ accountId'[u] = accountId[u] /\ data'[u] = data[u]
            /\ accountId[u] # 0 => Statement(u)' = Statement(u)
      BY <2>1, <2>10, Known
    <3>3. QED
      BY <2>1, <3>1, <3>2, OneSaveGoesOn
  <2>12. LocationsSound'
    <3>1. \A u \in Sessions : Located(u)' <=> Located(u)
      BY <2>1, <2>10, Known DEF Located
    <3>2. QED
      BY <2>1, <3>1 DEF IInv, LocationsSound
  <2>13. QED
    BY <2>2, <2>3, <2>5, <2>6, <2>7, <2>8, <2>9, <2>11, <2>12 DEF IInv
<1>4. QED
  BY <1>2, <1>3 DEF Leave

\* The end of OnDisconnected: the location goes with the session.
LEMMA DelLocKeeps ==
  ASSUME IInv, NEW v \in Servers, DelLoc(v)
  PROVE  IInv'
<1>0. PICK s, n : s = session[v] /\ n = name[s]
  OBVIOUS
<1>1. /\ at[v] = "delLoc" /\ Free({s}) /\ Idle(v) /\ UNCHANGED <<db, history>>
      /\ loc' = [loc EXCEPT ![n] = Nobody]
  BY <1>0 DEF DelLoc, EndOfSession
<1>2. s \in Sessions /\ server[s] = v /\ n \in Names
  BY <1>0, <1>1, Handling
<1>3. Leaves(v, {s}) /\ at[v] \notin Saving
  BY <1>0, <1>1, <1>2 DEF Leaves, Idle, Saving, db, history
<1>4. ThreadsSound' /\ SessionsSound' /\ AccountsNumbered' /\ OneSession' /\ SavesSound'
  BY <1>3, LeavesKeeps
<1>5. TransactionsSound'
  BY <1>1, <1>3, LeavesTransactions DEF db
<1>6. at' \in [Servers -> Statements] /\ session' \in [Servers -> Sessions \cup {Nobody}]
  BY <1>3, LeavesThreads
<1>7. TypeOK'
  BY <1>1, <1>2, <1>6, Freed DEF IInv, TypeOK, db, history
<1>8. LocationsSound'
  <2>1. ~Located(s)' /\ name'[s] = Nobody
    BY <1>1, <1>2, Freed DEF Located
  <2>2. \A u \in Sessions : u # s => /\ Located(u)' <=> Located(u)
                                     /\ server'[u] = server[u] /\ name'[u] = name[u]
    BY <1>1, <1>2, <1>3, Freed, LeavesThreads, Known DEF Located
  <2>3. contested' = contested /\ abandoned' = abandoned
    BY <1>1 DEF history
  <2>4. ASSUME NEW m \in Names \ contested
        PROVE  /\ \A u \in Sessions : name'[u] = m /\ Located(u)' => loc'[m] = server'[u]
               /\ m \notin abandoned /\ (\A u \in Sessions : name'[u] = m => ~Located(u)') =>
                    loc'[m] = Nobody
    <3>1. CASE m = n
      <4>1. \A u \in Sessions : name[u] = n => u = s
        BY <1>0, <1>2, <2>4, <3>1, AccountsAssumption DEF IInv, OneSession
      <4>2. \A u \in Sessions : name'[u] # n
        BY <1>2, <2>1, <2>2, <4>1, AccountsAssumption
      <4>3. loc'[n] = Nobody
        BY <1>1, <1>2 DEF IInv, TypeOK
      <4>4. QED
        BY <3>1, <4>2, <4>3
    <3>2. CASE m # n
      <4>1. loc'[m] = loc[m]
        BY <1>1, <3>2 DEF IInv, TypeOK
      <4>2. \A u \in Sessions : name'[u] = m <=> name[u] = m /\ u # s
        BY <1>0, <2>1, <2>2, <3>2, AccountsAssumption
      <4>3. \A u \in Sessions : name[u] = m => u # s
        BY <1>0, <3>2
      <4>4. QED
        BY <2>2, <4>1, <4>2, <4>3 DEF IInv, LocationsSound
    <3>3. QED
      BY <3>1, <3>2
  <2>5. QED
    BY <2>3, <2>4 DEF LocationsSound
<1>9. QED
  BY <1>4, <1>5, <1>6, <1>7, <1>8 DEF IInv

\* A crash rolls back what its server had written of a save.
LEMMA CrashKeeps ==
  ASSUME IInv, NEW v \in Servers, Crash(v)
  PROVE  IInv'
<1>0. PICK lost : lost = {s \in Sessions : server[s] = v}
  OBVIOUS
<1>1. /\ Free(lost) /\ Idle(v)
      /\ abandoned' = abandoned \cup {name[s] : s \in lost}
      /\ inTransaction' = inTransaction \ {v}
      /\ writer' = IF writer = v THEN Nobody ELSE writer
      /\ lastRowid' = [lastRowid EXCEPT ![v] = 0]
      /\ draft' = IF writer = v THEN file ELSE draft
      /\ UNCHANGED <<file, loc, logins, contested, refused>>
  BY <1>0 DEF Crash
<1>2. session[v] # Nobody => session[v] \in lost
  BY <1>0, Handling DEF IInv, TypeOK, ThreadsSound
<1>3. Leaves(v, lost)
  BY <1>0, <1>1, <1>2 DEF Leaves, Idle, IInv, TypeOK
<1>4. ThreadsSound' /\ SessionsSound' /\ AccountsNumbered' /\ OneSession' /\ SavesSound'
  BY <1>3, LeavesKeeps
<1>5. LocationsSound'
  BY <1>1, <1>3, LeavesLocations
<1>6. at' \in [Servers -> Statements] /\ session' \in [Servers -> Sessions \cup {Nobody}]
  BY <1>3, LeavesThreads
<1>7. TypeOK'
  <2>1. \A s \in lost : name[s] \in Names
    BY <1>0, Known, AccountsAssumption DEF IInv, SessionsSound
  <2>2. abandoned' \subseteq Names
    BY <1>1, <2>1 DEF IInv, TypeOK
  <2>3. lost \in SUBSET Sessions
    BY <1>0
  <2>4. lastRowid' \in [Servers -> Ids \cup {0}]
    BY <1>1 DEF IInv, TypeOK
  <2>5. draft' \in DB /\ writer' \in Servers \cup {Nobody}
    BY <1>1 DEF IInv, TypeOK
  <2>6. QED
    BY <1>1, <1>6, <2>2, <2>3, <2>4, <2>5, Freed DEF IInv, TypeOK
<1>8. TransactionsSound'
  <2>1. at'[v] = "idle" /\ \A w \in Servers : w # v =>
          /\ at'[w] = at[w] /\ session'[w] = session[w]
          /\ at[w] # "idle" => session[w] \in Sessions \ lost
    BY <1>3, LeavesThreads
  <2>2. inTransaction' = {w \in Servers : at'[w] \in Saving}
    BY <1>1, <2>1 DEF IInv, TransactionsSound, Saving
  <2>3. writer' # v /\ (writer' # Nobody => writer' = writer /\ draft' = draft)
    BY <1>1, AccountsAssumption
  <2>4. (writer # Nobody => writer \in inTransaction /\ at[writer] # "save players")'
    <3>1. writer # Nobody =>
            writer \in inTransaction /\ writer \in Servers /\ at[writer] # "save players"
      BY DEF IInv, TypeOK, TransactionsSound
    <3>2. QED
      BY <1>1, <2>1, <2>3, <3>1
  <2>5. ASSUME NEW w \in Servers, writer' = w
        PROVE  /\ draft'.accounts = file'.accounts
               /\ \A i \in Ids : i # accountId'[session'[w]] => draft'.saved[i] = file'.saved[i]
    <3>1. writer = w /\ w # v /\ draft' = draft /\ file' = file
      BY <1>1, <2>3, <2>5, AccountsAssumption
    <3>2. w \in inTransaction
      BY <3>1, AccountsAssumption DEF IInv, TransactionsSound
    <3>3. at[w] # "idle"
      BY <3>2 DEF IInv, TransactionsSound, Saving
    <3>4. session'[w] = session[w] /\ session[w] \in Sessions \ lost
      BY <2>1, <3>1, <3>3
    <3>5. lost \in SUBSET Sessions
      BY <1>0
    <3>6. accountId'[session[w]] = accountId[session[w]]
      BY <1>1, <3>4, <3>5, Freed
    <3>7. QED
      BY <3>1, <3>4, <3>6 DEF IInv, TransactionsSound
  <2>6. QED
    BY <2>2, <2>4, <2>5 DEF TransactionsSound
<1>9. QED
  BY <1>4, <1>5, <1>6, <1>7, <1>8 DEF IInv

-----------------------------------------------------------------------------
(* Loading *)

\* A handler before its session plays: one statement that changes at most what the
\* session has.
LEMMA ReadsKeeps ==
  ASSUME IInv, NEW v \in Servers, NEW s, s = session[v], NEW st, NEW next \in Statements,
         Step(v, st, next), st \in Loading, next \in Loading \cup {"enter", "begin"},
         data' \in [Sessions -> Rows], \A u \in Sessions : u # s => data'[u] = data[u],
         UNCHANGED <<db, state, server, name, accountId, loc, logins, contested, abandoned>>,
         refused' \in {refused, refused \cup {accountId[s]}},
         Undisturbed(name[s])' => SavesAsPlayed(s)'
  PROVE  IInv'
<1>1. /\ at[v] = st /\ at' = [at EXCEPT ![v] = next] /\ session' = session
      /\ st \notin Saving /\ next \notin Saving
      /\ st \notin {"idle", "setLoc"} /\ next \notin {"idle", "setLoc"}
      /\ UNCHANGED <<file, draft, writer, inTransaction, lastRowid>>
  BY DEF Step, Loading, Saving, db
<1>2. s \in Sessions /\ state[s] = "login" /\ accountId[s] # 0
  BY <1>1, Handling DEF IInv, ThreadsSound, Handled, Loading
<1>3. Handled(next, state[s], accountId[s])
  BY <1>2 DEF Handled, Loading, Saving
<1>4. /\ at' \in [Servers -> Statements]
      /\ ThreadsSound' /\ SessionsSound' /\ OneSession' /\ LocationsSound'
  BY <1>1, <1>3, GoesOn
<1>5. TypeOK'
  <2>1. refused' \subseteq Ids
    BY <1>2 DEF IInv, TypeOK
  <2>2. QED
    BY <1>1, <2>1 DEF IInv, TypeOK
<1>6. TransactionsSound'
  BY <1>1, NothingWritten
<1>7. AccountsNumbered'
  <2>1. \A w \in Servers : at'[w] = "lastInsertRowid" => at[w] = "lastInsertRowid"
    BY <1>1 DEF IInv, Loading
  <2>2. QED
    BY <1>1, <2>1 DEF IInv, AccountsNumbered, Registered
<1>8. SavesSound'
  <2>1. \A u \in Sessions : u # s /\ accountId[u] # 0 => Statement(u)' = Statement(u)
    BY <1>1, NextStatement, Known
  <2>2. \A u \in Sessions : u # s =>
          /\ accountId'[u] = accountId[u] /\ data'[u] = data[u]
          /\ accountId[u] # 0 => Statement(u)' = Statement(u)
    BY <2>1
  <2>3. refused \subseteq refused'
    OBVIOUS
  <2>4. QED
    BY <1>1, <1>2, <2>2, <2>3, OneReadGoesOn
<1>9. QED
  BY <1>4, <1>5, <1>6, <1>7, <1>8 DEF IInv

\* What is saved of the session of a handler that loads: one moment, unless its saves
\* were disturbed.
LEMMA SavedOfHandler ==
  ASSUME IInv, NEW v \in Servers, NEW s, s = session[v], at[v] \in Loading
  PROVE  /\ s \in Sessions /\ accountId[s] \in Ids /\ View(v) = file
         /\ file.saved[accountId[s]] \in Rows
         /\ Undisturbed(name[s]) => Whole(file.saved[accountId[s]]) /\ SavesAsPlayed(s)
<1>1. s \in Sessions /\ accountId[s] # 0
  BY Handling DEF IInv, ThreadsSound, Handled, Loading
<1>2. accountId[s] \in Ids
  BY <1>1 DEF IInv, TypeOK
<1>3. View(v) = file
  BY ViewsFile DEF Loading, Saving
<1>4. file.saved[accountId[s]] \in Rows
  <2>1. file.saved \in [Ids -> Rows]
    BY Sorts DEF IInv, TypeOK
  <2>2. QED
    BY <1>2, <2>1
<1>5. Undisturbed(name[s]) => Whole(file.saved[accountId[s]]) /\ SavesAsPlayed(s)
  BY <1>1, Known DEF IInv, SavesSound
<1>6. QED
  BY <1>1, <1>2, <1>3, <1>4, <1>5

\* A SELECT that misses what is there disturbs the account.
LEMMA SelectSees ==
  ASSUME IInv, NEW v \in Servers, NEW s, s = session[v], at[v] \in Loading,
         NEW there, NEW found, SelectRefused(v, there, found), UNCHANGED <<file, name>>
  PROVE  /\ UNCHANGED <<logins, contested, abandoned>>
         /\ refused' \in {refused, refused \cup {accountId[s]}}
         /\ Undisturbed(name[s])' => found = there /\ Undisturbed(name[s])
<1>1. /\ UNCHANGED <<logins, contested, abandoned>>
      /\ refused' = IF found = there THEN refused ELSE refused \cup {accountId[s]}
  BY DEF SelectRefused
<1>2. file.accounts[name[s]] = accountId[s]
  BY Handling, Known DEF IInv, ThreadsSound, Handled, Loading
<1>3. QED
  BY <1>1, <1>2 DEF Undisturbed

\* A player that is not saved yet begins at its first moment.
LEMMA HasPlayerDataKeeps ==
  ASSUME IInv, NEW v \in Servers, HasPlayerData(v)
  PROVE  IInv'
<1> DEFINE first == [table \in Tables |-> 1]
           there == file.saved[accountId[session[v]]]["players"]
<1>0. PICK s : s = session[v]
  OBVIOUS
<1>1. /\ at[v] = "hasPlayerData" /\ "hasPlayerData" \in Loading
      /\ UNCHANGED <<db, state, server, name, accountId, loc>>
  BY DEF HasPlayerData, Loading
<1>2. /\ s \in Sessions /\ accountId[s] \in Ids /\ View(v) = file
      /\ file.saved[accountId[s]] \in Rows
      /\ Undisturbed(name[s]) => Whole(file.saved[accountId[s]])
  BY <1>0, <1>1, SavedOfHandler
<1>3. first \in Rows
  BY AccountsAssumption DEF Rows, Mixed
<1>4. PICK found \in Found(v, there) :
        /\ Step(v, "hasPlayerData", IF found # 0 THEN "load players" ELSE "begin")
        /\ data' = [data EXCEPT ![s] = IF found # 0 THEN NoRows ELSE first]
        /\ SelectRefused(v, there, found)
  BY <1>0, <1>2 DEF HasPlayerData
<1>5. session' = session /\ UNCHANGED <<file, name>>
  BY <1>1, <1>4 DEF Step, db
<1>6. /\ UNCHANGED <<logins, contested, abandoned>>
      /\ refused' \in {refused, refused \cup {accountId[s]}}
      /\ Undisturbed(name[s])' => found = there /\ Undisturbed(name[s])
  <2> HIDE DEF there
  <2>1. QED
    BY <1>0, <1>1, <1>4, <1>5, SelectSees
<1>7. CASE found # 0
  <2>1. /\ Step(v, "hasPlayerData", "load players")
        /\ data' = [data EXCEPT ![s] = NoRows]
    BY <1>4, <1>7
  <2>2. "load players" \in Statements /\ "load players" \in Loading
    BY DEF Statements, Loading
  <2>3. /\ data' \in [Sessions -> Rows] /\ \A u \in Sessions : u # s => data'[u] = data[u]
        /\ data'[s] = NoRows
    BY <1>2, <2>1, Sorts DEF IInv, TypeOK
  <2>4. Statement(s)' = "load players"
    BY ZenonT(60), <1>0, <1>1, <2>1, <2>2, NextStatement
  <2>5. SavesAsPlayed(s)'
    BY <2>3, <2>4, Sorts DEF SavesAsPlayed, AsPlayed, Loading, Saving
  <2>6. QED
    BY <1>0, <1>1, <1>6, <2>1, <2>2, <2>3, <2>5, ReadsKeeps
<1>8. CASE found = 0
  <2>1. /\ Step(v, "hasPlayerData", "begin")
        /\ data' = [data EXCEPT ![s] = first]
    BY <1>4, <1>8
  <2>2. "begin" \in Statements
    BY DEF Statements
  <2>3. /\ data' \in [Sessions -> Rows] /\ \A u \in Sessions : u # s => data'[u] = data[u]
        /\ \A table \in Tables : data'[s][table] = 1
    BY <1>2, <1>3, <2>1 DEF IInv, TypeOK
  <2>4. Statement(s)' = "begin"
    BY <1>0, <1>1, <2>1, <2>2, NextStatement
  <2>5. ASSUME Undisturbed(name[s])' PROVE SavesAsPlayed(s)'
    <3>1. \A table \in Tables : file.saved[accountId[s]][table] = 0
      BY <1>0, <1>2, <1>6, <1>8, <2>5 DEF Whole
    <3>2. Whole(data[s])'
      BY <2>3 DEF Whole, Tables
    <3>3. UNCHANGED <<file, accountId>>
      BY <1>1 DEF db
    <3>4. QED
      BY <2>3, <2>4, <3>1, <3>2, <3>3 DEF SavesAsPlayed, AsPlayed, Loading, Saving
  <2>6. QED
    BY <1>0, <1>1, <1>6, <2>1, <2>2, <2>3, <2>5, ReadsKeeps
<1>9. QED
  BY <1>7, <1>8

\* A SELECT of a load of session s found this, and the next statement is after.
Selected(s, table, st, next, found, after) ==
  /\ after = IF table = "players" /\ found = 0 THEN "enter" ELSE next
  /\ Statement(s) = st /\ Statement(s)' = after
  /\ data'[s][table] = found
  /\ \A other \in Tables : other # table => data'[s][other] = data[s][other]
  /\ UNCHANGED <<file, accountId>>
  /\ Undisturbed(name[s])' =>
       /\ found = file.saved[accountId[s]][table]
       /\ Whole(file.saved[accountId[s]]) /\ SavesAsPlayed(s)
  /\ (Undisturbed(name[s])' => SavesAsPlayed(s)') => IInv'

\* A SELECT of a load: of the rows that are there, unless it is refused.
LEMMA SelectKeeps ==
  ASSUME IInv, NEW v \in Servers, NEW s, s = session[v], NEW table \in Tables,
         NEW st \in Loading, NEW next \in Statements, next \in Loading \cup {"enter"},
         "enter" \in Statements, Load(v, table, st, next)
  PROVE  \E found, after : Selected(s, table, st, next, found, after)
<1> DEFINE there == file.saved[accountId[s]][table]
<1>1. at[v] = st /\ UNCHANGED <<db, state, server, name, accountId, loc>>
  BY DEF Load
<1>2. /\ s \in Sessions /\ accountId[s] \in Ids /\ View(v) = file
      /\ file.saved[accountId[s]] \in Rows
      /\ Undisturbed(name[s]) => Whole(file.saved[accountId[s]]) /\ SavesAsPlayed(s)
  BY <1>1, SavedOfHandler
<1>3. PICK found \in Found(v, there) :
        /\ Step(v, st, IF table = "players" /\ found = 0 THEN "enter" ELSE next)
        /\ data' = [data EXCEPT ![s][table] = found]
        /\ SelectRefused(v, there, found)
  BY <1>2 DEF Load
<1>4. PICK after : after = IF table = "players" /\ found = 0 THEN "enter" ELSE next
  OBVIOUS
<1>5. Step(v, st, after) /\ after \in Statements /\ after \in Loading \cup {"enter"}
  BY <1>3, <1>4
<1>6. /\ UNCHANGED <<logins, contested, abandoned, file>>
      /\ refused' \in {refused, refused \cup {accountId[s]}}
      /\ Undisturbed(name[s])' => found = there /\ Undisturbed(name[s])
  <2>1. UNCHANGED <<file, name>> /\ at[v] \in Loading /\ SelectRefused(v, there, found)
    BY <1>1, <1>3 DEF db
  <2> HIDE DEF there
  <2>2. QED
    BY <2>1, SelectSees
<1>7. found \in 0 .. Mixed
  BY <1>2, <1>3, Sorts DEF Found, Rows
<1>8. /\ data'[s] = [data[s] EXCEPT ![table] = found]
      /\ \A u \in Sessions : u # s => data'[u] = data[u]
  BY <1>2, <1>3 DEF IInv, TypeOK
<1>9. data[s] \in [Tables -> 0 .. Mixed] /\ data \in [Sessions -> Rows]
  BY <1>2 DEF IInv, TypeOK, Rows
<1>10. data' \in [Sessions -> Rows]
  <2>1. [data[s] EXCEPT ![table] = found] \in Rows
    BY <1>7, <1>9 DEF Rows
  <2>2. data' = [data EXCEPT ![s] = [data[s] EXCEPT ![table] = found]]
    BY <1>2, <1>3, <1>9
  <2>3. QED
    BY <1>9, <2>1, <2>2
<1>11. Statement(s) = st /\ Statement(s)' = after
  <2>1. st # "idle" /\ server' = server
    BY <1>1 DEF Loading
  <2>2. QED
    BY <1>5, <2>1, NextStatement
<1>12. ASSUME Undisturbed(name[s])' => SavesAsPlayed(s)'
       PROVE  IInv'
  BY <1>1, <1>5, <1>6, <1>8, <1>10, <1>12, ReadsKeeps
<1>13. /\ data'[s][table] = found
       /\ \A other \in Tables : other # table => data'[s][other] = data[s][other]
  BY <1>8, <1>9
<1>14. QED
  <2>1. UNCHANGED <<file, accountId>>
    BY <1>1 DEF db
  <2>2. Undisturbed(name[s])' =>
          /\ found = file.saved[accountId[s]][table]
          /\ Whole(file.saved[accountId[s]]) /\ SavesAsPlayed(s)
    BY <1>2, <1>6
  <2>3. (Undisturbed(name[s])' => SavesAsPlayed(s)') => IInv'
    BY <1>12
  <2> WITNESS found, after
  <2>4. QED
    BY ZenonT(60), <1>4, <1>11, <1>13, <2>1, <2>2, <2>3 DEF Selected

\* The SELECTs of a load: all three see one moment, unless another session saves.
LEMMA LoadKeeps ==
  ASSUME IInv, NEW v \in Servers, LoadPlayerData(v)
  PROVE  IInv'
<1>0. PICK s : s = session[v]
  OBVIOUS
<1>1. /\ {"load inventory", "load equipment", "enter"} \subseteq Statements
      /\ {"load players", "load inventory", "load equipment"} \subseteq Loading
      /\ {"players", "inventory", "equipment"} = Tables
  BY DEF Statements, Loading, Tables
<1>2. ASSUME NEW st \in Loading, at[v] = st
      PROVE  \A table \in Tables : file.saved[accountId[s]][table] \in Nat
  <2>1. file.saved[accountId[s]] \in Rows
    BY <1>0, <1>2, SavedOfHandler
  <2>2. QED
    BY <2>1, Sorts DEF Rows
<1>3. CASE Load(v, "players", "load players", "load inventory")
  <2>0. PICK found, after : Selected(s, "players", "load players", "load inventory", found, after)
    BY <1>0, <1>1, <1>3, SelectKeeps
  <2>1. /\ after = IF found = 0 THEN "enter" ELSE "load inventory"
        /\ Statement(s) = "load players" /\ Statement(s)' = after
        /\ data'[s]["players"] = found
        /\ \A other \in Tables : other # "players" => data'[s][other] = data[s][other]
        /\ UNCHANGED <<file, accountId>>
        /\ Undisturbed(name[s])' =>
             /\ found = file.saved[accountId[s]]["players"]
             /\ Whole(file.saved[accountId[s]]) /\ SavesAsPlayed(s)
        /\ (Undisturbed(name[s])' => SavesAsPlayed(s)') => IInv'
    BY <2>0, <1>1 DEF Selected
  <2>2. ASSUME Undisturbed(name[s])' PROVE SavesAsPlayed(s)'
    <3>1. CASE found = 0
      <4>1. \A table \in Tables : file.saved[accountId[s]][table] = 0
        BY <2>1, <2>2, <3>1 DEF Whole
      <4>2. \A table \in Tables : data'[s][table] = 0
        BY <1>1, <2>1, <2>2, <3>1 DEF SavesAsPlayed, AsPlayed
      <4>3. Whole(data'[s])
        BY <1>1, <4>2 DEF Whole
      <4>4. Statement(s)' = "enter"
        BY <2>1, <3>1
      <4>5. \A table \in Tables : file.saved[accountId[s]][table] <= data'[s][table]
        BY <4>1, <4>2
      <4>6. \A new, writes :
              AsPlayed("enter", data'[s], file.saved[accountId[s]], new, writes)
        BY <4>3, <4>5 DEF AsPlayed, Loading, Saving
      <4>7. QED
        BY <2>1, <4>4, <4>6 DEF SavesAsPlayed
    <3>2. CASE found # 0
      BY <2>1, <2>2, <3>2 DEF SavesAsPlayed, AsPlayed, Loading, Saving
    <3>3. QED
      BY <3>1, <3>2
  <2>3. QED
    BY <2>1, <2>2
<1>4. CASE Load(v, "inventory", "load inventory", "load equipment")
  <2>1. /\ Statement(s) = "load inventory" /\ Statement(s)' = "load equipment"
        /\ data'[s]["players"] = data[s]["players"]
        /\ UNCHANGED <<file, accountId>>
        /\ Undisturbed(name[s])' =>
             data'[s]["inventory"] = file.saved[accountId[s]]["inventory"] /\ SavesAsPlayed(s)
        /\ (Undisturbed(name[s])' => SavesAsPlayed(s)') => IInv'
    <3>1. PICK found, after :
            Selected(s, "inventory", "load inventory", "load equipment", found, after)
      BY <1>0, <1>1, <1>4, SelectKeeps
    <3>2. QED
      BY <1>1, <3>1 DEF Selected
  <2>2. ASSUME Undisturbed(name[s])' PROVE SavesAsPlayed(s)'
    BY <2>1, <2>2 DEF SavesAsPlayed, AsPlayed, Loading, Saving
  <2>3. QED
    BY <2>1, <2>2
<1>5. CASE Load(v, "equipment", "load equipment", "enter")
  <2>0. PICK found, after : Selected(s, "equipment", "load equipment", "enter", found, after)
    BY <1>0, <1>1, <1>5, SelectKeeps
  <2>1. /\ after = "enter"
        /\ Statement(s) = "load equipment" /\ Statement(s)' = after
        /\ data'[s]["equipment"] = found
        /\ \A other \in Tables : other # "equipment" => data'[s][other] = data[s][other]
        /\ UNCHANGED <<file, accountId>>
        /\ Undisturbed(name[s])' =>
             /\ found = file.saved[accountId[s]]["equipment"]
             /\ Whole(file.saved[accountId[s]]) /\ SavesAsPlayed(s)
        /\ (Undisturbed(name[s])' => SavesAsPlayed(s)') => IInv'
    BY <2>0, <1>1 DEF Selected
  <2>2. ASSUME Undisturbed(name[s])' PROVE SavesAsPlayed(s)'
    <3>1. \A table \in Tables : data'[s][table] = file.saved[accountId[s]][table]
      BY <1>1, <2>1, <2>2 DEF SavesAsPlayed, AsPlayed
    <3>2. Whole(data'[s])
      BY <2>1, <2>2, <3>1, <1>1 DEF Whole
    <3>3. at[v] = "load equipment"
      BY <1>5 DEF Load
    <3>4. \A table \in Tables : file.saved[accountId[s]][table] <= data'[s][table]
      <4>1. \A table \in Tables : file.saved[accountId[s]][table] \in Nat
        BY <1>1, <1>2, <3>3
      <4>2. QED
        BY <3>1, <4>1
    <3>5. \A new, writes : AsPlayed("enter", data'[s], file.saved[accountId[s]], new, writes)
      BY <3>2, <3>4 DEF AsPlayed, Loading, Saving
    <3>6. Statement(s)' = "enter"
      BY <2>1
    <3>7. QED
      BY <2>1, <3>5, <3>6 DEF SavesAsPlayed
  <2>3. QED
    BY <2>1, <2>2
<1>6. QED
  BY <1>3, <1>4, <1>5 DEF LoadPlayerData

\* The session waits for EnterRoom; its location is not yet known.
LEMMA QueueEnterRoomKeeps ==
  ASSUME IInv, NEW v \in Servers, QueueEnterRoom(v)
  PROVE  IInv'
<1>0. PICK s : s = session[v]
  OBVIOUS
<1>1. /\ Step(v, "enter", "setLoc") /\ at[v] = "enter"
      /\ at' = [at EXCEPT ![v] = "setLoc"] /\ session' = session
      /\ state' = [state EXCEPT ![s] = "queued"]
      /\ UNCHANGED <<file, draft, writer, inTransaction, lastRowid, server, name, accountId,
                     data, loc, logins, contested, refused, abandoned>>
  BY <1>0 DEF QueueEnterRoom, Step, db, history
<1>2. s \in Sessions /\ server[s] = v /\ state[s] = "login" /\ accountId[s] # 0
  BY <1>0, <1>1, Handling DEF IInv, ThreadsSound, Handled, Loading
<1>3. /\ at' \in [Servers -> Statements] /\ at'[v] = "setLoc"
      /\ \A w \in Servers : w # v => at'[w] = at[w]
  BY <1>1 DEF IInv, Statements
<1>4. state'[s] = "queued" /\ \A u \in Sessions : u # s => state'[u] = state[u]
  BY <1>1, <1>2 DEF IInv, TypeOK
<1>5. TypeOK'
  BY <1>1 DEF IInv, TypeOK, States
<1>6. ThreadsSound'
  <2>1. \A w \in Servers : w # v /\ at[w] # "idle" => session[w] \in Sessions /\ session[w] # s
    BY <1>0, <1>1, Handling
  <2>2. Handled("setLoc", "queued", accountId[s]) /\ s # Nobody
    BY <1>2, AccountsAssumption DEF Handled, Loading, Saving
  <2>3. QED
    BY <1>0, <1>1, <1>2, <1>3, <1>4, <2>1, <2>2 DEF IInv, ThreadsSound
<1>7. SessionsSound'
  BY <1>1, <1>2, <1>4 DEF IInv, SessionsSound
<1>8. TransactionsSound'
  BY <1>1, NothingWritten DEF Saving
<1>9. AccountsNumbered'
  BY <1>1, <1>3 DEF IInv, AccountsNumbered, Registered
<1>10. OneSession'
  BY <1>1 DEF IInv, OneSession
<1>11. /\ Statement(s) = "enter" /\ Statement(s)' = "setLoc"
       /\ \A u \in Sessions : u # s /\ state[u] # "free" => Statement(u)' = Statement(u)
  <2>1. "setLoc" \in Statements
    BY DEF Statements
  <2>2. QED
    BY <1>0, <1>1, <2>1, NextStatement
<1>12. SavesSound'
  <2>1. ASSUME Undisturbed(name[s]) PROVE SavesAsPlayed(s)'
    <3>1. SavesAsPlayed(s)
      BY <1>2, <2>1 DEF IInv, SavesSound
    <3>2. QED
      BY <1>1, <1>11, <3>1 DEF SavesAsPlayed, AsPlayed, Loading, Saving
  <2>2. \A u \in Sessions : u # s =>
          /\ accountId'[u] = accountId[u] /\ data'[u] = data[u]
          /\ accountId[u] # 0 => Statement(u)' = Statement(u)
    BY <1>1, <1>11, Known
  <2>3. QED
    BY <1>1, <1>2, <2>1, <2>2, OneSaveGoesOn
<1>13. LocationsSound'
  <2>1. ~Located(s) /\ ~Located(s)'
    BY <1>2, <1>11 DEF Located
  <2>2. \A u \in Sessions : u # s => (Located(u)' <=> Located(u))
    BY <1>4, <1>11 DEF Located
  <2>3. QED
    BY <1>1, <2>1, <2>2 DEF IInv, LocationsSound
<1>14. QED
  BY <1>3, <1>5, <1>6, <1>7, <1>8, <1>9, <1>10, <1>12, <1>13 DEF IInv

\* The location is that of the only session of the name.
LEMMA SetLocKeeps ==
  ASSUME IInv, NEW v \in Servers, SetLoc(v)
  PROVE  IInv'
<1>0. PICK s, n : s = session[v] /\ n = name[s]
  OBVIOUS
<1>1. /\ at[v] = "setLoc"
      /\ loc' = [loc EXCEPT ![n] = v] /\ abandoned' = abandoned \ {n}
      /\ at' = [at EXCEPT ![v] = "idle"] /\ session' = [session EXCEPT ![v] = Nobody]
      /\ UNCHANGED <<file, draft, writer, inTransaction, lastRowid, state, server, name,
                     accountId, data, logins, contested, refused>>
  BY <1>0 DEF SetLoc, Idle, db, sessions
<1>2. /\ s \in Sessions /\ server[s] = v /\ state[s] = "queued" /\ n \in Names
      /\ accountId[s] # 0
  BY <1>0, <1>1, Handling DEF IInv, ThreadsSound, Handled, SessionsSound
<1>3. /\ at' \in [Servers -> Statements] /\ at'[v] = "idle" /\ session'[v] = Nobody
      /\ \A w \in Servers : w # v => at'[w] = at[w] /\ session'[w] = session[w]
  BY <1>1 DEF IInv, TypeOK, Statements
<1>4. TypeOK'
  BY <1>1, <1>2 DEF IInv, TypeOK
<1>5. ThreadsSound'
  BY <1>1, <1>3 DEF IInv, ThreadsSound
<1>6. SessionsSound'
  <2>1. ASSUME NEW u \in Sessions, state[u] = "login" PROVE session'[server[u]] = u
    BY <1>0, <1>1, <1>2, <1>3, <2>1, AccountsAssumption DEF IInv, TypeOK, SessionsSound
  <2>2. QED
    BY <1>1, <2>1 DEF IInv, SessionsSound
<1>7. TransactionsSound'
  BY <1>1, <1>3, NothingWritten DEF Saving
<1>8. AccountsNumbered'
  BY <1>1, <1>3 DEF IInv, AccountsNumbered, Registered
<1>9. OneSession'
  BY <1>1 DEF IInv, OneSession
<1>10. /\ Statement(s) = "setLoc" /\ Statement(s)' = "idle"
       /\ \A u \in Sessions : u # s /\ state[u] # "free" => Statement(u)' = Statement(u)
  <2>1. \A u \in Sessions : state[u] # "free" => server[u] \in Servers
    BY Known
  <2>2. QED
    BY <1>0, <1>1, <1>2, <1>3, <2>1, AccountsAssumption DEF Statement
<1>11. SavesSound'
  <2>1. ASSUME Undisturbed(name[s]) PROVE SavesAsPlayed(s)'
    <3>1. SavesAsPlayed(s)
      BY <1>2, <2>1 DEF IInv, SavesSound
    <3>2. QED
      BY <1>1, <1>10, <3>1 DEF SavesAsPlayed, AsPlayed, Loading, Saving
  <2>2. \A u \in Sessions : u # s =>
          /\ accountId'[u] = accountId[u] /\ data'[u] = data[u]
          /\ accountId[u] # 0 => Statement(u)' = Statement(u)
    BY <1>1, <1>10, Known
  <2>3. QED
    BY <1>1, <1>2, <2>1, <2>2, OneSaveGoesOn
<1>12. LocationsSound'
  <2>1. Located(s)'
    BY <1>1, <1>2, <1>10 DEF Located
  <2>2. \A u \in Sessions : u # s => (Located(u)' <=> Located(u))
    BY <1>1, <1>10 DEF Located
  <2>3. ASSUME NEW m \in Names \ contested
        PROVE  /\ \A u \in Sessions : name[u] = m /\ Located(u)' => loc'[m] = server[u]
               /\ m \notin abandoned' /\ (\A u \in Sessions : name[u] = m => ~Located(u)') =>
                    loc'[m] = Nobody
    <3>1. CASE m = n
      <4>1. \A u \in Sessions : name[u] = n => u = s
        BY <1>0, <1>2, <2>3, <3>1, AccountsAssumption DEF IInv, OneSession
      <4>2. loc'[n] = v
        BY <1>1, <1>2 DEF IInv, TypeOK
      <4>3. QED
        BY <1>0, <1>2, <2>1, <3>1, <4>1, <4>2
    <3>2. CASE m # n
      <4>1. loc'[m] = loc[m] /\ (m \in abandoned' <=> m \in abandoned)
        BY <1>1, <3>2 DEF IInv, TypeOK
      <4>2. \A u \in Sessions : name[u] = m => u # s
        BY <1>0, <3>2
      <4>3. QED
        BY <2>2, <4>1, <4>2 DEF IInv, LocationsSound
    <3>3. QED
      BY <3>1, <3>2
  <2>4. QED
    BY <1>1, <2>3 DEF LocationsSound
<1>13. QED
  BY <1>3, <1>4, <1>5, <1>6, <1>7, <1>8, <1>9, <1>11, <1>12 DEF IInv

-----------------------------------------------------------------------------
(* Saving *)

\* The session of a handler that saves.
LEMMA Saves ==
  ASSUME IInv, NEW v \in Servers, NEW s, s = session[v], at[v] \in Saving \cup {"begin"}
  PROVE  /\ s \in Sessions /\ server[s] = v /\ name[s] \in Names
         /\ accountId[s] \in Ids /\ accountId[s] # 0 /\ file.accounts[name[s]] = accountId[s]
         /\ state[s] \in {"login", "playing"} /\ Statement(s) = at[v]
         /\ at[v] \in Saving <=> v \in inTransaction
         /\ Undisturbed(name[s]) => SavesAsPlayed(s)
<1>1. at[v] # "idle"
  BY DEF Saving
<1>2. /\ s \in Sessions /\ server[s] = v /\ name[s] \in Names /\ Statement(s) = at[v]
      /\ state[s] \in {"login", "playing"} /\ accountId[s] # 0
  BY <1>1, Handling DEF IInv, ThreadsSound, Handled
<1>3. accountId[s] \in Ids /\ file.accounts[name[s]] = accountId[s]
  BY <1>2, Known DEF IInv, TypeOK
<1>4. at[v] \in Saving <=> v \in inTransaction
  BY DEF IInv, TransactionsSound
<1>5. QED
  BY <1>2, <1>3, <1>4 DEF IInv, SavesSound

\* BEGIN: nothing is written yet, and no lock is taken.
LEMMA BeginKeeps ==
  ASSUME IInv, NEW v \in Servers, Begin(v)
  PROVE  IInv'
<1>0. PICK s : s = session[v]
  OBVIOUS
<1>1. /\ Step(v, "begin", "save players") /\ at[v] = "begin"
      /\ at' = [at EXCEPT ![v] = "save players"] /\ session' = session
      /\ inTransaction' = inTransaction \cup {v}
      /\ UNCHANGED <<file, draft, writer, lastRowid, state, server, name, accountId, data,
                     loc, logins, contested, refused, abandoned>>
  BY DEF Begin, Step, sessions, history
<1>2. /\ s \in Sessions /\ accountId[s] # 0 /\ state[s] \in {"login", "playing"}
      /\ Undisturbed(name[s]) => SavesAsPlayed(s)
  BY <1>0, <1>1, Saves
<1>3. "save players" \in Statements /\ Handled("save players", state[s], accountId[s])
  BY <1>2 DEF Handled, Loading, Saving, Statements
<1>4. /\ at' \in [Servers -> Statements]
      /\ ThreadsSound' /\ SessionsSound' /\ OneSession' /\ LocationsSound'
  BY <1>0, <1>1, <1>3, GoesOn
<1>5. TypeOK'
  BY <1>1 DEF IInv, TypeOK
<1>6. TransactionsSound'
  <2>1. at'[v] = "save players" /\ \A w \in Servers : w # v => at'[w] = at[w]
    BY <1>1 DEF IInv
  <2>2. inTransaction' = {w \in Servers : at'[w] \in Saving}
    BY <1>1, <2>1 DEF IInv, TransactionsSound, Saving
  <2>3. writer # v
    BY <1>1, ViewsFile DEF Saving
  <2>4. writer # Nobody =>
          writer \in inTransaction /\ writer \in Servers /\ at[writer] # "save players"
    BY DEF IInv, TypeOK, TransactionsSound
  <2>5. (writer # Nobody => writer \in inTransaction /\ at[writer] # "save players")'
    BY <1>1, <2>1, <2>3, <2>4
  <2>6. QED
    BY <1>1, <2>2, <2>5 DEF IInv, TransactionsSound
<1>7. AccountsNumbered'
  <2>1. \A w \in Servers : at'[w] = "lastInsertRowid" => at[w] = "lastInsertRowid"
    BY <1>1 DEF IInv
  <2>2. QED
    BY <1>1, <2>1 DEF IInv, AccountsNumbered, Registered
<1>8. SavesSound'
  <2>1. /\ Statement(s) = "begin" /\ Statement(s)' = "save players"
        /\ \A u \in Sessions : u # s /\ state[u] # "free" => Statement(u)' = Statement(u)
    <3>1. \A u \in Sessions : state[u] # "free" => server[u] \in Servers
      BY Known
    <3>2. at'[v] = "save players" /\ \A w \in Servers : w # v => at'[w] = at[w]
      BY <1>1 DEF IInv
    <3>3. server[s] = v
      BY <1>0, <1>1, Saves
    <3>4. QED
      BY <1>0, <1>1, <3>1, <3>2, <3>3 DEF Statement
  <2>2. Undisturbed(name[s]) => SavesAsPlayed(s)'
    BY <1>1, <1>2, <2>1 DEF SavesAsPlayed, AsPlayed, Loading, Saving
  <2>3. \A u \in Sessions : u # s =>
          /\ accountId'[u] = accountId[u] /\ data'[u] = data[u]
          /\ accountId[u] # 0 => Statement(u)' = Statement(u)
    BY <1>1, <2>1, Known
  <2>4. QED
    BY <1>1, <1>2, <2>2, <2>3, OneSaveGoesOn
<1>9. QED
  BY <1>4, <1>5, <1>6, <1>7, <1>8 DEF IInv

\* What a statement of a save writes, if it is not refused.
Moments == 0 .. Mixed
WithRows(v, id, table, rows) == [View(v) EXCEPT !.saved[id][table] = rows]

LEMMA WrittenRows ==
  ASSUME IInv, NEW v \in Servers, at[v] \in Saving,
         NEW table \in Tables, NEW rows \in Moments,
         Write(v, WithRows(v, accountId[session[v]], table, rows))
  PROVE  /\ UNCHANGED <<file, inTransaction>> /\ draft' \in DB /\ writer' = v
         /\ draft'.accounts = file.accounts
         /\ \A i \in Ids : i # accountId[session[v]] => draft'.saved[i] = file.saved[i]
         /\ draft'.saved[accountId[session[v]]][table] = rows
         /\ \A other \in Tables : other # table =>
              draft'.saved[accountId[session[v]]][other] = View(v).saved[accountId[session[v]]][other]
<1> DEFINE id == accountId[session[v]]
           seen == View(v)
<1>1. Write(v, [seen EXCEPT !.saved[id][table] = rows])
  BY DEF WithRows
<1>2. v \in inTransaction /\ id \in Ids
  BY Saves
<1>3. /\ draft' = [seen EXCEPT !.saved[id][table] = rows] /\ writer' = v
      /\ UNCHANGED <<file, inTransaction>>
  BY <1>1, <1>2 DEF Write
<1>4. /\ seen \in DB /\ seen.accounts = file.accounts
      /\ \A i \in Ids : i # id => seen.saved[i] = file.saved[i]
  <2>1. CASE writer = v
    BY <2>1 DEF View, IInv, TypeOK, TransactionsSound
  <2>2. CASE writer # v
    BY <2>2 DEF View, IInv, TypeOK
  <2>3. QED
    BY <2>1, <2>2
<1>5. seen.saved \in [Ids -> Rows] /\ seen.saved[id] \in [Tables -> 0 .. Mixed]
  BY <1>2, <1>4, Sorts DEF Rows
<1> HIDE DEF id, seen
<1>6. /\ draft'.accounts = seen.accounts
      /\ draft'.saved = [seen.saved EXCEPT ![id] = [seen.saved[id] EXCEPT ![table] = rows]]
  BY <1>2, <1>3, <1>4, <1>5 DEF DB
<1>7. [seen.saved[id] EXCEPT ![table] = rows] \in Rows
  BY <1>5 DEF Rows, Moments
<1>8. draft'.saved \in [Ids -> Rows]
  BY <1>5, <1>6, <1>7
<1>9. draft' \in DB
  BY <1>3, <1>4, <1>6, <1>8 DEF DB
<1>10. /\ \A i \in Ids : i # id => draft'.saved[i] = file.saved[i]
       /\ draft'.saved[id] = [seen.saved[id] EXCEPT ![table] = rows]
  BY <1>2, <1>4, <1>5, <1>6
<1>11. QED
  BY <1>3, <1>4, <1>5, <1>6, <1>9, <1>10 DEF id, seen

\* A statement of a save: refused, which disturbs the saves of its account, or written
\* to the draft, as the next statement asks for.
LEMMA SaveRowsKeeps ==
  ASSUME IInv, NEW v \in Servers, NEW s, s = session[v], NEW st \in Saving,
         NEW next \in Saving \ {"save players"}, NEW table \in Tables, NEW rows \in Moments,
         SaveRows(v, st, next, table, rows),
         Undisturbed(name[s]) /\ ~Busy(v) => SavesAsPlayed(s)'
  PROVE  IInv'
<1>1. /\ Step(v, st, next) /\ at[v] = st
      /\ at' = [at EXCEPT ![v] = next] /\ session' = session
      /\ UNCHANGED <<lastRowid, state, server, name, accountId, data, loc, logins, contested,
                     abandoned>>
  BY DEF SaveRows, Step, sessions
<1>2. /\ s \in Sessions /\ server[s] = v /\ name[s] \in Names /\ v \in inTransaction
      /\ accountId[s] \in Ids /\ accountId[s] # 0 /\ file.accounts[name[s]] = accountId[s]
      /\ state[s] \in {"login", "playing"}
  BY <1>1, Saves
<1>3. \/ /\ Busy(v) /\ refused' = refused \cup {accountId[s]}
         /\ UNCHANGED <<file, draft, writer, inTransaction>>
      \/ /\ ~Busy(v) /\ UNCHANGED <<file, inTransaction, refused>>
         /\ draft' \in DB /\ writer' = v
         /\ draft'.accounts = file.accounts
         /\ \A i \in Ids : i # accountId[s] => draft'.saved[i] = file.saved[i]
  <2>1. CASE Busy(v)
    BY <2>1 DEF SaveRows
  <2>2. CASE ~Busy(v)
    <3>1. /\ UNCHANGED <<file, inTransaction, refused>> /\ draft' \in DB /\ writer' = v
          /\ draft'.accounts = file.accounts
          /\ \A i \in Ids : i # accountId[s] => draft'.saved[i] = file.saved[i]
      <4>1. /\ Write(v, WithRows(v, accountId[s], table, rows))
            /\ refused' = refused /\ at[v] \in Saving
        BY <1>1, <2>2 DEF SaveRows, WithRows
      <4>2. /\ UNCHANGED <<file, inTransaction>> /\ draft' \in DB /\ writer' = v
            /\ draft'.accounts = file.accounts
            /\ \A i \in Ids : i # accountId[s] => draft'.saved[i] = file.saved[i]
        BY <4>1, WrittenRows
      <4>3. QED
        BY <4>1, <4>2
    <3>2. QED
      BY <2>2, <3>1
  <2>3. QED
    BY <2>1, <2>2
<1>4. /\ next \in Statements /\ st \notin {"idle", "setLoc"} /\ next \notin {"idle", "setLoc"}
      /\ next # "lastInsertRowid"
  BY DEF Statements, Saving
<1>5. /\ at' \in [Servers -> Statements]
      /\ ThreadsSound' /\ SessionsSound' /\ OneSession' /\ LocationsSound'
  <2>1. Handled(next, state[s], accountId[s])
    BY <1>2 DEF Handled, Loading, Saving
  <2>2. QED
    BY <1>1, <1>4, <2>1, GoesOn
<1>6. TypeOK'
  <2>1. refused' \subseteq Ids /\ writer' \in Servers \cup {Nobody}
    BY <1>2, <1>3 DEF IInv, TypeOK
  <2>2. draft' \in DB /\ UNCHANGED <<file, inTransaction>>
    BY <1>3 DEF IInv, TypeOK
  <2>3. QED
    BY <1>1, <2>1, <2>2 DEF IInv, TypeOK
<1>7. at'[v] = next /\ \A w \in Servers : w # v => at'[w] = at[w]
  BY <1>1 DEF IInv
<1>8. TransactionsSound'
  <2>1. inTransaction' = {w \in Servers : at'[w] \in Saving}
    BY <1>1, <1>3, <1>7 DEF IInv, TransactionsSound
  <2>2. (writer # Nobody => writer \in inTransaction /\ at[writer] # "save players")'
    <3>1. writer # Nobody =>
            writer \in inTransaction /\ writer \in Servers /\ at[writer] # "save players"
      BY DEF IInv, TypeOK, TransactionsSound
    <3>2. QED
      <4>1. next # "save players" /\ inTransaction' = inTransaction
        BY <1>3
      <4>2. writer' = v \/ writer' = writer
        BY <1>3
      <4>3. QED
        BY <1>2, <1>7, <3>1, <4>1, <4>2
  <2>3. ASSUME NEW w \in Servers, writer' = w
        PROVE  /\ draft'.accounts = file'.accounts
               /\ \A i \in Ids : i # accountId[session[w]] => draft'.saved[i] = file'.saved[i]
    BY <1>3, <2>3 DEF IInv, TransactionsSound
  <2>4. QED
    BY <1>1, <2>1, <2>2, <2>3 DEF TransactionsSound
<1>9. AccountsNumbered'
  <2>1. file' = file
    BY <1>3
  <2>2. \A w \in Servers : at'[w] = "lastInsertRowid" => at[w] = "lastInsertRowid"
    BY <1>4, <1>7
  <2>3. QED
    BY <1>1, <2>1, <2>2 DEF IInv, AccountsNumbered, Registered
<1>10. SavesSound'
  <2>1. /\ file' = file
        /\ \A n : Undisturbed(n)' => Undisturbed(n)
        /\ Busy(v) => ~(Undisturbed(name[s])')
    BY <1>1, <1>2, <1>3 DEF Undisturbed
  <2>2. \A u \in Sessions : u # s /\ accountId[u] # 0 => Statement(u)' = Statement(u)
    BY ZenonT(60), <1>1, <1>2, <1>7, Known DEF Statement
  <2>3. ASSUME NEW u \in Sessions, accountId[u] # 0, Undisturbed(name[u])'
        PROVE  SavesAsPlayed(u)'
    <3>1. CASE u = s
      BY <1>1, <2>1, <2>3, <3>1
    <3>2. CASE u # s
      <4>1. SavesAsPlayed(u) /\ server[u] \in Servers
        BY <1>1, <2>1, <2>3, Known DEF IInv, SavesSound
      <4>2. CASE Busy(v)
        BY <1>1, <1>3, <2>2, <2>3, <3>2, <4>1, <4>2 DEF SavesAsPlayed
      <4>3. CASE ~Busy(v)
        <5>1. Statement(u) \notin Saving \ {"save players"}
          <6>1. server[u] = v => Statement(u) = "idle"
            BY <3>2 DEF Statement
          <6>2. writer \in {Nobody, v}
            BY <4>3 DEF Busy
          <6>3. QED
            BY <4>1, <6>1, <6>2, AccountsAssumption DEF SavesAsPlayed, AsPlayed, Saving
        <5>2. \A new, writes :
                AsPlayed(Statement(u), data[u], file.saved[accountId[u]], new, writes)
          BY <4>1, <5>1 DEF SavesAsPlayed, AsPlayed, Saving
        <5>3. QED
          BY <1>1, <2>1, <2>2, <2>3, <3>2, <5>2 DEF SavesAsPlayed
      <4>4. QED
        BY <4>2, <4>3
    <3>3. QED
      BY <3>1, <3>2
  <2>4. QED
    BY <1>1, <2>1, <2>3 DEF IInv, SavesSound
<1>11. QED
  BY <1>5, <1>6, <1>8, <1>9, <1>10 DEF IInv

LEMMA MomentsSound == 0 \in Moments /\ Mixed \in Moments
<1>1. Mixed \in Nat
  BY AccountsAssumption DEF Mixed
<1>2. QED
  BY <1>1 DEF Moments

\* What is known of an undisturbed save when a statement of it has written.
Written(v, st, next, table, rows) ==
  /\ SavesAsPlayed(session[v]) /\ Statement(session[v]) = st
  /\ \A s \in Sessions : s = session[v] => Statement(s)' = next
  /\ UNCHANGED <<file, server, accountId, data>> /\ writer' = server[session[v]]
  /\ draft'.saved[accountId[session[v]]][table] = rows
  /\ \A other \in Tables : other # table /\ st # "save players" =>
       draft'.saved[accountId[session[v]]][other] = draft.saved[accountId[session[v]]][other]

LEMMA SaveGoesOn ==
  ASSUME IInv, NEW v \in Servers, NEW st \in Saving, NEW next \in Saving \ {"save players"},
         NEW table \in Tables, NEW rows \in Moments, SaveRows(v, st, next, table, rows),
         Undisturbed(name[session[v]]), ~Busy(v)
  PROVE  Written(v, st, next, table, rows)
<1>0. PICK s : s = session[v]
  OBVIOUS
<1>1. /\ at[v] = st /\ at' = [at EXCEPT ![v] = next] /\ session' = session
      /\ UNCHANGED <<server, accountId, data>>
  BY DEF SaveRows, Step, sessions
<1>2. SavesAsPlayed(s) /\ Statement(s) = st /\ server[s] = v /\ s \in Sessions
  BY <1>0, <1>1, Saves
<1>3. Statement(s)' = next
  BY <1>0, <1>1, <1>2 DEF Statement, IInv
<1>4. Write(v, WithRows(v, accountId[session[v]], table, rows)) /\ at[v] \in Saving
  BY <1>1 DEF SaveRows, WithRows
<1>5. /\ UNCHANGED <<file, inTransaction>> /\ writer' = v
      /\ draft'.saved[accountId[session[v]]][table] = rows
      /\ \A other \in Tables : other # table =>
           draft'.saved[accountId[session[v]]][other] = View(v).saved[accountId[session[v]]][other]
  BY ZenonT(60), <1>4, WrittenRows
<1>6. st # "save players" => View(v) = draft
  BY <1>2 DEF SavesAsPlayed, AsPlayed, View
<1>7. QED
  BY <1>0, <1>1, <1>2, <1>3, <1>5, <1>6 DEF Written

\* The players row.
LEMMA SavePlayersKeeps ==
  ASSUME IInv, NEW v \in Servers, SavePlayers(v)
  PROVE  IInv'
<1> DEFINE rows == data[session[v]]["players"]
<1>0. PICK s : s = session[v]
  OBVIOUS
<1>1. SaveRows(v, "save players", "delete inventory", "players", rows)
  BY DEF SavePlayers
<1>2. /\ "save players" \in Saving /\ "delete inventory" \in Saving \ {"save players"}
      /\ "players" \in Tables
  BY DEF Saving, Tables
<1>3. at[v] \in Saving
  BY <1>1, <1>2 DEF SaveRows, Step
<1>4. s \in Sessions
  BY <1>0, <1>3, Saves
<1>5. rows \in Moments
  BY <1>0, <1>2, <1>4 DEF IInv, TypeOK, Rows, Moments
<1>6. ASSUME Undisturbed(name[s]), ~Busy(v) PROVE SavesAsPlayed(s)'
  <2>1. /\ SavesAsPlayed(s) /\ Statement(s) = "save players"
        /\ Statement(s)' = "delete inventory"
        /\ UNCHANGED <<file, server, accountId, data>> /\ writer' = server[s]
        /\ draft'.saved[accountId[s]]["players"] = rows
    <3>1. Undisturbed(name[session[v]]) /\ ~Busy(v)
      BY <1>0, <1>6
    <3>2. Written(v, "save players", "delete inventory", "players", rows)
      BY <1>1, <1>2, <1>5, <3>1, SaveGoesOn
    <3>3. QED
      BY <1>0, <1>4, <3>2 DEF Written
  <2>2. QED
    BY <1>0, <2>1 DEF SavesAsPlayed, AsPlayed, Loading, Saving
<1>7. QED
  BY <1>0, <1>1, <1>2, <1>5, <1>6, SaveRowsKeeps

\* The DELETEs.
Deletes(table, st, next) ==
  \/ table = "inventory" /\ st = "delete inventory" /\ next = "insert inventory"
  \/ table = "equipment" /\ st = "delete equipment" /\ next = "insert equipment"

LEMMA DeleteKeeps ==
  ASSUME IInv, NEW v \in Servers,
         NEW table, NEW st, NEW next, Delete(v, table, st, next),
         Deletes(table, st, next)
  PROVE  IInv'
<1>0. PICK s : s = session[v]
  OBVIOUS
<1>1. SaveRows(v, st, next, table, 0)
  BY DEF Delete
<1>2. /\ st \in Saving /\ next \in Saving \ {"save players"} /\ table \in Tables
      /\ st # "save players" /\ "players" \in Tables /\ "inventory" \in Tables
  BY DEF Deletes, Saving, Tables
<1>3. 0 \in Moments
  BY MomentsSound
<1>4. s \in Sessions
  BY <1>0, <1>1, <1>2, Saves DEF SaveRows, Step
<1>5. ASSUME Undisturbed(name[s]), ~Busy(v) PROVE SavesAsPlayed(s)'
  <2>1. /\ SavesAsPlayed(s) /\ Statement(s) = st /\ Statement(s)' = next
        /\ UNCHANGED <<file, server, accountId, data>> /\ writer' = server[s]
        /\ draft'.saved[accountId[s]][table] = 0
        /\ \A other \in Tables : other # table /\ st # "save players" =>
             draft'.saved[accountId[s]][other] = draft.saved[accountId[s]][other]
    <3>1. Undisturbed(name[session[v]]) /\ ~Busy(v)
      BY <1>0, <1>5
    <3>2. Written(v, st, next, table, 0)
      BY <1>1, <1>2, <1>3, <3>1, SaveGoesOn
    <3>3. QED
      BY <1>0, <1>4, <3>2 DEF Written
  <2>2. QED
    BY <1>2, <2>1 DEF SavesAsPlayed, AsPlayed, Deletes, Loading, Saving
<1>6. QED
  BY <1>0, <1>1, <1>2, <1>3, <1>5, SaveRowsKeeps

\* The INSERTs.
Inserts(table, st, next) ==
  \/ table = "inventory" /\ st = "insert inventory" /\ next = "delete equipment"
  \/ table = "equipment" /\ st = "insert equipment" /\ next = "commit"

LEMMA InsertKeeps ==
  ASSUME IInv, NEW v \in Servers,
         NEW table, NEW st, NEW next, Insert(v, table, st, next),
         Inserts(table, st, next)
  PROVE  IInv'
<1>0. PICK s : s = session[v]
  OBVIOUS
<1> DEFINE there == View(v).saved[accountId[s]][table]
           new == data[s][table]
<1>1. PICK rows : /\ rows = IF there \in {0, new} THEN new ELSE Mixed
                  /\ SaveRows(v, st, next, table, rows)
  BY <1>0 DEF Insert
<1>2. /\ st \in Saving /\ next \in Saving \ {"save players"} /\ table \in Tables
      /\ st # "save players" /\ "players" \in Tables /\ "inventory" \in Tables
  BY DEF Inserts, Saving, Tables
<1>3. at[v] \in Saving
  BY <1>1, <1>2 DEF SaveRows, Step
<1>4. s \in Sessions
  BY <1>0, <1>3, Saves
<1>5. rows \in Moments
  <2>1. new \in Moments
    BY <1>2, <1>4 DEF IInv, TypeOK, Rows, Moments
  <2>2. Mixed \in Moments
    BY MomentsSound
  <2>3. rows = new \/ rows = Mixed
    BY <1>1
  <2>4. QED
    BY <2>1, <2>2, <2>3
<1>6. ASSUME Undisturbed(name[s]), ~Busy(v) PROVE SavesAsPlayed(s)'
  <2>1. /\ SavesAsPlayed(s) /\ Statement(s) = st /\ Statement(s)' = next
        /\ UNCHANGED <<file, server, accountId, data>> /\ writer' = server[s]
        /\ draft'.saved[accountId[s]][table] = rows
        /\ \A other \in Tables : other # table /\ st # "save players" =>
             draft'.saved[accountId[s]][other] = draft.saved[accountId[s]][other]
    <3>1. Undisturbed(name[session[v]]) /\ ~Busy(v)
      BY <1>0, <1>6
    <3>2. Written(v, st, next, table, rows)
      BY <1>1, <1>2, <1>5, <3>1, SaveGoesOn
    <3>3. QED
      BY <1>0, <1>4, <3>2 DEF Written
  <2>2. View(v) = draft
    <3>1. server[s] = v
      BY <1>0, <1>3, Saves
    <3>2. QED
      BY <1>2, <2>1, <3>1 DEF SavesAsPlayed, AsPlayed, View
  <2>3. draft.saved[accountId[s]][table] = 0
    BY <1>2, <2>1 DEF SavesAsPlayed, AsPlayed, Inserts
  <2>4. rows = new
    BY <1>1, <2>2, <2>3
  <2>5. QED
    BY <1>2, <2>1, <2>4 DEF SavesAsPlayed, AsPlayed, Inserts, Loading, Saving
<1>7. QED
  BY <1>0, <1>1, <1>2, <1>5, <1>6, SaveRowsKeeps

\* COMMIT puts the draft in the file: the rows of this account, and no others.
LEMMA CommitKeeps ==
  ASSUME IInv, NEW v \in Servers, Commit(v)
  PROVE  IInv'
<1>0. PICK s, next : s = session[v] /\ next = IF state[s] = "login" THEN "enter" ELSE "delLoc"
  OBVIOUS
<1>1. /\ Step(v, "commit", next) /\ at[v] = "commit"
      /\ at' = [at EXCEPT ![v] = next] /\ session' = session
      /\ inTransaction' = inTransaction \ {v}
      /\ UNCHANGED <<draft, lastRowid, state, server, name, accountId, data, loc, logins,
                     contested, refused, abandoned>>
  BY <1>0 DEF Commit, Step, sessions, history
<1>2. \/ writer = v /\ file' = draft /\ writer' = Nobody
      \/ writer # v /\ file' = file /\ writer' = writer
  BY DEF Commit
<1>3. /\ s \in Sessions /\ server[s] = v /\ name[s] \in Names
      /\ accountId[s] \in Ids /\ accountId[s] # 0 /\ file.accounts[name[s]] = accountId[s]
      /\ state[s] \in {"login", "playing"} /\ Statement(s) = "commit"
      /\ Undisturbed(name[s]) => SavesAsPlayed(s)
  <2>1. at[v] \in Saving \cup {"begin"}
    BY <1>1 DEF Saving
  <2>2. /\ s \in Sessions /\ server[s] = v /\ name[s] \in Names
        /\ accountId[s] \in Ids /\ accountId[s] # 0 /\ file.accounts[name[s]] = accountId[s]
        /\ state[s] \in {"login", "playing"} /\ Statement(s) = at[v]
        /\ at[v] \in Saving <=> v \in inTransaction
        /\ Undisturbed(name[s]) => SavesAsPlayed(s)
    BY <1>0, <2>1, Saves
  <2>3. QED
    BY <1>1, <2>2
<1>4. /\ next \in {"enter", "delLoc"} /\ next \in Statements
      /\ Handled(next, state[s], accountId[s])
  BY <1>0, <1>3 DEF Statements, Handled, Loading, Saving
<1>5. /\ at' \in [Servers -> Statements]
      /\ ThreadsSound' /\ SessionsSound' /\ OneSession' /\ LocationsSound'
  <2>1. next \notin {"idle", "setLoc"} /\ accountId' = accountId
    BY <1>1, <1>4
  <2>2. QED
    BY <1>0, <1>1, <1>4, <2>1, GoesOn
<1>6. TypeOK'
  <2>1. writer' \in Servers \cup {Nobody} /\ file' \in DB
    BY <1>2 DEF IInv, TypeOK
  <2>2. inTransaction' \subseteq Servers
    BY <1>1 DEF IInv, TypeOK
  <2>3. QED
    BY <1>1, <2>1, <2>2 DEF IInv, TypeOK
<1>7. at'[v] = next /\ \A w \in Servers : w # v => at'[w] = at[w]
  BY <1>1 DEF IInv
<1>8. /\ file'.accounts = file.accounts
      /\ \A i \in Ids : i # accountId[s] => file'.saved[i] = file.saved[i]
  BY <1>0, <1>2 DEF IInv, TransactionsSound
<1>9. TransactionsSound'
  <2>1. inTransaction' = {w \in Servers : at'[w] \in Saving}
    BY <1>1, <1>4, <1>7 DEF IInv, TransactionsSound, Saving
  <2>2. writer' # v /\ (writer' # Nobody => writer' = writer /\ file' = file)
    BY <1>2, AccountsAssumption
  <2>3. (writer # Nobody => writer \in inTransaction /\ at[writer] # "save players")'
    <3>1. writer # Nobody =>
            writer \in inTransaction /\ writer \in Servers /\ at[writer] # "save players"
      BY DEF IInv, TypeOK, TransactionsSound
    <3>2. QED
      BY <1>1, <1>7, <2>2, <3>1
  <2>4. ASSUME NEW w \in Servers, writer' = w
        PROVE  /\ draft'.accounts = file'.accounts
               /\ \A i \in Ids : i # accountId'[session'[w]] => draft'.saved[i] = file'.saved[i]
    <3>1. writer = w /\ file' = file
      BY <2>2, <2>4, AccountsAssumption
    <3>2. QED
      BY <1>1, <3>1 DEF IInv, TransactionsSound
  <2>5. QED
    BY <2>1, <2>3, <2>4 DEF TransactionsSound
<1>10. AccountsNumbered'
  <2>1. \A w \in Servers : at'[w] = "lastInsertRowid" => at[w] = "lastInsertRowid"
    BY <1>4, <1>7
  <2>2. Registered' = Registered
    BY <1>8 DEF Registered
  <2>3. ASSUME NEW i \in Ids, \A n \in Names : file.accounts[n] # i
        PROVE  file'.saved[i] = NoRows
    BY <1>3, <1>8, <2>3 DEF IInv, AccountsNumbered
  <2>4. QED
    BY <1>1, <1>8, <2>1, <2>2, <2>3 DEF IInv, AccountsNumbered
<1>11. SavesSound'
  <2>1. \A n : Undisturbed(n)' <=> Undisturbed(n)
    BY <1>1, <1>8 DEF Undisturbed
  <2>2. ASSUME Undisturbed(name[s])
        PROVE  /\ Whole(data[s]) /\ writer = v
               /\ \A table \in Tables : file'.saved[accountId[s]][table] = data[s][table]
    <3>1. SavesAsPlayed(s)
      BY <1>3, <2>2
    <3>2. /\ Whole(data[s]) /\ writer = v
          /\ \A table \in Tables : draft.saved[accountId[s]][table] = data[s][table]
      BY <1>3, <3>1 DEF SavesAsPlayed, AsPlayed, Loading, Saving, Tables
    <3>3. QED
      BY <1>2, <3>2
  <2>3. ASSUME NEW n \in Names, file.accounts[n] # 0, Undisturbed(n)
        PROVE  Whole(file'.saved[file.accounts[n]])
    <3>1. file.accounts[n] \in Ids
      BY <2>3, Sorts DEF IInv, TypeOK
    <3>2. CASE n = name[s]
      BY <1>3, <2>2, <2>3, <3>2 DEF Whole, Tables
    <3>3. CASE n # name[s]
      <4>1. file.accounts[n] # accountId[s]
        BY <1>3, <2>3, <3>3 DEF IInv, AccountsNumbered
      <4>2. QED
        BY <1>8, <2>3, <3>1, <4>1 DEF IInv, SavesSound
    <3>4. QED
      BY <3>2, <3>3
  <2>4. ASSUME NEW u \in Sessions, accountId[u] # 0, Undisturbed(name[u])
        PROVE  SavesAsPlayed(u)'
    <3>1. SavesAsPlayed(u) /\ server[u] \in Servers /\ name[u] \in Names
      BY <2>4, Known DEF IInv, SavesSound
    <3>2. CASE u = s
      <4>1. Statement(s)' = next
        BY <1>0, <1>1, <1>3, <1>7 DEF Statement
      <4>2. \A table \in Tables : data[s][table] \in Nat
        <5>1. data[s] \in Rows
          BY <1>3 DEF IInv, TypeOK
        <5>2. QED
          BY <5>1, Sorts DEF Rows
      <4>3. QED
        <5>1. /\ Whole(data[s])
              /\ \A table \in Tables : file'.saved[accountId[s]][table] = data[s][table]
          BY <2>2, <2>4, <3>2
        <5>2. \A table \in Tables : file'.saved[accountId[s]][table] <= data[s][table]
          BY <4>2, <5>1
        <5>3. AsPlayed(next, data[s], file'.saved[accountId[s]], draft.saved[accountId[s]],
                       writer' = server[s])
          BY <1>4, <5>1, <5>2 DEF AsPlayed, Loading, Saving
        <5>4. QED
          BY <1>1, <3>2, <4>1, <5>3 DEF SavesAsPlayed
    <3>3. CASE u # s
      <4>1. Statement(u)' = Statement(u)
        BY <1>0, <1>1, <1>3, <1>7, <3>1, <3>3 DEF Statement
      <4>2. accountId[u] \in Ids /\ accountId[u] # accountId[s]
        <5>1. name[u] # name[s]
          BY <1>3, <2>4, <3>1, <3>3, AccountsAssumption DEF IInv, OneSession, Undisturbed
        <5>2. QED
          BY <1>3, <2>4, <3>1, <5>1, Known DEF IInv, TypeOK, AccountsNumbered
      <4>3. file'.saved[accountId[u]] = file.saved[accountId[u]]
        BY <1>8, <4>2
      <4>4. CASE writer # v
        BY <1>1, <1>2, <3>1, <4>1, <4>3, <4>4 DEF SavesAsPlayed
      <4>5. CASE writer = v
        <5>1. server[u] = v => Statement(u) = "idle"
          BY <1>0, <3>3 DEF Statement
        <5>2. Statement(u) \notin Saving \ {"save players"}
          BY <3>1, <4>5, <5>1 DEF SavesAsPlayed, AsPlayed, Saving
        <5>3. QED
          BY <1>1, <3>1, <4>1, <4>3, <5>2 DEF SavesAsPlayed, AsPlayed, Saving
      <4>6. QED
        BY <4>4, <4>5
    <3>4. QED
      BY <3>2, <3>3
  <2>5. QED
    BY <1>1, <1>8, <2>1, <2>3, <2>4 DEF SavesSound
<1>12. QED
  BY <1>5, <1>6, <1>9, <1>10, <1>11 DEF IInv

-----------------------------------------------------------------------------
(* The invariant *)

LEMMA AccountsInit ==
  Init => IInv
<1> SUFFICES ASSUME Init PROVE IInv
  OBVIOUS
<1>1. /\ file.accounts = [n \in Names |-> 0] /\ file.saved = [i \in Ids |-> NoRows]
      /\ file \in DB
  BY Sorts DEF Init, DB
<1>2. TypeOK /\ at \in [Servers -> Statements]
  <2>1. logins \in 0 .. MaxLogins
    BY AccountsAssumption DEF Init
  <2>2. QED
    BY <1>1, <2>1, Sorts DEF Init, TypeOK, States, Statements
<1>3. ThreadsSound /\ SessionsSound /\ TransactionsSound /\ OneSession
  BY <1>1, AccountsAssumption
     DEF Init, ThreadsSound, SessionsSound, TransactionsSound, OneSession, Saving
<1>4. AccountsNumbered
  <2>1. Registered = {}
    BY <1>1 DEF Registered
  <2>2. Cardinality(Registered) = 0
    BY <2>1, FS_EmptySet
  <2>3. \A n \in Names : file.accounts[n] = 0
    BY <1>1
  <2>4. \A i \in Ids : file.saved[i] = NoRows
    BY <1>1
  <2>5. QED
    BY <2>2, <2>3, <2>4 DEF Init, AccountsNumbered
<1>5. SavesSound
  BY <1>1 DEF Init, SavesSound
<1>6. LocationsSound
  BY DEF Init, LocationsSound, Located
<1>7. QED
  BY <1>2, <1>3, <1>4, <1>5, <1>6 DEF IInv

LEMMA AccountsStep ==
  IInv /\ [Next]_vars => IInv'
<1> SUFFICES ASSUME IInv, [Next]_vars PROVE IInv'
  OBVIOUS
<1>1. ASSUME NEW v \in Servers, NEW s \in Sessions,
             EnterRoom(v, s) \/ Play(v, s) \/ Slain(v, s) \/ Leave(v, s)
      PROVE  IInv'
  BY <1>1, StateKeeps, PlayKeeps, LeaveKeeps
<1>2. ASSUME NEW v \in Servers, NEW s \in Sessions, NEW n \in Names, Login(v, s, n)
      PROVE  IInv'
  BY <1>2, LoginKeeps
<1>3. ASSUME NEW v \in Servers,
             \/ FindAccount(v) \/ CreateAccount(v) \/ LastInsertRowid(v)
             \/ HasPlayerData(v) \/ LoadPlayerData(v) \/ QueueEnterRoom(v) \/ SetLoc(v)
      PROVE  IInv'
  BY <1>3, FindAccountKeeps, CreateAccountKeeps, LastInsertRowidKeeps, HasPlayerDataKeeps,
     LoadKeeps, QueueEnterRoomKeeps, SetLocKeeps
<1>4. ASSUME NEW v \in Servers, SavePlayerData(v) PROVE IInv'
  <2>1. CASE Begin(v) \/ SavePlayers(v) \/ Commit(v)
    BY <2>1, BeginKeeps, SavePlayersKeeps, CommitKeeps
  <2>2. /\ Deletes("inventory", "delete inventory", "insert inventory")
        /\ Deletes("equipment", "delete equipment", "insert equipment")
        /\ Inserts("inventory", "insert inventory", "delete equipment")
        /\ Inserts("equipment", "insert equipment", "commit")
    BY DEF Deletes, Inserts
  <2>3. CASE \/ Delete(v, "inventory", "delete inventory", "insert inventory")
             \/ Delete(v, "equipment", "delete equipment", "insert equipment")
    BY <2>2, <2>3, DeleteKeeps
  <2>4. CASE \/ Insert(v, "inventory", "insert inventory", "delete equipment")
             \/ Insert(v, "equipment", "insert equipment", "commit")
    BY <2>2, <2>4, InsertKeeps
  <2>5. QED
    BY <1>4, <2>1, <2>3, <2>4 DEF SavePlayerData
<1>5. ASSUME NEW v \in Servers, DelLoc(v) \/ Crash(v) PROVE IInv'
  BY <1>5, DelLocKeeps, CrashKeeps
<1>6. CASE UNCHANGED vars
  <2>1. UNCHANGED <<file, draft, writer, inTransaction, lastRowid, state, server, name,
                    accountId, data, loc, at, session, logins, contested, refused, abandoned>>
    BY <1>6 DEF vars, db, sessions, thread, history
  <2>2. TypeOK' /\ at' \in [Servers -> Statements] /\ ThreadsSound' /\ SessionsSound'
    BY <2>1 DEF IInv, TypeOK, ThreadsSound, SessionsSound
  <2>3. TransactionsSound' /\ AccountsNumbered' /\ OneSession'
    BY <2>1 DEF IInv, TransactionsSound, AccountsNumbered, Registered, OneSession
  <2>4. \A u : Statement(u)' = Statement(u)
    BY <2>1 DEF Statement
  <2>5. SavesSound'
    BY <2>1, <2>4 DEF IInv, SavesSound, SavesAsPlayed, Undisturbed
  <2>6. LocationsSound'
    BY <2>1, <2>4 DEF IInv, LocationsSound, Located
  <2>7. QED
    BY <2>2, <2>3, <2>5, <2>6 DEF IInv
<1>7. QED
  BY <1>1, <1>2, <1>3, <1>4, <1>5, <1>6 DEF Next

\* What is known of sessions, handlers, the file and the locations holds always.
LEMMA AccountsInvariant == Spec => []IInv
BY AccountsInit, AccountsStep, PTL DEF Spec

-----------------------------------------------------------------------------
(* Theorems *)

\* However many servers create accounts at once, no two usernames share an account,
\* and every session is logged in to that of its own username (FindOrCreateAccount,
\* last_insert_rowid).
THEOREM AccountsStayApart == Spec => []AccountsApart
<1>1. IInv => AccountsApart
  BY DEF IInv, AccountsNumbered, AccountsApart
<1>2. QED
  BY <1>1, AccountsInvariant, PTL

\* Whatever interrupts a save, the three tables of an account have one moment, unless
\* SQLite refused a statement of its loads and saves or two sessions played the name
\* (SavePlayerData, LoadPlayerData).
THEOREM SavesStayWhole == Spec => []SavedWhole
<1>1. IInv => SavedWhole
  BY DEF IInv, SavesSound, SavedWhole, Whole
<1>2. QED
  BY <1>1, AccountsInvariant, PTL

\* A player has at least what is saved of it, and OnDisconnected goes on after the save
\* only with everything saved, with the same exceptions (HasPlayerData takes a SELECT
\* that fails for a new player).
THEOREM ProgressStaysSaved == Spec => []ProgressSaved
<1>1. ASSUME IInv, NEW s \in Sessions, state[s] \in {"queued", "playing", "slain"},
             Undisturbed(name[s]), NEW table \in Tables
      PROVE  /\ file.saved[accountId[s]][table] <= data[s][table]
             /\ at[server[s]] = "delLoc" /\ session[server[s]] = s =>
                  file.saved[accountId[s]][table] = data[s][table]
  <2>1. accountId[s] # 0 /\ server[s] \in Servers
    BY <1>1, Known DEF IInv, SessionsSound
  <2>2. AsPlayed(Statement(s), data[s], file.saved[accountId[s]], draft.saved[accountId[s]],
                 writer = server[s])
    BY <1>1, <2>1 DEF IInv, SavesSound, SavesAsPlayed
  <2>3. Statement(s) \notin Loading
    BY <1>1, <2>1 DEF IInv, ThreadsSound, Handled, Statement, Loading
  <2>4. at[server[s]] = "delLoc" /\ session[server[s]] = s => Statement(s) = "delLoc"
    BY DEF Statement
  <2>5. QED
    BY <2>2, <2>3, <2>4 DEF AsPlayed
<1>2. IInv => ProgressSaved
  BY <1>1 DEF ProgressSaved
<1>3. QED
  BY <1>2, AccountsInvariant, PTL

\* A whisper comes to its target wherever it plays, or its sender gets the notice
\* (Handle_SS_RelayChat by player:loc), in the cases WhisperArrives names.
THEOREM WhispersArrive == Spec => []WhisperArrives
<1>1. ASSUME IInv, NEW n \in Names \ contested, NEW s \in Present(n)
      PROVE  loc[n] = server[s] /\ server[s] \in Servers
  <2>1. s \in Sessions /\ name[s] = n /\ state[s] = "playing" /\ session[server[s]] # s
    BY DEF Present, Whereabouts
  <2>2. Located(s) /\ server[s] \in Servers
    BY <1>1, <2>1, Known DEF Located, Statement
  <2>3. QED
    BY <1>1, <2>1, <2>2 DEF IInv, LocationsSound
<1>2. ASSUME IInv, NEW from \in Names \ contested, NEW to \in Names \ contested,
             Present(from) # {}, Whereabouts(to) = Present(to), to \notin abandoned
      PROVE  Whisper(from, to) = IF Present(to) # {} THEN Present(to) ELSE Present(from)
  <2>1. CASE Present(to) # {}
    <3>1. loc[to] # Nobody
      BY <1>1, <1>2, <2>1, AccountsAssumption
    <3>2. FindByPlayerName(loc[to], to) = Present(to)
      BY <1>1, <1>2 DEF FindByPlayerName
    <3>3. QED
      BY <2>1, <3>1, <3>2 DEF Whisper
  <2>2. CASE Present(to) = {}
    <3>1. \A s \in Sessions : name[s] # to
      BY <1>2, <2>2 DEF Whereabouts
    <3>2. loc[to] = Nobody
      BY <1>2, <3>1 DEF IInv, LocationsSound
    <3>3. FindByPlayerName(loc[from], from) = Present(from)
      BY <1>1, <1>2 DEF FindByPlayerName
    <3>4. QED
      BY <2>2, <3>2, <3>3 DEF Whisper
  <2>3. QED
    BY <2>1, <2>2
<1>3. IInv => WhisperArrives
  BY <1>2 DEF WhisperArrives
<1>4. QED
  BY <1>3, AccountsInvariant, PTL
===============================================================================
