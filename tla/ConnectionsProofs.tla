-------------------------- MODULE ConnectionsProofs --------------------------
(***************************************************************************)
(* Proofs about the connections of the server: for any number of clients,   *)
(* links and workers, whether or not the game thread and the subscriber are *)
(* threads of their own.                                                    *)
(***************************************************************************)
EXTENDS Connections, FiniteSetTheorems, TLAPS

Receives(t, s) == session[t] = s /\ at[t] \in Opening \cup Receiving
Closes(t, s) == session[t] = s /\ at[t] \in Closing

\* What a thread is before tells whether it has a session, and the lock: a
\* broadcaster keeps the lock, and the list as it found it, even when it goes on to
\* disconnect one of the audience.
ThreadsSound ==
  \A t \in Threads :
    /\ at[t] \in {"idle", "tryReconnect", "reaccept"} => session[t] = Nobody
    /\ at[t] \in Opening \cup Closing \cup {"registerRecv", "handle"} => session[t] \in Sessions
    /\ audience[t] \subseteq registered
    /\ audience[t] # {} => lockOwner = t
    /\ at[t] = "broadcast" => lockOwner = t
    /\ lockOwner = t => \/ at[t] = "broadcast"
                        \/ at[t] = "onDisconnected" /\ session[t] \in Clients

\* One receiver; a link that connects has none, nor a thread of any kind.
ReceiversApart ==
  \A s \in Sessions :
    /\ \A t, u \in Threads : Receives(t, s) /\ Receives(u, s) => t = u
    /\ receive[s] = "posted" => \A t \in Threads : ~Receives(t, s)
    /\ connected[s] /\ receive[s] = "none" => Stuck \/ \E t \in Threads : Receives(t, s)
    /\ s \in connecting => /\ ~connected[s] /\ receive[s] # "posted"
                           /\ \A t \in Threads : session[t] # s

\* Whoever turned _connected off closes the session, alone.
ClosersApart ==
  \A s \in Sessions :
    /\ \A t \in Threads : Closes(t, s) => ~connected[s]
    /\ \A t, u \in Threads : Closes(t, s) /\ Closes(u, s) => t = u

\* A client is in the lists from AddSession and OnConnected to ReleaseSession and
\* OnDisconnected, and cannot be closed before it is in the first.
ClientsListed ==
  \A c \in Clients :
    /\ c \in registered =>
         /\ c \in serviceSessions
         /\ connected[c] \/ \E t \in Threads : session[t] = c /\ at[t] = "onDisconnected"
    /\ c \in serviceSessions => connected[c] \/ \E t \in Threads : Closes(t, c)
    /\ connected[c] /\ c \notin serviceSessions =>
         \E t \in Threads : session[t] = c /\ at[t] = "addSession"
    /\ \A t \in Threads :
         /\ Closes(t, c) => c \in serviceSessions
         /\ session[t] = c /\ at[t] = "releaseSession" => c \notin registered
         /\ session[t] = c /\ at[t] \in Opening => connected[c] /\ c \notin registered

\* The thread that has the accept event is in one of the handlers that go back to
\* RegisterAccept.
AcceptorOnItsWay ==
  acceptor # Nobody =>
    at[acceptor] \in {"reaccept", "registerRecv"} \cup Opening \cup Closing

IInv ==
  /\ TypeOK
  /\ ThreadsSound
  /\ ReceiversApart
  /\ ClosersApart
  /\ ClientsListed
  /\ AcceptorOnItsWay
  /\ AcceptsAgain

-----------------------------------------------------------------------------
LEMMA ConnectionsInit == Init => IInv
<1> SUFFICES ASSUME Init PROVE IInv
  OBVIOUS
<1> USE ConnectionsAssumption DEF Init
<1>1. TypeOK
  BY DEF TypeOK, Statements, Sessions, Threads
<1>2. ThreadsSound
  BY DEF ThreadsSound, Opening, Closing, Threads
<1>3. ReceiversApart /\ ClosersApart
  BY DEF ReceiversApart, ClosersApart, Receives, Closes, Sessions
<1>4. ClientsListed
  BY DEF ClientsListed, Closes, Sessions
<1>5. AcceptorOnItsWay /\ AcceptsAgain
  BY DEF AcceptorOnItsWay, AcceptsAgain, Sessions
<1>6. QED
  BY <1>1, <1>2, <1>3, <1>4, <1>5 DEF IInv

\* Turning one switch of many.
LEMMA TurnsSwitch ==
  ASSUME NEW S, NEW f \in [S -> BOOLEAN], NEW s, NEW b \in BOOLEAN
  PROVE  [f EXCEPT ![s] = b] \in [S -> BOOLEAN]
OBVIOUS

LEMMA ProcessAcceptInv ==
  ASSUME IInv, NEW t \in Workers, ProcessAccept(t)
  PROVE  IInv'
<1> USE ConnectionsAssumption DEF IInv, ProcessAccept, Idle, Take, GoTo, Unreferenced
<1>1. TypeOK'
  <2>1. connected' \in [Sessions -> BOOLEAN]
    BY TurnsSwitch DEF TypeOK
  <2>2. QED
    BY <2>1 DEF TypeOK, Statements, Sessions
<1>2. ThreadsSound'
  BY DEF ThreadsSound, TypeOK, Opening, Closing, Sessions
<1>3. ReceiversApart'
  BY DEF ReceiversApart, Receives, TypeOK, Opening, Stuck, AcceptsAgain, ThreadsSound,
         Threads, Sessions
<1>4. ClosersApart'
  BY DEF ClosersApart, Closes, TypeOK, Closing, AcceptsAgain
<1>5. ClientsListed'
  BY DEF ClientsListed, Closes, TypeOK, Closing, Sessions, Threads, AcceptsAgain,
         ThreadsSound
<1>6. AcceptorOnItsWay'
  BY DEF AcceptorOnItsWay, TypeOK, Opening, Threads
<1>7. AcceptsAgain'
  BY DEF AcceptsAgain, TypeOK, Threads
<1>8. QED
  BY <1>1, <1>2, <1>3, <1>4, <1>5, <1>6, <1>7

LEMMA RegisterAcceptInv ==
  ASSUME IInv, NEW t \in Threads, RegisterAccept(t)
  PROVE  IInv'
<1> USE ConnectionsAssumption DEF IInv
<1>1. ASSUME crashed' = crashed PROVE IInv'
  <2>0. /\ at[t] = "reaccept" /\ ~crashed /\ ~crashed'
        /\ accepting' \in Clients /\ Unreferenced(accepting')
        /\ acceptor' = Nobody
        /\ connected' = [connected EXCEPT ![accepting'] = FALSE]
        /\ receive' = [receive EXCEPT ![accepting'] = "none"]
        /\ at' = [at EXCEPT ![t] = "idle"]
        /\ UNCHANGED <<session, audience, leaving, connecting, serviceSessions,
                       registered, lockOwner, link>>
    BY <1>1 DEF RegisterAccept, Before, GoTo
  <2> USE <1>1, <2>0 DEF Unreferenced
  <2>1. TypeOK'
    BY DEF TypeOK, Statements, Sessions
  <2>2. ThreadsSound'
    BY DEF ThreadsSound, Opening, Closing
  <2>3. ReceiversApart'
    BY DEF ReceiversApart, Receives, TypeOK, Stuck, ThreadsSound, Sessions
  <2>4. ClosersApart'
    BY DEF ClosersApart, Closes, Closing
  <2>5. ClientsListed'
    BY DEF ClientsListed, Closes, ThreadsSound
  <2>6. AcceptorOnItsWay'
    BY DEF AcceptorOnItsWay
  <2>7. AcceptsAgain'
    BY DEF AcceptsAgain, TypeOK, Sessions
  <2>8. QED
    BY <2>1, <2>2, <2>3, <2>4, <2>5, <2>6, <2>7
<1>2. ASSUME crashed' # crashed PROVE IInv'
  <2>1. /\ crashed' = TRUE
        /\ UNCHANGED <<connected, receive, leaving, connecting, serviceSessions,
                       registered, lockOwner, accepting, acceptor, link, at, session,
                       audience>>
    BY <1>2 DEF RegisterAccept, Before, threads
  <2>2. TypeOK' /\ ThreadsSound'
    BY <2>1 DEF TypeOK, ThreadsSound
  <2>3. ReceiversApart' /\ ClosersApart'
    BY <2>1 DEF ReceiversApart, Receives, ClosersApart, Closes, Stuck
  <2>4. ClientsListed' /\ AcceptorOnItsWay' /\ AcceptsAgain'
    BY <2>1 DEF ClientsListed, Closes, AcceptorOnItsWay, AcceptsAgain
  <2>5. QED
    BY <2>2, <2>3, <2>4
<1>3. QED
  BY <1>1, <1>2

LEMMA ProcessConnectInv ==
  ASSUME IInv, NEW t \in Workers, NEW s \in Links, ProcessConnect(t, s)
  PROVE  IInv'
<1> USE ConnectionsAssumption DEF IInv, ProcessConnect, Idle, Take, threads
<1>1. TypeOK'
  <2>1. connected' \in [Sessions -> BOOLEAN]
    BY TurnsSwitch DEF TypeOK
  <2>2. QED
    BY <2>1 DEF TypeOK, Statements, Sessions
<1>2. ThreadsSound'
  BY DEF ThreadsSound, TypeOK, Sessions
<1>3. ReceiversApart'
  BY DEF ReceiversApart, Receives, TypeOK, Opening, Stuck, ThreadsSound, Threads, Sessions
<1>4. ClosersApart'
  BY SMTT(40) DEF ClosersApart, Closes, TypeOK, Closing, ReceiversApart
<1>5. ClientsListed'
  BY DEF ClientsListed, Closes, TypeOK, Sessions, ThreadsSound
<1>6. AcceptorOnItsWay'
  BY DEF AcceptorOnItsWay, TypeOK, Opening, Threads
<1>7. AcceptsAgain'
  BY DEF AcceptsAgain, TypeOK, Sessions, Threads
<1>8. QED
  BY <1>1, <1>2, <1>3, <1>4, <1>5, <1>6, <1>7

LEMMA AddSessionInv ==
  ASSUME IInv, NEW t \in Threads, AddSession(t)
  PROVE  IInv'
<1> USE ConnectionsAssumption DEF IInv, AddSession, Before, GoTo, socket, threads
<1>1. TypeOK'
  <2>1. crashed' \in BOOLEAN
    BY DEF TypeOK
  <2>2. QED
    BY <2>1 DEF TypeOK, Statements, ThreadsSound, Opening
<1>2. ThreadsSound'
  BY DEF ThreadsSound, TypeOK, Opening
<1>3. ReceiversApart'
  BY DEF ReceiversApart, Receives, TypeOK, Opening, Stuck
<1>4. ClosersApart'
  BY DEF ClosersApart, Closes, TypeOK, Closing
<1>5. ClientsListed'
  BY DEF ClientsListed, Closes, TypeOK, Opening
<1>6. AcceptorOnItsWay'
  BY DEF AcceptorOnItsWay, TypeOK, Opening, Threads
<1>7. AcceptsAgain'
  BY DEF AcceptsAgain, TypeOK, Threads
<1>8. QED
  BY <1>1, <1>2, <1>3, <1>4, <1>5, <1>6, <1>7

LEMMA OnConnectedInv ==
  ASSUME IInv, NEW t \in Threads, OnConnected(t)
  PROVE  IInv'
<1> USE ConnectionsAssumption DEF IInv, OnConnected, Before, GoTo, socket
<1>1. TypeOK'
  BY DEF TypeOK, Statements
<1>2. ThreadsSound'
  BY DEF ThreadsSound, Opening
<1>3. ReceiversApart'
  BY DEF ReceiversApart, Receives, Opening, Receiving, Stuck
<1>4. ClosersApart'
  BY DEF ClosersApart, Closes, Closing
<1>5. ClientsListed'
  BY DEF ClientsListed, Closes, TypeOK, Opening, Closing, ReceiversApart, Receives,
         ClosersApart
<1>6. AcceptorOnItsWay'
  BY DEF AcceptorOnItsWay
<1>7. AcceptsAgain'
  BY DEF AcceptsAgain
<1>8. QED
  BY <1>1, <1>2, <1>3, <1>4, <1>5, <1>6, <1>7

LEMMA RegisterRecvInv ==
  ASSUME IInv, NEW t \in Threads, RegisterRecv(t)
  PROVE  IInv'
<1> USE ConnectionsAssumption DEF IInv, RegisterRecv, Before, Disconnect, Return, Take
<1>1. TypeOK'
  <2>1. connected' \in [Sessions -> BOOLEAN]
    <3>1. connected' = connected \/ connected' = [connected EXCEPT ![session[t]] = FALSE]
      OBVIOUS
    <3>2. QED
      BY <3>1, TurnsSwitch DEF TypeOK
  <2>2. QED
    BY <2>1 DEF TypeOK, Statements
<1>2. ThreadsSound'
  BY DEF ThreadsSound, TypeOK, Opening, Closing
<1>3. ReceiversApart'
  BY DEF ReceiversApart, Receives, TypeOK, Receiving, Stuck, Sessions
<1>4. ClosersApart'
  BY DEF ClosersApart, Closes, TypeOK, Sessions
<1>5. ClientsListed'
  BY DEF ClientsListed, Closes, TypeOK, Opening, Closing, Sessions, ReceiversApart,
         Receives, Receiving
<1>6. AcceptorOnItsWay'
  BY DEF AcceptorOnItsWay, TypeOK, Closing, Threads
<1>7. AcceptsAgain'
  BY DEF AcceptsAgain, TypeOK, Sessions, Threads
<1>8. QED
  BY <1>1, <1>2, <1>3, <1>4, <1>5, <1>6, <1>7

LEMMA ProcessRecvInv ==
  ASSUME IInv, NEW t \in Workers, NEW s \in Sessions, ProcessRecv(t, s)
  PROVE  IInv'
<1> USE ConnectionsAssumption DEF IInv, ProcessRecv, Idle, Disconnect, Return, Take
<1>1. TypeOK'
  <2>1. connected' \in [Sessions -> BOOLEAN]
    <3>1. connected' = connected \/ connected' = [connected EXCEPT ![s] = FALSE]
      OBVIOUS
    <3>2. QED
      BY <3>1, TurnsSwitch DEF TypeOK
  <2>2. QED
    BY <2>1 DEF TypeOK, Statements, Sessions
<1>2. ThreadsSound'
  BY DEF ThreadsSound, TypeOK, Opening, Closing
<1>3. ReceiversApart'
  BY SMTT(40) DEF ReceiversApart, Receives, TypeOK, Receiving, Stuck, ThreadsSound, Threads,
         Sessions
<1>4. ClosersApart'
  BY SMTT(40) DEF ClosersApart, Closes, TypeOK, Closing
<1>5. ClientsListed'
  BY DEF ClientsListed, Closes, TypeOK, Opening, Closing, Sessions, Threads,
         ReceiversApart, Receives
<1>6. AcceptorOnItsWay'
  BY DEF AcceptorOnItsWay, TypeOK, Opening, Closing, Threads
<1>7. AcceptsAgain'
  BY DEF AcceptsAgain, TypeOK, Sessions, Threads
<1>8. QED
  BY <1>1, <1>2, <1>3, <1>4, <1>5, <1>6, <1>7

LEMMA HandledInv ==
  ASSUME IInv, NEW t \in Threads, Handled(t)
  PROVE  IInv'
<1> USE ConnectionsAssumption DEF IInv, Handled, Before, Disconnect, Return, Take, GoTo
<1>1. TypeOK'
  BY ZenonT(60) DEF TypeOK, Statements, Threads, Sessions
<1>2. ThreadsSound'
  BY DEF ThreadsSound, TypeOK, Opening, Closing
<1>3. ReceiversApart'
  BY DEF ReceiversApart, Receives, TypeOK, Receiving, Stuck, Sessions
<1>4. ClosersApart'
  BY DEF ClosersApart, Closes, TypeOK, Closing
<1>5. ClientsListed'
  BY DEF ClientsListed, Closes, TypeOK, Opening, Closing, Sessions, ReceiversApart,
         Receives, Receiving
<1>6. AcceptorOnItsWay'
  BY DEF AcceptorOnItsWay, TypeOK, Closing, Threads
<1>7. AcceptsAgain'
  BY DEF AcceptsAgain, TypeOK, Sessions, Threads
<1>8. QED
  BY <1>1, <1>2, <1>3, <1>4, <1>5, <1>6, <1>7

LEMMA BroadcastInv ==
  ASSUME IInv, NEW t \in Threads, Broadcast(t)
  PROVE  IInv'
<1> USE ConnectionsAssumption DEF IInv, Broadcast, Before, Idle, socket
<1>1. TypeOK'
  BY DEF TypeOK, Statements
<1>2. ThreadsSound'
  BY DEF ThreadsSound, TypeOK, Opening, Closing, Threads
<1>3. ReceiversApart'
  BY DEF ReceiversApart, Receives, Receiving, Stuck, ThreadsSound, Threads, Sessions
<1>4. ClosersApart'
  BY DEF ClosersApart, Closes, Closing
<1>5. ClientsListed'
  BY DEF ClientsListed, Closes, ThreadsSound
<1>6. AcceptorOnItsWay'
  BY DEF AcceptorOnItsWay, Opening, Closing
<1>7. AcceptsAgain'
  BY DEF AcceptsAgain
<1>8. QED
  BY <1>1, <1>2, <1>3, <1>4, <1>5, <1>6, <1>7

LEMMA BroadcastToInv ==
  ASSUME IInv, NEW t \in Threads, NEW s \in Clients, BroadcastTo(t, s)
  PROVE  IInv'
<1> USE ConnectionsAssumption DEF IInv, BroadcastTo, Before
<1>1. TypeOK'
  <2>1. connected' \in [Sessions -> BOOLEAN]
    BY TurnsSwitch DEF TypeOK
  <2>2. QED
    BY <2>1 DEF TypeOK, Statements, Sessions
<1>2. ThreadsSound'
  BY DEF ThreadsSound, TypeOK, Sessions
<1>3. ReceiversApart'
  BY DEF ReceiversApart, Receives, TypeOK, Opening, Receiving, Stuck, ThreadsSound
<1>4. ClosersApart'
  BY DEF ClosersApart, Closes, TypeOK
<1>5. ClientsListed'
  BY DEF ClientsListed, Closes, TypeOK, Opening, Closing, Sessions, ThreadsSound
<1>6. AcceptorOnItsWay'
  BY DEF AcceptorOnItsWay, TypeOK, Closing, Threads
<1>7. AcceptsAgain'
  BY DEF AcceptsAgain, TypeOK, Sessions, Threads
<1>8. QED
  BY <1>1, <1>2, <1>3, <1>4, <1>5, <1>6, <1>7

LEMMA EndBroadcastInv ==
  ASSUME IInv, NEW t \in Threads, EndBroadcast(t)
  PROVE  IInv'
<1> USE ConnectionsAssumption DEF IInv, EndBroadcast, Before, GoTo, socket
<1>1. TypeOK'
  BY DEF TypeOK, Statements
<1>2. ThreadsSound'
  BY DEF ThreadsSound, TypeOK, Opening, Closing, Threads
<1>3. ReceiversApart'
  BY DEF ReceiversApart, Receives, Receiving, Stuck, ThreadsSound, Sessions
<1>4. ClosersApart'
  BY DEF ClosersApart, Closes, Closing
<1>5. ClientsListed'
  BY DEF ClientsListed, Closes, Opening, Closing
<1>6. AcceptorOnItsWay'
  BY DEF AcceptorOnItsWay, Opening, Closing
<1>7. AcceptsAgain'
  BY DEF AcceptorOnItsWay, AcceptsAgain, Sessions, ThreadsSound
<1>8. QED
  BY <1>1, <1>2, <1>3, <1>4, <1>5, <1>6, <1>7

LEMMA SendEndsInv ==
  ASSUME IInv, NEW t \in Threads, NEW s \in Sessions, SendEnds(t, s)
  PROVE  IInv'
<1> USE ConnectionsAssumption DEF IInv, SendEnds, Idle, Disconnect, Take, Return
<1>1. TypeOK'
  <2>1. connected' \in [Sessions -> BOOLEAN]
    <3>1. connected' = connected \/ connected' = [connected EXCEPT ![s] = FALSE]
      OBVIOUS
    <3>2. QED
      BY <3>1, TurnsSwitch DEF TypeOK
  <2>2. QED
    BY <2>1 DEF TypeOK, Statements
<1>2. ThreadsSound'
  BY DEF ThreadsSound, TypeOK
<1>3. ReceiversApart'
  BY SMTT(40) DEF ReceiversApart, Receives, TypeOK, Opening, Receiving, Stuck
<1>4. ClosersApart'
  BY DEF ClosersApart, Closes, TypeOK
<1>5. ClientsListed'
  BY DEF ClientsListed, Closes, TypeOK, Opening, Closing, Sessions
<1>6. AcceptorOnItsWay'
  BY DEF AcceptorOnItsWay, TypeOK, Closing, Threads
<1>7. AcceptsAgain'
  BY DEF AcceptsAgain, TypeOK, Sessions, Threads
<1>8. QED
  BY <1>1, <1>2, <1>3, <1>4, <1>5, <1>6, <1>7

LEMMA OnDisconnectedInv ==
  ASSUME IInv, NEW t \in Threads, OnDisconnected(t)
  PROVE  IInv'
<1> USE ConnectionsAssumption DEF IInv, OnDisconnected, Before, GoTo, socket
<1>1. TypeOK'
  BY DEF TypeOK, Statements
<1>2. ThreadsSound'
  BY DEF ThreadsSound, TypeOK, Closing, Threads
<1>3. ReceiversApart'
  BY DEF ReceiversApart, Receives, Opening, Receiving, Stuck, ThreadsSound, Threads
<1>4. ClosersApart'
  BY DEF ClosersApart, Closes, Closing
<1>5. ClientsListed'
  BY DEF ClientsListed, Closes, Opening, Closing
<1>6. AcceptorOnItsWay'
  BY DEF AcceptorOnItsWay, Closing
<1>7. AcceptsAgain'
  BY DEF AcceptsAgain
<1>8. QED
  BY <1>1, <1>2, <1>3, <1>4, <1>5, <1>6, <1>7

LEMMA ReleaseSessionInv ==
  ASSUME IInv, NEW t \in Threads, ReleaseSession(t)
  PROVE  IInv'
<1> USE ConnectionsAssumption DEF IInv, ReleaseSession, LeaveService, Before, Return, Take, threads
<1>1. TypeOK'
  <2>1. leaving' \in [Sessions -> BOOLEAN] /\ serviceSessions' \subseteq Sessions
    BY DEF TypeOK
  <2>2. at' \in [Threads -> Statements]
    BY DEF TypeOK, Statements, Threads
  <2>3. session' \in [Threads -> Sessions \cup {Nobody}]
    BY DEF TypeOK
  <2>4. audience' \in [Threads -> SUBSET Clients] /\ crashed' \in BOOLEAN
    BY DEF TypeOK
  <2>5. UNCHANGED <<connected, receive, connecting, registered, lockOwner, accepting,
                    acceptor, link>>
    OBVIOUS
  <2> QED
    BY <2>1, <2>2, <2>3, <2>4, <2>5 DEF TypeOK
<1>2. ThreadsSound'
  BY DEF ThreadsSound, TypeOK, Opening, Closing
<1>3. ReceiversApart'
  BY SMTT(40) DEF ReceiversApart, Receives, TypeOK, Opening, Receiving, Stuck
<1>4. ClosersApart'
  BY DEF ClosersApart, Closes, TypeOK, Sessions
<1>5. ClientsListed'
  <2>1. CASE ~(ServiceLives(session[t]) /\ session[t] \in serviceSessions)
    BY <2>1 DEF ClientsListed, Closes
  <2>2. CASE ServiceLives(session[t]) /\ session[t] \in serviceSessions
    <3>1. Closes(t, session[t]) /\ session[t] \in Sessions
      BY DEF Closes, Closing, ThreadsSound
    <3>2. /\ serviceSessions' = serviceSessions \ {session[t]}
          /\ \A u \in Threads : at'[u] \in Closing => u # t
          /\ \A u \in Threads \ {t} : at'[u] = at[u] /\ session'[u] = session[u]
          /\ at'[t] \in {"reaccept", "idle"} /\ session'[t] = Nobody
      BY <2>2 DEF TypeOK, Closing
    <3> HIDE DEF ReleaseSession, LeaveService
    <3>3. \A u \in Threads \ {t} : ~Closes(u, session[t])
      BY <3>1 DEF ClosersApart
    <3>4. UNCHANGED <<connected, registered>>
      BY DEF ReleaseSession, LeaveService
    <3>5. ASSUME NEW c \in Clients, c = session[t]
          PROVE  /\ c \notin registered /\ ~connected[c]
                 /\ \A u \in Threads : ~Closes(u, c)'
                 /\ \A u \in Threads : ~(session'[u] = c /\ at'[u] \in Opening)
      BY <3>1, <3>2, <3>3, <3>5
         DEF ClosersApart, Closes, ClientsListed, ReleaseSession, LeaveService
    <3>6. ASSUME NEW c \in Clients, c # session[t]
          PROVE  \A u \in Threads :
                   /\ session'[u] = c <=> session[u] = c
                   /\ session[u] = c => at'[u] = at[u]
      BY <3>2, <3>6
    <3>7. QED
      BY <3>2, <3>4, <3>5, <3>6 DEF ClientsListed, Closes
  <2>3. QED
    BY <2>1, <2>2
<1>6. AcceptorOnItsWay'
  BY DEF AcceptorOnItsWay, TypeOK, Threads
<1>7. AcceptsAgain'
  BY DEF AcceptsAgain, TypeOK, Sessions, Threads
<1>8. QED
  BY <1>1, <1>2, <1>3, <1>4, <1>5, <1>6, <1>7

LEMMA ProcessDisconnectInv ==
  ASSUME IInv, NEW t \in Workers, NEW s \in Sessions, ProcessDisconnect(t, s)
  PROVE  IInv'
<1> USE ConnectionsAssumption DEF IInv, ProcessDisconnect, Idle, threads
<1>1. TypeOK'
  BY DEF TypeOK
<1>2. ThreadsSound'
  BY DEF ThreadsSound
<1>3. ReceiversApart'
  BY DEF ReceiversApart, Receives, Stuck
<1>4. ClosersApart'
  BY DEF ClosersApart, Closes
<1>5. ClientsListed'
  BY DEF ClientsListed, Closes
<1>6. AcceptorOnItsWay'
  BY DEF AcceptorOnItsWay
<1>7. AcceptsAgain'
  BY DEF AcceptsAgain
<1>8. QED
  BY <1>1, <1>2, <1>3, <1>4, <1>5, <1>6, <1>7

LEMMA TryReconnectInv ==
  ASSUME IInv, NEW t \in Threads, TryReconnect(t)
  PROVE  IInv'
<1> USE ConnectionsAssumption DEF IInv, TryReconnect, Before, GoTo, Unreferenced
<1>1. TypeOK'
  <2>1. connected' \in [Sessions -> BOOLEAN]
    BY TurnsSwitch DEF TypeOK
  <2>2. QED
    BY <2>1 DEF TypeOK, Statements
<1>2. ThreadsSound'
  BY DEF ThreadsSound, Opening, Closing
<1>3. ReceiversApart'
  BY DEF ReceiversApart, Receives, TypeOK, Stuck, ThreadsSound, Sessions
<1>4. ClosersApart'
  BY DEF ClosersApart, Closes, TypeOK, Closing
<1>5. ClientsListed'
  BY DEF ClientsListed, Closes, TypeOK, Sessions, ThreadsSound
<1>6. AcceptorOnItsWay'
  BY DEF AcceptorOnItsWay, Opening, Closing
<1>7. AcceptsAgain'
  BY DEF AcceptorOnItsWay, AcceptsAgain, TypeOK, Sessions, ThreadsSound
<1>8. QED
  BY <1>1, <1>2, <1>3, <1>4, <1>5, <1>6, <1>7

LEMMA LinkDownInv ==
  ASSUME IInv, NEW t \in Threads, LinkDown(t)
  PROVE  IInv'
<1> USE ConnectionsAssumption DEF IInv, LinkDown, Idle, GoTo, socket
<1>1. TypeOK' /\ ThreadsSound'
  BY DEF TypeOK, Statements, ThreadsSound, Opening, Closing
<1>2. ReceiversApart' /\ ClosersApart'
  BY DEF ReceiversApart, ClosersApart, Receives, Closes, Opening, Receiving, Closing,
         Stuck
<1>3. ClientsListed'
  BY DEF ClientsListed, Closes, Opening, Closing
<1>4. AcceptorOnItsWay' /\ AcceptsAgain'
  BY DEF AcceptorOnItsWay, AcceptsAgain
<1>5. QED
  BY <1>1, <1>2, <1>3, <1>4

-----------------------------------------------------------------------------
LEMMA ConnectionsStep == IInv /\ [Next]_vars => IInv'
<1> SUFFICES ASSUME IInv, [Next]_vars PROVE IInv'
  OBVIOUS
<1>1. ASSUME NEW t \in Threads, Proceed(t) \/ Broadcast(t) PROVE IInv'
  BY <1>1, AddSessionInv, OnConnectedInv, RegisterRecvInv, RegisterAcceptInv, HandledInv,
     EndBroadcastInv, BroadcastToInv, OnDisconnectedInv, ReleaseSessionInv,
     TryReconnectInv, BroadcastInv
     DEF Proceed
<1>2. ASSUME NEW t \in Workers, Dispatch(t) PROVE IInv'
  BY <1>2, ProcessAcceptInv, ProcessConnectInv, ProcessRecvInv, ProcessDisconnectInv
     DEF Dispatch
<1>3. ASSUME NEW t \in Workers \cup {GameThread}, NEW s \in Sessions, SendEnds(t, s)
      PROVE  IInv'
  BY <1>3, SendEndsInv DEF Threads
<1>4. CASE LinkDown(GameThread)
  BY <1>4, LinkDownInv DEF Threads
<1>5. CASE UNCHANGED vars
  BY <1>5
     DEF vars, socket, threads, IInv, TypeOK, ThreadsSound, ReceiversApart, ClosersApart,
         ClientsListed, AcceptorOnItsWay, AcceptsAgain, Receives, Closes, Stuck
<1>6. QED
  BY <1>1, <1>2, <1>3, <1>4, <1>5 DEF Next

LEMMA ConnectionsInvariant == Spec => []IInv
BY ConnectionsInit, ConnectionsStep, PTL DEF Spec

\* Of a session there is one receive, with the kernel or with one thread: nobody else
\* touches _recvEvent and _recvBuffer, which have no lock (Session.cpp).
THEOREM ConnectionsHaveOneReceiver == Spec => []OneReceiver
<1>1. IInv => OneReceiver
  <2> SUFFICES ASSUME IInv PROVE OneReceiver
    OBVIOUS
  <2> USE DEF IInv, Working
  <2> DEFINE receivers(s) == Working(s, Opening \cup Receiving)
  <2>1. ASSUME NEW s \in Sessions
        PROVE  /\ Cardinality(receivers(s)) <= 1
               /\ receive[s] = "posted" => receivers(s) = {}
               /\ connected[s] /\ receive[s] = "none" => receivers(s) # {} \/ Stuck
    <3>1. receivers(s) = {t \in Threads : Receives(t, s)}
      BY DEF Receives
    <3>2. receivers(s) = {} \/ \E t \in Threads : receivers(s) = {t}
      BY <3>1 DEF ReceiversApart
    <3>3. Cardinality(receivers(s)) \in {0, 1}
      <4> HIDE DEF receivers
      <4>1. QED
        BY <3>2, FS_EmptySet, FS_Singleton
    <3>4. QED
      BY <3>1, <3>3 DEF ReceiversApart
  <2>2. QED
    BY <2>1 DEF OneReceiver
<1>2. QED
  BY <1>1, ConnectionsInvariant, PTL

\* The session manager's list is part of the Service's, a closed client leaves both,
\* and ReleaseSession finds what it asserts to be there (Service.cpp:45).
THEOREM ConnectionListsAgree == Spec => []ListsAgree
<1>1. IInv => ListsAgree
  BY DEF IInv, ListsAgree, ClientsListed, Working, Closes, Closing, TypeOK
<1>2. QED
  BY <1>1, ConnectionsInvariant, PTL

\* The accept event always comes back to RegisterAccept (Listener.cpp).
THEOREM ConnectionsAcceptAgain == Spec => []AcceptsAgain
<1>1. IInv => AcceptsAgain
  BY DEF IInv
<1>2. QED
  BY <1>1, ConnectionsInvariant, PTL
==============================================================================
