----------------------------- MODULE Connections -----------------------------
(***************************************************************************)
(* The connections of one game server: Listener and Service                *)
(* (ServerCore), the connecting and disconnecting half of Session, the     *)
(* GameSessionManager with its broadcasts, and ChatConnector, which keeps  *)
(* one client connection to the ChatServer.                                *)
(*                                                                         *)
(* A thread runs one handler at a time, statement by statement where other *)
(* threads can see the difference: `at' is the statement it is before.     *)
(* IOCP workers take completions, the game thread looks after the link to  *)
(* the ChatServer and sends, the subscriber broadcasts what Redis delivers.*)
(*                                                                         *)
(* Session objects are pooled: one that nothing refers to any more has     *)
(* been destroyed and stands for the next that is made.  What a Session    *)
(* sends, and its send event, are in SendPipeline, what it receives in     *)
(* RecvStream, what else OnDisconnected does in PartyHandlers, GameWorld   *)
(* and Accounts.                                                           *)
(***************************************************************************)
EXTENDS Naturals, FiniteSets

CONSTANTS
  Clients,             \* bound: GameSession objects there can be at a time
  Links,               \* bound: ChatRelaySession objects at a time
  Workers,             \* threads that dispatch completions
  GameThread,          \* one of the workers in single mode
  Subscriber,          \* thread of the RedisSubscriber
  Nobody               \* no session, no thread, or the kernel

ASSUME ConnectionsAssumption ==
  /\ Clients \cap Links = {}
  /\ Nobody \notin Clients \cup Links \cup Workers \cup {GameThread, Subscriber}

Sessions == Clients \cup Links
Threads == Workers \cup {GameThread, Subscriber}

VARIABLES
  connected,           \* _connected
  receive,             \* _recvEvent: "none", "posted", or "failed" at once
  leaving,             \* _disconnectEvent is with the kernel
  connecting,          \* links whose _connectEvent is with the kernel
  serviceSessions,     \* _sessions of each session's Service
  registered,          \* GSessionManager._sessions
  lockOwner,           \* who holds GSessionManager's lock across statements
  accepting,           \* session of the accept event
  acceptor,            \* who has the accept event; Nobody is the kernel
  link,                \* GChatConnector._session; its _service is that of link
  at, session,         \* of each thread: its statement, the session it works for
  audience,            \* of each thread: who the running Broadcast has yet to reach
  crashed              \* a null pointer or a failed assertion ended the process

socket == <<connected, receive, leaving, connecting>>
threads == <<at, session, audience>>
vars == <<socket, serviceSessions, registered, lockOwner, accepting, acceptor, link,
          threads, crashed>>

-----------------------------------------------------------------------------
(* References *)

\* Nothing holds the session: it is destroyed.
Unreferenced(s) ==
  /\ s \notin serviceSessions \cup registered \cup connecting \cup {accepting, link}
  /\ receive[s] # "posted" /\ ~leaving[s]
  /\ \A t \in Threads : session[t] # s /\ s \notin audience[t]

\* GetService() is not null: only GChatConnector holds a client service.
ServiceLives(s) == s \in Links => s = link

Idle(t) == at[t] = "idle" /\ ~crashed

\* Thread t is before the statement st.
Before(t, st) == at[t] = st /\ ~crashed

GoTo(t, st) ==
  /\ at' = [at EXCEPT ![t] = st]
  /\ UNCHANGED <<session, audience>>

\* Thread t goes on with s.
Take(t, s, st) ==
  /\ at' = [at EXCEPT ![t] = st]
  /\ session' = [session EXCEPT ![t] = s]
  /\ UNCHANGED audience

\* Variant: a connection that is closed while it connects ends the accepting.
ReturnForgets(t) == Take(t, Nobody, "idle")

\* The handler ends; one that ProcessAccept called goes back to it.
Return(t) == Take(t, Nobody, IF acceptor = t THEN "reaccept" ELSE "idle")

\* Disconnect(s): the first to turn _connected off goes on.
Disconnect(t, s) ==
  IF connected[s]
  THEN connected' = [connected EXCEPT ![s] = FALSE] /\ Take(t, s, "onDisconnected")
  ELSE UNCHANGED connected /\ Return(t)

Init ==
  /\ connected = [s \in Sessions |-> FALSE]
  /\ receive = [s \in Sessions |-> "none"]
  /\ leaving = [s \in Sessions |-> FALSE]
  /\ serviceSessions = {} /\ registered = {} /\ lockOwner = Nobody
  /\ accepting \in Clients /\ acceptor = Nobody
  /\ link \in Links /\ connecting \in SUBSET {link}
  /\ at = [t \in Threads |-> "idle"]
  /\ session = [t \in Threads |-> Nobody]
  /\ audience = [t \in Threads |-> {}]
  /\ crashed = FALSE

-----------------------------------------------------------------------------
(* Coming: Listener and ProcessConnect *)

\* ProcessAccept; SetUpdateAcceptSocket or getpeername may fail.  There is room
\* (Clients) for the session that RegisterAccept makes.
ProcessAccept(t) ==
  /\ Idle(t) /\ acceptor = Nobody
  /\ \E c \in Clients : Unreferenced(c)
  /\ acceptor' = t
  /\ \/ connected' = [connected EXCEPT ![accepting] = TRUE]
        /\ Take(t, accepting, "addSession")
     \/ UNCHANGED connected /\ GoTo(t, "reaccept")
  /\ UNCHANGED <<receive, leaving, connecting, serviceSessions, registered, lockOwner,
                 accepting, link, crashed>>

\* RegisterAccept; while AcceptEx fails at once it starts over.  CreateSession
\* returns null for a socket that the completion port refuses, and the pointer is
\* followed.
RegisterAccept(t) ==
  /\ Before(t, "reaccept")
  /\ \/ /\ accepting' \in {c \in Clients : Unreferenced(c)}
        /\ acceptor' = Nobody
        /\ connected' = [connected EXCEPT ![accepting'] = FALSE]
        /\ receive' = [receive EXCEPT ![accepting'] = "none"]
        /\ GoTo(t, "idle") /\ UNCHANGED crashed
     \/ crashed' = TRUE /\ UNCHANGED <<accepting, acceptor, connected, receive, threads>>
  /\ UNCHANGED <<leaving, connecting, serviceSessions, registered, lockOwner, link>>

\* ProcessConnect of a ConnectEx that succeeded, or did not.
ProcessConnect(t, s) ==
  /\ Idle(t) /\ s \in connecting
  /\ connecting' = connecting \ {s}
  /\ \/ connected' = [connected EXCEPT ![s] = TRUE] /\ Take(t, s, "addSession")
     \/ UNCHANGED <<connected, threads>>
  /\ UNCHANGED <<receive, leaving, serviceSessions, registered, lockOwner, accepting,
                 acceptor, link, crashed>>

AddSession(t) ==
  /\ Before(t, "addSession")
  /\ IF ServiceLives(session[t])
     THEN /\ serviceSessions' = serviceSessions \cup {session[t]}
          /\ GoTo(t, "onConnected") /\ UNCHANGED crashed
     ELSE crashed' = TRUE /\ UNCHANGED <<serviceSessions, threads>>
  /\ UNCHANGED <<socket, registered, lockOwner, accepting, acceptor, link>>

\* GSessionManager's methods wait for its lock; ChatRelaySession only logs.
OnConnected(t) ==
  /\ Before(t, "onConnected")
  /\ session[t] \in Clients => lockOwner = Nobody
  /\ registered' = registered \cup ({session[t]} \cap Clients)
  /\ GoTo(t, "registerRecv")
  /\ UNCHANGED <<socket, serviceSessions, lockOwner, accepting, acceptor, link, crashed>>

\* A WSARecv that fails at once disconnects, if the connection was reset, or is
\* logged.
RegisterRecv(t) ==
  LET s == session[t]
  IN  /\ Before(t, "registerRecv")
      /\ \/ /\ ~connected[s]
            /\ Return(t) /\ UNCHANGED <<connected, receive>>
         \/ /\ connected[s]
            /\ \E result \in {"posted", "failed"} :
                 receive' = [receive EXCEPT ![s] = result]
            /\ Return(t) /\ UNCHANGED connected
         \/ connected[s] /\ Disconnect(t, s) /\ UNCHANGED receive
      /\ UNCHANGED <<leaving, connecting, serviceSessions, registered, lockOwner,
                     accepting, acceptor, link, crashed>>

-----------------------------------------------------------------------------
(* Receiving, broadcasting, sending *)

\* Variant: the receive is posted again before the packets are handled.
ProcessRecvEarly(t, s) ==
  /\ Idle(t) /\ receive[s] = "posted"
  /\ Take(t, s, "handle")
  /\ UNCHANGED <<socket, serviceSessions, registered, lockOwner, accepting, acceptor,
                 link, crashed>>

\* ProcessRecv: the end of the connection, or packets.
ProcessRecv(t, s) ==
  /\ Idle(t) /\ receive[s] = "posted"
  /\ receive' = [receive EXCEPT ![s] = "none"]
  /\ \/ Disconnect(t, s)
     \/ Take(t, s, "handle") /\ UNCHANGED connected
  /\ UNCHANGED <<leaving, connecting, serviceSessions, registered, lockOwner,
                 accepting, acceptor, link, crashed>>

\* OnRecv returns; a length out of bounds disconnects.
Handled(t) ==
  /\ Before(t, "handle")
  /\ \/ GoTo(t, "registerRecv") /\ UNCHANGED connected
     \/ Disconnect(t, session[t])
  /\ UNCHANGED <<receive, leaving, connecting, serviceSessions, registered, lockOwner,
                 accepting, acceptor, link, crashed>>

\* Broadcast, SendToPlayerIds: a message from the ChatServer, or from Redis.
Broadcast(t) ==
  /\ \/ Before(t, "handle") /\ session[t] \in Links
     \/ Idle(t) /\ t = Subscriber
  /\ lockOwner = Nobody /\ lockOwner' = t
  /\ at' = [at EXCEPT ![t] = "broadcast"]
  /\ audience' = [audience EXCEPT ![t] = registered]
  /\ UNCHANGED <<socket, serviceSessions, registered, accepting, acceptor, link,
                 session, crashed>>

\* Send to one of the sessions, in any order of the set.  A WSASend that fails at
\* once because the connection was reset disconnects on this thread, which never
\* comes back: OnDisconnected waits for the lock it holds.
BroadcastTo(t, s) ==
  /\ Before(t, "broadcast") /\ s \in audience[t]
  /\ audience' = [audience EXCEPT ![t] = @ \ {s}]
  /\ \/ UNCHANGED <<connected, at, session>>
     \/ /\ connected[s]
        /\ connected' = [connected EXCEPT ![s] = FALSE]
        /\ at' = [at EXCEPT ![t] = "onDisconnected"]
        /\ session' = [session EXCEPT ![t] = s]
  /\ UNCHANGED <<receive, leaving, connecting, serviceSessions, registered, lockOwner,
                 accepting, acceptor, link, crashed>>

EndBroadcast(t) ==
  /\ Before(t, "broadcast") /\ audience[t] = {}
  /\ lockOwner' = Nobody
  /\ GoTo(t, IF session[t] = Nobody THEN "idle" ELSE "registerRecv")
  /\ UNCHANGED <<socket, serviceSessions, registered, accepting, acceptor, link, crashed>>

\* A send of a room or a handler that fails at once, or one that ends with 0
\* bytes, as the connection was reset.
SendEnds(t, s) ==
  /\ Idle(t) /\ connected[s]
  /\ s \in registered \cup {link}
  /\ Disconnect(t, s)
  /\ UNCHANGED <<receive, leaving, connecting, serviceSessions, registered, lockOwner,
                 accepting, acceptor, link, crashed>>

-----------------------------------------------------------------------------
(* Going: Disconnect *)

OnDisconnected(t) ==
  /\ Before(t, "onDisconnected")
  /\ session[t] \in Clients => lockOwner = Nobody
  /\ registered' = registered \ {session[t]}
  /\ GoTo(t, "releaseSession")
  /\ UNCHANGED <<socket, serviceSessions, lockOwner, accepting, acceptor, link, crashed>>

\* ReleaseSession, RegisterDisconnect: DisconnectEx is on its way, or failed at
\* once.  The process ends if the service is gone, or by ReleaseSession's assertion.
LeaveService(t, left, asserted) ==
  /\ Before(t, "releaseSession")
  /\ IF ServiceLives(session[t]) /\ asserted
     THEN /\ serviceSessions' = left
          /\ \E posted \in BOOLEAN : leaving' = [leaving EXCEPT ![session[t]] = posted]
          /\ Return(t) /\ UNCHANGED crashed
     ELSE crashed' = TRUE /\ UNCHANGED <<serviceSessions, leaving, threads>>
  /\ UNCHANGED <<connected, receive, connecting, registered, lockOwner, accepting,
                 acceptor, link>>

\* Variant: built with NDEBUG, the erase inside assert is not there.
ReleaseSessionAsserted(t) == LeaveService(t, serviceSessions, TRUE)

ReleaseSession(t) ==
  LeaveService(t, serviceSessions \ {session[t]}, session[t] \in serviceSessions)

ProcessDisconnect(t, s) ==
  /\ Idle(t) /\ leaving[s]
  /\ leaving' = [leaving EXCEPT ![s] = FALSE]
  /\ UNCHANGED <<connected, receive, connecting, serviceSessions, registered, lockOwner,
                 accepting, acceptor, link, threads, crashed>>

-----------------------------------------------------------------------------
(* ChatConnector *)

\* The game loop finds the link down.
LinkDown(t) ==
  /\ Idle(t) /\ ~connected[link]
  /\ GoTo(t, "tryReconnect")
  /\ UNCHANGED <<socket, serviceSessions, registered, lockOwner, accepting, acceptor,
                 link, crashed>>

\* TryReconnect: too early, or a new session and a new service take the place of
\* the old, whose service goes with its _sessions; ConnectEx may fail at once.
TryReconnect(t) ==
  /\ Before(t, "tryReconnect")
  /\ GoTo(t, "idle")
  /\ \/ UNCHANGED <<connected, receive, connecting, serviceSessions, link>>
     \/ /\ link' \in {l \in Links : Unreferenced(l)}
        /\ serviceSessions' = serviceSessions \ {link}
        /\ connected' = [connected EXCEPT ![link'] = FALSE]
        /\ receive' = [receive EXCEPT ![link'] = "none"]
        /\ connecting' \in {connecting, connecting \cup {link'}}
  /\ UNCHANGED <<leaving, registered, lockOwner, accepting, acceptor, crashed>>

-----------------------------------------------------------------------------
\* A thread goes on with the handler it is in.
Proceed(t) ==
  \/ AddSession(t) \/ OnConnected(t) \/ RegisterRecv(t) \/ RegisterAccept(t)
  \/ Handled(t) \/ EndBroadcast(t) \/ \E s \in Clients : BroadcastTo(t, s)
  \/ OnDisconnected(t) \/ ReleaseSession(t)
  \/ TryReconnect(t)

\* A worker takes a completion.
Dispatch(t) ==
  \/ ProcessAccept(t)
  \/ \E s \in Links : ProcessConnect(t, s)
  \/ \E s \in Sessions : ProcessRecv(t, s) \/ ProcessDisconnect(t, s)

Next ==
  \/ \E t \in Threads : Proceed(t) \/ Broadcast(t)
  \/ \E t \in Workers : Dispatch(t)
  \/ \E t \in Workers \cup {GameThread}, s \in Sessions : SendEnds(t, s)
  \/ LinkDown(GameThread)

Spec == Init /\ [][Next]_vars

-----------------------------------------------------------------------------
(* Properties *)

Statements ==
  {"idle", "addSession", "onConnected", "registerRecv", "reaccept", "handle", "broadcast",
   "onDisconnected", "releaseSession", "tryReconnect"}

TypeOK ==
  /\ connected \in [Sessions -> BOOLEAN]
  /\ receive \in [Sessions -> {"none", "posted", "failed"}]
  /\ leaving \in [Sessions -> BOOLEAN]
  /\ connecting \subseteq Links
  /\ serviceSessions \subseteq Sessions /\ registered \subseteq Clients
  /\ lockOwner \in Threads \cup {Nobody}
  /\ accepting \in Clients /\ acceptor \in Workers \cup {Nobody}
  /\ link \in Links
  /\ at \in [Threads -> Statements]
  /\ session \in [Threads -> Sessions \cup {Nobody}]
  /\ audience \in [Threads -> SUBSET Clients]
  /\ crashed \in BOOLEAN

\* Threads before one of these statements, for s.
Working(s, statements) == {t \in Threads : session[t] = s /\ at[t] \in statements}

Opening == {"addSession", "onConnected"}
Receiving == {"registerRecv", "handle", "broadcast"}
Closing == {"onDisconnected", "releaseSession"}

\* What ends the server as it is: a broadcaster waits for its own lock, or the
\* process is gone.
Stuck == crashed \/ \E t \in Threads : lockOwner = t /\ at[t] = "onDisconnected"

\* _recvBuffer and _recvEvent have no lock: of a session there is one receive, with
\* the kernel or with the one thread that handles it, also while it connects and
\* disconnects; a connected session is not left without one, unless a WSARecv
\* failed at once.
OneReceiver ==
  /\ TypeOK
  /\ \A s \in Sessions :
       LET receivers == Working(s, Opening \cup Receiving)
       IN  /\ Cardinality(receivers) <= 1
           /\ receive[s] = "posted" => receivers = {}
           /\ connected[s] /\ receive[s] = "none" => receivers # {} \/ Stuck

\* A client that is closed, and not about to remove itself, is in no list: nothing
\* but its handlers and events holds it, and it is destroyed with the last of them.
\* One that is released is in the list of the Service, as ReleaseSession asserts.
\* (A link can be sent to, and so disconnect, before its AddSession.)
ListsAgree ==
  /\ registered \subseteq serviceSessions
  /\ \A s \in registered : connected[s] \/ Working(s, {"onDisconnected"}) # {}
  /\ \A s \in serviceSessions \cap Clients : connected[s] \/ Working(s, Closing) # {}
  /\ \A s \in Clients : Working(s, {"releaseSession"}) # {} => s \in serviceSessions

\* The one accept event is never lost: it is with the kernel, with a session that
\* nothing else refers to, or with a thread that will post it again, even if the
\* connection it accepted is closed, by any thread, before its first receive.
AcceptsAgain ==
  IF acceptor = Nobody
  THEN /\ ~connected[accepting] /\ receive[accepting] = "none" /\ ~leaving[accepting]
       /\ accepting \notin serviceSessions \cup registered
       /\ \A t \in Threads : session[t] # accepting /\ accepting \notin audience[t]
  ELSE at[acceptor] # "idle"
=============================================================================
