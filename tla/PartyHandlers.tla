--------------------------- MODULE PartyHandlers ----------------------------
(***************************************************************************)
(* The callers of PartyManager.                                            *)
(*                                                                         *)
(* The game logic thread runs one job at a time: the bodies of             *)
(* Handle_C_PartyInvite, Handle_C_PartyAnswer, Handle_C_PartyLeave and     *)
(* LeaveRoom.  The IOCP workers run GameSession::OnDisconnected, each for  *)
(* another session, meanwhile.  A handler is a chain of calls, each atomic *)
(* under the manager's lock, that carries an id or a Party* from one call  *)
(* to the next, in its frame.  Following a Party* is a step of its own,    *)
(* outside the lock.                                                       *)
(*                                                                         *)
(* Only the game thread adds members, the workers only remove them: tests  *)
(* made by one job in a row are one step, since what passes them one by    *)
(* one also passes them together at the last.                              *)
(***************************************************************************)
EXTENDS PartyManager

CONSTANTS
  Leavers,             \* bound: players whose connection may go
  MaxJobs              \* bound: party jobs the game thread runs

Game == "game"
Procs == Players \cup {Game}   \* a player stands for its OnDisconnected

ASSUME HandlerAssumption ==
  Game \notin Players /\ Leavers \subseteq Players /\ MaxJobs \in Nat

VARIABLES
  pm,                  \* GPartyManager
  frame,               \* next statement and locals of each process
  session,             \* "online", "offline" once OnDisconnected began,
                       \* "gone" once the LeaveRoom job ran
  jobs,                \* party jobs so far
  alone,               \* history: parties an answer to oneself created and
                       \* nobody joined since
  dangling             \* history: a Party* was followed after its party went

vars == <<pm, frame, session, jobs, alone, dangling>>

\* at: the next call; players: whom the job is about; partyId: the local of
\* that name; pointer: the party a local Party* points to.
Idle == [at |-> "idle", players |-> <<>>, partyId |-> NoParty, pointer |-> NoParty]

Init ==
  /\ pm = InitialManager
  /\ frame = [x \in Procs |-> Idle]
  /\ session = [p \in Players |-> "online"]
  /\ jobs = 0
  /\ alone = {}
  /\ dangling = FALSE

\* Process x goes on at label to, with nothing left of its locals at the end.
Goto(x, from, to) ==
  /\ frame[x].at = from
  /\ frame' = [frame EXCEPT ![x] = IF to \in {"idle", "done"}
                                   THEN [Idle EXCEPT !.at = to]
                                   ELSE [@ EXCEPT !.at = to]]

\* The same, and id becomes the local partyId.
GotoWith(x, from, to, id) ==
  /\ frame[x].at = from
  /\ frame' = [frame EXCEPT ![x] =
                 IF to \in {"idle", "done"} THEN [Idle EXCEPT !.at = to]
                 ELSE [@ EXCEPT !.at = to, !.partyId = id]]

-----------------------------------------------------------------------------
(* Party* *)

\* party = GetParty(id), and what follows with and without a party.
Point(x, from, id, found, missing) ==
  /\ frame[x].at = from
  /\ IF GetParty(pm, id)
     THEN frame' = [frame EXCEPT ![x].at = found, ![x].pointer = id]
     ELSE Goto(x, from, missing)
  /\ UNCHANGED <<pm, session, jobs, alone, dangling>>

\* Members are read, or a name is written, through the pointer.
Follow(x, from, to) ==
  /\ Goto(x, from, to)
  /\ dangling' = (dangling \/ ~GetParty(pm, frame[x].pointer))
  /\ UNCHANGED <<pm, session, jobs, alone>>

-----------------------------------------------------------------------------
(* Jobs of the game thread *)

Local == frame[Game]

\* A player's job does nothing once the player object is gone; the client can
\* have queued it before the connection went.
Begin(op, p, q) ==
  /\ Local = Idle
  /\ session[p] # "gone"
  /\ jobs < MaxJobs
  /\ jobs' = jobs + 1
  /\ frame' = [frame EXCEPT ![Game].at = op, ![Game].players = <<p, q>>]
  /\ UNCHANGED <<pm, session, alone, dangling>>

BeginInvite(p, q) == p # q /\ Begin("invite", p, q)

\* Nobody keeps the invitations: a client may answer with any id, its own and
\* that of a player that is gone (or never was) included, as often as it likes.
BeginAnswer(p, inviter) == Begin("answer", p, inviter)

BeginLeave(p) == Begin("leave", p, p)

\* Handle_C_PartyInvite: refused, or on to the size of the inviter's party.
InviteCheck ==
  LET inviter == Local.players[1]
      target == Local.players[2]
      refused == \/ IsInParty(pm, inviter) /\ ~IsLeader(pm, inviter)
                 \/ IsInParty(pm, target)
  IN  /\ Local.at = "invite"
      /\ IF refused
         THEN /\ Goto(Game, "invite", "idle")
              /\ UNCHANGED <<pm, session, jobs, alone, dangling>>
         ELSE Point(Game, "invite", GetPartyIdByPlayer(pm, inviter),
                    "size", "invited")

\* The size is read through the pointer; a full party invites nobody.  Of a
\* party that went, anything may be read.
InviteSize ==
  LET party == Local.pointer IN
  \E full \in BOOLEAN :
    /\ GetParty(pm, party) => full = (Size(pm.parties[party]) >= MaxPartySize)
    /\ Follow(Game, "size", IF full THEN "idle" ELSE "invited")

\* The target, if in the room, gets the invitation; the server keeps nothing.
InviteSent ==
  /\ Goto(Game, "invited", "idle")
  /\ UNCHANGED <<pm, session, jobs, alone, dangling>>

\* Handle_C_PartyAnswer, up to the party id of the inviter.
AnswerCheck ==
  LET id == GetPartyIdByPlayer(pm, Local.players[2])
  IN  /\ GotoWith(Game, "answer",
                  IF IsInParty(pm, Local.players[1]) THEN "idle"
                  ELSE IF id = NoParty THEN "create" ELSE "add", id)
      /\ UNCHANGED <<pm, session, jobs, alone, dangling>>

\* The inviter's name is written if the inviter is in the room.
AnswerCreate ==
  LET acceptor == Local.players[1]
      inviter == Local.players[2]
  IN  /\ Local.at = "create"
      /\ IF CanCreate(pm, inviter)
         THEN /\ pm' = CreateParty(pm, inviter)
              /\ alone' = alone \cup {id \in {pm.nextId} : acceptor = inviter}
              /\ GotoWith(Game, "create",
                          IF session[inviter] # "gone" THEN "name inviter" ELSE "add",
                          pm.nextId)
         ELSE Goto(Game, "create", "idle") /\ UNCHANGED <<pm, alone>>
      /\ UNCHANGED <<session, jobs, dangling>>

AnswerAdd ==
  LET acceptor == Local.players[1] IN
  /\ Local.at = "add"
  /\ IF CanAdd(pm, Local.partyId, acceptor)
     THEN /\ pm' = AddMember(pm, Local.partyId, acceptor)
          /\ alone' = alone \ {Local.partyId}
          /\ Goto(Game, "add", "name acceptor")
     ELSE Goto(Game, "add", "idle") /\ UNCHANGED <<pm, alone>>
  /\ UNCHANGED <<session, jobs, dangling>>

\* memberNames is written through a fresh pointer each time.
AnswerNames ==
  \/ Point(Game, "name inviter", Local.partyId, "write inviter", "add")
  \/ Follow(Game, "write inviter", "add")
  \/ Point(Game, "name acceptor", Local.partyId, "write acceptor", "notify")
  \/ Follow(Game, "write acceptor", "notify")

\* SendPartyUpdateFromRoom
Notify ==
  \/ Point(Game, "notify", Local.partyId, "read", "idle")
  \/ Follow(Game, "read", "idle")

\* Handle_C_PartyLeave
LeaveCheck ==
  LET id == GetPartyIdByPlayer(pm, Local.players[1])
  IN  /\ GotoWith(Game, "leave", IF id = NoParty THEN "idle" ELSE "copy", id)
      /\ UNCHANGED <<pm, session, jobs, alone, dangling>>

\* remainingMembers is copied.
LeaveCopy ==
  \/ Point(Game, "copy", Local.partyId, "copying", "idle")
  \/ Follow(Game, "copying", "leaving")

LeaveRemove ==
  /\ Goto(Game, "leaving", "left")
  /\ pm' = RemoveMember(pm, Local.partyId, Local.players[1])
  /\ UNCHANGED <<session, jobs, alone, dangling>>

\* remainingParty is only compared with null: the update looks it up again.
LeaveNotify ==
  /\ Goto(Game, "left", IF GetParty(pm, Local.partyId) THEN "notify" ELSE "idle")
  /\ UNCHANGED <<pm, session, jobs, alone, dangling>>

\* The LeaveRoom job OnDisconnected queued: the last strong reference goes.
LeaveRoom(p) ==
  /\ Local = Idle
  /\ frame[p].at = "done" /\ session[p] = "offline"
  /\ session' = [session EXCEPT ![p] = "gone"]
  /\ UNCHANGED <<pm, frame, jobs, alone, dangling>>

-----------------------------------------------------------------------------
(* GameSession::OnDisconnected on an IOCP worker *)

Disconnect(p) ==
  LET id == GetPartyIdByPlayer(pm, p)
  IN  /\ p \in Leavers
      /\ GotoWith(p, "idle", IF id = NoParty THEN "done" ELSE "removing", id)
      /\ session' = [session EXCEPT ![p] = "offline"]
      /\ UNCHANGED <<pm, jobs, alone, dangling>>

DisconnectRemove(p) ==
  /\ Goto(p, "removing", "look")
  /\ pm' = RemoveMember(pm, frame[p].partyId, p)
  /\ UNCHANGED <<session, jobs, alone, dangling>>

\* The remaining members are notified, if there is a party.
DisconnectNotify(p) ==
  \/ Point(p, "look", frame[p].partyId, "tell", "done")
  \/ Follow(p, "tell", "done")

-----------------------------------------------------------------------------
GameStep ==
  \/ \E p, q \in Players : BeginInvite(p, q) \/ BeginAnswer(p, q)
  \/ \E p \in Players : BeginLeave(p) \/ LeaveRoom(p)
  \/ InviteCheck \/ InviteSize \/ InviteSent
  \/ AnswerCheck \/ AnswerCreate \/ AnswerAdd \/ AnswerNames \/ Notify
  \/ LeaveCheck \/ LeaveCopy \/ LeaveRemove \/ LeaveNotify

WorkerStep(p) == Disconnect(p) \/ DisconnectRemove(p) \/ DisconnectNotify(p)

Next == GameStep \/ \E p \in Players : WorkerStep(p)

Spec == Init /\ [][Next]_vars

-----------------------------------------------------------------------------
(* Properties *)

Labels ==
  {"idle", "done", "invite", "size", "invited", "answer", "create", "add",
   "name inviter", "write inviter", "name acceptor", "write acceptor", "notify",
   "read", "leave", "copy", "copying", "leaving", "left", "removing", "look",
   "tell"}

Frames == [at : Labels, players : {<<>>} \cup Players \X Players,
           partyId : Nat, pointer : Nat]

TypeOK ==
  /\ frame \in [Procs -> Frames]
  /\ session \in [Players -> {"online", "offline", "gone"}]
  /\ jobs \in 0..MaxJobs
  /\ alone \subseteq Nat
  /\ dangling \in BOOLEAN

\* Whatever the handlers do between two locks, a party in _parties has its
\* leader among its members and at most MAX_PARTY_SIZE of them, and an entry of
\* _playerToParty names a party that exists and lists the player.
PartiesSound ==
  TypeOK /\ IsManager(pm) /\ WellLed(pm) /\ EntriesPointIn(pm)

\* The two maps agree about every player whose OnDisconnected has not begun:
\* listed in at most one party, once, and its entry says which.  (A player that
\* is disconnecting can be removed from the party it was in when its entry was
\* read while it is listed in the one it joined since.)
OnlineListedOnce ==
  \A p \in Players : session[p] = "online" => ListedOnce(pm, p)

\* RemoveMember's disbanding leaves no party of one behind, and CreateParty's
\* party of one is seen only until the acceptor joins it, even when the inviter
\* disconnects in between.  The one party of one that stays is that of a player
\* who answered an invitation of its own (AddMember finds it a member already),
\* until somebody joins it.
NoPartyOfOne ==
  Local.at \notin {"name inviter", "write inviter", "add"} =>
    \A id \in DOMAIN pm.parties : Size(pm.parties[id]) >= 2 \/ id \in alone

\* What the write lock on every method is to give (thread safety): a Party* is
\* only followed while the party it points to is in _parties.
PointersValid == ~dangling

\* What OnDisconnected's party clean-up is to give: a player that is gone is in
\* no party.
GoneFromParties ==
  \A p \in Players : session[p] = "gone" => ~IsInParty(pm, p)
=============================================================================
