---------------------------- MODULE PartyManager ----------------------------
(***************************************************************************)
(* The data and the operations of PartyManager (Server/PartyManager.cpp).  *)
(*                                                                         *)
(* Every public method takes the write lock for its whole body, so each is *)
(* one step: an operator from the manager's state to its next state, or a  *)
(* query.  The modules that call the manager hold its state in a variable. *)
(*                                                                         *)
(* memberIds is a vector that is appended to at the end and erased from    *)
(* anywhere.  It is the function `members' from join numbers to players:   *)
(* the vector's order is the order of the numbers, an erased element       *)
(* leaves a gap, and `joined' is the last number given out.                *)
(***************************************************************************)
EXTENDS Naturals, FiniteSets, Functions

CONSTANTS
  Players,             \* object ids of players
  MaxPartySize         \* MAX_PARTY_SIZE

ASSUME PartyAssumption == MaxPartySize \in Nat /\ MaxPartySize >= 2

\* The id methods return for "none".
NoParty == 0

Empty == [x \in {} |-> x]

\* _parties, _playerToParty and _partyIdGen at start.
InitialManager == [parties |-> Empty, playerToParty |-> Empty, nextId |-> 1]

Party(leader) ==
  [leader |-> leader, members |-> [i \in {1} |-> leader], joined |-> 1]

MemberIds(party) == Range(party.members)
Size(party) == Cardinality(DOMAIN party.members)

\* memberIds[0]
Oldest(members) ==
  members[CHOOSE i \in DOMAIN members : \A j \in DOMAIN members : i <= j]

-----------------------------------------------------------------------------
(* Queries *)

\* GetParty returns a pointer to the entry; this is whether it is not null.
GetParty(m, id) == id \in DOMAIN m.parties

GetPartyIdByPlayer(m, p) ==
  IF p \in DOMAIN m.playerToParty THEN m.playerToParty[p] ELSE NoParty

IsInParty(m, p) == p \in DOMAIN m.playerToParty

IsLeader(m, p) ==
  /\ p \in DOMAIN m.playerToParty
  /\ GetParty(m, m.playerToParty[p])
  /\ m.parties[m.playerToParty[p]].leader = p

-----------------------------------------------------------------------------
(* Updates.  Set(f, x, v) is f[x] = v of a C++ map; Erase(f, S) erases the  *)
(* keys in S, and those that are not there are ignored.                    *)

Set(f, x, v) == [y \in DOMAIN f \cup {x} |-> IF y = x THEN v ELSE f[y]]
Erase(f, S) == Restrict(f, DOMAIN f \ S)

CanCreate(m, leader) == ~IsInParty(m, leader)

\* CreateParty past its early return; the new party's id is m.nextId.
CreateParty(m, leader) ==
  [parties       |-> Set(m.parties, m.nextId, Party(leader)),
   playerToParty |-> Set(m.playerToParty, leader, m.nextId),
   nextId        |-> m.nextId + 1]

\* Variant: off by one at the limit.
CanAddOneMore(m, id, p) ==
  /\ GetParty(m, id)
  /\ Size(m.parties[id]) <= MaxPartySize
  /\ ~IsInParty(m, p)

\* The early returns of AddMember.
CanAdd(m, id, p) ==
  /\ GetParty(m, id)
  /\ Size(m.parties[id]) < MaxPartySize
  /\ ~IsInParty(m, p)

\* AddMember past its early returns.
AddMember(m, id, p) ==
  LET party == m.parties[id]
      n == party.joined + 1
  IN  [m EXCEPT !.parties[id] = [party EXCEPT !.members = Set(@, n, p),
                                              !.joined = n],
                !.playerToParty = Set(@, p, id)]

\* Variant: only the members' entries go.
DisbandKeepingParty(m, id) ==
  [m EXCEPT !.playerToParty = Erase(@, MemberIds(m.parties[id]))]

DisbandParty(m, id) ==
  [m EXCEPT !.parties = Erase(@, {id}),
            !.playerToParty = Erase(@, MemberIds(m.parties[id]))]

\* The members but for p: every copy of the id is erased.
Without(members, p) == Erase(members, {i \in DOMAIN members : members[i] = p})

\* Variant: a party is disbanded when its last member leaves.
DisbandWhenEmpty(left) == left = Empty

DisbandDue(left) == Cardinality(DOMAIN left) <= 1

\* Variant: the leader stays although it left.
LeaderUnchanged(party, left, p) == party.leader

LeaderAfter(party, left, p) ==
  IF party.leader = p THEN Oldest(left) ELSE party.leader

\* RemoveMember.  The player's entry goes whatever party it names; a party of
\* one is disbanded; the oldest member follows a leader who left.
RemoveMember(m, id, p) ==
  IF ~GetParty(m, id) THEN m
  ELSE LET party == m.parties[id]
           left == Without(party.members, p)
           rest == [m EXCEPT !.parties[id].members = left,
                             !.playerToParty = Erase(@, {p})]
       IN  IF DisbandDue(left)
           THEN DisbandParty(rest, id)
           ELSE [rest EXCEPT !.parties[id].leader = LeaderAfter(party, left, p)]

-----------------------------------------------------------------------------
(* What the lock alone guarantees: whatever calls are made, in any order,  *)
(* these hold of the manager's state.                                      *)

IsManager(m) ==
  /\ DOMAIN m = {"parties", "playerToParty", "nextId"}
  /\ m.nextId \in Nat \ {0}
  /\ DOMAIN m.parties \subseteq 1..(m.nextId - 1)
  /\ DOMAIN m.playerToParty \subseteq Players
  /\ \A id \in DOMAIN m.parties :
       LET party == m.parties[id] IN
         /\ DOMAIN party = {"leader", "members", "joined"}
         /\ party.joined \in Nat
         /\ DOMAIN party.members \subseteq 1..party.joined
         /\ MemberIds(party) \subseteq Players

\* A party has a leader among its members and no more members than allowed.
WellLed(m) ==
  \A id \in DOMAIN m.parties :
    /\ m.parties[id].leader \in MemberIds(m.parties[id])
    /\ Size(m.parties[id]) <= MaxPartySize

\* A player's entry names a party that exists and lists the player.
EntriesPointIn(m) ==
  \A p \in DOMAIN m.playerToParty :
    /\ GetParty(m, m.playerToParty[p])
    /\ p \in MemberIds(m.parties[m.playerToParty[p]])

\* The other direction, for one player: listed in one party only, once, and
\* the player's entry names it.
ListedOnce(m, p) ==
  \A id \in DOMAIN m.parties : \A i \in DOMAIN m.parties[id].members :
    m.parties[id].members[i] = p =>
      /\ GetPartyIdByPlayer(m, p) = id
      /\ \A j \in DOMAIN m.parties[id].members :
           m.parties[id].members[j] = p => i = j
=============================================================================
