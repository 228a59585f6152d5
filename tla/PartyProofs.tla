---------------------------- MODULE PartyProofs -----------------------------
(***************************************************************************)
(* Proofs about the party handlers, for every set of players, party size   *)
(* and number of jobs: what the lock on each method guarantees             *)
(* (PartiesSound), what it takes a single adding thread to guarantee       *)
(* (OnlineListedOnce, NoPartyOfOne).                                       *)
(***************************************************************************)
EXTENDS PartyHandlers, FiniteSetTheorems, WellFoundedInduction, TLAPS

Sound(m) == IsManager(m) /\ WellLed(m) /\ EntriesPointIn(m)

-----------------------------------------------------------------------------
(* The operations, one by one *)

\* memberIds[0] of a vector that is not empty is one of its elements.
LEMMA OldestIsMember ==
  ASSUME NEW f, DOMAIN f \subseteq Nat, DOMAIN f # {}
  PROVE  Oldest(f) \in Range(f)
<1> DEFINE D == DOMAIN f
<1>1. \E i \in D : \A j \in D : ~(<<j, i>> \in OpToRel(<, Nat))
  BY NatLessThanWellFounded, WFMin
<1>2. PICK i \in D : \A j \in D : ~(<<j, i>> \in OpToRel(<, Nat))
  BY <1>1
<1>3. \A j \in D : i <= j
  <2>1. \A j \in D : ~(j < i)
    BY <1>2 DEF OpToRel
  <2>2. QED
    BY <2>1
<1>4. (CHOOSE k \in D : \A j \in D : k <= j) \in D
  BY <1>3
<1>5. QED
  BY <1>4 DEF Oldest, Range

\* What the members of a party are, and how many.
LEMMA MembersFinite ==
  ASSUME NEW m, IsManager(m), NEW id \in DOMAIN m.parties
  PROVE  /\ IsFiniteSet(DOMAIN m.parties[id].members)
         /\ Size(m.parties[id]) \in Nat
         /\ DOMAIN m.parties[id].members \subseteq 1..m.parties[id].joined
         /\ m.parties[id].joined \in Nat
<1>1. /\ DOMAIN m.parties[id].members \subseteq 1..m.parties[id].joined
      /\ m.parties[id].joined \in Nat
  BY DEF IsManager
<1>2. IsFiniteSet(DOMAIN m.parties[id].members)
  <2>1. IsFiniteSet(1..m.parties[id].joined)
    BY <1>1, 1 \in Int, m.parties[id].joined \in Int, FS_Interval
  <2>2. QED
    BY <1>1, <2>1, FS_Subset
<1>3. QED
  BY <1>1, <1>2, FS_CardinalityType DEF Size

LEMMA InitialSound == Sound(InitialManager)
<1>1. DOMAIN Empty = {}
  BY DEF Empty
<1>2. /\ DOMAIN InitialManager = {"parties", "playerToParty", "nextId"}
      /\ InitialManager.parties = Empty
      /\ InitialManager.playerToParty = Empty
      /\ InitialManager.nextId = 1
  BY DEF InitialManager
<1>3. QED
  BY <1>1, <1>2 DEF Sound, IsManager, WellLed, EntriesPointIn

\* The state after CreateParty, part by part.
LEMMA CreateShape ==
  ASSUME NEW m, IsManager(m), NEW p \in Players, NEW n, n = CreateParty(m, p)
  PROVE  /\ DOMAIN n = {"parties", "playerToParty", "nextId"}
         /\ m.nextId \notin DOMAIN m.parties
         /\ n.nextId = m.nextId + 1
         /\ DOMAIN n.parties = DOMAIN m.parties \cup {m.nextId}
         /\ \A id \in DOMAIN m.parties : n.parties[id] = m.parties[id]
         /\ n.parties[m.nextId] = Party(p)
         /\ DOMAIN n.playerToParty = DOMAIN m.playerToParty \cup {p}
         /\ \A q \in DOMAIN m.playerToParty :
              q # p => n.playerToParty[q] = m.playerToParty[q]
         /\ n.playerToParty[p] = m.nextId
<1>1. m.nextId \notin DOMAIN m.parties
  BY DEF IsManager
<1>2. QED
  BY <1>1 DEF CreateParty, Set

LEMMA PartyOfOne ==
  ASSUME NEW p
  PROVE  /\ DOMAIN Party(p) = {"leader", "members", "joined"}
         /\ Party(p).leader = p
         /\ DOMAIN Party(p).members = {1} /\ Party(p).members[1] = p
         /\ MemberIds(Party(p)) = {p}
         /\ Party(p).joined = 1
         /\ Size(Party(p)) = 1
<1>1. DOMAIN Party(p).members = {1} /\ Party(p).members[1] = p
  BY DEF Party
<1>2. MemberIds(Party(p)) = {p}
  BY <1>1 DEF MemberIds, Range
<1>3. Size(Party(p)) = 1
  BY <1>1, FS_Singleton DEF Size
<1>4. QED
  BY <1>1, <1>2, <1>3 DEF Party

LEMMA CreateSound ==
  ASSUME NEW m, Sound(m), NEW p \in Players, CanCreate(m, p)
  PROVE  Sound(CreateParty(m, p))
<1> DEFINE n == CreateParty(m, p)
<1> USE PartyAssumption
<1>1. IsManager(m) /\ WellLed(m) /\ EntriesPointIn(m)
  BY DEF Sound
<1> HIDE DEF n
<1>2. /\ DOMAIN n = {"parties", "playerToParty", "nextId"}
      /\ m.nextId \notin DOMAIN m.parties
      /\ n.nextId = m.nextId + 1
      /\ DOMAIN n.parties = DOMAIN m.parties \cup {m.nextId}
      /\ \A id \in DOMAIN m.parties : n.parties[id] = m.parties[id]
      /\ n.parties[m.nextId] = Party(p)
      /\ DOMAIN n.playerToParty = DOMAIN m.playerToParty \cup {p}
      /\ \A q \in DOMAIN m.playerToParty :
           q # p => n.playerToParty[q] = m.playerToParty[q]
      /\ n.playerToParty[p] = m.nextId
  BY <1>1, CreateShape DEF n
<1>3. /\ DOMAIN Party(p) = {"leader", "members", "joined"}
      /\ Party(p).leader = p
      /\ DOMAIN Party(p).members = {1}
      /\ MemberIds(Party(p)) = {p}
      /\ Party(p).joined = 1
      /\ Size(Party(p)) = 1
  BY PartyOfOne
<1>4. IsManager(n)
  BY <1>1, <1>2, <1>3 DEF IsManager
<1>5. WellLed(n)
  BY <1>1, <1>2, <1>3 DEF WellLed
<1>6. EntriesPointIn(n)
  BY <1>1, <1>2, <1>3 DEF EntriesPointIn, GetParty
<1>7. QED
  BY <1>4, <1>5, <1>6 DEF Sound, n

\* The state after AddMember past its early returns.
LEMMA AddShape ==
  ASSUME NEW m, IsManager(m), NEW id \in DOMAIN m.parties, NEW p \in Players,
         NEW n, n = AddMember(m, id, p),
         NEW k, k = m.parties[id].joined + 1
  PROVE  /\ DOMAIN n = {"parties", "playerToParty", "nextId"}
         /\ n.nextId = m.nextId
         /\ DOMAIN n.parties = DOMAIN m.parties
         /\ \A o \in DOMAIN m.parties : o # id => n.parties[o] = m.parties[o]
         /\ DOMAIN n.parties[id] = {"leader", "members", "joined"}
         /\ n.parties[id].leader = m.parties[id].leader
         /\ n.parties[id].joined = k
         /\ k \notin DOMAIN m.parties[id].members
         /\ DOMAIN n.parties[id].members = DOMAIN m.parties[id].members \cup {k}
         /\ \A i \in DOMAIN m.parties[id].members :
              n.parties[id].members[i] = m.parties[id].members[i]
         /\ n.parties[id].members[k] = p
         /\ DOMAIN n.playerToParty = DOMAIN m.playerToParty \cup {p}
         /\ \A q \in DOMAIN m.playerToParty :
              q # p => n.playerToParty[q] = m.playerToParty[q]
         /\ n.playerToParty[p] = id
<1>1. /\ DOMAIN m = {"parties", "playerToParty", "nextId"}
      /\ DOMAIN m.parties[id] = {"leader", "members", "joined"}
      /\ k \notin DOMAIN m.parties[id].members
  BY DEF IsManager
<1> DEFINE party == m.parties[id]
           grown == [party EXCEPT !.members = Set(@, k, p), !.joined = k]
<1>2. n = [m EXCEPT !.parties[id] = grown, !.playerToParty = Set(@, p, id)]
  BY DEF AddMember
<1>3. /\ DOMAIN grown = {"leader", "members", "joined"}
      /\ grown.leader = party.leader
      /\ grown.joined = k
      /\ grown.members = Set(party.members, k, p)
  BY <1>1
<1> HIDE DEF grown
<1>4. /\ DOMAIN n = {"parties", "playerToParty", "nextId"}
      /\ n.nextId = m.nextId
      /\ n.parties = [m.parties EXCEPT ![id] = grown]
      /\ n.playerToParty = Set(m.playerToParty, p, id)
  BY <1>1, <1>2
<1>5. /\ DOMAIN n.parties = DOMAIN m.parties
      /\ \A o \in DOMAIN m.parties : o # id => n.parties[o] = m.parties[o]
      /\ n.parties[id] = grown
  BY <1>4
<1>6. /\ DOMAIN grown.members = DOMAIN party.members \cup {k}
      /\ \A i \in DOMAIN party.members : grown.members[i] = party.members[i]
      /\ grown.members[k] = p
  BY <1>1, <1>3 DEF Set
<1>7. /\ DOMAIN n.playerToParty = DOMAIN m.playerToParty \cup {p}
      /\ \A q \in DOMAIN m.playerToParty :
           q # p => n.playerToParty[q] = m.playerToParty[q]
      /\ n.playerToParty[p] = id
  BY <1>4 DEF Set
<1>8. QED
  BY <1>1, <1>3, <1>4, <1>5, <1>6, <1>7

LEMMA AddSize ==
  ASSUME NEW m, IsManager(m), NEW id \in DOMAIN m.parties, NEW p \in Players
  PROVE  Size(AddMember(m, id, p).parties[id]) = Size(m.parties[id]) + 1
<1> DEFINE n == AddMember(m, id, p)
           k == m.parties[id].joined + 1
<1>1. /\ k \notin DOMAIN m.parties[id].members
      /\ DOMAIN n.parties[id].members = DOMAIN m.parties[id].members \cup {k}
  BY AddShape
<1>2. IsFiniteSet(DOMAIN m.parties[id].members)
  BY MembersFinite
<1>3. QED
  BY <1>1, <1>2, FS_AddElement DEF Size

LEMMA AddSound ==
  ASSUME NEW m, Sound(m), NEW id, NEW p \in Players, CanAdd(m, id, p)
  PROVE  Sound(AddMember(m, id, p))
<1> DEFINE n == AddMember(m, id, p)
           k == m.parties[id].joined + 1
<1> USE PartyAssumption
<1>1. /\ IsManager(m) /\ WellLed(m) /\ EntriesPointIn(m)
      /\ id \in DOMAIN m.parties
      /\ Size(m.parties[id]) < MaxPartySize
  BY DEF Sound, CanAdd, GetParty
<1>2. /\ DOMAIN n = {"parties", "playerToParty", "nextId"}
      /\ n.nextId = m.nextId
      /\ DOMAIN n.parties = DOMAIN m.parties
      /\ \A o \in DOMAIN m.parties : o # id => n.parties[o] = m.parties[o]
      /\ DOMAIN n.parties[id] = {"leader", "members", "joined"}
      /\ n.parties[id].leader = m.parties[id].leader
      /\ n.parties[id].joined = k
      /\ DOMAIN n.parties[id].members = DOMAIN m.parties[id].members \cup {k}
      /\ \A i \in DOMAIN m.parties[id].members :
           n.parties[id].members[i] = m.parties[id].members[i]
      /\ n.parties[id].members[k] = p
      /\ DOMAIN n.playerToParty = DOMAIN m.playerToParty \cup {p}
      /\ \A q \in DOMAIN m.playerToParty :
           q # p => n.playerToParty[q] = m.playerToParty[q]
      /\ n.playerToParty[p] = id
  BY <1>1, AddShape
<1>3. Size(n.parties[id]) = Size(m.parties[id]) + 1 /\ Size(m.parties[id]) \in Nat
  BY <1>1, AddSize, MembersFinite
<1>4. k \in Nat \ {0} /\ DOMAIN m.parties[id].members \subseteq 1..k
      /\ k \in 1..k
  BY <1>1, MembersFinite
<1> HIDE DEF n, k
<1>5. MemberIds(n.parties[id]) = MemberIds(m.parties[id]) \cup {p}
  BY <1>2 DEF MemberIds, Range
<1>6. IsManager(n)
  BY <1>1, <1>2, <1>4, <1>5 DEF IsManager
<1>7. WellLed(n)
  <2>1. ASSUME NEW o \in DOMAIN n.parties
        PROVE  /\ n.parties[o].leader \in MemberIds(n.parties[o])
               /\ Size(n.parties[o]) <= MaxPartySize
    <3>1. CASE o = id
      BY <1>1, <1>2, <1>3, <1>5, <3>1 DEF WellLed
    <3>2. CASE o # id
      BY <1>1, <1>2, <3>2 DEF WellLed
    <3>3. QED
      BY <3>1, <3>2
  <2>2. QED
    BY <2>1 DEF WellLed
<1>8. EntriesPointIn(n)
  BY <1>1, <1>2, <1>5 DEF EntriesPointIn, GetParty
<1>9. QED
  BY <1>6, <1>7, <1>8 DEF Sound, n

\* What is left of the members when p is erased.
LEMMA WithoutShape ==
  ASSUME NEW f, NEW p, NEW g, g = Without(f, p)
  PROVE  /\ DOMAIN g \subseteq DOMAIN f
         /\ \A i \in DOMAIN f : i \in DOMAIN g <=> f[i] # p
         /\ \A i \in DOMAIN g : g[i] = f[i]
         /\ Range(g) = Range(f) \ {p}
<1>1. /\ DOMAIN g \subseteq DOMAIN f
      /\ \A i \in DOMAIN f : i \in DOMAIN g <=> f[i] # p
      /\ \A i \in DOMAIN g : g[i] = f[i]
  BY DEF Without, Erase, Restrict
<1>2. QED
  BY <1>1 DEF Range

\* RemoveMember when the party is disbanded.
LEMMA DisbandShape ==
  ASSUME NEW m, IsManager(m), NEW id \in DOMAIN m.parties, NEW p \in Players,
         NEW left, left = Without(m.parties[id].members, p), DisbandDue(left),
         NEW n, n = RemoveMember(m, id, p)
  PROVE  /\ DOMAIN n = {"parties", "playerToParty", "nextId"}
         /\ n.nextId = m.nextId
         /\ DOMAIN n.parties = DOMAIN m.parties \ {id}
         /\ \A o \in DOMAIN n.parties : n.parties[o] = m.parties[o]
         /\ DOMAIN n.playerToParty = DOMAIN m.playerToParty \ ({p} \cup Range(left))
         /\ \A q \in DOMAIN n.playerToParty :
              n.playerToParty[q] = m.playerToParty[q]
<1>1. /\ DOMAIN m = {"parties", "playerToParty", "nextId"}
      /\ DOMAIN m.parties[id] = {"leader", "members", "joined"}
  BY DEF IsManager
<1> DEFINE party == [m.parties[id] EXCEPT !.members = left]
           rest == [m EXCEPT !.parties[id].members = left,
                             !.playerToParty = Erase(@, {p})]
<1>2. n = DisbandParty(rest, id)
  BY DEF RemoveMember, GetParty
<1>3. /\ DOMAIN rest = {"parties", "playerToParty", "nextId"}
      /\ rest.nextId = m.nextId
      /\ rest.parties = [m.parties EXCEPT ![id] = party]
      /\ rest.playerToParty = Erase(m.playerToParty, {p})
  BY <1>1
<1> HIDE DEF rest
<1>4. party.members = left
  BY <1>1
<1> HIDE DEF party
<1>5. /\ DOMAIN rest.parties = DOMAIN m.parties
      /\ rest.parties[id] = party
      /\ \A o \in DOMAIN m.parties : o # id => rest.parties[o] = m.parties[o]
  BY <1>3
<1>6. MemberIds(rest.parties[id]) = Range(left)
  BY <1>4, <1>5 DEF MemberIds
<1>7. /\ DOMAIN n = {"parties", "playerToParty", "nextId"}
      /\ n.nextId = m.nextId
      /\ n.parties = Erase(rest.parties, {id})
      /\ n.playerToParty = Erase(rest.playerToParty, Range(left))
  BY <1>2, <1>3, <1>6 DEF DisbandParty
<1>8. /\ DOMAIN n.parties = DOMAIN m.parties \ {id}
      /\ \A o \in DOMAIN m.parties \ {id} : n.parties[o] = rest.parties[o]
  BY <1>5, <1>7 DEF Erase, Restrict
<1>9. /\ DOMAIN rest.playerToParty = DOMAIN m.playerToParty \ {p}
      /\ \A q \in DOMAIN m.playerToParty \ {p} :
           rest.playerToParty[q] = m.playerToParty[q]
  BY <1>3 DEF Erase, Restrict
<1>10. /\ DOMAIN n.playerToParty = DOMAIN rest.playerToParty \ Range(left)
       /\ \A q \in DOMAIN rest.playerToParty \ Range(left) :
            n.playerToParty[q] = rest.playerToParty[q]
  BY <1>7 DEF Erase, Restrict
<1>11. QED
  BY <1>5, <1>7, <1>8, <1>9, <1>10

\* RemoveMember when the party goes on.
LEMMA ShrinkShape ==
  ASSUME NEW m, IsManager(m), NEW id \in DOMAIN m.parties, NEW p \in Players,
         NEW left, left = Without(m.parties[id].members, p), ~DisbandDue(left),
         NEW n, n = RemoveMember(m, id, p)
  PROVE  /\ DOMAIN n = {"parties", "playerToParty", "nextId"}
         /\ n.nextId = m.nextId
         /\ DOMAIN n.parties = DOMAIN m.parties
         /\ \A o \in DOMAIN m.parties : o # id => n.parties[o] = m.parties[o]
         /\ DOMAIN n.parties[id] = {"leader", "members", "joined"}
         /\ n.parties[id].members = left
         /\ n.parties[id].joined = m.parties[id].joined
         /\ n.parties[id].leader = LeaderAfter(m.parties[id], left, p)
         /\ DOMAIN n.playerToParty = DOMAIN m.playerToParty \ {p}
         /\ \A q \in DOMAIN n.playerToParty :
              n.playerToParty[q] = m.playerToParty[q]
<1>1. /\ DOMAIN m = {"parties", "playerToParty", "nextId"}
      /\ DOMAIN m.parties[id] = {"leader", "members", "joined"}
  BY DEF IsManager
<1> DEFINE party == [m.parties[id] EXCEPT !.members = left]
           rest == [m EXCEPT !.parties[id].members = left,
                             !.playerToParty = Erase(@, {p})]
           leader == LeaderAfter(m.parties[id], left, p)
           led == [party EXCEPT !.leader = leader]
<1>2. n = [rest EXCEPT !.parties[id].leader = leader]
  BY DEF RemoveMember, GetParty
<1>3. /\ DOMAIN rest = {"parties", "playerToParty", "nextId"}
      /\ rest.nextId = m.nextId
      /\ rest.parties = [m.parties EXCEPT ![id] = party]
      /\ rest.playerToParty = Erase(m.playerToParty, {p})
  BY <1>1
<1> HIDE DEF rest
<1>4. /\ DOMAIN led = {"leader", "members", "joined"}
      /\ led.leader = leader
      /\ led.members = left
      /\ led.joined = m.parties[id].joined
  BY <1>1
<1> HIDE DEF leader
<1>5. rest.parties[id] = party
  BY <1>3
<1>6. n.parties = [rest.parties EXCEPT ![id] = led]
  BY <1>2, <1>3, <1>5
<1>7. /\ DOMAIN n = {"parties", "playerToParty", "nextId"}
      /\ n.nextId = m.nextId
      /\ n.playerToParty = Erase(m.playerToParty, {p})
  BY <1>2, <1>3
<1> HIDE DEF led, party
<1>8. /\ DOMAIN n.parties = DOMAIN m.parties
      /\ n.parties[id] = led
      /\ \A o \in DOMAIN m.parties : o # id => n.parties[o] = m.parties[o]
  BY <1>3, <1>6
<1>9. /\ DOMAIN n.playerToParty = DOMAIN m.playerToParty \ {p}
      /\ \A q \in DOMAIN m.playerToParty \ {p} :
           n.playerToParty[q] = m.playerToParty[q]
  BY <1>7 DEF Erase, Restrict
<1>10. QED
  BY <1>4, <1>7, <1>8, <1>9 DEF leader

LEMMA RemoveSound ==
  ASSUME NEW m, Sound(m), NEW id, NEW p \in Players
  PROVE  Sound(RemoveMember(m, id, p))
<1> USE PartyAssumption
<1>1. IsManager(m) /\ WellLed(m) /\ EntriesPointIn(m)
  BY DEF Sound
<1>2. CASE id \notin DOMAIN m.parties
  BY <1>2 DEF RemoveMember, GetParty
<1>3. CASE id \in DOMAIN m.parties
  <2> DEFINE n == RemoveMember(m, id, p)
             left == Without(m.parties[id].members, p)
  <2> USE <1>3
  <2>0. left = Without(m.parties[id].members, p)
    OBVIOUS
  <2> HIDE DEF left
  <2>1. /\ DOMAIN left \subseteq DOMAIN m.parties[id].members
        /\ \A i \in DOMAIN m.parties[id].members :
             i \in DOMAIN left <=> m.parties[id].members[i] # p
        /\ Range(left) = MemberIds(m.parties[id]) \ {p}
    BY <2>0, WithoutShape DEF MemberIds
  <2>2. CASE DisbandDue(left)
    <3>1. /\ DOMAIN n = {"parties", "playerToParty", "nextId"}
          /\ n.nextId = m.nextId
          /\ DOMAIN n.parties = DOMAIN m.parties \ {id}
          /\ \A o \in DOMAIN n.parties : n.parties[o] = m.parties[o]
          /\ DOMAIN n.playerToParty =
               DOMAIN m.playerToParty \ ({p} \cup Range(left))
          /\ \A q \in DOMAIN n.playerToParty :
               n.playerToParty[q] = m.playerToParty[q]
      BY <1>1, <2>0, <2>2, DisbandShape
    <3> HIDE DEF n, left
    <3>2. IsManager(n)
      BY <1>1, <3>1 DEF IsManager
    <3>3. WellLed(n)
      BY <1>1, <3>1 DEF WellLed
    <3>4. EntriesPointIn(n)
      BY <1>1, <2>1, <3>1 DEF EntriesPointIn, GetParty
    <3>5. QED
      BY <3>2, <3>3, <3>4 DEF Sound, n
  <2>3. CASE ~DisbandDue(left)
    <3>1. /\ DOMAIN n = {"parties", "playerToParty", "nextId"}
          /\ n.nextId = m.nextId
          /\ DOMAIN n.parties = DOMAIN m.parties
          /\ \A o \in DOMAIN m.parties : o # id => n.parties[o] = m.parties[o]
          /\ DOMAIN n.parties[id] = {"leader", "members", "joined"}
          /\ n.parties[id].members = left
          /\ n.parties[id].joined = m.parties[id].joined
          /\ n.parties[id].leader = LeaderAfter(m.parties[id], left, p)
          /\ DOMAIN n.playerToParty = DOMAIN m.playerToParty \ {p}
          /\ \A q \in DOMAIN n.playerToParty :
               n.playerToParty[q] = m.playerToParty[q]
      BY <1>1, <2>0, <2>3, ShrinkShape
    <3>2. /\ IsFiniteSet(DOMAIN m.parties[id].members)
          /\ Size(m.parties[id]) \in Nat
          /\ DOMAIN m.parties[id].members \subseteq 1..m.parties[id].joined
          /\ m.parties[id].joined \in Nat
      BY <1>1, MembersFinite
    <3>3. /\ Cardinality(DOMAIN left) \in Nat
          /\ Cardinality(DOMAIN left) <= Size(m.parties[id])
      BY <2>1, <3>2, FS_Subset, FS_CardinalityType DEF Size
    <3>4. DOMAIN left # {}
      BY <2>3, <3>3, FS_EmptySet DEF DisbandDue
    <3>5. LeaderAfter(m.parties[id], left, p) \in Range(left)
      <4>1. CASE m.parties[id].leader = p
        <5>1. DOMAIN left \subseteq Nat
          BY <2>1, <3>2
        <5>2. Oldest(left) \in Range(left)
          BY <3>4, <5>1, OldestIsMember
        <5>3. QED
          BY <4>1, <5>2 DEF LeaderAfter
      <4>2. CASE m.parties[id].leader # p
        BY <1>1, <2>1, <4>2 DEF LeaderAfter, WellLed
      <4>3. QED
        BY <4>1, <4>2
    <3> HIDE DEF n, left
    <3>6. MemberIds(n.parties[id]) = Range(left)
      BY <3>1 DEF MemberIds
    <3>7. IsManager(n)
      BY <1>1, <2>1, <3>1, <3>6 DEF IsManager
    <3>8. WellLed(n)
      <4>1. ASSUME NEW o \in DOMAIN n.parties
            PROVE  /\ n.parties[o].leader \in MemberIds(n.parties[o])
                   /\ Size(n.parties[o]) <= MaxPartySize
        <5>1. CASE o = id
          <6>1. Size(n.parties[id]) <= MaxPartySize
            BY <1>1, <3>1, <3>2, <3>3 DEF WellLed, Size
          <6>2. QED
            BY <3>1, <3>5, <3>6, <5>1, <6>1
        <5>2. CASE o # id
          BY <1>1, <3>1, <5>2 DEF WellLed
        <5>3. QED
          BY <5>1, <5>2
      <4>2. QED
        BY <4>1 DEF WellLed
    <3>9. EntriesPointIn(n)
      <4>1. ASSUME NEW q \in DOMAIN n.playerToParty
            PROVE  /\ GetParty(n, n.playerToParty[q])
                   /\ q \in MemberIds(n.parties[n.playerToParty[q]])
        <5>1. /\ q \in DOMAIN m.playerToParty /\ q # p
              /\ n.playerToParty[q] = m.playerToParty[q]
              /\ m.playerToParty[q] \in DOMAIN m.parties
              /\ q \in MemberIds(m.parties[m.playerToParty[q]])
          BY <1>1, <3>1 DEF EntriesPointIn, GetParty
        <5>2. QED
          BY <2>1, <3>1, <3>6, <5>1 DEF GetParty
      <4>2. QED
        BY <4>1 DEF EntriesPointIn
    <3>10. QED
      BY <3>7, <3>8, <3>9 DEF Sound, n
  <2>4. QED
    BY <2>2, <2>3
<1>4. QED
  BY <1>2, <1>3

-----------------------------------------------------------------------------
(* The two maps, for one player q *)

\* A party id is not NoParty.
LEMMA IdsArePositive ==
  ASSUME NEW m, IsManager(m)
  PROVE  NoParty \notin DOMAIN m.parties
BY DEF IsManager, NoParty

\* Whose entry is missing is listed nowhere.
LEMMA NotInPartyNotListed ==
  ASSUME NEW m, IsManager(m), NEW q, ListedOnce(m, q), ~IsInParty(m, q),
         NEW id \in DOMAIN m.parties, NEW i \in DOMAIN m.parties[id].members
  PROVE  m.parties[id].members[i] # q
BY IdsArePositive DEF ListedOnce, GetPartyIdByPlayer, IsInParty

LEMMA CreateListed ==
  ASSUME NEW m, Sound(m), NEW p \in Players, CanCreate(m, p),
         NEW q, ListedOnce(m, q)
  PROVE  ListedOnce(CreateParty(m, p), q)
<1> DEFINE n == CreateParty(m, p)
<1>0. IsManager(m) /\ ~IsInParty(m, p)
  BY DEF Sound, CanCreate
<1>1. /\ m.nextId \notin DOMAIN m.parties
      /\ DOMAIN n.parties = DOMAIN m.parties \cup {m.nextId}
      /\ \A id \in DOMAIN m.parties : n.parties[id] = m.parties[id]
      /\ n.parties[m.nextId] = Party(p)
      /\ DOMAIN n.playerToParty = DOMAIN m.playerToParty \cup {p}
      /\ \A r \in DOMAIN m.playerToParty :
           r # p => n.playerToParty[r] = m.playerToParty[r]
      /\ n.playerToParty[p] = m.nextId
  BY <1>0, CreateShape
<1>2. DOMAIN Party(p).members = {1} /\ Party(p).members[1] = p
  BY PartyOfOne
<1> HIDE DEF n
<1>3. ASSUME NEW id \in DOMAIN n.parties, NEW i \in DOMAIN n.parties[id].members,
             n.parties[id].members[i] = q
      PROVE  /\ GetPartyIdByPlayer(n, q) = id
             /\ \A j \in DOMAIN n.parties[id].members :
                  n.parties[id].members[j] = q => i = j
  <2>1. CASE id = m.nextId
    BY <1>1, <1>2, <1>3, <2>1 DEF GetPartyIdByPlayer
  <2>2. CASE id \in DOMAIN m.parties
    <3>1. q # p
      BY <1>0, <1>1, <1>3, <2>2, NotInPartyNotListed
    <3>2. /\ GetPartyIdByPlayer(m, q) = id
          /\ \A j \in DOMAIN m.parties[id].members :
               m.parties[id].members[j] = q => i = j
      BY <1>1, <1>3, <2>2 DEF ListedOnce
    <3>3. GetPartyIdByPlayer(n, q) = GetPartyIdByPlayer(m, q)
      BY <1>1, <3>1 DEF GetPartyIdByPlayer
    <3>4. QED
      BY <1>1, <2>2, <3>2, <3>3
  <2>3. QED
    BY <1>1, <2>1, <2>2
<1>4. QED
  BY <1>3 DEF ListedOnce, n

LEMMA AddListed ==
  ASSUME NEW m, Sound(m), NEW id, NEW p \in Players, CanAdd(m, id, p),
         NEW q, ListedOnce(m, q)
  PROVE  ListedOnce(AddMember(m, id, p), q)
<1> DEFINE n == AddMember(m, id, p)
           k == m.parties[id].joined + 1
<1>0. IsManager(m) /\ ~IsInParty(m, p) /\ id \in DOMAIN m.parties
  BY DEF Sound, CanAdd, GetParty
<1>1. /\ DOMAIN n.parties = DOMAIN m.parties
      /\ \A o \in DOMAIN m.parties : o # id => n.parties[o] = m.parties[o]
      /\ k \notin DOMAIN m.parties[id].members
      /\ DOMAIN n.parties[id].members = DOMAIN m.parties[id].members \cup {k}
      /\ \A i \in DOMAIN m.parties[id].members :
           n.parties[id].members[i] = m.parties[id].members[i]
      /\ n.parties[id].members[k] = p
      /\ DOMAIN n.playerToParty = DOMAIN m.playerToParty \cup {p}
      /\ \A r \in DOMAIN m.playerToParty :
           r # p => n.playerToParty[r] = m.playerToParty[r]
      /\ n.playerToParty[p] = id
  BY <1>0, AddShape
<1> HIDE DEF n, k
<1>2. ASSUME NEW o \in DOMAIN n.parties, NEW i \in DOMAIN n.parties[o].members,
             n.parties[o].members[i] = q
      PROVE  /\ GetPartyIdByPlayer(n, q) = o
             /\ \A j \in DOMAIN n.parties[o].members :
                  n.parties[o].members[j] = q => i = j
  <2>1. CASE q = p
    <3>1. \A r \in DOMAIN m.parties : \A j \in DOMAIN m.parties[r].members :
            m.parties[r].members[j] # p
      BY <1>0, <2>1, NotInPartyNotListed
    <3>2. o = id /\ i = k
      BY <1>1, <1>2, <2>1, <3>1
    <3>3. GetPartyIdByPlayer(n, q) = id
      BY <1>1, <2>1 DEF GetPartyIdByPlayer
    <3>4. \A j \in DOMAIN n.parties[o].members :
            n.parties[o].members[j] = q => i = j
      BY <1>1, <2>1, <3>1, <3>2
    <3>5. QED
      BY <3>2, <3>3, <3>4
  <2>2. CASE q # p
    <3>1. i \in DOMAIN m.parties[o].members /\ m.parties[o].members[i] = q
      BY <1>1, <1>2, <2>2
    <3>2. /\ GetPartyIdByPlayer(m, q) = o
          /\ \A j \in DOMAIN m.parties[o].members :
               m.parties[o].members[j] = q => i = j
      BY <1>1, <3>1 DEF ListedOnce
    <3>3. GetPartyIdByPlayer(n, q) = GetPartyIdByPlayer(m, q)
      BY <1>1, <2>2 DEF GetPartyIdByPlayer
    <3>4. QED
      BY <1>1, <2>2, <3>2, <3>3
  <2>3. QED
    BY <2>1, <2>2
<1>3. QED
  BY <1>2 DEF ListedOnce, n

\* Removing p keeps the maps in agreement about p when the party is the one
\* its entry names, and about everybody else whatever the party is.
LEMMA RemoveListed ==
  ASSUME NEW m, Sound(m), NEW id, NEW p \in Players, NEW q, ListedOnce(m, q),
         q = p => GetPartyIdByPlayer(m, p) \in {id, NoParty}
  PROVE  ListedOnce(RemoveMember(m, id, p), q)
<1> DEFINE n == RemoveMember(m, id, p)
           left == Without(m.parties[id].members, p)
<1>0. IsManager(m)
  BY DEF Sound
<1>1. CASE id \notin DOMAIN m.parties
  BY <1>1 DEF RemoveMember, GetParty
<1>2. CASE id \in DOMAIN m.parties
  <2> USE <1>2
  <2>0. left = Without(m.parties[id].members, p)
    OBVIOUS
  <2> HIDE DEF left
  <2>1. /\ DOMAIN left \subseteq DOMAIN m.parties[id].members
        /\ \A i \in DOMAIN m.parties[id].members :
             i \in DOMAIN left <=> m.parties[id].members[i] # p
        /\ \A i \in DOMAIN left : left[i] = m.parties[id].members[i]
    BY <2>0, WithoutShape
  <2>2. ASSUME NEW o \in DOMAIN n.parties, NEW i \in DOMAIN n.parties[o].members,
               n.parties[o].members[i] = q
        PROVE  /\ o \in DOMAIN m.parties
               /\ GetPartyIdByPlayer(m, q) = o
               /\ i \in DOMAIN m.parties[o].members
               /\ DOMAIN n.parties[o].members \subseteq DOMAIN m.parties[o].members
               /\ \A j \in DOMAIN n.parties[o].members :
                    n.parties[o].members[j] = q => i = j
               /\ GetPartyIdByPlayer(n, q) = o
    <3>1. CASE DisbandDue(left)
      <4>1. /\ DOMAIN n.parties = DOMAIN m.parties \ {id}
            /\ \A r \in DOMAIN n.parties : n.parties[r] = m.parties[r]
            /\ DOMAIN n.playerToParty =
                 DOMAIN m.playerToParty \ ({p} \cup Range(left))
            /\ \A r \in DOMAIN n.playerToParty :
                 n.playerToParty[r] = m.playerToParty[r]
        BY <1>0, <2>0, <3>1, DisbandShape
      <4> HIDE DEF n
      <4>2. /\ o # id /\ o \in DOMAIN m.parties
            /\ i \in DOMAIN m.parties[o].members /\ m.parties[o].members[i] = q
            /\ n.parties[o] = m.parties[o]
        BY <2>2, <4>1
      <4>3. /\ GetPartyIdByPlayer(m, q) = o
            /\ \A j \in DOMAIN m.parties[o].members :
                 m.parties[o].members[j] = q => i = j
        BY <4>2 DEF ListedOnce
      <4>4. o # NoParty
        BY <1>0, <4>2, IdsArePositive
      <4>5. q \in DOMAIN m.playerToParty /\ m.playerToParty[q] = o
        BY <4>3, <4>4 DEF GetPartyIdByPlayer
      <4>6. q # p
        BY <4>2, <4>3, <4>4
      <4>7. q \notin Range(left)
        <5>1. \A j \in DOMAIN m.parties[id].members : m.parties[id].members[j] # q
          BY <4>2, <4>3 DEF ListedOnce
        <5>2. QED
          BY <2>1, <5>1 DEF Range
      <4>8. GetPartyIdByPlayer(n, q) = o
        BY <4>1, <4>5, <4>6, <4>7 DEF GetPartyIdByPlayer
      <4>9. QED
        BY <4>2, <4>3, <4>8
    <3>2. CASE ~DisbandDue(left)
      <4>1. /\ DOMAIN n.parties = DOMAIN m.parties
            /\ \A r \in DOMAIN m.parties : r # id => n.parties[r] = m.parties[r]
            /\ n.parties[id].members = left
            /\ DOMAIN n.playerToParty = DOMAIN m.playerToParty \ {p}
            /\ \A r \in DOMAIN n.playerToParty :
                 n.playerToParty[r] = m.playerToParty[r]
        BY <1>0, <2>0, <3>2, ShrinkShape
      <4> HIDE DEF n
      <4>2. /\ o \in DOMAIN m.parties
            /\ DOMAIN n.parties[o].members \subseteq DOMAIN m.parties[o].members
            /\ \A j \in DOMAIN n.parties[o].members :
                 n.parties[o].members[j] = m.parties[o].members[j]
        <5>1. CASE o = id
          BY <2>1, <4>1, <5>1
        <5>2. CASE o # id
          BY <4>1, <5>2
        <5>3. QED
          BY <5>1, <5>2
      <4>3. i \in DOMAIN m.parties[o].members /\ m.parties[o].members[i] = q
        BY <2>2, <4>2
      <4>4. /\ GetPartyIdByPlayer(m, q) = o
            /\ \A j \in DOMAIN m.parties[o].members :
                 m.parties[o].members[j] = q => i = j
        BY <4>2, <4>3 DEF ListedOnce
      <4>5. o # NoParty
        BY <1>0, <4>2, IdsArePositive
      <4>6. q \in DOMAIN m.playerToParty /\ m.playerToParty[q] = o
        BY <4>4, <4>5 DEF GetPartyIdByPlayer
      <4>7. q # p
        <5>1. ASSUME q = p PROVE FALSE
          <6>1. o = id
            BY <4>4, <4>5, <5>1
          <6>2. i \in DOMAIN left
            BY <2>2, <4>1, <6>1
          <6>3. QED
            BY <2>1, <4>3, <5>1, <6>1, <6>2
        <5>2. QED
          BY <5>1
      <4>8. GetPartyIdByPlayer(n, q) = o
        BY <4>1, <4>6, <4>7 DEF GetPartyIdByPlayer
      <4>9. QED
        BY <4>2, <4>3, <4>4, <4>8
    <3>3. QED
      BY <3>1, <3>2
  <2>3. QED
    BY <2>2 DEF ListedOnce
<1>3. QED
  BY <1>1, <1>2

-----------------------------------------------------------------------------
(* The inductive invariant *)

\* Where a handler's locals are in use, and where they still agree with the
\* manager: an acceptor who answers somebody else is in no party until AddMember,
\* since only this thread adds; a leaver's entry is the one Handle_C_PartyLeave
\* read or none, since the workers only remove.
AcceptorLabels == {"create", "name inviter", "write inviter", "add"}
LeaverLabels == {"copy", "copying", "leaving"}

JobAgrees ==
  /\ Local.at \notin {"idle", "done"} => Local.players \in Players \X Players
  /\ Local.at \in AcceptorLabels =>
       Local.players[1] = Local.players[2] \/ ~IsInParty(pm, Local.players[1])
  /\ Local.at \in LeaverLabels =>
       GetPartyIdByPlayer(pm, Local.players[1]) \in {Local.partyId, NoParty}

\* A worker removes a player only after it took the session's OnDisconnected.
WorkersOffline ==
  \A p \in Players : frame[p].at # "idle" => session[p] # "online"

\* A party of one is that of a player who answered its own invitation, or the
\* one the running Handle_C_PartyAnswer has founded for another acceptor.
Founding == {"name inviter", "write inviter", "add"}

OneOnlyFounded ==
  \A id \in DOMAIN pm.parties :
    \/ Size(pm.parties[id]) >= 2
    \/ id \in alone
    \/ /\ Local.at \in Founding /\ Local.partyId = id
       /\ Local.players[1] # Local.players[2]

IInv ==
  /\ TypeOK /\ Sound(pm)
  /\ JobAgrees /\ WorkersOffline
  /\ OnlineListedOnce /\ OneOnlyFounded

-----------------------------------------------------------------------------
(* What a removal leaves *)

\* Entries only go.
LEMMA RemoveEntries ==
  ASSUME NEW m, IsManager(m), NEW id, NEW p \in Players, NEW q
  PROVE  /\ GetPartyIdByPlayer(RemoveMember(m, id, p), q)
              \in {GetPartyIdByPlayer(m, q), NoParty}
         /\ IsInParty(RemoveMember(m, id, p), q) => IsInParty(m, q)
<1> DEFINE n == RemoveMember(m, id, p)
           left == Without(m.parties[id].members, p)
<1>1. /\ DOMAIN n.playerToParty \subseteq DOMAIN m.playerToParty
      /\ \A r \in DOMAIN n.playerToParty : n.playerToParty[r] = m.playerToParty[r]
  <2>1. CASE id \notin DOMAIN m.parties
    BY <2>1 DEF RemoveMember, GetParty
  <2>2. CASE id \in DOMAIN m.parties /\ DisbandDue(left)
    BY <2>2, DisbandShape
  <2>3. CASE id \in DOMAIN m.parties /\ ~DisbandDue(left)
    BY <2>3, ShrinkShape
  <2>4. QED
    BY <2>1, <2>2, <2>3
<1> HIDE DEF n
<1>2. QED
  BY <1>1 DEF GetPartyIdByPlayer, IsInParty, n

\* A party that is there afterwards is as it was or has two members at least.
LEMMA RemoveSizes ==
  ASSUME NEW m, IsManager(m), NEW id, NEW p \in Players,
         NEW o \in DOMAIN RemoveMember(m, id, p).parties
  PROVE  /\ o \in DOMAIN m.parties
         /\ \/ RemoveMember(m, id, p).parties[o] = m.parties[o]
            \/ Size(RemoveMember(m, id, p).parties[o]) >= 2
<1> DEFINE n == RemoveMember(m, id, p)
           left == Without(m.parties[id].members, p)
<1>1. CASE id \notin DOMAIN m.parties
  BY <1>1 DEF RemoveMember, GetParty
<1>2. CASE id \in DOMAIN m.parties /\ DisbandDue(left)
  BY <1>2, DisbandShape
<1>3. CASE id \in DOMAIN m.parties /\ ~DisbandDue(left)
  <2>1. /\ DOMAIN n.parties = DOMAIN m.parties
        /\ \A r \in DOMAIN m.parties : r # id => n.parties[r] = m.parties[r]
        /\ n.parties[id].members = left
    BY <1>3, ShrinkShape
  <2>2. DOMAIN left \subseteq DOMAIN m.parties[id].members
    BY WithoutShape
  <2>3. Cardinality(DOMAIN left) \in Nat
    BY <1>3, <2>2, MembersFinite, FS_Subset, FS_CardinalityType
  <2> HIDE DEF n, left
  <2>4. Size(n.parties[id]) >= 2
    BY <1>3, <2>1, <2>3 DEF Size, DisbandDue
  <2>5. QED
    BY <2>1, <2>4 DEF n
<1>4. QED
  BY <1>1, <1>2, <1>3

-----------------------------------------------------------------------------
(* Frames.  Process x goes from one label to another, with id as partyId. *)

Moves(x, from, to, id) ==
  /\ frame[x].at = from
  /\ frame' \in [Procs -> Frames]
  /\ \A y \in Procs : y # x => frame'[y] = frame[y]
  /\ frame'[x].at = to
  /\ to \notin {"idle", "done"} =>
       frame'[x].players = frame[x].players /\ frame'[x].partyId = id

LEMMA IdleFrame ==
  ASSUME NEW to \in Labels
  PROVE  [Idle EXCEPT !.at = to] \in Frames /\ [Idle EXCEPT !.at = to].at = to
BY DEF Idle, Frames, NoParty

LEMMA GotoWithMoves ==
  ASSUME TypeOK, NEW x \in Procs, NEW from, NEW to \in Labels, NEW id \in Nat,
         GotoWith(x, from, to, id)
  PROVE  Moves(x, from, to, id)
<1>1. frame \in [Procs -> Frames] /\ frame[x] \in Frames
  BY DEF TypeOK
<1>2. CASE to \in {"idle", "done"}
  <2>1. frame' = [frame EXCEPT ![x] = [Idle EXCEPT !.at = to]]
    BY <1>2 DEF GotoWith
  <2>2. QED
    BY <1>1, <1>2, <2>1, IdleFrame DEF GotoWith, Moves
<1>3. CASE to \notin {"idle", "done"}
  <2> DEFINE f == [frame[x] EXCEPT !.at = to, !.partyId = id]
  <2>1. frame' = [frame EXCEPT ![x] = f]
    BY <1>3 DEF GotoWith
  <2>2. f \in Frames /\ f.at = to /\ f.players = frame[x].players /\ f.partyId = id
    BY <1>1 DEF Frames
  <2> HIDE DEF f
  <2>3. QED
    BY <1>1, <1>3, <2>1, <2>2 DEF GotoWith, Moves
<1>4. QED
  BY <1>2, <1>3

LEMMA GotoMoves ==
  ASSUME TypeOK, NEW x \in Procs, NEW from, NEW to \in Labels, Goto(x, from, to)
  PROVE  Moves(x, from, to, frame[x].partyId)
<1>1. frame \in [Procs -> Frames] /\ frame[x] \in Frames
  BY DEF TypeOK
<1>2. CASE to \in {"idle", "done"}
  <2>1. frame' = [frame EXCEPT ![x] = [Idle EXCEPT !.at = to]]
    BY <1>2 DEF Goto
  <2>2. QED
    BY <1>1, <1>2, <2>1, IdleFrame DEF Goto, Moves
<1>3. CASE to \notin {"idle", "done"}
  <2> DEFINE f == [frame[x] EXCEPT !.at = to]
  <2>1. frame' = [frame EXCEPT ![x] = f]
    BY <1>3 DEF Goto
  <2>2. /\ f \in Frames /\ f.at = to /\ f.players = frame[x].players
        /\ f.partyId = frame[x].partyId
    BY <1>1 DEF Frames
  <2> HIDE DEF f
  <2>3. QED
    BY <1>1, <1>3, <2>1, <2>2 DEF Goto, Moves
<1>4. QED
  BY <1>2, <1>3

LEMMA PointMoves ==
  ASSUME TypeOK, IsManager(pm), NEW x \in Procs, NEW from, NEW id,
         NEW found \in Labels \ {"idle", "done"}, NEW missing \in Labels,
         Point(x, from, id, found, missing)
  PROVE  /\ Moves(x, from, found, frame[x].partyId)
            \/ Moves(x, from, missing, frame[x].partyId)
         /\ UNCHANGED <<pm, session, jobs, alone, dangling>>
<1>1. frame \in [Procs -> Frames] /\ frame[x] \in Frames
  BY DEF TypeOK
<1>2. CASE GetParty(pm, id)
  <2>1. id \in Nat
    BY <1>2 DEF GetParty, IsManager
  <2> DEFINE f == [frame[x] EXCEPT !.at = found, !.pointer = id]
  <2>2. frame' = [frame EXCEPT ![x] = f]
    BY <1>1, <1>2 DEF Point
  <2>3. /\ f \in Frames /\ f.at = found /\ f.players = frame[x].players
        /\ f.partyId = frame[x].partyId
    BY <1>1, <2>1 DEF Frames
  <2> HIDE DEF f
  <2>4. QED
    BY <1>1, <2>2, <2>3 DEF Point, Moves
<1>3. CASE ~GetParty(pm, id)
  BY <1>3, GotoMoves DEF Point
<1>4. QED
  BY <1>2, <1>3

LEMMA FollowMoves ==
  ASSUME TypeOK, NEW x \in Procs, NEW from, NEW to \in Labels, Follow(x, from, to)
  PROVE  /\ Moves(x, from, to, frame[x].partyId)
         /\ dangling' \in BOOLEAN
         /\ UNCHANGED <<pm, session, jobs, alone>>
<1>1. Moves(x, from, to, frame[x].partyId)
  BY GotoMoves DEF Follow
<1>2. dangling' \in BOOLEAN
  BY DEF Follow, TypeOK
<1>3. QED
  BY <1>1, <1>2 DEF Follow

-----------------------------------------------------------------------------
(* Every step but Begin and LeaveRoom moves one process and changes the    *)
(* manager by at most one call.  These two lemmas say what such a step has *)
(* to show.                                                                *)

LEMMA GameMove ==
  ASSUME IInv, NEW from \in Labels \ {"idle", "done"}, NEW to \in Labels, NEW id,
         Moves(Game, from, to, id),
         UNCHANGED <<session, jobs>>, dangling' \in BOOLEAN, alone' \subseteq Nat,
         Sound(pm'), OnlineListedOnce',
         to \in AcceptorLabels =>
           Local.players[1] = Local.players[2] \/ ~IsInParty(pm', Local.players[1]),
         to \in LeaverLabels =>
           GetPartyIdByPlayer(pm', Local.players[1]) \in {id, NoParty},
         \A o \in DOMAIN pm'.parties :
           \/ Size(pm'.parties[o]) >= 2
           \/ o \in alone'
           \/ to \in Founding /\ id = o /\ Local.players[1] # Local.players[2]
  PROVE  IInv'
<1> USE HandlerAssumption DEF Procs
<1>1. TypeOK'
  BY DEF IInv, TypeOK, Moves
<1>2. JobAgrees'
  <2>1. CASE to \in {"idle", "done"}
    BY <2>1 DEF JobAgrees, Moves, Local, AcceptorLabels, LeaverLabels
  <2>2. CASE to \notin {"idle", "done"}
    <3>1. /\ Local'.at = to /\ Local'.players = Local.players /\ Local'.partyId = id
          /\ Local.at = from
      BY <2>2 DEF Moves, Local
    <3>2. QED
      BY <3>1 DEF IInv, JobAgrees
  <2>3. QED
    BY <2>1, <2>2
<1>3. WorkersOffline'
  BY DEF IInv, WorkersOffline, Moves
<1>4. OneOnlyFounded'
  BY DEF OneOnlyFounded, Moves, Local, Founding
<1>5. QED
  BY <1>1, <1>2, <1>3, <1>4 DEF IInv

LEMMA WorkerMove ==
  ASSUME IInv, NEW p \in Players, NEW from \in Labels, NEW to \in Labels, NEW id,
         Moves(p, from, to, id),
         session' \in [Players -> {"online", "offline", "gone"}],
         \A q \in Players : session'[q] = "online" => session[q] = "online" /\ q # p,
         UNCHANGED <<jobs, alone>>, dangling' \in BOOLEAN,
         Sound(pm'), OnlineListedOnce',
         \A q \in Players :
           /\ GetPartyIdByPlayer(pm', q) \in {GetPartyIdByPlayer(pm, q), NoParty}
           /\ IsInParty(pm', q) => IsInParty(pm, q),
         \A o \in DOMAIN pm'.parties :
           /\ o \in DOMAIN pm.parties
           /\ pm'.parties[o] = pm.parties[o] \/ Size(pm'.parties[o]) >= 2
  PROVE  IInv'
<1> USE HandlerAssumption DEF Procs
<1>1. Local' = Local
  BY DEF Moves, Local
<1>2. TypeOK'
  BY DEF IInv, TypeOK, Moves
<1>3. JobAgrees'
  <2>1. Local.at \notin {"idle", "done"} => Local.players[1] \in Players
    BY DEF IInv, JobAgrees
  <2>2. QED
    BY <1>1, <2>1 DEF IInv, JobAgrees, AcceptorLabels, LeaverLabels
<1>4. WorkersOffline'
  BY DEF IInv, WorkersOffline, Moves
<1>5. OneOnlyFounded'
  BY <1>1 DEF IInv, OneOnlyFounded
<1>6. QED
  BY <1>2, <1>3, <1>4, <1>5 DEF IInv

\* The game thread's moves that leave the manager alone.
LEMMA GameReads ==
  ASSUME IInv, NEW from \in Labels \ {"idle", "done"}, NEW to \in Labels, NEW id,
         Moves(Game, from, to, id),
         UNCHANGED <<pm, session, jobs, alone>>, dangling' \in BOOLEAN,
         to \in AcceptorLabels =>
           from \in AcceptorLabels \/ ~IsInParty(pm, Local.players[1]),
         to \in LeaverLabels =>
           \/ from \in LeaverLabels /\ id = Local.partyId
           \/ GetPartyIdByPlayer(pm, Local.players[1]) \in {id, NoParty},
         from \in Founding =>
           \/ to \in Founding /\ id = Local.partyId
           \/ \A o \in DOMAIN pm.parties :
                Size(pm.parties[o]) >= 2 \/ o \in alone
  PROVE  IInv'
<1>1. Local.at = from
  BY DEF Moves, Local
<1>2. Sound(pm') /\ OnlineListedOnce'
  BY DEF IInv, OnlineListedOnce
<1>3. /\ to \in AcceptorLabels =>
           Local.players[1] = Local.players[2] \/ ~IsInParty(pm', Local.players[1])
      /\ to \in LeaverLabels =>
           GetPartyIdByPlayer(pm', Local.players[1]) \in {id, NoParty}
  BY <1>1 DEF IInv, JobAgrees
<1>4. \A o \in DOMAIN pm'.parties :
        \/ Size(pm'.parties[o]) >= 2
        \/ o \in alone'
        \/ to \in Founding /\ id = o /\ Local.players[1] # Local.players[2]
  BY <1>1 DEF IInv, OneOnlyFounded
<1>5. alone' \subseteq Nat
  BY DEF IInv, TypeOK
<1>6. QED
  BY <1>2, <1>3, <1>4, <1>5, GameMove

-----------------------------------------------------------------------------
(* The invariant, action by action *)

LEMMA InitIInv == Init => IInv
<1> SUFFICES ASSUME Init PROVE IInv
  OBVIOUS
<1> USE HandlerAssumption DEF Init
<1>1. TypeOK
  <2>1. Idle \in Frames
    BY DEF Idle, Frames, Labels, NoParty
  <2>2. frame \in [Procs -> Frames]
    BY <2>1
  <2>3. /\ session \in [Players -> {"online", "offline", "gone"}]
        /\ alone \subseteq Nat
        /\ jobs \in 0..MaxJobs
    OBVIOUS
  <2>4. dangling \in BOOLEAN
    OBVIOUS
  <2>5. QED
    BY <2>2, <2>3, <2>4 DEF TypeOK
<1>2. Sound(pm)
  BY InitialSound
<1>3. Local = Idle
  BY DEF Local, Procs
<1>4. JobAgrees
  BY <1>3 DEF Idle, JobAgrees, AcceptorLabels, LeaverLabels
<1>5. WorkersOffline
  BY DEF WorkersOffline, Procs, Idle
<1>6. DOMAIN pm.parties = {}
  BY DEF InitialManager, Empty
<1>7. OnlineListedOnce /\ OneOnlyFounded
  BY <1>6 DEF OnlineListedOnce, ListedOnce, OneOnlyFounded
<1>8. QED
  BY <1>1, <1>2, <1>4, <1>5, <1>7 DEF IInv

\* A job begins: only the frame and the count of jobs change.
LEMMA BeginIInv ==
  ASSUME IInv, NEW op \in {"invite", "answer", "leave"},
         NEW p \in Players, NEW q \in Players, Begin(op, p, q)
  PROVE  IInv'
<1> USE HandlerAssumption DEF Procs
<1>1. frame \in [Procs -> Frames] /\ Game \in Procs
  BY DEF IInv, TypeOK
<1>2. Local = Idle
  BY DEF Begin
<1> DEFINE f == [Idle EXCEPT !.at = op, !.players = <<p, q>>]
<1>3. frame' = [frame EXCEPT ![Game] = f]
  BY <1>1, <1>2 DEF Begin, Local
<1>4. f \in Frames /\ f.at = op /\ f.players = <<p, q>>
  BY DEF Idle, Frames, Labels, NoParty
<1> HIDE DEF f
<1>5. /\ frame' \in [Procs -> Frames]
      /\ Local'.at = op /\ Local'.players = <<p, q>>
      /\ \A r \in Players : frame'[r] = frame[r]
  BY <1>1, <1>3, <1>4 DEF Local
<1>6. jobs' \in 0..MaxJobs
  BY DEF IInv, TypeOK, Begin
<1>7. UNCHANGED <<pm, session, alone, dangling>>
  BY DEF Begin
<1>8. TypeOK'
  BY <1>5, <1>6, <1>7 DEF IInv, TypeOK
<1>9. JobAgrees'
  <2>1. Local'.players \in Players \X Players
    BY <1>5
  <2>2. op \notin AcceptorLabels /\ op \notin LeaverLabels
    BY DEF AcceptorLabels, LeaverLabels
  <2>3. QED
    BY <1>5, <2>1, <2>2 DEF JobAgrees
<1>10. WorkersOffline'
  BY <1>5, <1>7 DEF IInv, WorkersOffline
<1>11. Sound(pm') /\ OnlineListedOnce'
  BY <1>7 DEF IInv, OnlineListedOnce
<1>12. OneOnlyFounded'
  BY <1>2, <1>7 DEF IInv, OneOnlyFounded, Founding, Idle
<1>13. QED
  BY <1>8, <1>9, <1>10, <1>11, <1>12 DEF IInv

LEMMA LeaveRoomIInv ==
  ASSUME IInv, NEW p \in Players, LeaveRoom(p)
  PROVE  IInv'
<1>1. /\ UNCHANGED <<pm, frame, jobs, alone, dangling>>
      /\ session' = [session EXCEPT ![p] = "gone"]
  BY DEF LeaveRoom
<1>2. \A q \in Players : session'[q] = "online" => session[q] = "online"
  BY <1>1 DEF IInv, TypeOK
<1>3. TypeOK'
  BY <1>1 DEF IInv, TypeOK
<1>4. WorkersOffline' /\ OnlineListedOnce'
  BY <1>1, <1>2 DEF IInv, WorkersOffline, OnlineListedOnce
<1>5. Sound(pm') /\ JobAgrees' /\ OneOnlyFounded'
  BY <1>1 DEF IInv, JobAgrees, OneOnlyFounded, Local
<1>6. QED
  BY <1>3, <1>4, <1>5 DEF IInv

\* What the jobs below have in common before they move.
LEMMA JobFacts ==
  ASSUME IInv, Local.at \notin {"idle", "done"}
  PROVE  /\ TypeOK /\ Sound(pm) /\ IsManager(pm)
         /\ Game \in Procs
         /\ Local.players \in Players \X Players
         /\ Local.players[1] \in Players /\ Local.players[2] \in Players
         /\ alone \subseteq Nat
         /\ dangling \in BOOLEAN
BY DEF IInv, JobAgrees, Sound, Procs, TypeOK

\* An entry is a party id, and NoParty a number.
LEMMA IdIsNat ==
  ASSUME NEW m, Sound(m), NEW p
  PROVE  GetPartyIdByPlayer(m, p) \in Nat
BY DEF Sound, EntriesPointIn, IsManager, GetParty, GetPartyIdByPlayer, NoParty

LEMMA InviteIInv ==
  ASSUME IInv, InviteCheck \/ InviteSize \/ InviteSent
  PROVE  IInv'
<1> USE DEF AcceptorLabels, LeaverLabels, Founding, Labels
<1>1. CASE InviteCheck
  <2>1. Local.at = "invite"
    BY <1>1 DEF InviteCheck
  <2>2. /\ TypeOK /\ IsManager(pm) /\ Game \in Procs
        /\ dangling \in BOOLEAN
    BY <2>1, JobFacts
  <2>3. /\ \E to \in {"idle", "size", "invited"} :
             Moves(Game, "invite", to, frame[Game].partyId)
        /\ UNCHANGED <<pm, session, jobs, alone, dangling>>
    <3>1. CASE /\ Goto(Game, "invite", "idle")
               /\ UNCHANGED <<pm, session, jobs, alone, dangling>>
      BY <2>2, <3>1, GotoMoves
    <3>2. CASE Point(Game, "invite", GetPartyIdByPlayer(pm, Local.players[1]),
                     "size", "invited")
      BY <2>2, <3>2, PointMoves
    <3>3. QED
      BY <1>1, <3>1, <3>2 DEF InviteCheck
  <2>4. QED
    BY <2>2, <2>3, GameReads
<1>2. CASE InviteSize
  <2>1. PICK to \in {"idle", "invited"} : Follow(Game, "size", to)
    BY <1>2 DEF InviteSize
  <2>2. Local.at = "size"
    BY <2>1 DEF Follow, Goto, Local
  <2>3. /\ TypeOK /\ Game \in Procs
    BY <2>2, JobFacts
  <2>4. /\ Moves(Game, "size", to, frame[Game].partyId)
        /\ dangling' \in BOOLEAN
        /\ UNCHANGED <<pm, session, jobs, alone>>
    BY <2>1, <2>3, FollowMoves
  <2>5. QED
    BY <2>3, <2>4, GameReads
<1>3. CASE InviteSent
  <2>1. Local.at = "invited"
    BY <1>3 DEF InviteSent, Goto, Local
  <2>2. /\ TypeOK /\ Game \in Procs /\ dangling \in BOOLEAN
    BY <2>1, JobFacts
  <2>3. Moves(Game, "invited", "idle", frame[Game].partyId)
    BY <1>3, <2>2, GotoMoves DEF InviteSent
  <2>4. UNCHANGED <<pm, session, jobs, alone, dangling>>
    BY <1>3 DEF InviteSent
  <2>5. QED
    BY <2>2, <2>3, <2>4, GameReads
<1>4. QED
  BY <1>1, <1>2, <1>3

\* Handle_C_PartyAnswer's tests: its acceptor is in no party.
LEMMA AnswerCheckIInv ==
  ASSUME IInv, AnswerCheck
  PROVE  IInv'
<1> USE DEF AcceptorLabels, LeaverLabels, Founding, Labels
<1> DEFINE id == GetPartyIdByPlayer(pm, Local.players[2])
           to == IF IsInParty(pm, Local.players[1]) THEN "idle"
                 ELSE IF id = NoParty THEN "create" ELSE "add"
<1>1. Local.at = "answer"
  BY DEF AnswerCheck, GotoWith, Local
<1>2. /\ TypeOK /\ Sound(pm) /\ Game \in Procs /\ dangling \in BOOLEAN
  BY <1>1, JobFacts
<1>3. id \in Nat /\ to \in {"idle", "create", "add"}
  BY <1>2, IdIsNat
<1>4. /\ GotoWith(Game, "answer", to, id)
      /\ UNCHANGED <<pm, session, jobs, alone, dangling>>
  BY DEF AnswerCheck
<1>5. to # "idle" => ~IsInParty(pm, Local.players[1])
  OBVIOUS
<1> HIDE DEF id, to
<1>6. Moves(Game, "answer", to, id)
  BY <1>2, <1>3, <1>4, GotoWithMoves
<1>7. QED
  BY <1>2, <1>3, <1>4, <1>5, <1>6, GameReads

\* CreateParty for the inviter: the party of one is the one this job founds, and
\* the acceptor, if it is somebody else, is still in no party; if it is not, the
\* party is one of those alone stands for.
LEMMA AnswerCreateIInv ==
  ASSUME IInv, AnswerCreate
  PROVE  IInv'
<1> USE DEF AcceptorLabels, LeaverLabels, Founding, Labels
<1> DEFINE acceptor == Local.players[1]
           inviter == Local.players[2]
<1>1. Local.at = "create"
  BY DEF AnswerCreate
<1>2. /\ TypeOK /\ Sound(pm) /\ IsManager(pm) /\ Game \in Procs
      /\ acceptor \in Players /\ inviter \in Players
      /\ alone \subseteq Nat /\ dangling \in BOOLEAN
  BY <1>1, JobFacts
<1>3. UNCHANGED <<session, jobs, dangling>>
  BY DEF AnswerCreate
<1>4. /\ acceptor = inviter \/ ~IsInParty(pm, acceptor)
      /\ \A o \in DOMAIN pm.parties : Size(pm.parties[o]) >= 2 \/ o \in alone
  BY <1>1 DEF IInv, JobAgrees, OneOnlyFounded
<1> HIDE DEF acceptor, inviter
<1>5. CASE CanCreate(pm, inviter)
  <2> DEFINE n == CreateParty(pm, inviter)
             to == IF session[inviter] # "gone" THEN "name inviter" ELSE "add"
  <2>1. /\ pm' = n /\ GotoWith(Game, "create", to, pm.nextId)
        /\ alone' = alone \cup {id \in {pm.nextId} : acceptor = inviter}
    BY <1>5 DEF AnswerCreate, acceptor, inviter
  <2>2. to \in {"name inviter", "add"}
    OBVIOUS
  <2>3. pm.nextId \in Nat
    BY <1>2 DEF IsManager
  <2> HIDE DEF to
  <2>4. Moves(Game, "create", to, pm.nextId)
    BY <1>2, <2>1, <2>2, <2>3, GotoWithMoves
  <2>5. Sound(n)
    BY <1>2, <1>5, CreateSound
  <2>6. \A q \in Players : ListedOnce(pm, q) => ListedOnce(n, q)
    BY <1>2, <1>5, CreateListed
  <2>7. OnlineListedOnce'
    BY <1>3, <2>1, <2>6 DEF IInv, OnlineListedOnce
  <2>8. /\ DOMAIN n.parties = DOMAIN pm.parties \cup {pm.nextId}
        /\ \A o \in DOMAIN pm.parties : n.parties[o] = pm.parties[o]
        /\ DOMAIN n.playerToParty = DOMAIN pm.playerToParty \cup {inviter}
    BY <1>2, CreateShape
  <2> HIDE DEF n
  <2>9. acceptor = inviter \/ ~IsInParty(n, acceptor)
    BY <1>2, <1>4, <2>8 DEF IsInParty
  <2>10. \A o \in DOMAIN n.parties :
           \/ Size(n.parties[o]) >= 2
           \/ o \in alone'
           \/ pm.nextId = o /\ acceptor # inviter
    BY <1>4, <2>1, <2>8
  <2>11. /\ Sound(pm')
         /\ Local.players[1] = Local.players[2] \/ ~IsInParty(pm', Local.players[1])
         /\ \A o \in DOMAIN pm'.parties :
              \/ Size(pm'.parties[o]) >= 2
              \/ o \in alone'
              \/ /\ to \in Founding /\ pm.nextId = o
                 /\ Local.players[1] # Local.players[2]
    BY <2>1, <2>2, <2>5, <2>9, <2>10 DEF acceptor, inviter
  <2>12. /\ UNCHANGED <<session, jobs>> /\ dangling' \in BOOLEAN
         /\ alone' \subseteq Nat
    BY <1>2, <1>3, <2>1, <2>3
  <2>13. /\ to \in Labels /\ "create" \in Labels \ {"idle", "done"}
         /\ to \notin LeaverLabels
    BY <2>2
  <2> HIDE DEF AcceptorLabels, LeaverLabels, Founding, Labels
  <2>14. QED
    BY <2>4, <2>7, <2>11, <2>12, <2>13, GameMove
<1>6. CASE ~CanCreate(pm, inviter)
  <2>1. Goto(Game, "create", "idle") /\ UNCHANGED <<pm, alone>>
    BY <1>6 DEF AnswerCreate, inviter
  <2>2. Moves(Game, "create", "idle", frame[Game].partyId)
    BY <1>2, <2>1, GotoMoves
  <2>3. QED
    BY <1>2, <1>3, <2>1, <2>2, GameReads
<1>7. QED
  BY <1>5, <1>6

\* AddMember for the acceptor makes the party one of two at least; when it
\* returns early the party is gone or full, or the acceptor is its founder.
LEMMA AnswerAddIInv ==
  ASSUME IInv, AnswerAdd
  PROVE  IInv'
<1> USE DEF AcceptorLabels, LeaverLabels, Founding, Labels
<1> DEFINE acceptor == Local.players[1]
           id == Local.partyId
<1>1. Local.at = "add"
  BY DEF AnswerAdd
<1>2. /\ TypeOK /\ Sound(pm) /\ IsManager(pm) /\ WellLed(pm) /\ Game \in Procs
      /\ acceptor \in Players /\ alone \subseteq Nat /\ dangling \in BOOLEAN
  BY <1>1, JobFacts DEF Sound
<1>3. UNCHANGED <<session, jobs, dangling>>
  BY DEF AnswerAdd
<1>4. \A o \in DOMAIN pm.parties :
        \/ Size(pm.parties[o]) >= 2
        \/ o \in alone
        \/ o = id /\ ~IsInParty(pm, acceptor)
  BY <1>1 DEF IInv, JobAgrees, OneOnlyFounded
<1>5. \A o \in DOMAIN pm.parties : Size(pm.parties[o]) \in Nat \ {0}
  <2>1. ASSUME NEW o \in DOMAIN pm.parties
        PROVE  Size(pm.parties[o]) \in Nat \ {0}
    <3>1. DOMAIN pm.parties[o].members # {}
      BY <1>2 DEF WellLed, MemberIds, Range
    <3>2. /\ IsFiniteSet(DOMAIN pm.parties[o].members)
          /\ Size(pm.parties[o]) \in Nat
      BY <1>2, MembersFinite
    <3>3. QED
      BY <3>1, <3>2, FS_EmptySet DEF Size
  <2>2. QED
    BY <2>1
<1> HIDE DEF acceptor, id
<1>6. CASE CanAdd(pm, id, acceptor)
  <2> DEFINE n == AddMember(pm, id, acceptor)
  <2>1. /\ pm' = n /\ Goto(Game, "add", "name acceptor")
        /\ alone' = alone \ {id}
    BY <1>6 DEF AnswerAdd, acceptor, id
  <2>2. Moves(Game, "add", "name acceptor", frame[Game].partyId)
    BY <1>2, <2>1, GotoMoves
  <2>3. Sound(n)
    BY <1>2, <1>6, AddSound
  <2>4. \A q \in Players : ListedOnce(pm, q) => ListedOnce(n, q)
    BY <1>2, <1>6, AddListed
  <2>5. OnlineListedOnce'
    BY <1>3, <2>1, <2>4 DEF IInv, OnlineListedOnce
  <2>6. id \in DOMAIN pm.parties
    BY <1>6 DEF CanAdd, GetParty
  <2>7. /\ DOMAIN n.parties = DOMAIN pm.parties
        /\ \A o \in DOMAIN pm.parties : o # id => n.parties[o] = pm.parties[o]
        /\ Size(n.parties[id]) = Size(pm.parties[id]) + 1
    BY <1>2, <2>6, AddShape, AddSize
  <2> HIDE DEF n
  <2>8. \A o \in DOMAIN n.parties : Size(n.parties[o]) >= 2 \/ o \in alone'
    <3>1. Size(n.parties[id]) >= 2
      BY <1>5, <2>6, <2>7
    <3>2. \A o \in DOMAIN pm.parties : o # id =>
            Size(n.parties[o]) >= 2 \/ o \in alone'
      BY <1>4, <2>1, <2>7
    <3>3. QED
      BY <2>7, <3>1, <3>2
  <2>9. alone' \subseteq Nat
    BY <1>2, <2>1
  <2>10. QED
    BY <1>2, <1>3, <2>1, <2>2, <2>3, <2>5, <2>8, <2>9, GameMove
<1>7. CASE ~CanAdd(pm, id, acceptor)
  <2>1. Goto(Game, "add", "idle") /\ UNCHANGED <<pm, alone>>
    BY <1>7 DEF AnswerAdd, acceptor, id
  <2>2. Moves(Game, "add", "idle", frame[Game].partyId)
    BY <1>2, <2>1, GotoMoves
  <2>3. \A o \in DOMAIN pm.parties : Size(pm.parties[o]) >= 2 \/ o \in alone
    BY <1>4, <1>5, <1>7, PartyAssumption DEF CanAdd, GetParty
  <2>4. QED
    BY <1>2, <1>3, <2>1, <2>2, <2>3, GameReads
<1>8. QED
  BY <1>6, <1>7

\* The names of a party's members, and SendPartyUpdateFromRoom.
LEMMA NamesIInv ==
  ASSUME IInv, AnswerNames \/ Notify
  PROVE  IInv'
<1> USE DEF AcceptorLabels, LeaverLabels, Founding, Labels
<1>1. \E from \in {"name inviter", "write inviter", "name acceptor",
                  "write acceptor", "notify", "read"} : Local.at = from
  BY DEF AnswerNames, Notify, Point, Follow, Goto, Local
<1>2. /\ TypeOK /\ IsManager(pm) /\ Game \in Procs
      /\ dangling \in BOOLEAN
  BY <1>1, JobFacts
<1> DEFINE id == Local.partyId
<1>3. id = frame[Game].partyId
  BY DEF Local
<1>4. /\ dangling' \in BOOLEAN
      /\ UNCHANGED <<pm, session, jobs, alone>>
      /\ \/ \E to \in {"write inviter", "add"} : Moves(Game, "name inviter", to, id)
         \/ Moves(Game, "write inviter", "add", id)
         \/ \E to \in {"write acceptor", "notify"} :
              Moves(Game, "name acceptor", to, id)
         \/ Moves(Game, "write acceptor", "notify", id)
         \/ \E to \in {"read", "idle"} : Moves(Game, "notify", to, id)
         \/ Moves(Game, "read", "idle", id)
  <2>1. CASE Point(Game, "name inviter", id, "write inviter", "add")
    BY <1>2, <1>3, <2>1, PointMoves
  <2>2. CASE Follow(Game, "write inviter", "add")
    BY <1>2, <1>3, <2>2, FollowMoves
  <2>3. CASE Point(Game, "name acceptor", id, "write acceptor", "notify")
    BY <1>2, <1>3, <2>3, PointMoves
  <2>4. CASE Follow(Game, "write acceptor", "notify")
    BY <1>2, <1>3, <2>4, FollowMoves
  <2>5. CASE Point(Game, "notify", id, "read", "idle")
    BY <1>2, <1>3, <2>5, PointMoves
  <2>6. CASE Follow(Game, "read", "idle")
    BY <1>2, <1>3, <2>6, FollowMoves
  <2>7. QED
    BY <2>1, <2>2, <2>3, <2>4, <2>5, <2>6 DEF AnswerNames, Notify
<1> HIDE DEF id
<1>5. id = Local.partyId
  BY DEF id
<1>6. PICK from \in {"name inviter", "write inviter", "name acceptor",
                    "write acceptor", "notify", "read"},
           to \in {"write inviter", "add", "write acceptor", "notify", "read",
                  "idle"} :
        /\ Moves(Game, from, to, id)
        /\ to \in {"write inviter", "add"} => from \in Founding
        /\ from \in Founding => to \in Founding
  BY <1>4
<1>7. QED
  BY ZenonT(60), <1>2, <1>4, <1>5, <1>6, GameReads

\* Handle_C_PartyLeave: its removal takes the leaver out of the party its entry
\* named, whatever the workers removed since.
LEMMA LeaveIInv ==
  ASSUME IInv, LeaveCheck \/ LeaveCopy \/ LeaveRemove \/ LeaveNotify
  PROVE  IInv'
<1> USE DEF AcceptorLabels, LeaverLabels, Founding, Labels
<1> DEFINE leaver == Local.players[1]
<1>1. \E from \in {"leave", "copy", "copying", "leaving", "left"} : Local.at = from
  BY DEF LeaveCheck, LeaveCopy, LeaveRemove, LeaveNotify,
         Point, Follow, Goto, GotoWith, Local
<1>2. /\ TypeOK /\ Sound(pm) /\ IsManager(pm) /\ Game \in Procs
      /\ leaver \in Players /\ alone \subseteq Nat /\ dangling \in BOOLEAN
  BY <1>1, JobFacts
<1> HIDE DEF leaver
<1>3. CASE LeaveCheck
  <2> DEFINE id == GetPartyIdByPlayer(pm, leaver)
             to == IF id = NoParty THEN "idle" ELSE "copy"
  <2>1. /\ GotoWith(Game, "leave", to, id)
        /\ UNCHANGED <<pm, session, jobs, alone, dangling>>
    BY <1>3 DEF LeaveCheck, leaver
  <2>2. id \in Nat /\ to \in {"idle", "copy"}
    BY <1>2, IdIsNat
  <2>3. id = GetPartyIdByPlayer(pm, Local.players[1])
    BY DEF leaver
  <2> HIDE DEF id, to
  <2>4. Moves(Game, "leave", to, id)
    BY <1>2, <2>1, <2>2, GotoWithMoves
  <2>5. QED
    BY <1>2, <2>1, <2>2, <2>3, <2>4, GameReads
<1>4. CASE LeaveCopy \/ LeaveNotify
  <2> DEFINE id == Local.partyId
  <2>1. id = frame[Game].partyId
    BY DEF Local
  <2>2. /\ \/ \E to \in {"copying", "idle"} : Moves(Game, "copy", to, id)
           \/ Moves(Game, "copying", "leaving", id)
           \/ \E to \in {"notify", "idle"} : Moves(Game, "left", to, id)
        /\ dangling' \in BOOLEAN
        /\ UNCHANGED <<pm, session, jobs, alone>>
    <3>1. CASE Point(Game, "copy", id, "copying", "idle")
      BY <1>2, <2>1, <3>1, PointMoves
    <3>2. CASE Follow(Game, "copying", "leaving")
      BY <1>2, <2>1, <3>2, FollowMoves
    <3>3. CASE LeaveNotify
      <4>1. PICK to \in {"notify", "idle"} : Goto(Game, "left", to)
        BY <3>3 DEF LeaveNotify
      <4>2. UNCHANGED <<pm, session, jobs, alone, dangling>>
        BY <3>3 DEF LeaveNotify
      <4>3. Moves(Game, "left", to, id)
        BY <1>2, <2>1, <4>1, GotoMoves
      <4>4. QED
        BY <1>2, <4>2, <4>3
    <3>4. QED
      BY <1>4, <3>1, <3>2, <3>3 DEF LeaveCopy
  <2> HIDE DEF id
  <2>3. id = Local.partyId
    BY DEF id
  <2>4. PICK from \in {"copy", "copying", "left"},
             to \in {"copying", "leaving", "notify", "idle"} :
          /\ Moves(Game, from, to, id)
          /\ to \in LeaverLabels => from \in LeaverLabels
    BY <2>2
  <2>5. QED
    BY <1>2, <2>2, <2>3, <2>4, GameReads
<1>5. CASE LeaveRemove
  <2> DEFINE id == Local.partyId
             n == RemoveMember(pm, id, leaver)
  <2>1. /\ Goto(Game, "leaving", "left") /\ pm' = n
        /\ UNCHANGED <<session, jobs, alone, dangling>>
    BY <1>5 DEF LeaveRemove, leaver
  <2>2. Moves(Game, "leaving", "left", frame[Game].partyId)
    BY <1>2, <2>1, GotoMoves
  <2>3. GetPartyIdByPlayer(pm, leaver) \in {id, NoParty}
    BY <2>1 DEF Goto, IInv, JobAgrees, Local, leaver
  <2>4. Sound(n)
    BY <1>2, RemoveSound
  <2>5. \A q \in Players : ListedOnce(pm, q) => ListedOnce(n, q)
    BY <1>2, <2>3, RemoveListed
  <2>6. \A o \in DOMAIN n.parties :
          o \in DOMAIN pm.parties /\ (n.parties[o] = pm.parties[o] \/ Size(n.parties[o]) >= 2)
    BY <1>2, RemoveSizes
  <2> HIDE DEF n
  <2>7. OnlineListedOnce'
    BY <2>1, <2>5 DEF IInv, OnlineListedOnce
  <2>8. Local.at = "leaving"
    BY <2>1 DEF Goto, Local
  <2>9. \A o \in DOMAIN n.parties : Size(n.parties[o]) >= 2 \/ o \in alone
    BY <2>6, <2>8 DEF IInv, OneOnlyFounded
  <2>10. /\ Sound(pm')
         /\ \A o \in DOMAIN pm'.parties :
              Size(pm'.parties[o]) >= 2 \/ o \in alone'
         /\ UNCHANGED <<session, jobs>> /\ dangling' \in BOOLEAN
         /\ alone' \subseteq Nat
    BY <1>2, <2>1, <2>4, <2>9
  <2>11. QED
    BY <2>2, <2>7, <2>10, GameMove
<1>6. QED
  BY <1>3, <1>4, <1>5

\* OnDisconnected: it only removes, and only a player that is not online.
LEMMA WorkerIInv ==
  ASSUME IInv, NEW p \in Players, WorkerStep(p)
  PROVE  IInv'
<1> USE DEF Labels
<1>1. /\ TypeOK /\ Sound(pm) /\ IsManager(pm) /\ p \in Procs
      /\ session \in [Players -> {"online", "offline", "gone"}]
      /\ frame \in [Procs -> Frames] /\ frame[p].partyId \in Nat
      /\ dangling \in BOOLEAN
  BY DEF IInv, TypeOK, Sound, Procs, Frames
<1>2. frame[p].at # "idle" => session[p] # "online"
  BY DEF IInv, WorkersOffline
<1>3. CASE Disconnect(p)
  <2> DEFINE id == GetPartyIdByPlayer(pm, p)
             to == IF id = NoParty THEN "done" ELSE "removing"
  <2>1. /\ GotoWith(p, "idle", to, id)
        /\ session' = [session EXCEPT ![p] = "offline"]
        /\ UNCHANGED <<pm, jobs, alone, dangling>>
    BY <1>3 DEF Disconnect
  <2>2. id \in Nat /\ to \in {"done", "removing"}
    BY <1>1, IdIsNat
  <2> HIDE DEF id, to
  <2>3. Moves(p, "idle", to, id)
    BY <1>1, <2>1, <2>2, GotoWithMoves
  <2>4. /\ session' \in [Players -> {"online", "offline", "gone"}]
        /\ \A q \in Players : session'[q] = "online" => session[q] = "online" /\ q # p
    BY <1>1, <2>1
  <2>5. Sound(pm') /\ OnlineListedOnce'
    BY <1>1, <2>1, <2>4 DEF IInv, OnlineListedOnce
  <2>6. QED
    BY ZenonT(60), <1>1, <2>1, <2>2, <2>3, <2>4, <2>5, WorkerMove
<1>4. CASE DisconnectRemove(p)
  <2> DEFINE n == RemoveMember(pm, frame[p].partyId, p)
  <2>1. /\ Goto(p, "removing", "look") /\ pm' = n
        /\ UNCHANGED <<session, jobs, alone, dangling>>
    BY <1>4 DEF DisconnectRemove
  <2>2. Moves(p, "removing", "look", frame[p].partyId)
    BY <1>1, <2>1, GotoMoves
  <2>3. \A q \in Players : session'[q] = "online" => session[q] = "online" /\ q # p
    BY <1>2, <2>1 DEF Goto
  <2>4. Sound(n)
    BY <1>1, RemoveSound
  <2>5. \A q \in Players : q # p /\ ListedOnce(pm, q) => ListedOnce(n, q)
    BY <1>1, RemoveListed
  <2>6. \A o \in DOMAIN n.parties :
          /\ o \in DOMAIN pm.parties
          /\ n.parties[o] = pm.parties[o] \/ Size(n.parties[o]) >= 2
    BY <1>1, RemoveSizes
  <2>7. \A q \in Players :
          /\ GetPartyIdByPlayer(n, q) \in {GetPartyIdByPlayer(pm, q), NoParty}
          /\ IsInParty(n, q) => IsInParty(pm, q)
    BY <1>1, RemoveEntries
  <2> HIDE DEF n
  <2>8. OnlineListedOnce'
    BY <2>1, <2>3, <2>5 DEF IInv, OnlineListedOnce
  <2>9. QED
    BY ZenonT(60), <1>1, <2>1, <2>2, <2>3, <2>4, <2>6, <2>7, <2>8, WorkerMove
<1>5. CASE DisconnectNotify(p)
  <2>1. /\ \E from \in {"look", "tell"}, to \in {"tell", "done"} :
             Moves(p, from, to, frame[p].partyId)
        /\ dangling' \in BOOLEAN
        /\ UNCHANGED <<pm, session, jobs, alone>>
    <3>1. CASE Point(p, "look", frame[p].partyId, "tell", "done")
      BY <1>1, <3>1, PointMoves
    <3>2. CASE Follow(p, "tell", "done")
      BY <1>1, <3>2, FollowMoves
    <3>3. QED
      BY <1>5, <3>1, <3>2 DEF DisconnectNotify
  <2>2. \A q \in Players : session'[q] = "online" => session[q] = "online" /\ q # p
    BY <1>2, <2>1 DEF Moves
  <2>3. Sound(pm') /\ OnlineListedOnce'
    BY <1>1, <2>1 DEF IInv, OnlineListedOnce
  <2>4. PICK from \in {"look", "tell"}, to \in {"tell", "done"} :
          Moves(p, from, to, frame[p].partyId)
    BY <2>1
  <2>5. from \in Labels /\ to \in Labels
    OBVIOUS
  <2>6. /\ session' \in [Players -> {"online", "offline", "gone"}]
        /\ UNCHANGED <<jobs, alone>> /\ dangling' \in BOOLEAN
    BY <1>1, <2>1
  <2>7. /\ \A q \in Players :
             /\ GetPartyIdByPlayer(pm', q) \in {GetPartyIdByPlayer(pm, q), NoParty}
             /\ IsInParty(pm', q) => IsInParty(pm, q)
        /\ \A o \in DOMAIN pm'.parties :
             o \in DOMAIN pm.parties /\ pm'.parties[o] = pm.parties[o]
    BY <2>1
  <2> HIDE DEF Labels
  <2>8. QED
    BY <2>2, <2>3, <2>4, <2>5, <2>6, <2>7, WorkerMove
<1>6. QED
  BY <1>3, <1>4, <1>5 DEF WorkerStep

LEMMA NextIInv == IInv /\ [Next]_vars => IInv'
<1> SUFFICES ASSUME IInv, [Next]_vars PROVE IInv'
  OBVIOUS
<1>1. ASSUME NEW p \in Players, NEW q \in Players, BeginInvite(p, q)
      PROVE  IInv'
  BY <1>1, BeginIInv DEF BeginInvite
<1>2. ASSUME NEW p \in Players, NEW q \in Players, BeginAnswer(p, q)
      PROVE  IInv'
  BY <1>2, BeginIInv DEF BeginAnswer
<1>3. ASSUME NEW p \in Players, BeginLeave(p)
      PROVE  IInv'
  BY <1>3, BeginIInv DEF BeginLeave
<1>4. ASSUME NEW p \in Players, LeaveRoom(p)
      PROVE  IInv'
  BY <1>4, LeaveRoomIInv
<1>5. CASE InviteCheck \/ InviteSize \/ InviteSent
  BY <1>5, InviteIInv
<1>6. CASE AnswerCheck
  BY <1>6, AnswerCheckIInv
<1>7. CASE AnswerCreate
  BY <1>7, AnswerCreateIInv
<1>8. CASE AnswerAdd
  BY <1>8, AnswerAddIInv
<1>9. CASE AnswerNames \/ Notify
  BY <1>9, NamesIInv
<1>10. CASE LeaveCheck \/ LeaveCopy \/ LeaveRemove \/ LeaveNotify
  BY <1>10, LeaveIInv
<1>11. ASSUME NEW p \in Players, WorkerStep(p)
       PROVE  IInv'
  BY <1>11, WorkerIInv
<1>12. CASE UNCHANGED vars
  BY <1>12 DEF vars, IInv, TypeOK, JobAgrees, WorkersOffline,
               OnlineListedOnce, OneOnlyFounded, Local
<1>13. QED
  BY <1>1, <1>2, <1>3, <1>4, <1>5, <1>6, <1>7, <1>8, <1>9, <1>10, <1>11, <1>12
     DEF Next, GameStep

-----------------------------------------------------------------------------
(* The theorems *)

\* Whatever the handlers do between two locks, every party has its leader
\* among its members and at most MAX_PARTY_SIZE of them, and every entry of
\* _playerToParty names a party that lists the player.
THEOREM PartiesStaySound == Spec => []PartiesSound
<1>1. IInv => PartiesSound
  BY DEF IInv, Sound, PartiesSound
<1>2. QED
  BY InitIInv, NextIInv, <1>1, PTL DEF Spec

\* The stale ids OnDisconnected and Handle_C_PartyLeave carry from one lock to
\* the next never make the two maps disagree about a player that is online.
THEOREM OnlineStayListedOnce == Spec => []OnlineListedOnce
<1>1. IInv => OnlineListedOnce
  BY DEF IInv
<1>2. QED
  BY InitIInv, NextIInv, <1>1, PTL DEF Spec

\* Whatever ids the clients answer with, a party has two members at least once
\* the Handle_C_PartyAnswer that founded it is over, but for that of a player who
\* answered with its own id, until somebody joins it.
THEOREM NoPartyStaysOfOne == Spec => []NoPartyOfOne
<1>1. IInv => NoPartyOfOne
  BY DEF IInv, OneOnlyFounded, Founding, NoPartyOfOne
<1>2. QED
  BY InitIInv, NextIInv, <1>1, PTL DEF Spec
=============================================================================
