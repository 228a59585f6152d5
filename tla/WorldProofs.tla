----------------------------- MODULE WorldProofs ------------------------------
(***************************************************************************)
(* Proofs about players, rooms and dungeon instances, for every set of      *)
(* players, party size and number of packets: nobody is left in a removed   *)
(* dungeon or on the way into one, a player online is where its packets go, *)
(* a dungeon that its players left is removed.                              *)
(***************************************************************************)
EXTENDS GameWorld, FiniteSetTheorems, SequenceTheorems, WellFoundedInduction, TLAPS

Enters == {Enter(s) : s \in Players}

\* Instance ids are given out one after the other; what is pending has been entered;
\* the game thread visits rooms that exist, and has jobs only while it is in one.
Numbered ==
  /\ \A d \in instances \cup opened : d < nextInstance
  /\ pending \subseteq instances \cap opened
  /\ room \in Towns \cup instances \cup {NoRoom}
  /\ toVisit \subseteq Towns \cup instances
  /\ room = NoRoom => batch = <<>> /\ pending = {}

\* A dungeon that nobody has entered yet: only EnterRoom jobs can name it.
Unopened(d) ==
  /\ players[d] = {}
  /\ \A s \in Players : gameRoom[s] # d
  /\ Range(jobs[d]) \subseteq Enters
  /\ Range(jobs[d]) # {} => d \in instances
  /\ room = d => Range(batch) \subseteq Enters /\ Range(jobs[d]) = {}

\* The EnterRoom jobs of a dungeon are run in one batch, its first, before anything
\* that could release it.
EntersFirst ==
  /\ \A d \in Dungeons \ opened : Unopened(d)
  /\ \A d \in opened : Range(jobs[d]) \cap Enters = {}
  /\ room \in Dungeons /\ Range(batch) \cap Enters # {} =>
       Range(batch) \subseteq Enters /\ room \notin pending

EmptyOnesGo ==
  /\ \A d \in pending : players[d] = {}
  /\ \A d \in Dungeons \ instances : players[d] = {}
  /\ slain = {} => \A d \in opened \cap instances : players[d] = {} => d \in pending

LeaversGone == \A s \in Players : Queued(Leave(s)) => session[s] = "closed"

Located == \A s \in Players : player[s] => gameRoom[s] # NoRoom

IInv ==
  /\ TypeOK /\ IsManager(pm)
  /\ Numbered /\ EntersFirst /\ EmptyOnesGo /\ LeaversGone /\ Located
  /\ OnlinePresent

-----------------------------------------------------------------------------
(* Queues *)

LEMMA Sorts ==
  /\ Dungeons \subseteq Nat \ {0} /\ Towns \cap Dungeons = {}
  /\ NoRoom \notin Rooms /\ Town1 \in Towns /\ Towns \cup Dungeons = Rooms
BY WorldAssumption DEF Dungeons, Towns, Town1, Town2, NoRoom, Rooms

\* Which jobs there are, and that only EnterRoom jobs are among Enters.
LEMMA JobSorts ==
  ASSUME NEW s \in Players
  PROVE  /\ Enter(s) \in Jobs /\ Enter(s) \in Enters
         /\ Leave(s) \in Jobs /\ Leave(s) \notin Enters
         /\ Job("leaveParty", s, NoRoom) \in Jobs \ Enters
         /\ Job("attack", s, NoRoom) \in Jobs \ Enters
         /\ \A to \in Towns \cup {NewDungeon} : Job("changeMap", s, to) \in Jobs \ Enters
         /\ \A p \in Players : Job("answer", s, p) \in Jobs \ Enters
<1>1. JobsOf(s) \subseteq Jobs
  BY DEF Jobs
<1>2. \A op, arg : op # "enter" => Job(op, s, arg) \notin Enters
  BY DEF Enters, Enter, Job
<1>3. QED
  BY <1>1, <1>2 DEF JobsOf, Enters, Leave

LEMMA JobsDiffer ==
  ASSUME NEW s \in Players, NEW t \in Players
  PROVE  /\ Enter(s) = Enter(t) => s = t
         /\ Leave(s) = Leave(t) => s = t
         /\ Leave(s) \notin Enters
BY DEF Enter, Leave, Job, Enters

\* A job at the end of a queue.
LEMMA RangeAppend ==
  ASSUME NEW q \in Seq(Jobs), NEW j \in Jobs
  PROVE  Append(q, j) \in Seq(Jobs) /\ Range(Append(q, j)) = Range(q) \cup {j}
<1>1. /\ Append(q, j) \in Seq(Jobs) /\ Len(q) \in Nat
      /\ DOMAIN q = 1..Len(q) /\ DOMAIN Append(q, j) = 1..(Len(q) + 1)
      /\ \A i \in 1..Len(q) : Append(q, j)[i] = q[i]
      /\ Append(q, j)[Len(q) + 1] = j
  OBVIOUS
<1>2. QED
  BY <1>1 DEF Range

\* Jobs at the end of a queue.
LEMMA RangeConcat ==
  ASSUME NEW q \in Seq(Jobs), NEW r \in Seq(Jobs)
  PROVE  q \o r \in Seq(Jobs) /\ Range(q \o r) = Range(q) \cup Range(r)
<1>1. /\ q \o r \in Seq(Jobs) /\ Len(q) \in Nat /\ Len(r) \in Nat
      /\ DOMAIN q = 1..Len(q) /\ DOMAIN r = 1..Len(r)
      /\ DOMAIN (q \o r) = 1..(Len(q) + Len(r))
      /\ \A i \in 1..Len(q) : (q \o r)[i] = q[i]
      /\ \A i \in 1..Len(r) : (q \o r)[Len(q) + i] = r[i]
  OBVIOUS
<1>2. Range(q \o r) \subseteq Range(q) \cup Range(r)
  <2>1. ASSUME NEW i \in DOMAIN (q \o r) PROVE (q \o r)[i] \in Range(q) \cup Range(r)
    <3>1. CASE i \in 1..Len(q)
      BY <1>1, <3>1 DEF Range
    <3>2. CASE i \notin 1..Len(q)
      <4>1. i - Len(q) \in 1..Len(r) /\ i = Len(q) + (i - Len(q))
        BY <1>1, <3>2
      <4>2. QED
        BY <1>1, <4>1 DEF Range
    <3>3. QED
      BY <3>1, <3>2
  <2>2. QED
    BY <2>1 DEF Range
<1>3. Range(q) \subseteq Range(q \o r)
  <2>1. \A i \in DOMAIN q : i \in DOMAIN (q \o r) /\ q[i] = (q \o r)[i]
    BY <1>1
  <2>2. QED
    BY <2>1 DEF Range
<1>4. Range(r) \subseteq Range(q \o r)
  <2>1. \A i \in DOMAIN r :
          Len(q) + i \in DOMAIN (q \o r) /\ r[i] = (q \o r)[Len(q) + i]
    BY <1>1
  <2>2. QED
    BY <2>1 DEF Range
<1>5. QED
  BY <1>1, <1>2, <1>3, <1>4

\* The front job and the others.
LEMMA RangeTail ==
  ASSUME NEW q \in Seq(Jobs), q # <<>>
  PROVE  /\ Head(q) \in Jobs /\ Tail(q) \in Seq(Jobs)
         /\ Range(q) = {Head(q)} \cup Range(Tail(q))
<1>1. /\ Head(q) \in Jobs /\ Tail(q) \in Seq(Jobs)
      /\ Len(q) \in Nat \ {0} /\ Head(q) = q[1]
      /\ DOMAIN q = 1..Len(q) /\ DOMAIN Tail(q) = 1..(Len(q) - 1)
      /\ \A i \in 1..(Len(q) - 1) : Tail(q)[i] = q[i + 1]
  BY HeadTailProperties, LenProperties, EmptySeq
<1>2. Range(q) \subseteq {Head(q)} \cup Range(Tail(q))
  <2>1. ASSUME NEW i \in DOMAIN q PROVE q[i] \in {Head(q)} \cup Range(Tail(q))
    <3>1. CASE i = 1
      BY <1>1, <3>1
    <3>2. CASE i # 1
      <4>1. i - 1 \in 1..(Len(q) - 1) /\ i = (i - 1) + 1
        BY <1>1, <3>2
      <4>2. QED
        BY <1>1, <4>1 DEF Range
    <3>3. QED
      BY <3>1, <3>2
  <2>2. QED
    BY <2>1 DEF Range
<1>3. Head(q) \in Range(q)
  BY <1>1 DEF Range
<1>4. Range(Tail(q)) \subseteq Range(q)
  <2>1. \A i \in DOMAIN Tail(q) : i + 1 \in DOMAIN q /\ Tail(q)[i] = q[i + 1]
    BY <1>1
  <2>2. QED
    BY <2>1 DEF Range
<1>5. QED
  BY <1>1, <1>2, <1>3, <1>4

LEMMA RangeEmpty == Range(<<>>) = {} /\ <<>> \in Seq(Jobs)
BY EmptySeq DEF Range

\* The jobs that DepartFor pushes.
LEMMA EntersOf ==
  ASSUME NEW q \in Seq(Players)
  PROVE  /\ [i \in DOMAIN q |-> Enter(q[i])] \in Seq(Jobs)
         /\ Range([i \in DOMAIN q |-> Enter(q[i])]) = {Enter(s) : s \in Range(q)}
         /\ Range(q) \subseteq Players
<1>1. /\ DOMAIN q = 1..Len(q) /\ Len(q) \in Nat
      /\ \A i \in 1..Len(q) : q[i] \in Players
  OBVIOUS
<1>2. \A i \in 1..Len(q) : Enter(q[i]) \in Jobs
  BY <1>1, JobSorts
<1>3. [i \in 1..Len(q) |-> Enter(q[i])] \in Seq(Jobs)
  BY <1>1, <1>2
<1>4. QED
  BY <1>1, <1>3 DEF Range

-----------------------------------------------------------------------------
(* The party manager: whatever is called, its members remain players, and  *)
(* each party keeps its members in an order                                *)

LEMMA InitialManaged == IsManager(InitialManager)
<1>1. DOMAIN Empty = {}
  BY DEF Empty
<1>2. /\ DOMAIN InitialManager = {"parties", "playerToParty", "nextId"}
      /\ InitialManager.parties = Empty
      /\ InitialManager.playerToParty = Empty
      /\ InitialManager.nextId = 1
  BY DEF InitialManager
<1>3. QED
  BY <1>1, <1>2 DEF IsManager

LEMMA CreateManaged ==
  ASSUME NEW m, IsManager(m), NEW p \in Players
  PROVE  /\ IsManager(CreateParty(m, p))
         /\ m.nextId \in DOMAIN CreateParty(m, p).parties
<1> DEFINE n == CreateParty(m, p)
<1>1. /\ DOMAIN n = {"parties", "playerToParty", "nextId"}
      /\ n.nextId = m.nextId + 1
      /\ DOMAIN n.parties = DOMAIN m.parties \cup {m.nextId}
      /\ \A id \in DOMAIN m.parties : n.parties[id] = m.parties[id]
      /\ n.parties[m.nextId] = Party(p)
      /\ DOMAIN n.playerToParty = DOMAIN m.playerToParty \cup {p}
  BY DEF CreateParty, Set, IsManager
<1>2. /\ DOMAIN Party(p) = {"leader", "members", "joined"}
      /\ DOMAIN Party(p).members = {1} /\ Party(p).joined = 1
      /\ MemberIds(Party(p)) = {p}
  BY DEF Party, MemberIds, Range
<1> HIDE DEF n
<1>3. IsManager(n)
  BY <1>1, <1>2 DEF IsManager
<1>4. QED
  BY <1>1, <1>3 DEF n

LEMMA AddManaged ==
  ASSUME NEW m, IsManager(m), NEW id \in DOMAIN m.parties, NEW p \in Players
  PROVE  IsManager(AddMember(m, id, p))
<1> DEFINE n == AddMember(m, id, p)
           party == m.parties[id]
           k == party.joined + 1
           grown == [party EXCEPT !.members = Set(@, k, p), !.joined = k]
<1>1. /\ DOMAIN m = {"parties", "playerToParty", "nextId"}
      /\ DOMAIN party = {"leader", "members", "joined"}
      /\ party.joined \in Nat /\ DOMAIN party.members \subseteq 1..party.joined
      /\ MemberIds(party) \subseteq Players
  BY DEF IsManager
<1>2. n = [m EXCEPT !.parties[id] = grown, !.playerToParty = Set(@, p, id)]
  BY DEF AddMember
<1>3. /\ DOMAIN grown = {"leader", "members", "joined"}
      /\ grown.joined = k /\ grown.members = Set(party.members, k, p)
  BY <1>1
<1> HIDE DEF grown, n
<1>4. /\ DOMAIN n = {"parties", "playerToParty", "nextId"}
      /\ n.nextId = m.nextId
      /\ n.parties = [m.parties EXCEPT ![id] = grown]
      /\ n.playerToParty = Set(m.playerToParty, p, id)
  BY <1>1, <1>2
<1>5. DOMAIN n.playerToParty = DOMAIN m.playerToParty \cup {p}
  BY <1>4 DEF Set
<1>6. DOMAIN grown.members \subseteq 1..k
  BY <1>1, <1>3 DEF Set
<1>7. MemberIds(grown) \subseteq Players
  BY <1>1, <1>3 DEF Set, MemberIds, Range
<1>8. k \in Nat
  BY <1>1
<1> HIDE DEF k
<1>9. IsManager(n)
  BY <1>3, <1>4, <1>5, <1>6, <1>7, <1>8 DEF IsManager
<1>10. QED
  BY <1>9 DEF n

LEMMA RemoveManaged ==
  ASSUME NEW m, IsManager(m), NEW id, NEW p \in Players
  PROVE  IsManager(RemoveMember(m, id, p))
<1>1. CASE id \notin DOMAIN m.parties
  BY <1>1 DEF RemoveMember, GetParty
<1>2. CASE id \in DOMAIN m.parties
  <2> DEFINE party == m.parties[id]
             left == Without(party.members, p)
             rest == [m EXCEPT !.parties[id].members = left,
                               !.playerToParty = Erase(@, {p})]
             led == [rest EXCEPT !.parties[id].leader = LeaderAfter(party, left, p)]
  <2>1. /\ DOMAIN m = {"parties", "playerToParty", "nextId"}
        /\ DOMAIN party = {"leader", "members", "joined"}
        /\ party.joined \in Nat /\ DOMAIN party.members \subseteq 1..party.joined
        /\ MemberIds(party) \subseteq Players
    BY <1>2 DEF IsManager
  <2>2. /\ DOMAIN left \subseteq 1..party.joined
        /\ Range(left) \subseteq Players
    BY <2>1 DEF Without, Erase, Restrict, MemberIds, Range
  <2>3. /\ DOMAIN rest = {"parties", "playerToParty", "nextId"}
        /\ rest.nextId = m.nextId
        /\ rest.parties = [m.parties EXCEPT ![id] = [party EXCEPT !.members = left]]
        /\ rest.playerToParty = Erase(m.playerToParty, {p})
    BY <1>2, <2>1
  <2>4. /\ DOMAIN [party EXCEPT !.members = left] = {"leader", "members", "joined"}
        /\ [party EXCEPT !.members = left].members = left
        /\ [party EXCEPT !.members = left].joined = party.joined
    BY <2>1
  <2> HIDE DEF left
  <2>5. DOMAIN rest.playerToParty \subseteq Players
    BY <2>3 DEF Erase, Restrict, IsManager
  <2>6. IsManager(rest)
    <3> HIDE DEF rest
    <3> DEFINE kept == [party EXCEPT !.members = left]
    <3>1. /\ DOMAIN rest.parties = DOMAIN m.parties /\ rest.parties[id] = kept
          /\ \A o \in DOMAIN m.parties : o # id => rest.parties[o] = m.parties[o]
      BY <1>2, <2>3
    <3>2. /\ DOMAIN kept = {"leader", "members", "joined"}
          /\ kept.members = left /\ kept.joined = party.joined
      BY <2>4
    <3> HIDE DEF kept
    <3>3. QED
      BY <1>2, <2>1, <2>2, <2>3, <2>5, <3>1, <3>2 DEF IsManager, MemberIds
  <2>7. id \in DOMAIN rest.parties
    BY <1>2, <2>3
  <2>8. IsManager(DisbandParty(rest, id))
    <3> DEFINE n == DisbandParty(rest, id)
    <3> HIDE DEF rest
    <3>1. DOMAIN rest = {"parties", "playerToParty", "nextId"}
      BY <2>6 DEF IsManager
    <3>2. /\ DOMAIN n = {"parties", "playerToParty", "nextId"}
          /\ n.nextId = rest.nextId
          /\ n.parties = Erase(rest.parties, {id})
          /\ n.playerToParty = Erase(rest.playerToParty, MemberIds(rest.parties[id]))
      BY <3>1 DEF DisbandParty
    <3> HIDE DEF n
    <3>3. /\ DOMAIN n.parties \subseteq DOMAIN rest.parties
          /\ \A o \in DOMAIN n.parties : n.parties[o] = rest.parties[o]
          /\ DOMAIN n.playerToParty \subseteq DOMAIN rest.playerToParty
      BY <3>2 DEF Erase, Restrict
    <3>4. IsManager(n)
      BY <2>6, <3>2, <3>3 DEF IsManager
    <3>5. QED
      BY <3>4 DEF n
  <2>9. IsManager(led)
    <3> DEFINE leader == LeaderAfter(party, left, p)
               kept == [rest.parties[id] EXCEPT !.leader = leader]
    <3> HIDE DEF rest, leader
    <3>1. /\ DOMAIN rest = {"parties", "playerToParty", "nextId"}
          /\ DOMAIN rest.parties[id] = {"leader", "members", "joined"}
      BY <2>6, <2>7 DEF IsManager
    <3>2. /\ DOMAIN led = {"parties", "playerToParty", "nextId"}
          /\ led.nextId = rest.nextId /\ led.playerToParty = rest.playerToParty
          /\ led.parties = [rest.parties EXCEPT ![id] = kept]
      BY <3>1 DEF leader
    <3>3. /\ DOMAIN kept = {"leader", "members", "joined"}
          /\ kept.members = rest.parties[id].members
          /\ kept.joined = rest.parties[id].joined
      BY <3>1
    <3> HIDE DEF led, kept
    <3>4. /\ DOMAIN led.parties = DOMAIN rest.parties /\ led.parties[id] = kept
          /\ \A o \in DOMAIN rest.parties : o # id => led.parties[o] = rest.parties[o]
      BY <2>7, <3>2
    <3>5. QED
      BY <2>6, <2>7, <3>2, <3>3, <3>4 DEF IsManager, MemberIds
  <2>10. RemoveMember(m, id, p) = DisbandParty(rest, id) \/ RemoveMember(m, id, p) = led
    BY <1>2 DEF RemoveMember, GetParty, left
  <2>11. QED
    BY <2>8, <2>9, <2>10
<1>3. QED
  BY <1>1, <1>2

\* A finite set of numbers can be counted upwards.
LEMMA Enumeration ==
  \A n \in Nat : \A H \in SUBSET Nat :
    IsFiniteSet(H) /\ Cardinality(H) = n =>
      \E f \in [1..n -> H] : \A i, j \in 1..n : i < j => f[i] < f[j]
<1> DEFINE Counted(n) ==
      \A H \in SUBSET Nat :
        IsFiniteSet(H) /\ Cardinality(H) = n =>
          \E f \in [1..n -> H] : \A i, j \in 1..n : i < j => f[i] < f[j]
           Bad == {n \in Nat : ~Counted(n)}
<1>1. Counted(0)
  <2>1. 1..0 = {}
    OBVIOUS
  <2> SUFFICES ASSUME NEW H \in SUBSET Nat
               PROVE  \E f \in [1..0 -> H] : \A i, j \in 1..0 : i < j => f[i] < f[j]
    OBVIOUS
  <2>2. <<>> \in [1..0 -> H]
    OBVIOUS
  <2>3. QED
    BY <2>1, <2>2
<1>2. ASSUME NEW n \in Nat, Counted(n) PROVE Counted(n + 1)
  <2> SUFFICES ASSUME NEW H \in SUBSET Nat, IsFiniteSet(H), Cardinality(H) = n + 1
               PROVE  \E f \in [1..(n + 1) -> H] :
                        \A i, j \in 1..(n + 1) : i < j => f[i] < f[j]
    OBVIOUS
  <2> HIDE DEF Counted
  <2>1. H # {}
    BY FS_EmptySet
  <2>2. PICK x \in H : \A y \in H : ~(<<y, x>> \in OpToRel(<, Nat))
    <3>1. \E x \in H : \A y \in H : ~(<<y, x>> \in OpToRel(<, Nat))
      BY <2>1, NatLessThanWellFounded, WFMin
    <3>2. QED
      BY <3>1
  <2>3. \A y \in H \ {x} : x < y
    <3>1. \A y \in H : ~(y < x)
      BY <2>2 DEF OpToRel
    <3>2. QED
      BY <3>1
  <2>4. H \ {x} \in SUBSET Nat /\ IsFiniteSet(H \ {x}) /\ Cardinality(H \ {x}) = n
    BY FS_RemoveElement
  <2>5. PICK f \in [1..n -> H \ {x}] : \A i, j \in 1..n : i < j => f[i] < f[j]
    BY <1>2, <2>4 DEF Counted
  <2> DEFINE g == [i \in 1..(n + 1) |-> IF i = 1 THEN x ELSE f[i - 1]]
  <2>6. g \in [1..(n + 1) -> H]
    OBVIOUS
  <2>7. ASSUME NEW i \in 1..(n + 1), NEW j \in 1..(n + 1), i < j PROVE g[i] < g[j]
    <3>1. j - 1 \in 1..n /\ g[j] = f[j - 1] /\ f[j - 1] \in H \ {x}
      BY <2>7
    <3>2. CASE i = 1
      BY <2>3, <3>1, <3>2
    <3>3. CASE i # 1
      <4>1. i - 1 \in 1..n /\ g[i] = f[i - 1] /\ i - 1 < j - 1
        BY <2>7, <3>3
      <4>2. QED
        BY <2>5, <3>1, <4>1
    <3>4. QED
      BY <3>2, <3>3
  <2>8. QED
    BY <2>6, <2>7
<1> HIDE DEF Counted
<1>3. Bad = {}
  <2>1. SUFFICES ASSUME Bad # {} PROVE FALSE
    OBVIOUS
  <2>2. PICK n \in Bad : \A k \in Bad : ~(<<k, n>> \in OpToRel(<, Nat))
    <3>1. \E n \in Bad : \A k \in Bad : ~(<<k, n>> \in OpToRel(<, Nat))
      BY <2>1, NatLessThanWellFounded, WFMin
    <3>2. QED
      BY <3>1
  <2>3. \A k \in Bad : ~(k < n)
    BY <2>2 DEF OpToRel
  <2>4. n # 0
    BY <1>1
  <2>5. n - 1 \in Nat /\ n - 1 < n /\ (n - 1) + 1 = n
    BY <2>4
  <2>6. Counted(n - 1)
    BY <2>3, <2>5
  <2>7. Counted(n)
    BY <1>2, <2>5, <2>6
  <2>8. QED
    BY <2>7
<1>4. QED
  BY <1>3 DEF Counted

\* Who moves with s are players.
LEMMA MoversArePlayers ==
  ASSUME IsManager(pm), NEW s \in Players
  PROVE  Movers(s) \in Seq(Players)
<1>1. CASE ~IsLeader(pm, s)
  BY SMTT(40), <1>1 DEF Movers
<1>2. CASE IsLeader(pm, s)
  <2> DEFINE id == GetPartyIdByPlayer(pm, s)
             members == pm.parties[id].members
             here == {i \in DOMAIN members : members[i] \in players[room]}
             n == Cardinality(here)
             Order(f) == \A i, j \in 1..n : i < j => f[i] < f[j]
             order == CHOOSE f \in [1..n -> here] : Order(f)
  <2>1. id \in DOMAIN pm.parties
    BY <1>2 DEF IsLeader, GetPartyIdByPlayer, GetParty
  <2>2. /\ pm.parties[id].joined \in Nat
        /\ DOMAIN members \subseteq 1..pm.parties[id].joined
        /\ Range(members) \subseteq Players
    BY <2>1 DEF IsManager, MemberIds
  <2>3. IsFiniteSet(DOMAIN members)
    <3>1. IsFiniteSet(1..pm.parties[id].joined)
      BY <2>2, 1 \in Int, pm.parties[id].joined \in Int, FS_Interval
    <3>2. QED
      BY <2>2, <3>1, FS_Subset
  <2>4. IsFiniteSet(here) /\ n \in Nat /\ here \in SUBSET Nat
    BY <2>2, <2>3, FS_Subset, FS_CardinalityType
  <2>5. Movers(s) = [i \in DOMAIN order |-> members[order[i]]]
    BY <1>2 DEF Movers
  <2> HIDE DEF n, members
  <2>6. \E f \in [1..n -> here] : Order(f)
    BY <2>4, Enumeration DEF n
  <2>7. order \in [1..n -> here]
    BY <2>6
  <2>8. \A i \in here : members[i] \in Players
    BY <2>2 DEF Range
  <2> HIDE DEF order, here
  <2>9. /\ DOMAIN order = 1..n
        /\ \A i \in 1..n : members[order[i]] \in Players
    BY <2>7, <2>8
  <2>10. QED
    BY <2>4, <2>5, <2>9
<1>3. QED
  BY <1>1, <1>2
-----------------------------------------------------------------------------
(* Jobs waiting: what changes when queues do *)

\* Where a job is queued, it is while the queues only grow.
LEMMA StaysQueued ==
  ASSUME \A r \in Rooms : Range(jobs[r]) \subseteq Range(jobs'[r]),
         Range(batch) \subseteq Range(batch'), NEW j, Queued(j)
  PROVE  Queued(j)'
BY DEF Queued

\* PushJob.
LEMMA PushShape ==
  ASSUME TypeOK, NEW r, NEW j \in Jobs, jobs' = Push(jobs, r, j)
  PROVE  /\ jobs' \in [Rooms -> Seq(Jobs)]
         /\ \A o \in Rooms :
              Range(jobs'[o]) = Range(jobs[o]) \cup IF o = r /\ Live(r) THEN {j} ELSE {}
<1>1. CASE ~Live(r)
  BY <1>1 DEF TypeOK, Push
<1>2. CASE Live(r)
  <2>1. r \in Rooms /\ jobs' = [jobs EXCEPT ![r] = Append(@, j)]
    BY <1>2, Sorts DEF TypeOK, Live, Push
  <2>2. jobs[r] \in Seq(Jobs)
    BY <2>1 DEF TypeOK
  <2>3. Append(jobs[r], j) \in Seq(Jobs) /\ Range(Append(jobs[r], j)) = Range(jobs[r]) \cup {j}
    BY <2>2, RangeAppend
  <2>4. jobs' \in [Rooms -> Seq(Jobs)]
    BY <2>1, <2>3 DEF TypeOK
  <2>5. ASSUME NEW o \in Rooms
        PROVE  Range(jobs'[o]) =
                 Range(jobs[o]) \cup IF o = r /\ Live(r) THEN {j} ELSE {}
    <3>1. CASE o = r
      BY <1>2, <2>1, <2>3, <3>1 DEF TypeOK
    <3>2. CASE o # r
      BY <2>1, <3>2 DEF TypeOK
    <3>3. QED
      BY <3>1, <3>2
  <2>6. QED
    BY <2>4, <2>5
<1>3. QED
  BY <1>1, <1>2

\* A step of a worker: it queues a job j in room r, logs s in or out.
LEMMA WorkerStep ==
  ASSUME IInv, NEW r, NEW j \in Jobs, jobs' = Push(jobs, r, j) \/ jobs' = jobs,
         jobs' # jobs => r \in Towns \/ (r \in opened /\ j \notin Enters),
         \A s \in Players : j = Leave(s) => session'[s] = "closed",
         session' \in [Players -> {"connected", "loggedIn", "saving", "closing", "closed"}],
         \A s \in Players : session[s] = "closed" => session'[s] = "closed",
         \A s \in Players : session'[s] = "loggedIn" =>
           session[s] = "loggedIn" \/ ~player[s] \/ Queued(Enter(s))',
         IsManager(pm)',
         UNCHANGED <<player, gameRoom, players, manager, thread, opened, slain>>
  PROVE  IInv'
<1> USE DEF IInv
<1>1. /\ jobs' \in [Rooms -> Seq(Jobs)]
      /\ \A o \in Rooms :
           /\ Range(jobs[o]) \subseteq Range(jobs'[o])
           /\ Range(jobs'[o]) \subseteq Range(jobs[o]) \cup {j}
           /\ o # r \/ jobs' = jobs => Range(jobs'[o]) = Range(jobs[o])
           /\ Range(jobs'[o]) # Range(jobs[o]) => Live(o)
  <2>1. CASE jobs' = jobs
    BY <2>1 DEF TypeOK
  <2>2. CASE jobs' = Push(jobs, r, j)
    <3>1. /\ jobs' \in [Rooms -> Seq(Jobs)]
          /\ \A o \in Rooms :
               Range(jobs'[o]) = Range(jobs[o]) \cup IF o = r /\ Live(r) THEN {j} ELSE {}
      BY <2>2, PushShape
    <3>2. QED
      BY <3>1 DEF TypeOK
  <2>3. QED
    BY <2>1, <2>2
<1> UNCHANGED <<player, gameRoom, players, opened, slain, instances, nextInstance, pending,
                room, batch, toVisit, dungeonLoop>>
  BY DEF manager, thread
<1>2. TypeOK'
  BY <1>1 DEF TypeOK
<1>3. Numbered'
  BY DEF Numbered
<1>4. EntersFirst'
  <2>1. ASSUME NEW d \in Dungeons \ opened PROVE Unopened(d)'
    <3>1. d # r \/ jobs' = jobs
      BY <2>1, Sorts
    <3>2. Range(jobs'[d]) = Range(jobs[d])
      BY <1>1, <3>1, Sorts
    <3>3. QED
      BY <3>2 DEF EntersFirst, Unopened
  <2>2. ASSUME NEW d \in opened PROVE Range(jobs'[d]) \cap Enters = {}
    <3>1. d \in Dungeons /\ d \in Rooms /\ d \notin Towns
      BY Sorts DEF TypeOK
    <3>2. Range(jobs[d]) \cap Enters = {}
      BY DEF EntersFirst
    <3>3. QED
      BY <1>1, <3>1, <3>2
  <2>3. QED
    BY <2>1, <2>2 DEF EntersFirst
<1>5. EmptyOnesGo'
  BY DEF EmptyOnesGo
<1>6. LeaversGone'
  <2>1. ASSUME NEW s \in Players, Queued(Leave(s))' PROVE session'[s] = "closed"
    <3>1. Queued(Leave(s)) \/ j = Leave(s)
      BY <1>1, <2>1 DEF Queued
    <3>2. QED
      BY <3>1 DEF LeaversGone
  <2>2. QED
    BY <2>1 DEF LeaversGone
<1>7. Located'
  BY DEF Located
<1>8. OnlinePresent'
  <2>1. ASSUME NEW s \in Players, session'[s] = "loggedIn", player[s], s \notin slain,
               ~Queued(Enter(s))'
        PROVE  s \in players[gameRoom[s]]
    <3>1. session[s] = "loggedIn" /\ ~Queued(Enter(s))
      BY <1>1, <2>1, StaysQueued
    <3>2. QED
      BY <2>1, <3>1 DEF OnlinePresent
  <2>2. QED
    BY <2>1 DEF OnlinePresent
<1>9. QED
  BY <1>2, <1>3, <1>4, <1>5, <1>6, <1>7, <1>8

\* The job that is run and the ones left in the batch.
LEMMA Running ==
  ASSUME IInv, NEW job, Run(job)
  PROVE  /\ job \in Jobs /\ batch' \in Seq(Jobs)
         /\ Range(batch) = {job} \cup Range(batch')
         /\ room \in Towns \cup instances /\ room \in Rooms
         /\ job \notin Enters /\ room \in Dungeons => room \in opened
         /\ \A t \in Players : job # Enter(t) /\ Queued(Enter(t)) =>
              (\E r \in Rooms : Enter(t) \in Range(jobs[r])) \/ Enter(t) \in Range(batch')
<1>1. /\ job \in Jobs /\ batch' \in Seq(Jobs)
      /\ Range(batch) = {job} \cup Range(batch')
  BY RangeTail DEF IInv, TypeOK, Run
<1>2. room \in Towns \cup instances /\ room \in Rooms
  BY Sorts DEF IInv, TypeOK, Run, Numbered
<1>3. job \notin Enters /\ room \in Dungeons => room \in opened
  BY <1>1 DEF IInv, EntersFirst, Unopened
<1>4. QED
  BY <1>1, <1>2, <1>3 DEF Queued

LEMMA EnterRoomIInv ==
  ASSUME IInv, NEW s \in Players, EnterRoom(s)
  PROVE  IInv'
<1> USE DEF IInv
<1>1. /\ Run(Enter(s))
      /\ gameRoom' = [gameRoom EXCEPT ![s] = room]
      /\ player' = [player EXCEPT ![s] = TRUE]
      /\ players' = [players EXCEPT ![room] = @ \cup {s}]
      /\ opened' = opened \cup ({room} \cap Dungeons)
      /\ UNCHANGED <<jobs, instances, nextInstance, pending, pm, slain, session, room, toVisit,
                     dungeonLoop, requests>>
  BY DEF EnterRoom, JobDone, manager
<1>2. /\ batch' \in Seq(Jobs)
      /\ Range(batch) = {Enter(s)} \cup Range(batch')
      /\ room \in Towns \cup instances /\ room \in Rooms
  BY <1>1, Running
<1>3. room \in Dungeons => Range(batch) \subseteq Enters /\ room \notin pending
  BY <1>2, JobSorts DEF EntersFirst
<1>4. TypeOK'
  BY <1>1, <1>2 DEF TypeOK
<1>5. Numbered'
  BY <1>1, <1>2, Sorts DEF Numbered, TypeOK, Run
<1>6. EntersFirst'
  <2>1. ASSUME NEW d \in Dungeons \ opened' PROVE Unopened(d)'
    <3>1. Unopened(d) /\ d # room
      BY <1>1, <2>1 DEF EntersFirst
    <3>2. players'[d] = players[d] /\ \A t \in Players : gameRoom'[t] # d
      BY <1>1, <2>1, <3>1, Sorts DEF TypeOK, Unopened
    <3>3. QED
      BY <1>1, <3>1, <3>2 DEF Unopened
  <2>2. ASSUME NEW d \in opened' PROVE Range(jobs'[d]) \cap Enters = {}
    <3>1. CASE d \in opened
      BY <1>1, <3>1 DEF EntersFirst
    <3>2. CASE d \notin opened
      <4>1. d = room /\ d \in Dungeons
        BY <1>1, <3>2
      <4>2. QED
        BY <1>1, <3>2, <4>1 DEF EntersFirst, Unopened
    <3>3. QED
      BY <3>1, <3>2
  <2>3. room' \in Dungeons => Range(batch') \subseteq Enters /\ room' \notin pending'
    BY <1>1, <1>2, <1>3
  <2>4. QED
    BY <2>1, <2>2, <2>3 DEF EntersFirst
<1>7. EmptyOnesGo'
  BY ZenonT(60), <1>1, <1>2, <1>3, Sorts DEF EmptyOnesGo, TypeOK
<1>8. LeaversGone'
  BY <1>1, <1>2 DEF LeaversGone, Queued
<1>9. Located'
  BY <1>1, <1>2, Sorts DEF Located, TypeOK
<1>10. OnlinePresent'
  <2>1. ASSUME NEW t \in Players, session[t] = "loggedIn", player'[t], t \notin slain,
               ~Queued(Enter(t))'
        PROVE  t \in players'[gameRoom'[t]]
    <3>1. CASE t = s
      BY <1>1, <1>2, <3>1 DEF TypeOK
    <3>2. CASE t # s
      <4>1. ~Queued(Enter(t))
        BY <1>1, <1>2, <2>1, <3>2, JobsDiffer DEF Queued
      <4>2. player[t] /\ gameRoom'[t] = gameRoom[t]
        BY <1>1, <2>1, <3>2 DEF TypeOK
      <4>3. t \in players[gameRoom[t]] /\ gameRoom[t] \in Rooms
        BY <2>1, <4>1, <4>2 DEF OnlinePresent, TypeOK, Located
      <4>4. QED
        BY <1>1, <4>2, <4>3 DEF TypeOK
    <3>3. QED
      BY <3>1, <3>2
  <2>2. QED
    BY <1>1, <2>1 DEF OnlinePresent
<1>11. QED
  BY <1>1, <1>4, <1>5, <1>6, <1>7, <1>8, <1>9, <1>10
\* A job that is not EnterRoom: the leavers leave the room it runs in, for another, whose
\* id may be the next, or for good.
LEMMA DepartStep ==
  ASSUME IInv, NEW job, Run(job), job \notin Enters,
         NEW leavers \in SUBSET Players,
         players' = [players EXCEPT ![room] = @ \ leavers],
         pending' = pending \cup Release(leavers),
         jobs' \in [Rooms -> Seq(Jobs)],
         \A r \in Rooms :
           /\ Range(jobs[r]) \subseteq Range(jobs'[r])
           /\ Range(jobs'[r]) \subseteq Range(jobs[r]) \cup Enters
           /\ r \in Towns \/ (r = nextInstance /\ r \in instances') \/ jobs'[r] = jobs[r],
         \A s \in leavers : Queued(Enter(s))' \/ session[s] = "closed",
         \/ UNCHANGED <<instances, nextInstance, toVisit>>
         \/ /\ nextInstance \in Dungeons
            /\ instances' = instances \cup {nextInstance}
            /\ nextInstance' = nextInstance + 1
            /\ toVisit \subseteq toVisit' /\ toVisit' \subseteq toVisit \cup {nextInstance},
         IsManager(pm'),
         UNCHANGED <<session, player, gameRoom, room, dungeonLoop, requests, opened, slain>>
  PROVE  IInv'
<1> USE DEF IInv
<1>1. /\ job \in Jobs /\ batch' \in Seq(Jobs)
      /\ Range(batch) = {job} \cup Range(batch')
      /\ room \in Towns \cup instances /\ room \in Rooms
      /\ room \in Dungeons => room \in opened
      /\ \A t \in Players : job # Enter(t) /\ Queued(Enter(t)) =>
           (\E r \in Rooms : Enter(t) \in Range(jobs[r])) \/ Enter(t) \in Range(batch')
  BY Running
<1>2. /\ nextInstance \notin instances /\ nextInstance \notin opened
      /\ nextInstance \in Nat \ {0} /\ room # nextInstance /\ instances \subseteq instances'
  <2>1. nextInstance \in Nat \ {0}
    BY WorldAssumption DEF TypeOK
  <2>2. \A d \in instances \cup opened : d \in Nat /\ d < nextInstance
    BY Sorts DEF Numbered, TypeOK
  <2>3. nextInstance \notin Towns
    BY <2>1 DEF Towns, Town1, Town2
  <2>4. nextInstance \notin instances /\ nextInstance \notin opened
    BY <2>1, <2>2
  <2>5. QED
    BY <1>1, <2>1, <2>3, <2>4
<1>3. pending' \subseteq pending \cup ({room} \cap Dungeons)
  BY DEF Release
<1>4. TypeOK'
  <2>1. pending' \subseteq Dungeons /\ instances' \subseteq Dungeons
    BY <1>3 DEF TypeOK
  <2>2. nextInstance' \in 1..(MaxRequests + 1)
    BY WorldAssumption DEF TypeOK, Dungeons
  <2>3. toVisit' \subseteq Rooms
    BY Sorts DEF TypeOK
  <2>4. players' \in [Rooms -> SUBSET Players]
    BY DEF TypeOK
  <2>5. QED
    BY <1>1, <2>1, <2>2, <2>3, <2>4 DEF TypeOK
<1>5. Numbered'
  <2>1. \A d \in instances' \cup opened' : d < nextInstance'
    <3>1. \A d \in instances \cup opened : d \in Nat /\ d < nextInstance
      BY Sorts DEF Numbered, TypeOK
    <3>2. QED
      BY <1>2, <3>1
  <2>2. pending' \subseteq instances' \cap opened'
    BY <1>1, <1>2, <1>3, Sorts DEF Numbered
  <2>3. /\ room' \in Towns \cup instances' \cup {NoRoom}
        /\ toVisit' \subseteq Towns \cup instances'
        /\ room' # NoRoom
    BY <1>1, <1>2, Sorts DEF Numbered
  <2>4. QED
    BY <2>1, <2>2, <2>3 DEF Numbered
<1>6. EntersFirst'
  <2>1. ASSUME NEW d \in Dungeons \ opened PROVE Unopened(d)'
    <3>1. Unopened(d) /\ d \in Rooms /\ d # room
      BY <1>1, <2>1, Sorts DEF EntersFirst
    <3>2. players'[d] = {}
      BY <3>1 DEF TypeOK, Unopened
    <3>3. Range(jobs'[d]) \subseteq Enters
      BY <3>1 DEF Unopened
    <3>4. Range(jobs'[d]) # {} => d \in instances'
      BY <1>2, <3>1, Sorts DEF Unopened
    <3>5. QED
      BY <3>1, <3>2, <3>3, <3>4 DEF Unopened
  <2>2. ASSUME NEW d \in opened PROVE Range(jobs'[d]) \cap Enters = {}
    <3>1. d \in Dungeons /\ d \in Rooms /\ d \notin Towns /\ d # nextInstance
      BY <1>2, Sorts DEF TypeOK
    <3>2. jobs'[d] = jobs[d]
      BY <3>1
    <3>3. QED
      BY <3>2 DEF EntersFirst
  <2>3. room \in Dungeons => Range(batch') \cap Enters = {}
    BY <1>1 DEF EntersFirst
  <2>4. QED
    BY <2>1, <2>2, <2>3 DEF EntersFirst
<1>7. EmptyOnesGo'
  <2>1. \A d \in Rooms : players'[d] \subseteq players[d] /\ (d # room => players'[d] = players[d])
    BY DEF TypeOK
  <2>2. players'[room] = players[room] \ leavers
    BY <1>1 DEF TypeOK
  <2>3. ASSUME NEW d \in pending' PROVE players'[d] = {}
    <3>1. CASE d \in pending
      BY <2>1, <3>1, Sorts DEF EmptyOnesGo, TypeOK
    <3>2. CASE d \notin pending
      BY <2>2, <3>2 DEF Release
    <3>3. QED
      BY <3>1, <3>2
  <2>4. ASSUME NEW d \in Dungeons \ instances' PROVE players'[d] = {}
    <3>1. d \in Rooms /\ d \notin instances
      BY <1>2, Sorts
    <3>2. QED
      BY <2>1, <3>1 DEF EmptyOnesGo
  <2>5. ASSUME slain = {}, NEW d \in opened \cap instances', players'[d] = {}
        PROVE  d \in pending'
    <3>1. d \in Rooms /\ d \in Dungeons /\ d \in instances
      BY <1>2, Sorts DEF TypeOK
    <3>2. CASE players[d] = {}
      BY <2>5, <3>1, <3>2 DEF EmptyOnesGo
    <3>3. CASE players[d] # {}
      <4>1. d = room /\ leavers # {} /\ players[room] \ leavers = {}
        BY <2>1, <2>2, <2>5, <3>1, <3>3
      <4>2. QED
        BY <3>1, <4>1 DEF Release
    <3>4. QED
      BY <3>2, <3>3
  <2>6. QED
    BY <2>3, <2>4, <2>5 DEF EmptyOnesGo
<1>8. LeaversGone'
  <2>1. ASSUME NEW s \in Players, Queued(Leave(s))' PROVE Queued(Leave(s))
    BY <1>1, <2>1, JobSorts DEF Queued
  <2>2. QED
    BY <2>1 DEF LeaversGone
<1>9. Located'
  BY DEF Located
<1>10. OnlinePresent'
  <2>1. ASSUME NEW t \in Players, session[t] = "loggedIn", player[t], t \notin slain,
               ~Queued(Enter(t))'
        PROVE  t \in players'[gameRoom[t]]
    <3>1. t \notin leavers
      BY <2>1
    <3>2. ~Queued(Enter(t))
      <4>1. Enter(t) # job
        BY JobSorts
      <4>2. QED
        BY <1>1, <2>1, <4>1 DEF Queued
    <3>3. t \in players[gameRoom[t]] /\ gameRoom[t] \in Rooms
      BY <2>1, <3>2 DEF OnlinePresent, TypeOK, Located
    <3>4. QED
      BY <3>1, <3>3 DEF TypeOK
  <2>2. QED
    BY <2>1 DEF OnlinePresent
<1>11. QED
  BY <1>4, <1>5, <1>6, <1>7, <1>8, <1>9, <1>10

\* DepartFor, for the room `to'.
LEMMA DepartForShape ==
  ASSUME TypeOK, NEW q \in Seq(Players), NEW to \in Rooms, DepartFor(q, to)
  PROVE  /\ jobs' \in [Rooms -> Seq(Jobs)]
         /\ \A r \in Rooms :
              /\ Range(jobs[r]) \subseteq Range(jobs'[r])
              /\ Range(jobs'[r]) \subseteq Range(jobs[r]) \cup Enters
              /\ r = to \/ jobs'[r] = jobs[r]
         /\ \A s \in Range(q) : Queued(Enter(s))'
         /\ Range(q) \subseteq Players
<1> DEFINE pushed == [i \in DOMAIN q |-> Enter(q[i])]
<1>1. /\ pushed \in Seq(Jobs) /\ Range(q) \subseteq Players
      /\ Range(pushed) = {Enter(s) : s \in Range(q)}
  BY EntersOf
<1>2. jobs' = [jobs EXCEPT ![to] = @ \o pushed]
  BY DEF DepartFor
<1> HIDE DEF pushed
<1>3. jobs[to] \in Seq(Jobs) /\ jobs'[to] = jobs[to] \o pushed
  BY <1>2 DEF TypeOK
<1>4. jobs'[to] \in Seq(Jobs) /\ Range(jobs'[to]) = Range(jobs[to]) \cup Range(pushed)
  BY <1>1, <1>3, RangeConcat
<1>5. jobs' \in [Rooms -> Seq(Jobs)] /\ \A r \in Rooms : r = to \/ jobs'[r] = jobs[r]
  BY <1>2, <1>3, <1>4 DEF TypeOK
<1>6. Range(pushed) \subseteq Enters
  BY <1>1 DEF Enters
<1>7. \A s \in Range(q) : Enter(s) \in Range(jobs'[to])
  BY <1>1, <1>4
<1>8. QED
  BY <1>1, <1>4, <1>5, <1>6, <1>7 DEF Queued
LEMMA LeaveRoomIInv ==
  ASSUME IInv, NEW s \in Players, LeaveRoom(s)
  PROVE  IInv'
<1>1. /\ Run(Leave(s)) /\ Leave(s) \notin Enters
      /\ IsManager(pm') /\ jobs' = jobs
      /\ UNCHANGED <<instances, nextInstance, toVisit, session, player, gameRoom, room,
                     dungeonLoop, requests, opened, slain>>
  BY JobSorts DEF IInv, LeaveRoom, JobDone
<1>2. session[s] = "closed"
  BY <1>1, Running DEF IInv, LeaversGone, Queued
<1>3. jobs' \in [Rooms -> Seq(Jobs)]
  BY <1>1 DEF IInv, TypeOK
<1>4. PICK leavers \in {{s}, {}} :
         /\ players' = [players EXCEPT ![room] = @ \ leavers]
         /\ pending' = pending \cup Release(leavers)
  <2>1. CASE Depart({s})
    BY <2>1 DEF Depart
  <2>2. CASE UNCHANGED <<players, pending>>
    <3>1. players' = [players EXCEPT ![room] = @ \ {}]
      BY <2>2 DEF IInv, TypeOK
    <3>2. Release({}) = {}
      BY DEF Release
    <3>3. QED
      BY <2>2, <3>1, <3>2
  <2>3. QED
    BY <2>1, <2>2 DEF LeaveRoom
<1>5. leavers \in SUBSET Players /\ \A t \in leavers : session[t] = "closed"
  BY <1>2
<1>6. QED
  BY <1>1, <1>3, <1>4, <1>5, DepartStep

LEMMA ChangeMapToTownIInv ==
  ASSUME IInv, NEW s \in Players, NEW town \in Towns, ChangeMapToTown(s, town)
  PROVE  IInv'
<1> DEFINE job == Job("changeMap", s, town)
<1>1. /\ Run(job) /\ job \notin Enters
      /\ IsManager(pm') /\ town \in Rooms
      /\ UNCHANGED <<instances, nextInstance, toVisit, session, player, gameRoom, room,
                     dungeonLoop, requests, opened, slain>>
  BY JobSorts, Sorts DEF IInv, ChangeMapToTown, JobDone
<1> HIDE DEF job
<1>2. CASE DepartFor(<<s>>, town)
  <2>1. <<s>> \in Seq(Players)
    OBVIOUS
  <2>2. /\ jobs' \in [Rooms -> Seq(Jobs)]
        /\ \A r \in Rooms :
             /\ Range(jobs[r]) \subseteq Range(jobs'[r])
             /\ Range(jobs'[r]) \subseteq Range(jobs[r]) \cup Enters
             /\ r = town \/ jobs'[r] = jobs[r]
        /\ \A t \in Range(<<s>>) : Queued(Enter(t))'
        /\ Range(<<s>>) \subseteq Players
    BY <1>1, <1>2, <2>1, DepartForShape DEF IInv
  <2> DEFINE leavers == Range(<<s>>)
  <2>3. /\ players' = [players EXCEPT ![room] = @ \ leavers]
        /\ pending' = pending \cup Release(leavers)
    BY <1>2 DEF DepartFor, Depart
  <2> HIDE DEF leavers
  <2>4. leavers \in SUBSET Players /\ \A t \in leavers : Queued(Enter(t))'
    BY <2>2 DEF leavers
  <2>5. QED
    BY <1>1, <2>2, <2>3, <2>4, DepartStep
<1>3. CASE UNCHANGED <<players, pending, jobs>>
  <2>1. players' = [players EXCEPT ![room] = @ \ {}]
    BY <1>3 DEF IInv, TypeOK
  <2>2. pending' = pending \cup Release({})
    BY <1>3 DEF Release
  <2>3. jobs' \in [Rooms -> Seq(Jobs)] /\ {} \in SUBSET Players
    BY <1>3 DEF IInv, TypeOK
  <2>4. QED
    BY <1>1, <1>3, <2>1, <2>2, <2>3, DepartStep
<1>4. QED
  BY <1>2, <1>3 DEF ChangeMapToTown

LEMMA ChangeMapToDungeonIInv ==
  ASSUME IInv, NEW s \in Players, ChangeMapToDungeon(s)
  PROVE  IInv'
<1> DEFINE job == Job("changeMap", s, NewDungeon)
           leavers == Range(Movers(s))
<1>1. /\ Run(job) /\ job \notin Enters /\ IsManager(pm) /\ IsManager(pm')
      /\ UNCHANGED <<session, player, gameRoom, room, dungeonLoop, requests, opened, slain>>
  BY JobSorts DEF IInv, ChangeMapToDungeon, JobDone, history
<1> HIDE DEF job
<1>2. CASE MayEnterDungeon(s)
  <2>1. /\ nextInstance \in Dungeons /\ nextInstance \in Rooms
        /\ instances' = instances \cup {nextInstance}
        /\ nextInstance' = nextInstance + 1
        /\ DepartFor(Movers(s), nextInstance)
        /\ toVisit \subseteq toVisit' /\ toVisit' \subseteq toVisit \cup {nextInstance}
    BY <1>2, Sorts DEF ChangeMapToDungeon
  <2>2. Movers(s) \in Seq(Players)
    BY <1>1, MoversArePlayers
  <2>3. /\ jobs' \in [Rooms -> Seq(Jobs)]
        /\ \A r \in Rooms :
             /\ Range(jobs[r]) \subseteq Range(jobs'[r])
             /\ Range(jobs'[r]) \subseteq Range(jobs[r]) \cup Enters
             /\ r = nextInstance \/ jobs'[r] = jobs[r]
        /\ \A t \in leavers : Queued(Enter(t))'
        /\ leavers \in SUBSET Players
    BY <2>1, <2>2, DepartForShape DEF IInv
  <2>4. /\ players' = [players EXCEPT ![room] = @ \ leavers]
        /\ pending' = pending \cup Release(leavers)
    BY <2>1 DEF DepartFor, Depart
  <2> HIDE DEF leavers
  <2>5. nextInstance \in instances'
    BY <2>1
  <2>6. QED
    BY <1>1, <2>1, <2>3, <2>4, <2>5, DepartStep
<1>3. CASE ~MayEnterDungeon(s)
  <2>1. UNCHANGED <<instances, nextInstance, players, pending, jobs, toVisit>>
    BY <1>3 DEF ChangeMapToDungeon
  <2>2. players' = [players EXCEPT ![room] = @ \ {}]
    BY <2>1 DEF IInv, TypeOK
  <2>3. pending' = pending \cup Release({})
    BY <2>1 DEF Release
  <2>4. jobs' \in [Rooms -> Seq(Jobs)] /\ {} \in SUBSET Players
    BY <2>1 DEF IInv, TypeOK
  <2>5. QED
    BY <1>1, <2>1, <2>2, <2>3, <2>4, DepartStep
<1>4. QED
  BY <1>2, <1>3

\* A job that concerns the party only.
LEMMA PartyJobIInv ==
  ASSUME IInv, NEW s \in Players,
         PartyLeave(s) \/ \E inviter \in Players : PartyAnswer(s, inviter)
  PROVE  IInv'
<1>1. PICK job : /\ Run(job) /\ job \notin Enters
                 /\ NothingMoves /\ JobDone /\ IsManager(pm')
  <2>1. CASE PartyLeave(s)
    <3>1. IsManager(pm')
      BY <2>1, RemoveManaged DEF PartyLeave, IInv
    <3>2. QED
      BY <2>1, <3>1, JobSorts DEF PartyLeave
  <2>2. ASSUME NEW inviter \in Players, PartyAnswer(s, inviter)
        PROVE  /\ Run(Job("answer", s, inviter)) /\ Job("answer", s, inviter) \notin Enters
               /\ NothingMoves /\ JobDone /\ IsManager(pm')
    <3> DEFINE own == GetPartyIdByPlayer(pm, inviter)
               id == IF own = NoParty THEN pm.nextId ELSE own
               created == IF own = NoParty THEN CreateParty(pm, inviter) ELSE pm
    <3>1. IsManager(created)
      BY CreateManaged DEF IInv
    <3>2. /\ Run(Job("answer", s, inviter)) /\ NothingMoves /\ JobDone
          /\ pm' = IF ~HasPlayer(s) \/ IsInParty(pm, s) THEN pm
                   ELSE IF CanAdd(created, id, s) THEN AddMember(created, id, s)
                   ELSE created
      BY <2>2 DEF PartyAnswer
    <3> HIDE DEF created, id
    <3>3. CanAdd(created, id, s) => IsManager(AddMember(created, id, s))
      BY <3>1, AddManaged DEF CanAdd, GetParty
    <3>4. IsManager(pm')
      BY <3>1, <3>2, <3>3 DEF IInv
    <3>5. QED
      BY <3>2, <3>4, JobSorts
  <2>3. QED
    BY <2>1, <2>2
<1>2. /\ UNCHANGED <<instances, nextInstance, toVisit, session, player, gameRoom, room,
                     dungeonLoop, requests, opened, slain>>
      /\ UNCHANGED <<players, pending, jobs>>
  BY <1>1 DEF NothingMoves, JobDone, manager
<1>3. players' = [players EXCEPT ![room] = @ \ {}]
  BY <1>2 DEF IInv, TypeOK
<1>4. pending' = pending \cup Release({})
  BY <1>2 DEF Release
<1>5. jobs' \in [Rooms -> Seq(Jobs)] /\ {} \in SUBSET Players
  BY <1>2 DEF IInv, TypeOK
<1>6. QED
  BY <1>1, <1>2, <1>3, <1>4, <1>5, DepartStep

LEMMA AttackIInv ==
  ASSUME IInv, NEW s \in Players, Attack(s)
  PROVE  IInv'
<1> USE DEF IInv
<1> DEFINE job == Job("attack", s, NoRoom)
<1>1. PICK victims \in SUBSET players[room] :
        /\ players' = [players EXCEPT ![room] = @ \ victims]
        /\ slain' = slain \cup victims
  BY DEF Attack
<1>2. /\ Run(job) /\ job \notin Enters
      /\ UNCHANGED <<player, gameRoom, jobs, instances, nextInstance, pending, pm, opened,
                     session, room, toVisit, dungeonLoop, requests>>
  BY JobSorts DEF Attack, JobDone, manager
<1> HIDE DEF job
<1>3. /\ batch' \in Seq(Jobs)
      /\ Range(batch) = {job} \cup Range(batch')
      /\ room \in Towns \cup instances /\ room \in Rooms
      /\ room \in Dungeons => room \in opened
  BY <1>2, Running
<1>4. /\ \A r \in Rooms : players'[r] \subseteq players[r]
      /\ victims \subseteq Players
      /\ slain' = {} => players' = players
      /\ \A r \in Rooms : \A t \in players[r] : t \in players'[r] \/ t \in slain'
  BY <1>1, <1>3 DEF TypeOK
<1>5. TypeOK'
  BY <1>1, <1>2, <1>3, <1>4 DEF TypeOK
<1>6. Numbered'
  BY <1>2, <1>3, Sorts DEF Numbered
<1>7. EntersFirst'
  <2>1. ASSUME NEW d \in Dungeons \ opened PROVE Unopened(d)'
    <3>1. Unopened(d) /\ d \in Rooms
      BY Sorts DEF EntersFirst
    <3>2. players'[d] = {} /\ Range(batch') \subseteq Range(batch)
      BY <1>3, <1>4, <3>1 DEF Unopened
    <3>3. QED
      BY <1>2, <3>1, <3>2 DEF Unopened
  <2>2. QED
    BY <1>2, <1>3, <2>1 DEF EntersFirst
<1>8. EmptyOnesGo'
  <2>1. \A d \in Rooms : players[d] = {} => players'[d] = {}
    BY <1>4
  <2>2. slain' = {} => slain = {} /\ players' = players
    BY <1>1, <1>4
  <2>3. QED
    BY <1>2, <2>1, <2>2, Sorts DEF EmptyOnesGo, TypeOK
<1>9. LeaversGone' /\ Located'
  BY <1>2, <1>3 DEF LeaversGone, Located, Queued
<1>10. OnlinePresent'
  <2>1. ASSUME NEW t \in Players, session[t] = "loggedIn", player[t], t \notin slain',
               ~Queued(Enter(t))'
        PROVE  t \in players'[gameRoom[t]]
    <3>1. Enter(t) # job
      BY <1>2, JobSorts
    <3>2. ~Queued(Enter(t)) /\ t \notin slain
      BY <1>1, <1>2, <1>3, <2>1, <3>1 DEF Queued
    <3>3. t \in players[gameRoom[t]] /\ gameRoom[t] \in Rooms
      BY <2>1, <3>2 DEF OnlinePresent, TypeOK, Located
    <3>4. QED
      BY <1>4, <2>1, <3>3
  <2>2. QED
    BY <1>2, <2>1 DEF OnlinePresent
<1>11. QED
  BY <1>2, <1>5, <1>6, <1>7, <1>8, <1>9, <1>10
-----------------------------------------------------------------------------
(* The workers, and the game thread between jobs *)

\* A session's room, when it has one, is the town or a dungeon that was entered.
LEMMA RoomsWereEntered ==
  ASSUME IInv, NEW s \in Players, gameRoom[s] # NoRoom
  PROVE  gameRoom[s] \in Towns \/ gameRoom[s] \in opened
BY Sorts DEF IInv, TypeOK, EntersFirst, Unopened

LEMMA LoginIInv ==
  ASSUME IInv, NEW s \in Players, Login(s)
  PROVE  IInv'
<1>1. /\ session[s] = "connected"
      /\ session' = [session EXCEPT ![s] = "loggedIn"]
      /\ jobs' = Push(jobs, Town1, Enter(s))
      /\ UNCHANGED <<player, gameRoom, players, manager, thread, pm, requests, opened, slain>>
  BY DEF Login, history
<1>2. Enter(s) \in Jobs /\ Town1 \in Towns /\ Town1 \in Rooms /\ Live(Town1)
  BY JobSorts, Sorts DEF Live
<1>3. \A o \in Rooms :
        Range(jobs'[o]) = Range(jobs[o]) \cup IF o = Town1 /\ Live(Town1) THEN {Enter(s)} ELSE {}
  BY <1>1, <1>2, PushShape DEF IInv
<1>4. Queued(Enter(s))'
  BY <1>2, <1>3 DEF Queued
<1>5. /\ session' \in [Players -> {"connected", "loggedIn", "saving", "closing", "closed"}]
      /\ \A t \in Players : session[t] = "closed" => session'[t] = "closed"
      /\ \A t \in Players : session'[t] = "loggedIn" => session[t] = "loggedIn" \/ t = s
  BY <1>1 DEF IInv, TypeOK
<1>6. \A t \in Players : session'[t] = "loggedIn" =>
        session[t] = "loggedIn" \/ ~player[t] \/ Queued(Enter(t))'
  BY <1>4, <1>5
<1>7. \A t \in Players : Enter(s) # Leave(t)
  BY JobSorts
<1>8. IsManager(pm)'
  BY <1>1 DEF IInv
<1>9. QED
  BY <1>1, <1>2, <1>5, <1>6, <1>7, <1>8, WorkerStep

LEMMA RequestIInv ==
  ASSUME IInv, NEW s \in Players, NEW op, NEW arg, Request(s, op, arg),
         Job(op, s, arg) \in Jobs \ Enters, op # "leave"
  PROVE  IInv'
<1> DEFINE j == Job(op, s, arg)
<1>1. /\ gameRoom[s] # NoRoom
      /\ jobs' = Push(jobs, gameRoom[s], j)
      /\ UNCHANGED <<session, player, gameRoom, players, manager, thread, pm, opened, slain>>
  BY DEF Request
<1>2. \A t \in Players : j # Leave(t)
  BY DEF Leave, Job
<1> HIDE DEF j
<1>3. gameRoom[s] \in Towns \/ gameRoom[s] \in opened
  BY <1>1, RoomsWereEntered
<1>4. /\ session' \in [Players -> {"connected", "loggedIn", "saving", "closing", "closed"}]
      /\ IsManager(pm)'
  BY <1>1 DEF IInv, TypeOK
<1>5. j \in Jobs /\ j \notin Enters
  BY DEF j
<1>6. QED
  BY <1>1, <1>2, <1>3, <1>4, <1>5, WorkerStep

LEMMA DisconnectIInv ==
  ASSUME IInv, NEW s \in Players, Disconnect(s)
  PROVE  IInv'
<1>1. /\ session[s] \in {"connected", "loggedIn"}
      /\ session' = [session EXCEPT ![s] = IF HasPlayer(s) THEN "saving" ELSE "closing"]
      /\ UNCHANGED <<player, gameRoom, players, jobs, manager, thread, requests, opened, slain>>
  BY DEF Disconnect, history
<1>2. IsManager(pm)'
  BY RemoveManaged DEF IInv, Disconnect
<1>3. /\ session' \in [Players -> {"connected", "loggedIn", "saving", "closing", "closed"}]
      /\ \A t \in Players : session[t] = "closed" => session'[t] = "closed"
      /\ \A t \in Players : session'[t] = "loggedIn" => session[t] = "loggedIn"
  BY <1>1 DEF IInv, TypeOK
<1>4. Enter(s) \in Jobs /\ \A t \in Players : Enter(s) # Leave(t)
  BY JobSorts
<1>5. QED
  BY <1>1, <1>2, <1>3, <1>4, WorkerStep

LEMMA QueueLeaveIInv ==
  ASSUME IInv, NEW s \in Players, QueueLeave(s)
  PROVE  IInv'
<1>1. /\ session' = [session EXCEPT ![s] = "closed"]
      /\ jobs' = IF gameRoom[s] # NoRoom THEN Push(jobs, gameRoom[s], Leave(s)) ELSE jobs
      /\ UNCHANGED <<player, gameRoom, players, manager, thread, pm, requests, opened, slain>>
  BY DEF QueueLeave, history
<1>2. /\ session' \in [Players -> {"connected", "loggedIn", "saving", "closing", "closed"}]
      /\ \A t \in Players : session[t] = "closed" => session'[t] = "closed"
      /\ \A t \in Players : session'[t] = "loggedIn" => session[t] = "loggedIn"
      /\ session'[s] = "closed"
  BY <1>1 DEF IInv, TypeOK
<1>3. Leave(s) \in Jobs /\ Leave(s) \notin Enters /\ \A t \in Players : Leave(s) = Leave(t) => s = t
  BY JobSorts, JobsDiffer
<1>4. jobs' = Push(jobs, gameRoom[s], Leave(s)) \/ jobs' = jobs
  BY <1>1
<1>5. jobs' # jobs => gameRoom[s] \in Towns \/ gameRoom[s] \in opened
  BY <1>1, RoomsWereEntered
<1>6. IsManager(pm)'
  BY <1>1 DEF IInv
<1>7. QED
  BY <1>1, <1>2, <1>3, <1>4, <1>5, <1>6, WorkerStep

LEMMA ClientIInv ==
  ASSUME IInv, NEW s \in Players, ClientStep(s)
  PROVE  IInv'
<1>1. CASE RequestChangeMap(s)
  <2>1. PICK to \in Towns \cup {NewDungeon} : Request(s, "changeMap", to)
    BY <1>1 DEF RequestChangeMap
  <2>2. QED
    BY <2>1, JobSorts, RequestIInv
<1>2. CASE RequestAttack(s)
  BY <1>2, JobSorts, RequestIInv DEF RequestAttack
<1>3. CASE RequestPartyAnswer(s)
  <2>1. PICK inviter \in Players : Request(s, "answer", inviter)
    BY <1>3 DEF RequestPartyAnswer
  <2>2. QED
    BY <2>1, JobSorts, RequestIInv
<1>4. CASE RequestPartyLeave(s)
  BY <1>4, JobSorts, RequestIInv DEF RequestPartyLeave
<1>5. QED
  BY <1>1, <1>2, <1>3, <1>4, LoginIInv, DisconnectIInv DEF ClientStep

LEMMA VisitIInv ==
  ASSUME IInv, NEW r \in Rooms, Visit(r)
  PROVE  IInv'
<1> USE DEF IInv
<1>1. /\ batch = <<>> /\ r \in toVisit
      /\ room' = r
      /\ batch' = jobs[r]
      /\ jobs' = [jobs EXCEPT ![r] = <<>>]
      /\ toVisit' = toVisit \ {r}
      /\ UNCHANGED <<session, player, gameRoom, players, instances, nextInstance, pending,
                     dungeonLoop, pm, requests, opened, slain>>
  BY DEF Visit, manager, history
<1>2. r \in Towns \cup instances /\ jobs[r] \in Seq(Jobs) /\ r # NoRoom
  BY <1>1, Sorts DEF Numbered, TypeOK
<1>3. /\ jobs' \in [Rooms -> Seq(Jobs)]
      /\ Range(jobs'[r]) = {}
      /\ \A o \in Rooms : o # r => jobs'[o] = jobs[o]
  BY <1>1, RangeEmpty DEF TypeOK
<1>4. Range(batch) = {}
  BY <1>1, RangeEmpty
<1>5. \A j : Queued(j)' <=> Queued(j)
  BY <1>1, <1>3, <1>4 DEF Queued
<1>6. TypeOK'
  BY <1>1, <1>2, <1>3 DEF TypeOK
<1>7. Numbered'
  BY <1>1, <1>2 DEF Numbered
<1>8. EntersFirst'
  <2>1. ASSUME NEW d \in Dungeons \ opened PROVE Unopened(d)'
    <3>1. Unopened(d) /\ d \in Rooms
      BY Sorts DEF EntersFirst
    <3>2. CASE d = r
      BY <1>1, <1>2, <1>3, <3>1, <3>2 DEF Unopened
    <3>3. CASE d # r
      BY <1>1, <1>3, <3>1, <3>3 DEF Unopened
    <3>4. QED
      BY <3>2, <3>3
  <2>2. ASSUME NEW d \in opened PROVE Range(jobs'[d]) \cap Enters = {}
    BY <1>3, Sorts DEF EntersFirst, TypeOK
  <2>3. ASSUME r \in Dungeons, Range(batch') \cap Enters # {}
        PROVE  Range(batch') \subseteq Enters /\ r \notin pending
    <3>1. r \notin opened
      BY <1>1, <2>3 DEF EntersFirst
    <3>2. QED
      BY <1>1, <2>3, <3>1 DEF EntersFirst, Unopened, Numbered
  <2>4. QED
    BY <1>1, <2>1, <2>2, <2>3 DEF EntersFirst
<1>9. EmptyOnesGo'
  BY <1>1 DEF EmptyOnesGo
<1>10. LeaversGone' /\ Located'
  BY <1>1, <1>5 DEF LeaversGone, Located
<1>11. OnlinePresent'
  BY <1>1, <1>5 DEF OnlinePresent
<1>12. QED
  BY <1>1, <1>6, <1>7, <1>8, <1>9, <1>10, <1>11

LEMMA BeginDungeonLoopIInv ==
  ASSUME IInv, BeginDungeonLoop
  PROVE  IInv'
<1> USE DEF IInv
<1>1. /\ dungeonLoop' = TRUE /\ toVisit' = instances
      /\ UNCHANGED <<session, player, gameRoom, players, jobs, instances, nextInstance, pending,
                     room, batch, pm, requests, opened, slain>>
  BY DEF BeginDungeonLoop, manager, history
<1>2. TypeOK'
  BY <1>1, Sorts DEF TypeOK
<1>3. Numbered' /\ EmptyOnesGo' /\ Located'
  BY <1>1 DEF Numbered, EmptyOnesGo, Located
<1>4. EntersFirst'
  BY <1>1 DEF EntersFirst, Unopened
<1>5. LeaversGone' /\ OnlinePresent'
  BY <1>1 DEF LeaversGone, OnlinePresent, Queued
<1>6. QED
  BY <1>1, <1>2, <1>3, <1>4, <1>5

LEMMA EndUpdateIInv ==
  ASSUME IInv, EndUpdate
  PROVE  IInv'
<1> USE DEF IInv
<1>1. /\ instances' = instances \ pending /\ pending' = {}
      /\ dungeonLoop' = FALSE /\ toVisit' = Towns /\ room' = NoRoom /\ batch = <<>>
      /\ UNCHANGED <<session, player, gameRoom, players, jobs, nextInstance, batch, pm,
                     requests, opened, slain>>
  BY DEF EndUpdate, history
<1>2. TypeOK'
  BY <1>1, Sorts DEF TypeOK
<1>3. Numbered'
  BY <1>1, Sorts DEF Numbered
<1>4. EntersFirst'
  <2>1. ASSUME NEW d \in Dungeons \ opened PROVE Unopened(d)'
    <3>1. Unopened(d) /\ d \notin pending /\ d # NoRoom
      BY Sorts DEF EntersFirst, Numbered
    <3>2. QED
      BY <1>1, <3>1 DEF Unopened
  <2>2. room' \notin Dungeons
    BY <1>1, Sorts
  <2>3. QED
    BY <1>1, <2>1, <2>2 DEF EntersFirst
<1>5. EmptyOnesGo' /\ Located'
  BY <1>1 DEF EmptyOnesGo, Located
<1>6. LeaversGone' /\ OnlinePresent'
  BY <1>1 DEF LeaversGone, OnlinePresent, Queued
<1>7. QED
  BY <1>1, <1>2, <1>3, <1>4, <1>5, <1>6

-----------------------------------------------------------------------------
(* The theorems *)

LEMMA InitIInv == Init => IInv
<1> SUFFICES ASSUME Init PROVE IInv
  OBVIOUS
<1> USE DEF Init
<1>1. TypeOK
  <2>1. jobs \in [Rooms -> Seq(Jobs)] /\ batch \in Seq(Jobs)
    BY RangeEmpty
  <2>2. nextInstance \in 1..(MaxRequests + 1)
    BY WorldAssumption
  <2>3. players \in [Rooms -> SUBSET Players] /\ gameRoom \in [Players -> Rooms \cup {NoRoom}]
    OBVIOUS
  <2>4. room \in Rooms \cup {NoRoom} /\ toVisit \subseteq Rooms
    BY Sorts
  <2>5. QED
    BY <2>1, <2>2, <2>3, <2>4 DEF TypeOK
<1>2. IsManager(pm)
  BY InitialManaged
<1>3. Numbered
  BY DEF Numbered
<1>4. \A r \in Rooms : Range(jobs[r]) = {}
  BY RangeEmpty
<1>5. EntersFirst
  BY <1>4, RangeEmpty, Sorts DEF EntersFirst, Unopened
<1>6. EmptyOnesGo
  BY Sorts DEF EmptyOnesGo
<1>7. LeaversGone
  BY <1>4, RangeEmpty DEF LeaversGone, Queued
<1>8. Located /\ OnlinePresent
  BY DEF Located, OnlinePresent
<1>9. QED
  BY <1>1, <1>2, <1>3, <1>5, <1>6, <1>7, <1>8 DEF IInv

LEMMA StutterIInv ==
  ASSUME IInv, UNCHANGED vars
  PROVE  IInv'
<1>1. UNCHANGED <<session, player, gameRoom, players, jobs, instances, nextInstance, pending,
                  room, batch, toVisit, dungeonLoop, pm, requests, opened, slain>>
  BY DEF vars, manager, thread, history
<1>2. TypeOK' /\ Numbered' /\ EmptyOnesGo' /\ Located'
  BY <1>1 DEF IInv, TypeOK, Numbered, EmptyOnesGo, Located
<1>3. EntersFirst'
  BY <1>1 DEF IInv, EntersFirst, Unopened
<1>4. LeaversGone' /\ OnlinePresent'
  BY <1>1 DEF IInv, LeaversGone, OnlinePresent, Queued
<1>5. QED
  BY <1>1, <1>2, <1>3, <1>4 DEF IInv

LEMMA StepIInv == IInv /\ [Next]_vars => IInv'
<1> SUFFICES ASSUME IInv, [Next]_vars PROVE IInv'
  OBVIOUS
<1>1. ASSUME NEW s \in Players, RunJob(s) PROVE IInv'
  BY <1>1, EnterRoomIInv, LeaveRoomIInv, AttackIInv, PartyJobIInv, ChangeMapToTownIInv,
     ChangeMapToDungeonIInv DEF RunJob
<1>2. CASE GameStep
  BY <1>1, <1>2, VisitIInv, BeginDungeonLoopIInv, EndUpdateIInv DEF GameStep
<1>3. QED
  BY <1>2, ClientIInv, QueueLeaveIInv, StutterIInv DEF Next

LEMMA WorldInvariant == Spec => []IInv
BY InitIInv, StepIInv, PTL DEF Spec

\* GameRoomManager::Update removes a dungeon only when nobody is in it and nobody is on
\* the way into it: no player is ever in, or queued for, a room that no tick reaches.
THEOREM NobodyIsStranded == Spec => []NobodyStranded
<1>1. IInv => NobodyStranded
  <2> SUFFICES ASSUME IInv, NEW d \in Dungeons, d \notin instances
               PROVE  players[d] = {} /\ \A s \in Players : Enter(s) \notin Range(jobs[d])
    BY DEF NobodyStranded, IInv, Live
  <2>1. players[d] = {}
    BY DEF IInv, EmptyOnesGo
  <2>2. CASE d \in opened
    BY <2>1, <2>2, JobSorts DEF IInv, EntersFirst
  <2>3. CASE d \notin opened
    BY <2>1, <2>3 DEF IInv, EntersFirst, Unopened
  <2>4. QED
    BY <2>2, <2>3
<1>2. QED
  BY <1>1, WorldInvariant, PTL

\* A player that is online, not slain and not between two rooms is in the room that its
\* session's packets are queued for (EnterRoom sets both; every LeaveRoom of a move is
\* paired with a pushed EnterRoom).
THEOREM OnlineArePresent == Spec => []OnlinePresent
<1>1. IInv => OnlinePresent
  BY DEF IInv
<1>2. QED
  BY <1>1, WorldInvariant, PTL

\* A dungeon whose last player left by LeaveRoom is gone after the Update in which that
\* happened (_pendingRemoveDungeon).
THEOREM LeftDungeonsGo == Spec => []LeftDungeonRemoved
<1>1. IInv => LeftDungeonRemoved
  BY DEF IInv, LeftDungeonRemoved, Deserted, EmptyOnesGo, Numbered
<1>2. QED
  BY <1>1, WorldInvariant, PTL
=============================================================================
