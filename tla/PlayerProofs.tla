----------------------------- MODULE PlayerProofs -----------------------------
(***************************************************************************)
(* Proofs about a player's items, statistics, experience and saved data,    *)
(* for every inventory size, item table, level table and number of events.  *)
(***************************************************************************)
EXTENDS PlayerItems, FiniteSetTheorems, WellFoundedInduction, TLAPS

-----------------------------------------------------------------------------
(* Counting what slots hold *)

\* How many of the item a slot holds.
Of(slot, it) == IF slot.item = it THEN slot.count ELSE 0

\* One pair for each of the item in the slots of D, as CountIn has them.
Pieces(D, slots, it) ==
  {p \in {d \in D : slots[d].item = it} \X (1..ItemTemplate[it].maxStack) :
     p[2] <= slots[p[1]].count}

\* CountIn counts the pieces in the inventory and those worn.
LEMMA CountInPieces ==
  ASSUME NEW data, NEW it
  PROVE  CountIn(data, it) = Cardinality(Pieces(Slots, data.storage, it))
                               + Cardinality(Pieces(Types, data.equipped, it))
BY DEF CountIn, Pieces

\* No slot counts more of the item than a stack.
WithinStacks(D, slots, it) ==
  /\ slots \in [D -> InventorySlot]
  /\ \A d \in D : Of(slots[d], it) <= ItemTemplate[it].maxStack

\* The pieces in the other slots than i.
Elsewhere(D, slots, it, i) == {p \in Pieces(D, slots, it) : p[1] # i}

\* Setting one slot aside, the pieces are those of the others and what it holds.
LEMMA PiecesSplit ==
  ASSUME NEW D, IsFiniteSet(D), NEW slots, NEW it \in Items, NEW i \in D,
         WithinStacks(D, slots, it)
  PROVE  /\ Cardinality(Elsewhere(D, slots, it, i)) \in Nat
         /\ Cardinality(Pieces(D, slots, it))
              = Cardinality(Elsewhere(D, slots, it, i)) + Of(slots[i], it)
<1> DEFINE most == ItemTemplate[it].maxStack
           all == Pieces(D, slots, it)
           others == Elsewhere(D, slots, it, i)
           here == {p \in all : p[1] = i}
           n == Of(slots[i], it)
<1>1. most \in Nat /\ n \in 0..most
  BY PlayerAssumption DEF WithinStacks, Of, InventorySlot
<1>2. IsFiniteSet(all)
  <2>1. IsFiniteSet(D \X (1..most))
    <3>1. \A k \in Nat : IsFiniteSet(1..k)
      BY FS_Interval
    <3>2. IsFiniteSet(1..most)
      BY <1>1, <3>1
    <3>3. QED
      BY <3>2, FS_Product
  <2>2. all \in SUBSET (D \X (1..most))
    BY DEF Pieces
  <2>3. QED
    BY <2>1, <2>2, FS_Subset
<1>3. IsFiniteSet(others) /\ IsFiniteSet(here)
  BY <1>2, FS_Subset DEF Elsewhere
<1>4. all = others \cup here /\ others \cap here = {}
  BY DEF Elsewhere
<1>5. Cardinality(all) = Cardinality(others) + Cardinality(here)
  <2> HIDE DEF all, others, here
  <2>1. Cardinality(all) = Cardinality(others) + Cardinality(here) - 0
    BY <1>3, <1>4, FS_Union, FS_EmptySet
  <2>2. QED
    BY <2>1, <1>3, FS_CardinalityType
<1>6. Cardinality(here) = n
  <2> DEFINE f == [m \in 1..n |-> <<i, m>>]
  <2>1. ASSUME NEW m \in 1..n PROVE <<i, m>> \in here
    BY <1>1 DEF Pieces, Of
  <2>2. ASSUME NEW p \in here PROVE \E m \in 1..n : p = <<i, m>>
    BY <1>1 DEF Pieces, Of
  <2>3. f \in Bijection(1..n, here)
    <3> HIDE DEF here
    <3>1. f \in [1..n -> here] /\ \A m \in 1..n : f[m] = <<i, m>>
      BY <2>1
    <3>2. \A a, b \in 1..n : <<i, a>> = <<i, b>> => a = b
      OBVIOUS
    <3> HIDE DEF f, n
    <3>3. \A p \in here : \E m \in 1..n : f[m] = p
      BY <2>2, <3>1
    <3>4. f \in Injection(1..n, here)
      BY <3>1, <3>2 DEF Injection, IsInjective
    <3>5. f \in Surjection(1..n, here)
      BY <3>1, <3>3 DEF Surjection
    <3>6. QED
      BY <3>4, <3>5 DEF Bijection
  <2>4. QED
    BY <1>1, <2>3, FS_CountingElements DEF ExistsBijection
<1>7. QED
  BY <1>3, <1>5, <1>6, FS_CardinalityType

\* Changing one slot changes the count by what it holds now less what it held.
LEMMA PiecesChange ==
  ASSUME NEW D, IsFiniteSet(D), NEW old, NEW new, NEW it \in Items, NEW i \in D,
         WithinStacks(D, old, it), WithinStacks(D, new, it),
         \A d \in D \ {i} : new[d] = old[d]
  PROVE  Cardinality(Pieces(D, new, it))
           = Cardinality(Pieces(D, old, it)) - Of(old[i], it) + Of(new[i], it)
<1>1. Elsewhere(D, old, it, i) = Elsewhere(D, new, it, i)
  BY DEF Pieces, Elsewhere
<1>2. Of(old[i], it) \in Nat /\ Of(new[i], it) \in Nat
  BY DEF WithinStacks, Of, InventorySlot
<1>3. /\ Cardinality(Elsewhere(D, old, it, i)) \in Nat
      /\ Cardinality(Pieces(D, old, it)) = Cardinality(Elsewhere(D, old, it, i)) + Of(old[i], it)
      /\ Cardinality(Pieces(D, new, it)) = Cardinality(Elsewhere(D, new, it, i)) + Of(new[i], it)
  BY PiecesSplit
<1>4. QED
  BY <1>1, <1>2, <1>3

\* Nothing anywhere counts as nothing.
LEMMA PiecesEmpty ==
  ASSUME NEW D, NEW slots, NEW it, \A d \in D : slots[d].item # it
  PROVE  Cardinality(Pieces(D, slots, it)) = 0
<1>1. Pieces(D, slots, it) = {}
  BY DEF Pieces
<1>2. QED
  BY <1>1, FS_EmptySet

\* A count is a number, not less than what one slot holds.
LEMMA PiecesNumber ==
  ASSUME NEW D, IsFiniteSet(D), NEW slots, NEW it \in Items, NEW i \in D,
         WithinStacks(D, slots, it)
  PROVE  /\ Cardinality(Pieces(D, slots, it)) \in Nat
         /\ Of(slots[i], it) <= Cardinality(Pieces(D, slots, it))
<1>1. Of(slots[i], it) \in Nat
  BY DEF WithinStacks, Of, InventorySlot
<1>2. QED
  BY <1>1, PiecesSplit

LEMMA SlotsFinite == IsFiniteSet(Slots) /\ IsFiniteSet(Types)
<1>1. IsFiniteSet(Slots)
  BY PlayerAssumption, FS_Interval DEF Slots
<1>2. IsFiniteSet({"weapon", "armor"} \cup {"consumable"})
  <2>1. IsFiniteSet({"weapon"} \cup {"armor"})
    BY FS_Singleton, FS_AddElement
  <2>2. {"weapon"} \cup {"armor"} = {"weapon", "armor"}
    OBVIOUS
  <2>3. QED
    BY <2>1, <2>2, FS_AddElement
<1>3. Types = {"weapon", "armor"} \cup {"consumable"}
  BY DEF Types
<1>4. QED
  BY <1>1, <1>2, <1>3

-----------------------------------------------------------------------------
(* The inductive invariants *)

\* In single and in multi mode.
IInv == SlotsSound /\ StatsAgree /\ ItemsConserved

\* What ToSaveData has copied is what the player has.
CopiedSoFar ==
  /\ cursor > 0 => snapshot.level = level
  /\ cursor > 1 => snapshot.exp = exp
  /\ cursor > 2 => snapshot.hp = stats.hp
  /\ \A i \in Slots : cursor > 3 + i => snapshot.storage[i] = storage[i]
  /\ \A j \in 1..3 :
       cursor > 2 + InventorySize + j =>
         snapshot.equipped[EquipOrder[j]] = equipped[EquipOrder[j]]

\* In single mode the player stands still while it is copied, between two jobs or
\* after a turn of GainExp's loop.
SingleInv ==
  /\ ExpShortOfNext
  /\ SavedWasHeld
  /\ session # "saving" => cursor = 0
  /\ session = "saving" => /\ Persistent \in had /\ CopiedSoFar
                           /\ \/ cut
                              \/ ~gaining
                              \/ ~LevelUpDue

-----------------------------------------------------------------------------
(* Lemmas on the state *)

StatsRecord == [hp : Nat, maxHp : Nat, attack : Nat, defence : Nat]

\* What a player has is typed exactly when its parts are.
LEMMA PersistentParts ==
  /\ Persistent \in SaveData <=>
       /\ level \in Levels /\ exp \in Nat /\ stats.hp \in Nat
       /\ storage \in [Slots -> InventorySlot] /\ equipped \in [Types -> InventorySlot]
  /\ Persistent.level = level /\ Persistent.exp = exp /\ Persistent.hp = stats.hp
  /\ Persistent.storage = storage /\ Persistent.equipped = equipped
BY DEF Persistent, SaveData

\* Sound slots are within their stacks.
LEMMA SoundWithinStacks ==
  ASSUME NEW data \in SaveData, SoundItems(data), NEW it \in Items
  PROVE  /\ WithinStacks(Slots, data.storage, it)
         /\ WithinStacks(Types, data.equipped, it)
BY PlayerAssumption DEF SaveData, SoundItems, SoundSlot, WithinStacks, Of, InventorySlot

\* Changing one slot of the inventory and one that is worn changes the count by the
\* difference of what they hold.
LEMMA CountChange ==
  ASSUME NEW old \in SaveData, NEW new \in SaveData, SoundItems(old), SoundItems(new),
         NEW it \in Items, NEW i \in Slots, NEW t \in Types,
         \A j \in Slots \ {i} : new.storage[j] = old.storage[j],
         \A u \in Types \ {t} : new.equipped[u] = old.equipped[u]
  PROVE  /\ CountIn(new, it) = CountIn(old, it)
                                 - Of(old.storage[i], it) + Of(new.storage[i], it)
                                 - Of(old.equipped[t], it) + Of(new.equipped[t], it)
         /\ CountIn(new, it) \in Nat /\ CountIn(old, it) \in Nat
         /\ Of(old.storage[i], it) + Of(old.equipped[t], it) <= CountIn(old, it)
<1> DEFINE s(d) == Cardinality(Pieces(Slots, d.storage, it))
           w(d) == Cardinality(Pieces(Types, d.equipped, it))
<1>1. CountIn(new, it) = s(new) + w(new) /\ CountIn(old, it) = s(old) + w(old)
  BY CountInPieces
<1>2. /\ WithinStacks(Slots, old.storage, it) /\ WithinStacks(Types, old.equipped, it)
      /\ WithinStacks(Slots, new.storage, it) /\ WithinStacks(Types, new.equipped, it)
  BY SoundWithinStacks
<1>3. /\ s(new) = s(old) - Of(old.storage[i], it) + Of(new.storage[i], it)
      /\ w(new) = w(old) - Of(old.equipped[t], it) + Of(new.equipped[t], it)
  BY <1>2, SlotsFinite, PiecesChange
<1>4. /\ s(new) \in Nat /\ w(new) \in Nat /\ s(old) \in Nat /\ w(old) \in Nat
      /\ Of(old.storage[i], it) <= s(old) /\ Of(old.equipped[t], it) <= w(old)
  BY <1>2, SlotsFinite, PiecesNumber
<1>5. /\ Of(old.storage[i], it) \in Nat /\ Of(old.equipped[t], it) \in Nat
      /\ Of(new.storage[i], it) \in Nat /\ Of(new.equipped[t], it) \in Nat
  BY DEF SaveData, InventorySlot, Of
<1> HIDE DEF s, w
<1>6. QED
  BY <1>1, <1>3, <1>4, <1>5

\* Equal slots, equal counts.
LEMMA CountSame ==
  ASSUME NEW old, NEW new, NEW it,
         new.storage = old.storage, new.equipped = old.equipped
  PROVE  CountIn(new, it) = CountIn(old, it)
BY DEF CountIn

\* Least of a set of slots is one of them.
LEMMA LeastIsMember ==
  ASSUME NEW S \in SUBSET Slots, S # {}
  PROVE  Least(S) \in S
<1>1. S \subseteq Nat
  BY DEF Slots
<1>2. PICK n \in S : \A m \in S : n <= m
  <2> DEFINE R == OpToRel(<, Nat)
  <2>1. \E n \in S : \A m \in S : <<m, n>> \notin R
    <3> HIDE DEF R
    <3>1. IsWellFoundedOn(R, Nat)
      BY NatLessThanWellFounded DEF R
    <3>2. QED
      BY <1>1, <3>1, WFMin
  <2>2. \A m, n \in Nat : m < n => <<m, n>> \in R
    BY DEF OpToRel
  <2> HIDE DEF R
  <2>3. PICK n \in S : \A m \in S : <<m, n>> \notin R
    BY <2>1
  <2>4. ASSUME NEW m \in S PROVE n <= m
    <3>1. m \in Nat /\ n \in Nat /\ ~(m < n)
      BY <1>1, <2>2, <2>3
    <3>2. QED
      BY <3>1
  <2>5. QED
    BY <2>4
<1>3. QED
  BY <1>2 DEF Least

\* What RecalcStats leaves alone and what it sets.
LEMMA RecalcParts ==
  ASSUME NEW s \in StatsRecord, NEW l \in Levels, NEW worn \in [Types -> InventorySlot]
  PROVE  LET r == RecalcStats(s, l, worn)
         IN  /\ r \in StatsRecord
             /\ r.hp = s.hp /\ r.maxHp = s.maxHp
             /\ r.attack = LevelData[l].attack + Value(worn["weapon"])
             /\ r.defence = LevelData[l].defence + Value(worn["armor"])
<1>1. Value(worn["weapon"]) \in Nat /\ Value(worn["armor"]) \in Nat
  BY PlayerAssumption DEF Value, InventorySlot, Types
<1>2. LevelData[l].attack \in Nat /\ LevelData[l].defence \in Nat
  BY PlayerAssumption
<1>3. QED
  <2> DEFINE a == LevelData[l].attack + Value(worn["weapon"])
             d == LevelData[l].defence + Value(worn["armor"])
             r == RecalcStats(s, l, worn)
  <2>1. a \in Nat /\ d \in Nat
    BY <1>1, <1>2
  <2>2. r = [s EXCEPT !.attack = a, !.defence = d]
    BY DEF RecalcStats
  <2> HIDE DEF a, d, r
  <2>3. /\ r \in StatsRecord
        /\ r.hp = s.hp /\ r.maxHp = s.maxHp /\ r.attack = a /\ r.defence = d
    BY <2>1, <2>2 DEF StatsRecord
  <2>4. QED
    BY <2>3 DEF a, d, r

\* Statistics agree when each does.
LEMMA StatsAgreeParts ==
  ASSUME NEW s \in StatsRecord, NEW l \in Levels, NEW worn \in [Types -> InventorySlot],
         s.attack = LevelData[l].attack + Value(worn["weapon"]),
         s.defence = LevelData[l].defence + Value(worn["armor"])
  PROVE  s = RecalcStats(s, l, worn)
BY DEF RecalcStats, StatsRecord

LEMMA PlayerInit == Init => IInv /\ SingleInv
<1> SUFFICES ASSUME Init PROVE IInv /\ SingleInv
  OBVIOUS
<1> USE PlayerAssumption DEF Init
<1>1. 1 \in Levels
  BY DEF Levels
<1>2. EmptySlot \in InventorySlot /\ SoundSlot(EmptySlot) /\ Value(EmptySlot) = 0
  BY DEF EmptySlot, InventorySlot, SoundSlot, Value
<1>3. stats \in StatsRecord /\ stats.hp = LevelData[1].maxHp /\ stats.maxHp = stats.hp
  BY <1>1 DEF NewStats, StatsRecord
<1>4. Persistent \in SaveData /\ snapshot = Persistent /\ db = Persistent
  BY <1>1, <1>2, <1>3, PersistentParts
<1>5. SoundItems(Persistent)
  BY <1>2, PersistentParts DEF SoundItems, EmptySlot
<1>6. TypeOK
  <2>1. owned \in [Items -> Nat] /\ had \subseteq SaveData
    OBVIOUS
  <2>2. cursor \in 0..NumFields /\ drops \in 0..MaxDrops /\ kills \in 0..MaxKills
        /\ hits \in 0..MaxHits
    BY DEF NumFields
  <2>3. gaining \in BOOLEAN /\ session \in {"playing", "saving", "saved"}
    OBVIOUS
  <2>4. QED
    BY <1>3, <1>4, <2>1, <2>2, <2>3 DEF TypeOK, StatsRecord
<1>7. StatsAgree
  <2>1. stats.attack = LevelData[1].attack + Value(equipped["weapon"])
        /\ stats.defence = LevelData[1].defence + Value(equipped["armor"])
    BY <1>1, <1>2 DEF NewStats, Types
  <2>2. equipped \in [Types -> InventorySlot]
    BY <1>2
  <2>3. QED
    BY <1>1, <1>3, <2>1, <2>2, StatsAgreeParts DEF StatsAgree, StatsRecord
<1>8. ItemsConserved
  <2> SUFFICES ASSUME NEW it \in Items PROVE CountIn(Persistent, it) = owned[it]
    BY DEF ItemsConserved
  <2>1. /\ Cardinality(Pieces(Slots, Persistent.storage, it)) = 0
        /\ Cardinality(Pieces(Types, Persistent.equipped, it)) = 0
    BY PersistentParts, PiecesEmpty DEF EmptySlot
  <2>2. QED
    BY <2>1, CountInPieces
<1>9. SingleInv
  BY <1>4, PersistentParts DEF SingleInv, ExpShortOfNext, SavedWasHeld, Levels
<1>10. QED
  BY <1>4, <1>5, <1>6, <1>7, <1>8, <1>9 DEF IInv, SlotsSound

-----------------------------------------------------------------------------
(* The operations of the game thread *)

\* What an operation has to show, one whose send finds the connection broken too:
\* its results are typed, sound, and agree.
LEMMA SendingOperationInv ==
  ASSUME IInv, (UNCHANGED logout /\ (Recorded \/ UNCHANGED had)) \/ BeginSave,
         level' \in Levels, exp' \in Nat, stats' \in StatsRecord, gaining' \in BOOLEAN,
         storage' \in [Slots -> InventorySlot], equipped' \in [Types -> InventorySlot],
         owned' \in [Items -> Nat],
         drops' \in 0..MaxDrops, kills' \in 0..MaxKills, hits' \in 0..MaxHits,
         SoundItems(Persistent)', StatsAgree', ItemsConserved'
  PROVE  IInv'
<1> USE DEF IInv, SlotsSound
<1>1. Persistent' \in SaveData
  BY DEF Persistent, SaveData, StatsRecord
<1>2. had' \subseteq SaveData
  BY <1>1 DEF TypeOK, Recorded, BeginSave
<1>3. /\ UNCHANGED <<cursor, snapshot, db>>
      /\ session' \in {"playing", "saving", "saved"} /\ cut' \in BOOLEAN
  BY DEF TypeOK, logout, BeginSave
<1>4. TypeOK'
  BY <1>1, <1>2, <1>3 DEF TypeOK, StatsRecord
<1>5. SoundItems(snapshot)' /\ SoundItems(db)'
  BY <1>3 DEF SoundItems
<1>6. QED
  BY <1>4, <1>5

\* The same for an operation during which no logout begins.
LEMMA OperationInv ==
  ASSUME IInv, UNCHANGED logout, Recorded \/ UNCHANGED had,
         level' \in Levels, exp' \in Nat, stats' \in StatsRecord, gaining' \in BOOLEAN,
         storage' \in [Slots -> InventorySlot], equipped' \in [Types -> InventorySlot],
         owned' \in [Items -> Nat],
         drops' \in 0..MaxDrops, kills' \in 0..MaxKills, hits' \in 0..MaxHits,
         SoundItems(Persistent)', StatsAgree', ItemsConserved'
  PROVE  IInv'
BY SendingOperationInv

\* The parts of the invariant as the operations need them.
LEMMA PlayerParts ==
  ASSUME IInv
  PROVE  /\ level \in Levels /\ exp \in Nat /\ stats \in StatsRecord /\ gaining \in BOOLEAN
         /\ storage \in [Slots -> InventorySlot] /\ equipped \in [Types -> InventorySlot]
         /\ owned \in [Items -> Nat]
         /\ drops \in 0..MaxDrops /\ kills \in 0..MaxKills /\ hits \in 0..MaxHits
         /\ Persistent \in SaveData
         /\ SoundItems(Persistent)
         /\ \A i \in Slots : SoundSlot(storage[i])
         /\ \A t \in Types : SoundSlot(equipped[t])
         /\ stats.attack = LevelData[level].attack + Value(equipped["weapon"])
         /\ stats.defence = LevelData[level].defence + Value(equipped["armor"])
<1>1. level \in Levels /\ storage \in [Slots -> InventorySlot]
      /\ equipped \in [Types -> InventorySlot] /\ exp \in Nat /\ stats \in StatsRecord
  BY PersistentParts DEF IInv, SlotsSound, TypeOK, StatsRecord
<1>2. /\ stats.attack = LevelData[level].attack + Value(equipped["weapon"])
      /\ stats.defence = LevelData[level].defence + Value(equipped["armor"])
  BY <1>1, RecalcParts DEF IInv, StatsAgree
<1>3. QED
  BY <1>1, <1>2, PersistentParts DEF IInv, SlotsSound, TypeOK, SoundItems

\* The statistics still agree where neither they nor what they follow from change.
LEMMA StatsKept ==
  ASSUME IInv, UNCHANGED <<level, stats>>,
         equipped' = equipped \/ \E x : equipped' = [equipped EXCEPT !["consumable"] = x]
  PROVE  StatsAgree'
<1>1. Value(equipped["weapon"])' = Value(equipped["weapon"])
      /\ Value(equipped["armor"])' = Value(equipped["armor"])
  BY PlayerParts DEF Types
<1>2. QED
  BY <1>1 DEF IInv, StatsAgree, RecalcStats

\* One slot of the inventory and one that is worn get new contents: the counts change
\* by what these hold less what those held.
LEMMA SlotsChange ==
  ASSUME IInv, level' \in Levels, exp' \in Nat, stats' \in StatsRecord,
         NEW i \in Slots, NEW x \in InventorySlot, SoundSlot(x),
         NEW t \in Types, NEW y \in InventorySlot, SoundSlot(y),
         y.item # NoItem => ItemTemplate[y.item].type = t,
         storage' = [storage EXCEPT ![i] = x],
         equipped' = [equipped EXCEPT ![t] = y]
  PROVE  /\ storage' \in [Slots -> InventorySlot]
         /\ equipped' \in [Types -> InventorySlot]
         /\ SoundItems(Persistent)'
         /\ \A it \in Items :
              /\ CountIn(Persistent', it)
                   = owned[it] - Of(storage[i], it) + Of(x, it) - Of(equipped[t], it) + Of(y, it)
              /\ CountIn(Persistent', it) \in Nat
              /\ Of(storage[i], it) + Of(equipped[t], it) <= owned[it]
<1>1. storage' \in [Slots -> InventorySlot] /\ equipped' \in [Types -> InventorySlot]
  BY PlayerParts
<1>2. Persistent' \in SaveData
  BY <1>1 DEF Persistent, SaveData, StatsRecord
<1>3. Persistent'.storage = storage' /\ Persistent'.equipped = equipped'
  BY DEF Persistent
<1>4. SoundItems(Persistent')
  <2>1. \A j \in Slots : SoundSlot(storage'[j])
    BY PlayerParts
  <2>2. \A u \in Types : /\ SoundSlot(equipped'[u])
                         /\ equipped'[u].item # NoItem =>
                              ItemTemplate[equipped'[u].item].type = u
    BY PlayerParts, PersistentParts DEF SoundItems
  <2>3. QED
    BY <1>3, <2>1, <2>2 DEF SoundItems
<1>5. SoundItems(Persistent)'
  BY <1>3, <1>4 DEF SoundItems
<1>6. ASSUME NEW it \in Items
      PROVE  /\ CountIn(Persistent', it)
                  = owned[it] - Of(storage[i], it) + Of(x, it) - Of(equipped[t], it) + Of(y, it)
             /\ CountIn(Persistent', it) \in Nat
             /\ Of(storage[i], it) + Of(equipped[t], it) <= owned[it]
  <2>1. CountIn(Persistent, it) = owned[it]
    BY DEF IInv, ItemsConserved
  <2>2. storage'[i] = x /\ equipped'[t] = y
    BY PlayerParts
  <2>3. /\ \A j \in Slots \ {i} : Persistent'.storage[j] = Persistent.storage[j]
        /\ \A u \in Types \ {t} : Persistent'.equipped[u] = Persistent.equipped[u]
    BY <1>3, PlayerParts, PersistentParts
  <2>4. Persistent \in SaveData /\ SoundItems(Persistent)
        /\ Persistent.storage = storage /\ Persistent.equipped = equipped
    BY PlayerParts, PersistentParts
  <2> DEFINE new == Persistent'
             old == Persistent
  <2> HIDE DEF new, old
  <2>5. /\ CountIn(new, it) = CountIn(old, it)
              - Of(old.storage[i], it) + Of(new.storage[i], it)
              - Of(old.equipped[t], it) + Of(new.equipped[t], it)
        /\ CountIn(new, it) \in Nat
        /\ Of(old.storage[i], it) + Of(old.equipped[t], it) <= CountIn(old, it)
    <3>1. /\ new \in SaveData /\ old \in SaveData /\ SoundItems(old) /\ SoundItems(new)
          /\ \A j \in Slots \ {i} : new.storage[j] = old.storage[j]
          /\ \A u \in Types \ {t} : new.equipped[u] = old.equipped[u]
      BY <1>2, <1>4, <2>3, <2>4 DEF new, old
    <3>2. QED
      BY <3>1, CountChange
  <2>6. /\ old.storage = storage /\ new.storage = storage'
        /\ old.equipped = equipped /\ new.equipped = equipped'
        /\ CountIn(old, it) = owned[it]
    BY <1>3, <2>1, <2>4 DEF new, old
  <2>7. QED
    BY <2>2, <2>5, <2>6 DEF new
<1>7. QED
  BY <1>1, <1>5, <1>6

\* One more of the item in a slot that holds less than a stack of it, or nothing.
LEMMA OneMoreInv ==
  ASSUME IInv, NEW it \in Items, AddItem(it),
         NEW i \in Slots, NEW slot \in InventorySlot, SoundSlot(slot),
         slot.item = it, slot.count = Of(storage[i], it) + 1,
         storage[i].item \in {it, NoItem},
         storage' = [storage EXCEPT ![i] = slot],
         owned' = [owned EXCEPT ![it] = @ + 1]
  PROVE  IInv'
<1>1. "weapon" \in Types /\ equipped' = [equipped EXCEPT !["weapon"] = @]
  BY PlayerParts DEF AddItem, Types
<1>2. owned' \in [Items -> Nat] /\ drops' \in 0..MaxDrops
  BY PlayerParts, PlayerAssumption DEF AddItem
<1>3. level' = level /\ exp' = exp /\ stats' = stats /\ gaining' = gaining
  BY DEF AddItem, growth
<1>4. /\ SoundSlot(equipped["weapon"]) /\ equipped["weapon"] \in InventorySlot
      /\ equipped["weapon"].item # NoItem => ItemTemplate[equipped["weapon"].item].type = "weapon"
  BY <1>1, PlayerParts, PersistentParts DEF SoundItems
<1> DEFINE w == equipped["weapon"]
<1>a. /\ w \in InventorySlot /\ SoundSlot(w)
      /\ w.item # NoItem => ItemTemplate[w.item].type = "weapon"
      /\ equipped' = [equipped EXCEPT !["weapon"] = w]
  BY <1>1, <1>4
<1> HIDE DEF w
<1>b. level' \in Levels /\ exp' \in Nat /\ stats' \in StatsRecord
  BY <1>3, PlayerParts
<1>5. /\ storage' \in [Slots -> InventorySlot] /\ equipped' \in [Types -> InventorySlot]
      /\ SoundItems(Persistent)'
      /\ \A k \in Items :
           CountIn(Persistent', k) = owned[k] - Of(storage[i], k) + Of(slot, k)
                                       - Of(equipped["weapon"], k) + Of(w, k)
  <2>1. /\ storage' \in [Slots -> InventorySlot] /\ equipped' \in [Types -> InventorySlot]
        /\ SoundItems(Persistent)'
    BY <1>1, <1>a, <1>b, SlotsChange
  <2>2. \A k \in Items :
          /\ CountIn(Persistent', k) = owned[k] - Of(storage[i], k) + Of(slot, k)
                                          - Of(equipped["weapon"], k) + Of(w, k)
          /\ CountIn(Persistent', k) \in Nat
          /\ Of(storage[i], k) + Of(equipped["weapon"], k) <= owned[k]
    BY <1>1, <1>a, <1>b, SlotsChange
  <2>3. QED
    BY <2>1, <2>2
<1>6. ItemsConserved'
  <2> SUFFICES ASSUME NEW k \in Items PROVE CountIn(Persistent', k) = owned'[k]
    BY DEF ItemsConserved
  <2>1. Of(slot, k) = Of(storage[i], k) + (IF k = it THEN 1 ELSE 0)
    BY PlayerAssumption DEF Of
  <2>2. Of(storage[i], k) \in Nat /\ Of(w, k) \in Nat /\ w = equipped["weapon"]
    <3>1. \A c \in InventorySlot : Of(c, k) \in Nat
      BY DEF Of, InventorySlot
    <3>2. storage[i] \in InventorySlot
      BY PlayerParts
    <3>3. w = equipped["weapon"]
      BY DEF w
    <3>4. QED
      BY <1>a, <3>1, <3>2, <3>3
  <2>3. owned'[k] = owned[k] + (IF k = it THEN 1 ELSE 0) /\ owned[k] \in Nat
    BY PlayerParts
  <2>4. QED
    BY <1>5, <2>1, <2>2, <2>3
<1>7. StatsAgree'
  BY <1>3, StatsKept DEF AddItem
<1>8. QED
  BY <1>2, <1>3, <1>5, <1>6, <1>7, PlayerParts, OperationInv DEF AddItem

LEMMA AddItemInv ==
  ASSUME IInv, NEW it \in Items, AddItem(it)
  PROVE  IInv'
<1> USE PlayerAssumption
<1>1. CASE Stacks(it) # {}
  <2>1. PICK i \in Stacks(it) : i = Least(Stacks(it))
    BY <1>1, LeastIsMember DEF Stacks
  <2> DEFINE slot == [storage[i] EXCEPT !.count = Lower(@ + 1, ItemTemplate[it].maxStack)]
  <2>2. /\ storage' = [storage EXCEPT ![i] = slot] /\ owned' = [owned EXCEPT ![it] = @ + 1]
    BY <1>1, <2>1 DEF AddItem
  <2>3. /\ i \in Slots /\ storage[i].item = it /\ storage[i] \in InventorySlot
        /\ storage[i].count < ItemTemplate[it].maxStack /\ SoundSlot(storage[i])
    BY PlayerParts DEF Stacks
  <2>4. /\ slot \in InventorySlot /\ slot.item = it /\ slot.count = storage[i].count + 1
        /\ SoundSlot(slot)
    <3>1. Lower(storage[i].count + 1, ItemTemplate[it].maxStack) = storage[i].count + 1
      BY <2>3 DEF Lower, InventorySlot
    <3>2. slot = [storage[i] EXCEPT !.count = storage[i].count + 1]
      BY <3>1
    <3>3. slot \in InventorySlot /\ slot.item = it /\ slot.count = storage[i].count + 1
      BY <2>3, <3>2 DEF InventorySlot
    <3>4. slot.count \in 1..ItemTemplate[it].maxStack
      BY <2>3, <3>3 DEF InventorySlot
    <3>5. QED
      BY <3>3, <3>4 DEF SoundSlot
  <2>5. slot.count = Of(storage[i], it) + 1
    BY <2>3, <2>4 DEF Of
  <2> HIDE DEF slot
  <2>6. QED
    BY <2>2, <2>3, <2>4, <2>5, OneMoreInv
<1>2. CASE Stacks(it) = {} /\ EmptySlots # {}
  <2>1. PICK i \in EmptySlots : i = FindEmptySlot
    BY <1>2, LeastIsMember DEF EmptySlots, FindEmptySlot
  <2> DEFINE slot == [item |-> it, count |-> 1]
  <2>2. /\ storage' = [storage EXCEPT ![i] = slot] /\ owned' = [owned EXCEPT ![it] = @ + 1]
    BY <1>2, <2>1 DEF AddItem
  <2>3. i \in Slots /\ storage[i].item = NoItem
    BY DEF EmptySlots
  <2>4. slot \in InventorySlot /\ SoundSlot(slot) /\ slot.count = Of(storage[i], it) + 1
    BY <2>3 DEF InventorySlot, SoundSlot, Of
  <2>5. QED
    BY <2>2, <2>3, <2>4, OneMoreInv
<1>3. CASE Stacks(it) = {} /\ EmptySlots = {}
  <2>1. UNCHANGED <<storage, owned, equipped, level, exp, stats, gaining>>
        /\ drops' \in 0..MaxDrops
    BY <1>3, PlayerParts DEF AddItem, growth
  <2>2. Persistent' = Persistent
    BY <2>1 DEF Persistent
  <2>3. SoundItems(Persistent)' /\ ItemsConserved' /\ StatsAgree'
    BY <2>1, <2>2, PlayerParts, StatsKept DEF IInv, ItemsConserved, SoundItems, CountIn
  <2>4. QED
    BY <2>1, <2>3, PlayerParts, OperationInv DEF AddItem
<1>4. QED
  BY <1>1, <1>2, <1>3

\* A slot of the inventory and the worn slot of a kind trade places, or what is worn
\* goes to an empty slot; the statistics are calculated again.
LEMMA TradeInv ==
  ASSUME IInv, NEW i \in Slots, NEW t \in Types,
         storage' = [storage EXCEPT ![i] = equipped[t]],
         equipped' = [equipped EXCEPT ![t] = storage[i]],
         storage[i].item # NoItem => ItemTemplate[storage[i].item].type = t,
         stats' = RecalcStats(stats, level, equipped'),
         UNCHANGED <<owned, level, exp, gaining, logout, bounds>>, Recorded
  PROVE  IInv'
<1> DEFINE x == equipped[t]
           y == storage[i]
<1>1. /\ x \in InventorySlot /\ SoundSlot(x) /\ y \in InventorySlot /\ SoundSlot(y)
      /\ stats \in StatsRecord /\ level \in Levels /\ exp \in Nat
      /\ equipped' \in [Types -> InventorySlot]
  BY PlayerParts
<1>2. /\ stats' \in StatsRecord /\ stats'.hp = stats.hp /\ stats'.maxHp = stats.maxHp
      /\ stats'.attack = LevelData[level].attack + Value(equipped'["weapon"])
      /\ stats'.defence = LevelData[level].defence + Value(equipped'["armor"])
  BY ZenonT(60), <1>1, RecalcParts
<1>3. StatsAgree'
  <2>1. stats' = RecalcStats(stats', level, equipped')
    BY <1>1, <1>2, StatsAgreeParts
  <2>2. QED
    BY <1>2, <2>1 DEF IInv, StatsAgree, RecalcStats, Value
<1>4. level' \in Levels /\ exp' \in Nat /\ stats' \in StatsRecord
  BY <1>1, <1>2
<1>5. /\ storage' = [storage EXCEPT ![i] = x] /\ equipped' = [equipped EXCEPT ![t] = y]
      /\ y.item # NoItem => ItemTemplate[y.item].type = t
  OBVIOUS
<1> HIDE DEF x, y
<1>6. /\ storage' \in [Slots -> InventorySlot]
      /\ equipped' \in [Types -> InventorySlot]
      /\ SoundItems(Persistent)'
      /\ \A k \in Items :
           /\ CountIn(Persistent', k)
                = owned[k] - Of(storage[i], k) + Of(x, k) - Of(equipped[t], k) + Of(y, k)
           /\ CountIn(Persistent', k) \in Nat
           /\ Of(storage[i], k) + Of(equipped[t], k) <= owned[k]
  BY <1>1, <1>4, <1>5, SlotsChange
<1>7. ItemsConserved'
  <2>1. \A c \in InventorySlot, k \in Items : Of(c, k) \in Nat
    BY DEF Of, InventorySlot
  <2>2. storage[i] = y /\ equipped[t] = x /\ \A k \in Items : owned[k] \in Nat
    BY PlayerParts DEF x, y
  <2>3. ASSUME NEW k \in Items PROVE CountIn(Persistent', k) = owned[k]
    BY <1>1, <1>6, <2>1, <2>2
  <2>4. QED
    BY <2>3 DEF ItemsConserved
<1>8. QED
  BY <1>1, <1>3, <1>4, <1>6, <1>7, PlayerParts, OperationInv DEF bounds

LEMMA EquipItemInv ==
  ASSUME IInv, NEW i \in Slots, EquipItem(i)
  PROVE  IInv'
<1> DEFINE t == ItemTemplate[storage[i].item].type
<1>1. storage[i].item \in Items /\ t \in Types
  BY PlayerParts, PlayerAssumption DEF EquipItem, InventorySlot
<1>2. QED
  BY <1>1, TradeInv DEF EquipItem

LEMMA UnequipItemInv ==
  ASSUME IInv, NEW t \in Types, UnequipItem(t)
  PROVE  IInv'
<1>1. FindEmptySlot \in Slots /\ storage[FindEmptySlot].item = NoItem
  BY LeastIsMember DEF UnequipItem, EmptySlots, FindEmptySlot
<1>2. storage[FindEmptySlot] = EmptySlot
  <2>1. storage[FindEmptySlot] \in InventorySlot /\ storage[FindEmptySlot].count = 0
    BY <1>1, PlayerParts DEF SoundSlot
  <2>2. QED
    BY <1>1, <2>1 DEF InventorySlot, EmptySlot
<1>3. equipped' = [equipped EXCEPT ![t] = storage[FindEmptySlot]]
  BY <1>2 DEF UnequipItem
<1>4. QED
  BY <1>1, <1>3, TradeInv DEF UnequipItem

\* Using one of what a slot holds.
LEMMA ConsumedSlot ==
  ASSUME NEW slot \in InventorySlot, slot.item \in Items, SoundSlot(slot)
  PROVE  /\ Consumed(slot) \in InventorySlot /\ SoundSlot(Consumed(slot))
         /\ Consumed(slot).item \in {slot.item, NoItem}
         /\ \A k \in Items : /\ Of(slot, k) \in Nat /\ Of(slot, slot.item) > 0
                            /\ Of(Consumed(slot), k)
                                 = Of(slot, k) - (IF k = slot.item THEN 1 ELSE 0)
<1> USE PlayerAssumption
<1>1. slot.count \in Nat /\ slot.count >= 1 /\ slot.count <= ItemTemplate[slot.item].maxStack
  BY DEF SoundSlot, InventorySlot
<1>2. CASE slot.count <= 1
  <2>1. Consumed(slot) = EmptySlot /\ slot.count = 1
    BY <1>1, <1>2 DEF Consumed
  <2>2. QED
    BY <1>1, <2>1 DEF EmptySlot, InventorySlot, SoundSlot, Of
<1>3. CASE ~(slot.count <= 1)
  <2>1. /\ Consumed(slot) \in InventorySlot /\ Consumed(slot).item = slot.item
        /\ Consumed(slot).count = slot.count - 1
    BY <1>1, <1>3 DEF Consumed, InventorySlot
  <2>2. QED
    BY <1>1, <1>3, <2>1 DEF SoundSlot, Of
<1>4. QED
  BY <1>2, <1>3

LEMMA UseItemInv ==
  ASSUME IInv, UseItem
  PROVE  IInv'
<1> USE PlayerAssumption
<1>1. /\ UNCHANGED <<level, exp, gaining, logout, drops, kills, hits>> /\ Recorded
      /\ level \in Levels /\ exp \in Nat /\ stats \in StatsRecord
  BY PlayerParts DEF UseItem, bounds
<1>2. ASSUME NEW slot \in InventorySlot, SoundSlot(slot), Use(slot)
      PROVE  /\ slot.item \in Items /\ ItemTemplate[slot.item].type = "consumable"
             /\ stats' \in StatsRecord /\ stats'.maxHp = stats.maxHp
             /\ stats'.hp <= stats'.maxHp
             /\ stats'.attack = stats.attack /\ stats'.defence = stats.defence
             /\ owned' = [owned EXCEPT ![slot.item] = @ - 1]
  <2>1. slot.item \in Items /\ ItemTemplate[slot.item].type = "consumable"
    BY <1>2 DEF Use, InventorySlot
  <2>2. Value(slot) \in Nat
    BY <2>1 DEF Value
  <2> DEFINE hp == Lower(stats.hp + Value(slot), stats.maxHp)
  <2>3. hp \in Nat /\ hp <= stats.maxHp
    BY <1>1, <2>2 DEF Lower, StatsRecord
  <2>4. stats' = [stats EXCEPT !.hp = hp]
    BY <1>2 DEF Use
  <2> HIDE DEF hp
  <2>5. QED
    BY <1>1, <1>2, <2>1, <2>3, <2>4 DEF Use, StatsRecord
<1>3. ASSUME NEW slot \in InventorySlot, SoundSlot(slot), Use(slot),
             NEW i \in Slots, NEW x \in InventorySlot, SoundSlot(x),
             NEW t \in Types, NEW y \in InventorySlot, SoundSlot(y),
             y.item # NoItem => ItemTemplate[y.item].type = t,
             storage' = [storage EXCEPT ![i] = x],
             equipped' = [equipped EXCEPT ![t] = y],
             t # "consumable" => y = equipped[t],
             \/ x = storage[i] /\ slot = equipped[t] /\ y = Consumed(slot)
             \/ y = equipped[t] /\ slot = storage[i] /\ x = Consumed(slot)
      PROVE  IInv'
  <2>1. /\ slot.item \in Items
        /\ stats' \in StatsRecord /\ stats'.maxHp = stats.maxHp
        /\ stats'.hp <= stats'.maxHp
        /\ stats'.attack = stats.attack /\ stats'.defence = stats.defence
        /\ owned' = [owned EXCEPT ![slot.item] = @ - 1]
    BY <1>2, <1>3
  <2>2. level' \in Levels /\ exp' \in Nat
    BY <1>1
  <2>3. /\ storage' \in [Slots -> InventorySlot] /\ equipped' \in [Types -> InventorySlot]
        /\ SoundItems(Persistent)'
    BY <1>3, <2>1, <2>2, SlotsChange
  <2>4. \A k \in Items :
          /\ CountIn(Persistent', k)
               = owned[k] - Of(storage[i], k) + Of(x, k) - Of(equipped[t], k) + Of(y, k)
          /\ CountIn(Persistent', k) \in Nat
          /\ Of(storage[i], k) + Of(equipped[t], k) <= owned[k]
    BY <1>3, <2>1, <2>2, SlotsChange
  <2>5. \A k \in Items :
          Of(x, k) + Of(y, k)
            = Of(storage[i], k) + Of(equipped[t], k) - (IF k = slot.item THEN 1 ELSE 0)
    <3>1. \A c \in InventorySlot, k \in Items : Of(c, k) \in Nat
      BY DEF Of, InventorySlot
    <3>2. \A k \in Items :
            Of(Consumed(slot), k) = Of(slot, k) - (IF k = slot.item THEN 1 ELSE 0)
      BY <1>3, <2>1, ConsumedSlot
    <3>3. QED
      BY <1>3, <3>1, <3>2
  <2>6. \A k \in Items : CountIn(Persistent', k) = owned[k] - (IF k = slot.item THEN 1 ELSE 0)
    <3>1. \A c \in InventorySlot, k \in Items : Of(c, k) \in Nat
      BY DEF Of, InventorySlot
    <3>2. storage[i] \in InventorySlot /\ equipped[t] \in InventorySlot
          /\ \A k \in Items : owned[k] \in Nat
      BY PlayerParts
    <3>3. ASSUME NEW k \in Items
          PROVE  CountIn(Persistent', k) = owned[k] - (IF k = slot.item THEN 1 ELSE 0)
      <4>1. /\ Of(x, k) \in Nat /\ Of(y, k) \in Nat /\ owned[k] \in Nat
            /\ Of(storage[i], k) \in Nat /\ Of(equipped[t], k) \in Nat
        BY <1>3, <3>1, <3>2
      <4>2. /\ CountIn(Persistent', k)
                 = owned[k] - Of(storage[i], k) + Of(x, k) - Of(equipped[t], k) + Of(y, k)
            /\ Of(x, k) + Of(y, k)
                 = Of(storage[i], k) + Of(equipped[t], k) - (IF k = slot.item THEN 1 ELSE 0)
        BY <2>4, <2>5
      <4>3. QED
        BY <4>1, <4>2
    <3>4. QED
      BY <3>3
  <2>7. owned' \in [Items -> Nat] /\ \A k \in Items : CountIn(Persistent', k) = owned'[k]
    BY <2>1, <2>4, <2>6, PlayerParts
  <2>8. StatsAgree'
    <3>1. /\ equipped'["weapon"] = equipped["weapon"] /\ equipped'["armor"] = equipped["armor"]
      BY <1>3, PlayerParts DEF Types
    <3>2. stats' = RecalcStats(stats', level, equipped')
      BY <1>1, <2>1, <2>3, <3>1, PlayerParts, StatsAgreeParts
    <3>3. QED
      BY <1>1, <2>1, <3>2 DEF IInv, StatsAgree, RecalcStats, Value
  <2>9. QED
    BY <1>1, <2>1, <2>3, <2>7, <2>8, PlayerParts, OperationInv DEF ItemsConserved
<1>4. ASSUME NEW i \in Slots, Use(storage[i]), storage' = [storage EXCEPT ![i] = Consumed(@)],
             UNCHANGED equipped
      PROVE  IInv'
  <2> DEFINE w == equipped["weapon"]
             slot == storage[i]
  <2>1. /\ "weapon" \in Types /\ w \in InventorySlot /\ SoundSlot(w)
        /\ w.item # NoItem => ItemTemplate[w.item].type = "weapon"
        /\ equipped' = [equipped EXCEPT !["weapon"] = w]
        /\ slot \in InventorySlot /\ SoundSlot(slot)
    BY <1>4, PlayerParts, PersistentParts DEF Types, SoundItems
  <2>2. Consumed(slot) \in InventorySlot /\ SoundSlot(Consumed(slot))
    BY <1>2, <1>4, <2>1, ConsumedSlot
  <2>3. QED
    BY <1>3, <1>4, <2>1, <2>2
<1>5. ASSUME Use(equipped["consumable"]), UNCHANGED storage,
             equipped' = [equipped EXCEPT !["consumable"] = Consumed(@)]
      PROVE  IInv'
  <2> DEFINE x == storage[0]
             slot == equipped["consumable"]
  <2>1. /\ 0 \in Slots /\ "consumable" \in Types /\ x \in InventorySlot /\ SoundSlot(x)
        /\ storage' = [storage EXCEPT ![0] = x]
        /\ slot \in InventorySlot /\ SoundSlot(slot)
    BY SMTT(40), <1>5, PlayerParts DEF Types, Slots
  <2>2. slot.item \in Items /\ ItemTemplate[slot.item].type = "consumable"
    BY <1>2, <1>5, <2>1
  <2>3. Consumed(slot) \in InventorySlot /\ SoundSlot(Consumed(slot))
        /\ Consumed(slot).item \in {slot.item, NoItem}
    BY <2>1, <2>2, ConsumedSlot
  <2>4. QED
    BY <1>3, <1>5, <2>1, <2>2, <2>3
<1>6. QED
  BY <1>4, <1>5 DEF UseItem

\* The items stay what they are.
LEMMA ItemsKept ==
  ASSUME IInv, UNCHANGED item
  PROVE  SoundItems(Persistent)' /\ ItemsConserved'
<1>1. Persistent'.storage = storage /\ Persistent'.equipped = equipped
  BY DEF item, Persistent
<1>2. SoundItems(Persistent)'
  BY <1>1, PlayerParts, PersistentParts DEF SoundItems
<1>3. ItemsConserved'
  BY <1>1, PersistentParts, CountSame DEF IInv, ItemsConserved, item
<1>4. QED
  BY <1>2, <1>3

LEMMA GrowthInv ==
  ASSUME IInv,
         (\E amount \in Amounts : GainExp(amount)) \/ LevelUp \/ EndGainExp \/ OnDamaged(1)
  PROVE  IInv'
<1> USE PlayerAssumption
<1>1. /\ UNCHANGED item
      /\ (UNCHANGED logout /\ (Recorded \/ UNCHANGED had)) \/ BeginSave
  BY DEF GainExp, LevelUp, EndGainExp, OnDamaged, logout
<1>2. UNCHANGED <<storage, equipped, owned>>
  BY <1>1 DEF item
<1>3. SoundItems(Persistent)' /\ ItemsConserved'
  BY <1>1, ItemsKept
<1>4. ASSUME NEW amount \in Amounts, GainExp(amount) PROVE IInv'
  <2>1. UNCHANGED <<level, stats, drops, hits>> /\ gaining' = TRUE
        /\ exp' = exp + amount /\ kills' \in 0..MaxKills
    BY <1>4, PlayerParts DEF GainExp
  <2>2. exp' \in Nat
    <3>1. exp \in Nat /\ amount \in Nat
      BY PlayerParts
    <3>2. QED
      BY <2>1, <3>1
  <2>3. StatsAgree'
    BY <1>2, <2>1, StatsKept
  <2>4. QED
    BY <1>1, <1>2, <1>3, <2>1, <2>2, <2>3, PlayerParts,
       SendingOperationInv
<1>5. CASE LevelUp
  <2> DEFINE raised == [stats EXCEPT !.maxHp = LevelData[level + 1].maxHp,
                                     !.hp = LevelData[level + 1].maxHp]
  <2>1. level' = level + 1 /\ level' \in Levels /\ LevelData[level'].maxHp \in Nat
    BY SMTT(40), <1>5, PlayerParts DEF LevelUp, LevelUpDue, Levels
  <2>2. exp' \in Nat
    <3>1. LevelData[level + 1].requiredExp \in Nat
      BY <2>1
    <3>2. QED
      BY <1>5, <3>1, PlayerParts DEF LevelUp, LevelUpDue
  <2>3. UNCHANGED <<gaining, drops, kills, hits>>
    BY <1>5 DEF LevelUp, bounds
  <2>4. /\ raised \in StatsRecord /\ raised.hp = LevelData[level'].maxHp
        /\ raised.maxHp = LevelData[level'].maxHp
    BY <2>1, PlayerParts DEF StatsRecord
  <2>5. stats' = RecalcStats(raised, level', equipped')
    BY <1>2, <1>5, <2>1 DEF LevelUp
  <2> HIDE DEF raised
  <2>6. /\ stats' \in StatsRecord
        /\ stats'.hp = LevelData[level'].maxHp /\ stats'.maxHp = LevelData[level'].maxHp
        /\ stats'.attack = LevelData[level'].attack + Value(equipped'["weapon"])
        /\ stats'.defence = LevelData[level'].defence + Value(equipped'["armor"])
    BY <1>2, <2>1, <2>4, <2>5, PlayerParts, RecalcParts
  <2>7. StatsAgree'
    <3>1. stats' = RecalcStats(stats', level', equipped')
      BY <1>2, <2>1, <2>6, PlayerParts, StatsAgreeParts
    <3>2. QED
      BY <2>1, <2>6, <3>1 DEF StatsAgree, RecalcStats, Value
  <2>8. QED
    BY <1>1, <1>2, <1>3, <2>1, <2>2, <2>3, <2>6, <2>7, PlayerParts,
       SendingOperationInv
<1>6. CASE EndGainExp
  <2>1. UNCHANGED <<level, exp, stats, drops, kills, hits>> /\ gaining' = FALSE
    BY <1>6 DEF EndGainExp, bounds
  <2>2. StatsAgree'
    BY <1>2, <2>1, StatsKept
  <2>3. QED
    BY <1>1, <1>2, <1>3, <2>1, <2>2, PlayerParts,
       SendingOperationInv
<1>7. CASE OnDamaged(1)
  <2>1. UNCHANGED <<level, exp, gaining, drops, kills>> /\ hits' \in 0..MaxHits
    BY <1>7, PlayerParts DEF OnDamaged
  <2> DEFINE hp == IF stats.hp < 1 THEN 0 ELSE stats.hp - 1
  <2>2. hp \in Nat /\ hp <= stats.hp
    BY PlayerParts DEF StatsRecord
  <2>3. stats' = [stats EXCEPT !.hp = hp]
    BY <1>7 DEF OnDamaged
  <2> HIDE DEF hp
  <2>4. /\ stats' \in StatsRecord /\ stats'.hp = hp /\ stats'.maxHp = stats.maxHp
        /\ stats'.attack = stats.attack /\ stats'.defence = stats.defence
    BY <2>2, <2>3, PlayerParts DEF StatsRecord
  <2>5. StatsAgree'
    <3>1. stats' = RecalcStats(stats', level, equipped)
      BY <2>4, PlayerParts, StatsAgreeParts
    <3>2. stats'.hp <= stats'.maxHp
      BY <2>2, <2>4, PlayerParts DEF IInv, StatsAgree, StatsRecord
    <3>3. QED
      BY <1>2, <2>1, <2>4, <3>1, <3>2 DEF IInv, StatsAgree, RecalcStats, Value
  <2>6. QED
    BY <1>1, <1>2, <1>3, <2>1, <2>4, <2>5, PlayerParts,
       SendingOperationInv
<1>8. QED
  BY <1>4, <1>5, <1>6, <1>7

-----------------------------------------------------------------------------
(* Logout and login *)

\* The one field that a step of ToSaveData copies.
LEMMA FieldCopiedParts ==
  ASSUME IInv, cursor < NumFields, NEW new, new = FieldCopied(cursor)
  PROVE  /\ new \in SaveData
         /\ new.level = IF cursor = 0 THEN level ELSE snapshot.level
         /\ new.exp = IF cursor = 1 THEN exp ELSE snapshot.exp
         /\ new.hp = IF cursor = 2 THEN stats.hp ELSE snapshot.hp
         /\ \A i \in Slots :
              new.storage[i] = IF cursor = 3 + i THEN storage[i] ELSE snapshot.storage[i]
         /\ \A j \in 1..3 :
              new.equipped[EquipOrder[j]] =
                IF cursor = 2 + InventorySize + j THEN equipped[EquipOrder[j]]
                ELSE snapshot.equipped[EquipOrder[j]]
<1> USE PlayerAssumption
<1>1. /\ cursor \in 0..(NumFields - 1) /\ InventorySize \in Nat
      /\ snapshot \in SaveData
  BY DEF IInv, SlotsSound, TypeOK, NumFields
<1>2. /\ EquipOrder[1] = "weapon" /\ EquipOrder[2] = "armor" /\ EquipOrder[3] = "consumable"
  BY DEF EquipOrder
<1>3. CASE cursor \in 0..2
  <2>1. /\ level \in Levels /\ exp \in Nat /\ stats.hp \in Nat
        /\ \A i \in Slots : cursor # 3 + i
        /\ \A j \in 1..3 : cursor # 2 + InventorySize + j
    <3>1. level \in Levels /\ exp \in Nat /\ stats.hp \in Nat
      BY PlayerParts DEF StatsRecord
    <3>2. /\ \A i \in Slots : cursor # 3 + i
          /\ \A j \in 1..3 : cursor # 2 + InventorySize + j
      BY <1>1, <1>3 DEF Slots
    <3>3. QED
      BY <3>1, <3>2
  <2>2. CASE cursor = 0
    <3>1. new = [snapshot EXCEPT !.level = level]
      BY <2>2 DEF FieldCopied
    <3>2. QED
      BY <1>1, <2>1, <2>2, <3>1 DEF SaveData
  <2>3. CASE cursor = 1
    <3>1. new = [snapshot EXCEPT !.exp = exp]
      BY <2>3 DEF FieldCopied
    <3>2. QED
      BY <1>1, <2>1, <2>3, <3>1 DEF SaveData
  <2>4. CASE cursor = 2
    <3>1. new = [snapshot EXCEPT !.hp = stats.hp]
      BY <2>4 DEF FieldCopied
    <3>2. QED
      BY <1>1, <2>1, <2>4, <3>1 DEF SaveData
  <2>5. QED
    BY <1>1, <1>3, <2>2, <2>3, <2>4
<1>4. CASE cursor \in 3..(2 + InventorySize)
  <2> DEFINE i == cursor - 3
  <2>1. i \in Slots /\ cursor = 3 + i
    BY <1>1, <1>4 DEF Slots
  <2>2. new = [snapshot EXCEPT !.storage[i] = storage[i]]
    BY <1>1, <1>4 DEF FieldCopied
  <2> HIDE DEF i
  <2>3. /\ new \in SaveData
        /\ new.level = snapshot.level /\ new.exp = snapshot.exp /\ new.hp = snapshot.hp
        /\ new.equipped = snapshot.equipped
        /\ new.storage = [snapshot.storage EXCEPT ![i] = storage[i]]
    BY SMTT(40), <1>1, <2>1, <2>2, PlayerParts DEF SaveData
  <2>4. /\ \A k \in Slots : cursor = 3 + k <=> k = i
        /\ \A j \in 1..3 : cursor # 2 + InventorySize + j
        /\ cursor \notin 0..2
    BY <1>1, <1>4, <2>1 DEF Slots
  <2>5. \A k \in Slots : new.storage[k] = IF k = i THEN storage[k] ELSE snapshot.storage[k]
    BY <1>1, <2>1, <2>3 DEF SaveData
  <2>6. QED
    BY <2>3, <2>4, <2>5
<1>5. CASE cursor \in (3 + InventorySize)..(5 + InventorySize)
  <2> DEFINE j == cursor - 2 - InventorySize
             t == EquipOrder[j]
  <2>1. j \in 1..3 /\ cursor = 2 + InventorySize + j /\ t \in Types
    BY <1>1, <1>2, <1>5 DEF Types
  <2>2. new = [snapshot EXCEPT !.equipped[t] = equipped[t]]
    BY <1>1, <1>5 DEF FieldCopied
  <2>3. \A k \in 1..3 : EquipOrder[k] \in Types /\ (EquipOrder[k] = t <=> k = j)
    BY <1>2, <2>1 DEF Types
  <2> HIDE DEF j, t
  <2>4. /\ new \in SaveData
        /\ new.level = snapshot.level /\ new.exp = snapshot.exp /\ new.hp = snapshot.hp
        /\ new.storage = snapshot.storage
        /\ new.equipped = [snapshot.equipped EXCEPT ![t] = equipped[t]]
    BY SMTT(40), <1>1, <2>1, <2>2, PlayerParts DEF SaveData
  <2>5. /\ \A k \in 1..3 : cursor = 2 + InventorySize + k <=> k = j
        /\ \A i \in Slots : cursor # 3 + i
        /\ cursor \notin 0..2
    BY <1>1, <1>5, <2>1 DEF Slots
  <2>6. QED
    BY <1>1, <2>1, <2>3, <2>4, <2>5 DEF SaveData
<1>6. QED
  BY <1>1, <1>3, <1>4, <1>5 DEF NumFields

LEMMA ToSaveDataInv ==
  ASSUME IInv, ToSaveData
  PROVE  IInv'
<1> USE PlayerAssumption
<1>1. cursor < NumFields /\ snapshot' = FieldCopied(cursor) /\ cursor' = cursor + 1
      /\ UNCHANGED <<storage, equipped, owned, level, exp, stats, gaining, session, db,
                     cut, had, drops, kills, hits>>
  BY DEF ToSaveData, item, growth, bounds
<1> DEFINE new == snapshot'
<1> HIDE DEF new
<1>2. /\ new \in SaveData
      /\ \A i \in Slots : new.storage[i] \in {storage[i], snapshot.storage[i]}
      /\ \A j \in 1..3 :
           new.equipped[EquipOrder[j]] \in {equipped[EquipOrder[j]],
                                           snapshot.equipped[EquipOrder[j]]}
  BY <1>1, FieldCopiedParts DEF new
<1>3. SoundItems(new)
  <2>1. \A t \in Types : new.equipped[t] \in {equipped[t], snapshot.equipped[t]}
    <3>1. \A t \in Types : \E j \in 1..3 : t = EquipOrder[j]
      BY DEF Types, EquipOrder
    <3>2. QED
      BY <1>2, <3>1
  <2>2. SoundItems(snapshot)
    BY DEF IInv, SlotsSound
  <2>3. /\ \A i \in Slots : SoundSlot(storage[i])
        /\ \A t \in Types : /\ SoundSlot(equipped[t])
                            /\ equipped[t].item # NoItem =>
                                 ItemTemplate[equipped[t].item].type = t
    BY PlayerParts, PersistentParts DEF SoundItems
  <2>4. QED
    BY <1>2, <2>1, <2>2, <2>3 DEF SoundItems
<1>4. SoundItems(snapshot)'
  BY <1>3 DEF SoundItems, new
<1>5. cursor' \in 0..NumFields
  BY <1>1 DEF IInv, SlotsSound, TypeOK, NumFields
<1>6. Persistent' = Persistent /\ SoundItems(Persistent)' /\ SoundItems(db)'
  BY <1>1, PlayerParts DEF Persistent, SoundItems, IInv, SlotsSound
<1>7. TypeOK'
  BY <1>1, <1>2, <1>5, <1>6 DEF IInv, SlotsSound, TypeOK, new
<1>8. StatsAgree' /\ ItemsConserved'
  BY <1>1, <1>6 DEF IInv, StatsAgree, RecalcStats, Value, ItemsConserved, CountIn
<1>9. QED
  BY <1>4, <1>6, <1>7, <1>8 DEF IInv, SlotsSound

LEMMA LogoutInv ==
  ASSUME IInv, Disconnect \/ SavePlayerData
  PROVE  IInv'
<1> USE PlayerAssumption
<1>1. /\ UNCHANGED <<storage, equipped, owned, level, exp, stats, gaining, snapshot,
                     drops, kills, hits>>
      /\ session' \in {"saving", "saved"} /\ cursor' \in 0..NumFields
      /\ db' \in {db, snapshot} /\ had' \in {had, {Persistent'}} /\ cut' \in BOOLEAN
  BY DEF Disconnect, BeginSave, SavePlayerData, item, growth, bounds, IInv, SlotsSound,
         TypeOK, NumFields
<1>2. Persistent' = Persistent /\ SoundItems(Persistent)' /\ SoundItems(snapshot)'
  BY <1>1, PlayerParts DEF Persistent, SoundItems, IInv, SlotsSound
<1>3. SoundItems(db)'
  BY <1>1 DEF SoundItems, IInv, SlotsSound
<1>4. TypeOK'
  BY <1>1, <1>2, PlayerParts DEF IInv, SlotsSound, TypeOK
<1>5. StatsAgree' /\ ItemsConserved'
  BY <1>1, <1>2 DEF IInv, StatsAgree, RecalcStats, Value, ItemsConserved, CountIn
<1>6. QED
  BY <1>2, <1>3, <1>4, <1>5 DEF IInv, SlotsSound

LEMMA LoginInv ==
  ASSUME IInv, Login
  PROVE  IInv'
<1> USE PlayerAssumption
<1>1. /\ db \in SaveData /\ SoundItems(db)
      /\ UNCHANGED <<gaining, cursor, snapshot, db, cut, drops, kills, hits>>
      /\ level' = db.level /\ exp' = db.exp /\ storage' = db.storage /\ equipped' = db.equipped
      /\ session' = "playing" /\ had' = {} /\ stats' = LoadedStats(db)
  BY DEF Login, IInv, SlotsSound, TypeOK, bounds
<1>2. /\ db.level \in Levels /\ db.exp \in Nat /\ db.hp \in Nat
      /\ db.storage \in [Slots -> InventorySlot] /\ db.equipped \in [Types -> InventorySlot]
  BY <1>1 DEF SaveData
<1> DEFINE l == LevelData[db.level]
           bare == [hp |-> Lower(db.hp, l.maxHp), maxHp |-> l.maxHp,
                    attack |-> l.attack, defence |-> l.defence]
<1>3. bare \in StatsRecord /\ bare.hp <= bare.maxHp /\ bare.maxHp = l.maxHp
  BY <1>2 DEF Lower, StatsRecord
<1>4. stats' = RecalcStats(bare, db.level, db.equipped)
  BY <1>1 DEF LoadedStats
<1> HIDE DEF bare
<1>5. /\ stats' \in StatsRecord /\ stats'.hp <= stats'.maxHp /\ stats'.maxHp = l.maxHp
      /\ stats'.attack = l.attack + Value(db.equipped["weapon"])
      /\ stats'.defence = l.defence + Value(db.equipped["armor"])
  BY <1>2, <1>3, <1>4, RecalcParts
<1>6. StatsAgree'
  <2>1. stats' = RecalcStats(stats', db.level, db.equipped)
    BY <1>2, <1>5, StatsAgreeParts
  <2>2. QED
    BY <1>1, <1>5, <2>1 DEF StatsAgree, RecalcStats, Value
<1>7. /\ Persistent' \in SaveData
      /\ Persistent'.storage = db.storage /\ Persistent'.equipped = db.equipped
  BY <1>1, <1>2, <1>5 DEF Persistent, SaveData, StatsRecord
<1>8. SoundItems(Persistent)' /\ SoundItems(snapshot)' /\ SoundItems(db)'
  BY <1>1, <1>7 DEF SoundItems, IInv, SlotsSound
<1>9. ASSUME NEW it \in Items
      PROVE  CountIn(Persistent', it) = owned'[it] /\ owned'[it] \in Nat
  <2>1. owned'[it] = CountIn(db, it)
    BY DEF Login
  <2>2. CountIn(Persistent', it) = CountIn(db, it)
    BY <1>7, CountSame
  <2>3. CountIn(db, it) \in Nat
    <3>1. 0 \in Slots /\ "weapon" \in Types
      BY DEF Slots, Types
    <3>2. QED
      BY <1>1, <3>1, CountChange
  <2>4. QED
    BY <2>1, <2>2, <2>3
<1>10. TypeOK'
  <2>1. owned' \in [Items -> Nat]
    BY <1>9 DEF Login
  <2>2. QED
    BY <1>1, <1>5, <1>7, <2>1 DEF IInv, SlotsSound, TypeOK, StatsRecord
<1>11. QED
  BY <1>6, <1>8, <1>9, <1>10 DEF IInv, SlotsSound, ItemsConserved

LEMMA PlayerStepInv == IInv /\ [Next]_vars => IInv'
<1> SUFFICES ASSUME IInv, [Next]_vars PROVE IInv'
  OBVIOUS
<1>1. CASE PlayerStep
  BY <1>1, AddItemInv, EquipItemInv, UnequipItemInv, UseItemInv, GrowthInv DEF PlayerStep
<1>2. CASE Disconnect \/ ToSaveData \/ SavePlayerData \/ Login
  BY <1>2, LogoutInv, ToSaveDataInv, LoginInv
<1>3. CASE UNCHANGED vars
  <2>1. UNCHANGED <<storage, equipped, owned, level, exp, stats, gaining, session, cursor,
                    snapshot, db, cut, had, drops, kills, hits>>
    BY <1>3 DEF vars, item, growth, logout, bounds
  <2>2. Persistent' = Persistent
    BY <2>1 DEF Persistent
  <2>3. TypeOK' /\ StatsAgree' /\ ItemsConserved'
    BY <2>1, <2>2 DEF IInv, SlotsSound, TypeOK, StatsAgree, RecalcStats, Value,
                      ItemsConserved, CountIn
  <2>4. SoundItems(Persistent)' /\ SoundItems(snapshot)' /\ SoundItems(db)'
    BY <2>1, <2>2 DEF IInv, SlotsSound, SoundItems
  <2>5. QED
    BY <2>3, <2>4 DEF IInv, SlotsSound
<1>4. QED
  BY <1>1, <1>2, <1>3 DEF Next

\* Once every field is copied the copy is the player's.
LEMMA CopyComplete ==
  ASSUME IInv, CopiedSoFar, cursor = NumFields
  PROVE  snapshot = Persistent
<1> USE PlayerAssumption
<1>1. snapshot \in SaveData /\ Persistent \in SaveData
  BY DEF IInv, SlotsSound, TypeOK
<1>2. snapshot.level = level /\ snapshot.exp = exp /\ snapshot.hp = stats.hp
  BY DEF CopiedSoFar, NumFields
<1>3. \A i \in Slots : snapshot.storage[i] = storage[i]
  BY DEF CopiedSoFar, NumFields, Slots
<1>4. \A t \in Types : snapshot.equipped[t] = equipped[t]
  <2>1. \A j \in 1..3 : snapshot.equipped[EquipOrder[j]] = equipped[EquipOrder[j]]
    BY DEF CopiedSoFar, NumFields
  <2>2. \A t \in Types : \E j \in 1..3 : t = EquipOrder[j]
    BY DEF Types, EquipOrder
  <2>3. QED
    BY <2>1, <2>2
<1>5. /\ snapshot.storage \in [Slots -> InventorySlot] /\ storage \in [Slots -> InventorySlot]
      /\ snapshot.equipped \in [Types -> InventorySlot] /\ equipped \in [Types -> InventorySlot]
  BY <1>1, PersistentParts DEF SaveData
<1>6. snapshot.storage = storage /\ snapshot.equipped = equipped
  BY <1>3, <1>4, <1>5
<1>7. QED
  BY <1>1, <1>2, <1>6, PersistentParts DEF SaveData

LEMMA SingleStep == ~Multi /\ IInv /\ SingleInv /\ [Next]_vars => SingleInv'
<1> SUFFICES ASSUME ~Multi, IInv, SingleInv, [Next]_vars PROVE SingleInv'
  OBVIOUS
<1> USE PlayerAssumption
<1>1. ASSUME BeginSave,
             cut' \/ (~gaining' /\ level' < MaxLevel =>
                        exp' < LevelData[level' + 1].requiredExp),
             gaining' = gaining
      PROVE  SingleInv'
  <2>1. /\ session = "playing" /\ session' = "saving" /\ had' = {Persistent'} /\ cursor = 0
        /\ cut' = (cut \/ (gaining /\ LevelUpDue'))
        /\ UNCHANGED <<cursor, snapshot, db>>
    BY <1>1 DEF BeginSave, SingleInv
  <2>2. CopiedSoFar'
    BY <2>1 DEF CopiedSoFar, Slots
  <2>3. cut' \/ ~gaining' \/ ~LevelUpDue'
    BY <1>1, <2>1
  <2>4. ExpShortOfNext'
    BY <1>1, <2>1 DEF SingleInv, ExpShortOfNext
  <2>5. QED
    BY <2>1, <2>2, <2>3, <2>4 DEF SingleInv, SavedWasHeld
<1>2. ASSUME PlayerStep PROVE SingleInv'
  <2>1. session # "saving"
    BY <1>2 DEF PlayerStep, AddItem, EquipItem, UnequipItem, UseItem, GainExp, LevelUp,
                EndGainExp, OnDamaged, GameThread, NotSaving
  <2>2. (UNCHANGED <<session, cursor, db, cut>> /\ had' = had) \/ (LevelUp /\ BeginSave)
    BY <1>2, <2>1 DEF PlayerStep, AddItem, EquipItem, UnequipItem, UseItem, GainExp,
                      LevelUp, EndGainExp, OnDamaged, Recorded, logout
  <2>3. cut' \/ (~gaining' /\ level' < MaxLevel => exp' < LevelData[level' + 1].requiredExp)
    <3>1. CASE UNCHANGED <<level, exp, gaining>>
      BY <2>2, <3>1 DEF SingleInv, ExpShortOfNext, LevelUp, BeginSave
    <3>2. CASE (\E amount \in Amounts : GainExp(amount)) \/ LevelUp
      <4>1. gaining'
        BY <3>2 DEF GainExp, LevelUp
      <4>2. QED
        BY <4>1
    <3>3. CASE EndGainExp
      <4>1. level' = level /\ exp' = exp /\ exp \in Nat /\ level \in Levels
        BY <3>3, PlayerParts DEF EndGainExp
      <4>2. level < MaxLevel => LevelData[level + 1].requiredExp \in Nat
        BY <4>1 DEF Levels
      <4>3. QED
        BY <3>3, <4>1, <4>2 DEF EndGainExp, LevelUpDue
    <3>4. QED
      BY <1>2, <3>1, <3>2, <3>3
         DEF PlayerStep, AddItem, EquipItem, UnequipItem, UseItem, OnDamaged, growth
  <2>4. CASE UNCHANGED <<session, cursor, db, cut>> /\ had' = had
    BY <2>1, <2>3, <2>4 DEF SingleInv, ExpShortOfNext, SavedWasHeld
  <2>5. CASE LevelUp /\ BeginSave
    <3>1. gaining' = gaining
      BY <2>5 DEF LevelUp
    <3>2. QED
      BY <1>1, <2>3, <2>5, <3>1
  <2>6. QED
    BY <2>2, <2>4, <2>5
<1>3. CASE Disconnect
  <2>1. BeginSave /\ ~gaining /\ UNCHANGED <<level, exp, gaining>>
    BY <1>3 DEF Disconnect, growth
  <2>2. cut' \/ (~gaining' /\ level' < MaxLevel => exp' < LevelData[level' + 1].requiredExp)
    BY <2>1 DEF SingleInv, ExpShortOfNext, BeginSave
  <2>3. QED
    BY <1>1, <2>1, <2>2
<1>4. CASE ToSaveData
  <2>1. /\ session = "saving" /\ cursor < NumFields
        /\ snapshot' = FieldCopied(cursor) /\ cursor' = cursor + 1 /\ cursor \in Nat
        /\ UNCHANGED <<storage, equipped, level, exp, stats, gaining, session, db, cut,
                       had>>
    BY <1>4 DEF ToSaveData, item, growth, IInv, SlotsSound, TypeOK
  <2>2. Persistent' = Persistent
    BY <2>1 DEF Persistent
  <2>3. CopiedSoFar'
    <3> DEFINE new == snapshot'
    <3> HIDE DEF new
    <3>1. /\ new.level = IF cursor = 0 THEN level ELSE snapshot.level
          /\ new.exp = IF cursor = 1 THEN exp ELSE snapshot.exp
          /\ new.hp = IF cursor = 2 THEN stats.hp ELSE snapshot.hp
          /\ \A i \in Slots :
               new.storage[i] = IF cursor = 3 + i THEN storage[i] ELSE snapshot.storage[i]
          /\ \A j \in 1..3 :
               new.equipped[EquipOrder[j]] =
                 IF cursor = 2 + InventorySize + j THEN equipped[EquipOrder[j]]
                 ELSE snapshot.equipped[EquipOrder[j]]
      BY <2>1, FieldCopiedParts DEF new
    <3>2. CopiedSoFar
      BY <2>1 DEF SingleInv
    <3>3. /\ cursor + 1 > 0 => new.level = level
          /\ cursor + 1 > 1 => new.exp = exp
          /\ cursor + 1 > 2 => new.hp = stats.hp
      BY <2>1, <3>1, <3>2 DEF CopiedSoFar
    <3>4. ASSUME NEW i \in Slots, cursor + 1 > 3 + i
          PROVE  new.storage[i] = storage[i]
      <4>1. cursor = 3 + i \/ cursor > 3 + i
        BY <2>1, <3>4 DEF Slots
      <4>2. cursor > 3 + i => snapshot.storage[i] = storage[i]
        BY <3>2 DEF CopiedSoFar
      <4>3. QED
        BY <3>1, <4>1, <4>2
    <3>5. \A j \in 1..3 : cursor + 1 > 2 + InventorySize + j =>
            new.equipped[EquipOrder[j]] = equipped[EquipOrder[j]]
      BY <2>1, <3>1, <3>2 DEF CopiedSoFar
    <3>6. QED
      BY <2>1, <3>3, <3>4, <3>5 DEF CopiedSoFar, new
  <2>4. QED
    BY <2>1, <2>2, <2>3 DEF SingleInv, ExpShortOfNext, SavedWasHeld, LevelUpDue
<1>5. CASE SavePlayerData
  <2>1. /\ session' = "saved" /\ cursor' = 0 /\ db' = snapshot
        /\ UNCHANGED <<level, exp, gaining, cut, had>>
        /\ Persistent \in had /\ (cut \/ ~gaining \/ ~LevelUpDue)
    BY <1>5 DEF SavePlayerData, SingleInv, growth
  <2>2. snapshot = Persistent
    BY <1>5, CopyComplete DEF SavePlayerData, SingleInv
  <2>3. db'.level = level /\ db'.exp = exp
    BY <2>1, <2>2, PersistentParts
  <2>4. cut \/ (level < MaxLevel => exp < LevelData[level + 1].requiredExp)
    <3>1. CASE ~LevelUpDue
      <4>1. exp \in Nat /\ level \in Levels
        BY PlayerParts
      <4>2. level < MaxLevel => LevelData[level + 1].requiredExp \in Nat
        BY <4>1 DEF Levels
      <4>3. QED
        BY <3>1, <4>1, <4>2 DEF LevelUpDue
    <3>2. QED
      BY <2>1, <3>1 DEF SingleInv, ExpShortOfNext
  <2>5. ExpShortOfNext'
    BY <2>1, <2>3, <2>4 DEF SingleInv, ExpShortOfNext
  <2>6. QED
    BY <2>1, <2>2, <2>5 DEF SingleInv, SavedWasHeld
<1>6. CASE Login
  BY <1>6 DEF Login, SingleInv, ExpShortOfNext, SavedWasHeld
<1>7. CASE UNCHANGED vars
  BY <1>7 DEF vars, item, growth, logout, SingleInv, ExpShortOfNext, SavedWasHeld,
              CopiedSoFar, Persistent, LevelUpDue
<1>8. QED
  BY <1>2, <1>3, <1>4, <1>5, <1>6, <1>7 DEF Next

-----------------------------------------------------------------------------
LEMMA PlayerInvariant == Spec => []IInv
BY PlayerInit, PlayerStepInv, PTL DEF Spec

\* Each slot holds up to a stack of one item, each equipment slot its own kind: in
\* the game, in the copy that a logout takes and in the database (Player.cpp).
THEOREM SlotsStaySound == Spec => []SlotsSound
<1>1. IInv => SlotsSound
  BY DEF IInv
<1>2. QED
  BY <1>1, PlayerInvariant, PTL

\* The cached attack, defence and maximum are those of the level and of what is
\* worn (RecalcStats is called wherever one of them changes).
THEOREM StatsStayAgreed == Spec => []StatsAgree
<1>1. IInv => StatsAgree
  BY DEF IInv
<1>2. QED
  BY <1>1, PlayerInvariant, PTL

\* No operation of Player.cpp, and no login, loses or doubles an item.
THEOREM ItemsStayConserved == Spec => []ItemsConserved
<1>1. IInv => ItemsConserved
  BY DEF IInv
<1>2. QED
  BY <1>1, PlayerInvariant, PTL

\* In single mode no level-up is overdue between two gains, nor after a login,
\* unless a broken connection cut GainExp's loop short.
THEOREM SingleModeExpShort ==
  ASSUME ~Multi
  PROVE  Spec => []ExpShortOfNext
<1>1. Init => IInv /\ SingleInv
  BY PlayerInit
<1>2. IInv /\ SingleInv /\ [Next]_vars => IInv' /\ SingleInv'
  BY PlayerStepInv, SingleStep
<1>3. SingleInv => ExpShortOfNext
  BY DEF SingleInv
<1>4. QED
  BY <1>1, <1>2, <1>3, PTL DEF Spec

\* In single mode a logout saves what the player had when it began.
THEOREM SingleModeSavesHeld ==
  ASSUME ~Multi
  PROVE  Spec => []SavedWasHeld
<1>1. Init => IInv /\ SingleInv
  BY PlayerInit
<1>2. IInv /\ SingleInv /\ [Next]_vars => IInv' /\ SingleInv'
  BY PlayerStepInv, SingleStep
<1>3. SingleInv => SavedWasHeld
  BY DEF SingleInv
<1>4. QED
  BY <1>1, <1>2, <1>3, PTL DEF Spec
===============================================================================
