----------------------------- MODULE PlayerItems ----------------------------
(***************************************************************************)
(* One Player: experience and level, hit points, inventory and equipment   *)
(* (Server/Player.cpp), and what of it a logout saves and a login loads    *)
(* (GameSession::OnDisconnected, Handle_C_Login, DBManager).               *)
(*                                                                         *)
(* The game logic thread runs the operations; the thread that found the    *)
(* connection closed copies the player field by field (ToSaveData) and     *)
(* writes the copy in one transaction.  In single mode the two are one     *)
(* thread, which saves between two jobs, or inside one whose send fails at *)
(* once; in multi mode (Multi) nothing orders the two threads.             *)
(*                                                                         *)
(* A login makes a new Player from the saved data; the old one, which its  *)
(* room keeps until the LeaveRoom job, is of no interest from then on.     *)
(***************************************************************************)
EXTENDS Naturals, Sequences, FiniteSets

CONSTANTS
  InventorySize,       \* INVENTORY_SIZE
  Items, NoItem,       \* item ids; the 0 of an empty slot
  ItemTemplate,        \* type, value and maxStack of each item
  MaxLevel,            \* 30
  LevelData,           \* requiredExp, maxHp, attack and defence of each level
  Amounts,             \* experience a kill may give
  MaxDrops, MaxKills, MaxHits,   \* bounds: drops, gains of experience, blows
  Multi                \* two threads

Types == {"weapon", "armor", "consumable"}
Slots == 0..(InventorySize - 1)
Levels == 1..MaxLevel

\* Weapons and armor do not stack; the level table is complete, and every level
\* but the first costs experience.
ASSUME PlayerAssumption ==
  /\ InventorySize \in Nat \ {0} /\ MaxLevel \in Nat \ {0}
  /\ NoItem \notin Items
  /\ ItemTemplate \in [Items -> [type : Types, value : Nat, maxStack : Nat \ {0}]]
  /\ LevelData \in [Levels -> [requiredExp : Nat, maxHp : Nat \ {0},
                               attack : Nat, defence : Nat]]
  /\ \A l \in Levels : l > 1 => LevelData[l].requiredExp > 0
  /\ Amounts \subseteq Nat \ {0}
  /\ MaxDrops \in Nat /\ MaxKills \in Nat /\ MaxHits \in Nat
  /\ Multi \in BOOLEAN

VARIABLES
  storage,             \* _storage
  equipped,            \* _equipWeapon, _equipArmor, _equipPotion
  level, exp,          \* _level, _exp
  stats,               \* hp, maxHp, attack and defence of info
  gaining,             \* the loop of GainExp is running
  session,             \* "playing", "saving", "saved"
  cursor,              \* fields ToSaveData has copied
  snapshot,            \* its copy
  db,                  \* the saved data of the account
  cut,                 \* history: a logout began with a level-up still due
  owned,               \* history: how many of each item were received, not used
  had,                 \* history: what there was to save since the logout began
  drops, kills, hits

item == <<storage, equipped, owned>>
growth == <<level, exp, stats, gaining>>
logout == <<session, cursor, snapshot, db, cut>>
bounds == <<drops, kills, hits>>
vars == <<item, growth, logout, had, bounds>>

EmptySlot == [item |-> NoItem, count |-> 0]
InventorySlot == [item : Items \cup {NoItem}, count : Nat]

\* PlayerSaveData, but for the name.
Persistent ==
  [level |-> level, exp |-> exp, hp |-> stats.hp,
   storage |-> storage, equipped |-> equipped]

Least(S) == CHOOSE i \in S : \A j \in S : i <= j
Lower(m, n) == IF m < n THEN m ELSE n

Value(slot) == IF slot.item = NoItem THEN 0 ELSE ItemTemplate[slot.item].value

\* Attack and defence follow from the level and what is worn.
RecalcStats(s, l, worn) ==
  [s EXCEPT !.attack = LevelData[l].attack + Value(worn["weapon"]),
            !.defence = LevelData[l].defence + Value(worn["armor"])]

NewStats ==
  [hp |-> LevelData[1].maxHp, maxHp |-> LevelData[1].maxHp,
   attack |-> LevelData[1].attack, defence |-> LevelData[1].defence]

Init ==
  /\ storage = [i \in Slots |-> EmptySlot]
  /\ equipped = [t \in Types |-> EmptySlot]
  /\ level = 1 /\ exp = 0 /\ stats = NewStats
  /\ gaining = FALSE
  /\ session = "playing" /\ cursor = 0
  /\ snapshot = Persistent /\ db = Persistent /\ cut = FALSE
  /\ owned = [i \in Items |-> 0] /\ had = {}
  /\ drops = 0 /\ kills = 0 /\ hits = 0

\* In single mode the game logic stands still while the same thread saves.
NotSaving == session = "saving" => Multi

\* Jobs of the game thread are run one after the other.
GameThread == ~gaining /\ NotSaving

\* The player goes on changing while it is copied.
Recorded == had' = IF session = "saving" THEN had \cup {Persistent'} ELSE had

-----------------------------------------------------------------------------
(* Inventory *)

EmptySlots == {i \in Slots : storage[i].item = NoItem}

FindEmptySlot == Least(EmptySlots)

\* Slots that take one more of the item.
Stacks(it) ==
  {i \in Slots : /\ ItemTemplate[it].maxStack > 1
                 /\ storage[i].item = it
                 /\ storage[i].count < ItemTemplate[it].maxStack}

\* AddItem(it, 1), for a drop; with no room the drop is lost.
AddItem(it) ==
  /\ GameThread
  /\ drops < MaxDrops /\ drops' = drops + 1
  /\ \/ /\ Stacks(it) # {}
        /\ storage' = [storage EXCEPT ![Least(Stacks(it))].count =
                         Lower(@ + 1, ItemTemplate[it].maxStack)]
        /\ owned' = [owned EXCEPT ![it] = @ + 1]
     \/ /\ Stacks(it) = {} /\ EmptySlots # {}
        /\ storage' = [storage EXCEPT ![FindEmptySlot] = [item |-> it, count |-> 1]]
        /\ owned' = [owned EXCEPT ![it] = @ + 1]
     \/ /\ Stacks(it) = {} /\ EmptySlots = {}
        /\ UNCHANGED <<storage, owned>>
  /\ UNCHANGED <<equipped, growth, logout, kills, hits>>
  /\ Recorded

\* Variant: the statistics are not calculated again.
EquipKeepingStats(i) ==
  /\ GameThread
  /\ storage[i].item # NoItem
  /\ LET t == ItemTemplate[storage[i].item].type
     IN  /\ equipped' = [equipped EXCEPT ![t] = storage[i]]
         /\ storage' = [storage EXCEPT ![i] = equipped[t]]
  /\ UNCHANGED <<owned, growth, logout, bounds>>
  /\ Recorded

\* What was worn comes back into the slot.
EquipItem(i) ==
  /\ GameThread
  /\ storage[i].item # NoItem
  /\ LET t == ItemTemplate[storage[i].item].type
     IN  /\ equipped' = [equipped EXCEPT ![t] = storage[i]]
         /\ storage' = [storage EXCEPT ![i] = equipped[t]]
         /\ stats' = RecalcStats(stats, level, equipped')
  /\ UNCHANGED <<owned, level, exp, gaining, logout, bounds>>
  /\ Recorded

\* Variant: the equipment slot is not cleared.
UnequipKeeping(t) ==
  /\ GameThread
  /\ equipped[t].item # NoItem
  /\ EmptySlots # {}
  /\ storage' = [storage EXCEPT ![FindEmptySlot] = equipped[t]]
  /\ UNCHANGED <<equipped, owned, growth, logout, bounds>>
  /\ Recorded

UnequipItem(t) ==
  /\ GameThread
  /\ equipped[t].item # NoItem
  /\ EmptySlots # {}
  /\ storage' = [storage EXCEPT ![FindEmptySlot] = equipped[t]]
  /\ equipped' = [equipped EXCEPT ![t] = EmptySlot]
  /\ stats' = RecalcStats(stats, level, equipped')
  /\ UNCHANGED <<owned, level, exp, gaining, logout, bounds>>
  /\ Recorded

\* Variant: the last one of a stack leaves its id behind.
ConsumedKeepingId(slot) == [slot EXCEPT !.count = @ - 1]

\* One less; the last one empties the slot.
Consumed(slot) ==
  IF slot.count <= 1 THEN EmptySlot ELSE [slot EXCEPT !.count = @ - 1]

\* The effect of using one of what is in slot, a consumable.
Use(slot) ==
  /\ slot.item # NoItem
  /\ ItemTemplate[slot.item].type = "consumable"
  /\ stats' = [stats EXCEPT !.hp = Lower(@ + Value(slot), stats.maxHp)]
  /\ owned' = [owned EXCEPT ![slot.item] = @ - 1]

\* From the inventory, or (slot -1) from the potion slot.
UseItem ==
  /\ GameThread
  /\ \/ \E i \in Slots :
          /\ Use(storage[i])
          /\ storage' = [storage EXCEPT ![i] = Consumed(@)]
          /\ UNCHANGED equipped
     \/ /\ Use(equipped["consumable"])
        /\ equipped' = [equipped EXCEPT !["consumable"] = Consumed(@)]
        /\ UNCHANGED storage
  /\ UNCHANGED <<level, exp, gaining, logout, bounds>>
  /\ Recorded

-----------------------------------------------------------------------------
(* Experience and hit points *)

\* GainExp up to its loop; at the last level it does nothing.
GainExp(amount) ==
  /\ GameThread
  /\ level < MaxLevel
  /\ kills < MaxKills /\ kills' = kills + 1
  /\ exp' = exp + amount
  /\ gaining' = TRUE
  /\ UNCHANGED <<item, level, stats, logout, drops, hits>>
  /\ Recorded

\* Variant: > instead of >= in the loop's test.
LevelUpDueBeyond == level < MaxLevel /\ exp > LevelData[level + 1].requiredExp

LevelUpDue == level < MaxLevel /\ exp >= LevelData[level + 1].requiredExp

\* The connection is found closed: OnDisconnected begins to save.
BeginSave ==
  /\ session = "playing"
  /\ session' = "saving"
  /\ had' = {Persistent'}
  /\ cut' = (cut \/ (gaining /\ LevelUpDue'))
  /\ UNCHANGED <<cursor, snapshot, db>>

\* One turn of the loop, with ProcessLevelUp.  Its broadcast may find the player's
\* own connection broken, and then this thread saves before the next turn.
LevelUp ==
  /\ gaining /\ NotSaving /\ LevelUpDue
  /\ exp' = exp - LevelData[level + 1].requiredExp
  /\ level' = level + 1
  /\ LET raised == [stats EXCEPT !.maxHp = LevelData[level'].maxHp,
                                 !.hp = LevelData[level'].maxHp]
     IN  stats' = RecalcStats(raised, level', equipped)
  /\ UNCHANGED <<item, gaining, bounds>>
  /\ \/ UNCHANGED logout /\ Recorded
     \/ BeginSave

EndGainExp ==
  /\ gaining /\ NotSaving /\ ~LevelUpDue
  /\ gaining' = FALSE
  /\ UNCHANGED <<item, level, exp, stats, logout, had, bounds>>

\* Creature::OnDamaged; a player at 0 stays in the game.
OnDamaged(damage) ==
  /\ GameThread
  /\ hits < MaxHits /\ hits' = hits + 1
  /\ stats' = [stats EXCEPT !.hp = IF @ < damage THEN 0 ELSE @ - damage]
  /\ UNCHANGED <<item, level, exp, gaining, logout, drops, kills>>
  /\ Recorded

-----------------------------------------------------------------------------
(* Logout and login *)

\* A completion says that the connection is closed; in single mode the thread that
\* takes it is between two jobs.
Disconnect ==
  /\ gaining => Multi
  /\ UNCHANGED <<item, growth, bounds>>
  /\ BeginSave

EquipOrder == <<"weapon", "armor", "consumable">>
NumFields == 3 + InventorySize + 3

\* Variant: the last slot of the inventory is not copied.
FieldCopiedShort(n) ==
  CASE n = 0 -> [snapshot EXCEPT !.level = level]
    [] n = 1 -> [snapshot EXCEPT !.exp = exp]
    [] n = 2 -> [snapshot EXCEPT !.hp = stats.hp]
    [] n \in 3..(1 + InventorySize) -> [snapshot EXCEPT !.storage[n - 3] = storage[n - 3]]
    [] n = 2 + InventorySize -> snapshot
    [] OTHER -> LET t == EquipOrder[n - 2 - InventorySize]
                IN  [snapshot EXCEPT !.equipped[t] = equipped[t]]

\* The snapshot once the field after the first n is copied as well.
FieldCopied(n) ==
  CASE n = 0 -> [snapshot EXCEPT !.level = level]
    [] n = 1 -> [snapshot EXCEPT !.exp = exp]
    [] n = 2 -> [snapshot EXCEPT !.hp = stats.hp]
    [] n \in 3..(2 + InventorySize) -> [snapshot EXCEPT !.storage[n - 3] = storage[n - 3]]
    [] OTHER -> LET t == EquipOrder[n - 2 - InventorySize]
                IN  [snapshot EXCEPT !.equipped[t] = equipped[t]]

ToSaveData ==
  /\ session = "saving" /\ cursor < NumFields
  /\ snapshot' = FieldCopied(cursor)
  /\ cursor' = cursor + 1
  /\ UNCHANGED <<item, growth, session, db, cut, had, bounds>>

\* SavePlayerData: one transaction.
SavePlayerData ==
  /\ session = "saving" /\ cursor = NumFields
  /\ db' = snapshot
  /\ session' = "saved" /\ cursor' = 0
  /\ UNCHANGED <<item, growth, snapshot, cut, had, bounds>>

CountIn(data, it) ==
  LET held == {i \in Slots : data.storage[i].item = it}
      worn == {t \in Types : data.equipped[t].item = it}
      most == ItemTemplate[it].maxStack
  IN  Cardinality({p \in held \X (1..most) : p[2] <= data.storage[p[1]].count})
        + Cardinality({p \in worn \X (1..most) : p[2] <= data.equipped[p[1]].count})

\* Variant: the statistics are those of the level alone.
LoadedStatsBare(data) ==
  [hp |-> Lower(data.hp, LevelData[data.level].maxHp),
   maxHp |-> LevelData[data.level].maxHp,
   attack |-> LevelData[data.level].attack,
   defence |-> LevelData[data.level].defence]

\* ApplyFromSaveData
LoadedStats(data) ==
  RecalcStats([hp |-> Lower(data.hp, LevelData[data.level].maxHp),
               maxHp |-> LevelData[data.level].maxHp,
               attack |-> LevelData[data.level].attack,
               defence |-> LevelData[data.level].defence],
              data.level, data.equipped)

Login ==
  /\ session = "saved" /\ ~gaining
  /\ session' = "playing"
  /\ level' = db.level /\ exp' = db.exp
  /\ stats' = LoadedStats(db)
  /\ storage' = db.storage /\ equipped' = db.equipped
  /\ owned' = [it \in Items |-> CountIn(db, it)]
  /\ had' = {}
  /\ UNCHANGED <<gaining, cursor, snapshot, db, cut, bounds>>

-----------------------------------------------------------------------------
PlayerStep ==
  \/ \E it \in Items : AddItem(it)
  \/ \E i \in Slots : EquipItem(i)
  \/ \E t \in Types : UnequipItem(t)
  \/ UseItem
  \/ \E amount \in Amounts : GainExp(amount)
  \/ LevelUp \/ EndGainExp
  \/ OnDamaged(1)

Next == PlayerStep \/ Disconnect \/ ToSaveData \/ SavePlayerData \/ Login

Spec == Init /\ [][Next]_vars

-----------------------------------------------------------------------------
(* Properties *)

SaveData ==
  [level : Levels, exp : Nat, hp : Nat, storage : [Slots -> InventorySlot],
   equipped : [Types -> InventorySlot]]

TypeOK ==
  /\ Persistent \in SaveData /\ snapshot \in SaveData /\ db \in SaveData
  /\ stats \in [hp : Nat, maxHp : Nat, attack : Nat, defence : Nat]
  /\ gaining \in BOOLEAN /\ cut \in BOOLEAN
  /\ session \in {"playing", "saving", "saved"}
  /\ cursor \in 0..NumFields
  /\ owned \in [Items -> Nat]
  /\ had \subseteq SaveData
  /\ drops \in 0..MaxDrops /\ kills \in 0..MaxKills /\ hits \in 0..MaxHits

\* The cached statistics are those of the level and of what is worn, whatever
\* was equipped, gained and loaded in whichever order, and hit points stay
\* within what the level allows.
StatsAgree ==
  /\ stats = RecalcStats(stats, level, equipped)
  /\ stats.maxHp = LevelData[level].maxHp
  /\ stats.hp <= stats.maxHp

\* A slot, its stack and its kind.
SoundSlot(slot) ==
  IF slot.item = NoItem THEN slot.count = 0
  ELSE slot.count \in 1..ItemTemplate[slot.item].maxStack

SoundItems(data) ==
  /\ \A i \in Slots : SoundSlot(data.storage[i])
  /\ \A t \in Types : /\ SoundSlot(data.equipped[t])
                      /\ data.equipped[t].item # NoItem =>
                           ItemTemplate[data.equipped[t].item].type = t

\* No slot names an item it has none of or holds more than a stack, and each
\* equipment slot holds its own kind, in the game, in a snapshot and in the
\* database.
SlotsSound ==
  TypeOK /\ SoundItems(Persistent) /\ SoundItems(snapshot) /\ SoundItems(db)

\* Equipping, taking off, stacking, using and loading neither lose nor double
\* an item: there are as many as were received and not used.
ItemsConserved == \A it \in Items : CountIn(Persistent, it) = owned[it]

\* Between two gains the experience is short of the next level, in the game and
\* in the database, so no login starts with a level-up overdue, unless a broken
\* connection cut a gain of several levels short.
ExpShortOfNext ==
  \/ cut
  \/ /\ ~gaining /\ level < MaxLevel => exp < LevelData[level + 1].requiredExp
     /\ db.level < MaxLevel => db.exp < LevelData[db.level + 1].requiredExp

\* What a logout saves ("stats and inventory are saved") is what the player had
\* at one moment of the logout.
SavedWasHeld == session = "saved" => db \in had
=============================================================================
