SPECIFICATION Spec
CONSTANTS
  potion = potion
  sword = sword
  armor = armor
  InventorySize = 2
  Items <- MCItems
  NoItem = NoItem
  ItemTemplate <- MCItemTemplate
  MaxLevel = 3
  LevelData <- MCLevelData
  Amounts <- MCAmounts
  MaxDrops = 3
  MaxKills = 1
  MaxHits = 1
  Multi = FALSE
INVARIANTS
  StatsAgree
  SlotsSound
  ItemsConserved
  ExpShortOfNext
  SavedWasHeld
CHECK_DEADLOCK FALSE
