SPECIFICATION Spec
CONSTANTS
  potion = potion
  sword = sword
  armor = armor
  InventorySize = 1
  Items <- MCItems
  NoItem = NoItem
  ItemTemplate <- MCItemTemplate
  MaxLevel = 3
  LevelData <- MCLevelData
  Amounts <- MCAmounts
  MaxDrops = 1
  MaxKills = 0
  MaxHits = 0
  Multi = TRUE
INVARIANT SavedWasHeld
CHECK_DEADLOCK FALSE
