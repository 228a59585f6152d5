------------------------------- MODULE MCPlayer -----------------------------
\* Two slots and three items, so that the inventory fills up; a stack of two;
\* three levels, of which one kill gives one and some experience, or two.
EXTENDS PlayerItems

CONSTANTS potion, sword, armor

MCItems == {potion, sword, armor}

Template(type, value, maxStack) ==
  [type |-> type, value |-> value, maxStack |-> maxStack]

MCItemTemplate ==
  [it \in MCItems |->
     CASE it = potion -> Template("consumable", 1, 2)
       [] it = sword  -> Template("weapon", 2, 1)
       [] it = armor  -> Template("armor", 1, 1)]

MCLevelData ==
  [l \in 1..3 |-> [requiredExp |-> l - 1, maxHp |-> l + 1,
                   attack |-> 3 + l, defence |-> l]]

MCAmounts == {2, 3}
=============================================================================
