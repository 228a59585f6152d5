SPECIFICATION Spec
CONSTANTS
  Grid <- MCRing
  MaxDepth = 20
PROPERTY ComesHome
CHECK_DEADLOCK FALSE
