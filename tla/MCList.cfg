SPECIFICATION FairSpec
CONSTANTS
  a = a
  b = b
  Items <- TwoItems
  HeapSize = 3
INVARIANTS
  WellFormed
PROPERTIES
  Destroyed
  ImplementsItemList
CHECK_DEADLOCK FALSE
