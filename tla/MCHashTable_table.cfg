SPECIFICATION FairSpec
CONSTANTS
  Keys <- ThreeKeys
  Values = {1, 2}
  Address = {1, 2, 3}
  Spot <- Spots
  Hash <- Hashes
  Sizes = {1, 3}
  TableRules = {"manual_rehash", "safe_removal", "no_reordering"}
INVARIANTS
  Linked
PROPERTIES
  NoKeyTwice
  IterationEnds
  ImplementsMap
CHECK_DEADLOCK FALSE
