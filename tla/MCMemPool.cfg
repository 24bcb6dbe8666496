SPECIFICATION SymSpec
CONSTANTS
  StartSize = 5
  AllocSizes <- MCAllocSizes
  AlignBytes = 2
  MaxAllocs = 7
  Keys <- MCKeys
  KeyHash <- MCKeyHash
  KeySize <- MCKeySize
  InitialLen = 2
  MaxAsked = 5
  Users <- MCUsers
INVARIANTS
  SearchableOrder
  NoOverlap
  GrowthFollowsCount
PROPERTIES
  BestFit
  ImplementsPool
  CallsReturn
  GivesUniqueItems
CHECK_DEADLOCK FALSE
