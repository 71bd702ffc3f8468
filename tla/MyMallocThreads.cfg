SPECIFICATION HFairSpec
CONSTANTS
  t1 = t1
  t2 = t2
  NoThread = NoThread
  Threads <- TwoThreads
  Reallocators <- TwoThreads
  Requests = {0, 1, 4}
  CallocArgs <- SomeCallocs
  META_SIZE = 1
  MIN_SPLIT_REMAINDER = 1
  HeapBase = 1
  BrkLimit = 9
  LibcSteps = {3}
  INTPTR_MAX = 7
INVARIANTS
  TypeOK
  ListKept
  HeapCollapses
  DiagnosticsKept
  FreesMerge
  BlocksDisjoint
  NoByteLost
  GrantCoversRequest
  InUseIffHeld
  AssertHolds
  SafeInv
PROPERTIES
  SearchesInOrder
  HeadersMissPayloads
  ImplementsAllocator
  LockReleased
