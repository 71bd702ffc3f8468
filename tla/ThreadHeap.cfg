SPECIFICATION Spec
CONSTANTS
  t1 = t1
  t2 = t2
  NoThread = NoThread
  Threads <- TwoThreads
  Policies = {"first", "best", "worst"}
  Requests = {0, 1, 4}
  CallocArgs <- SomeCallocs
  HDR = 2
  ALIGN = 2
  MIN_SPLIT_REMAINDER = 1
  HeapBase = 2
  BrkLimit = 18
  LibcSteps = {2}
  UINT_MAX = 31
  INTPTR_MAX = 63
SYMMETRY Interchangeable
INVARIANTS
  SafeHeaps
  AssertHolds
  HeapTiled
  AllocationsKept
  ListsLinked
  Aligned
  SpanIsConsumptionAndGaps
PROPERTIES
  PolicyKept
  FreeLeavesNothingToMerge
