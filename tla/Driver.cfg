SPECIFICATION FairDSpec
CHECK_DEADLOCK FALSE
CONSTANTS
  t1 = t1
  NoThread = NoThread
  Threads <- OneThread
  Reallocators <- OneThread
  Main = t1
  Pointers = 4
  MallocSize <- MallocSizes
  CallocArg <- CallocPairs
  ReallocSize <- ReallocSizes
  Requests <- AllSizes
  CallocArgs <- AllPairs
  META_SIZE = 3
  MIN_SPLIT_REMAINDER = 1
  HeapBase = 1
  BrkLimit = 120
  LibcSteps = {2}
  INTPTR_MAX = 127
INVARIANTS
  PointersAccounted
  LeakReportedIffDropped
  HeapCollapsed
PROPERTIES
  MainReturns
