SPECIFICATION FairWSpec
CHECK_DEADLOCK FALSE
CONSTANTS
  t0 = t0
  t1 = t1
  t2 = t2
  NoThread = NoThread
  Threads <- AllThreads
  Main = t0
  Workers <- BothWorkers
  Pointers = 2
  Mallocs = 1
  Callocs = 1
  MallocSize <- MallocSizes
  CallocSize <- CallocSizes
  ReallocSize <- ReallocSizes
  MaxRefusals = 1
  Policies = {"first", "best", "worst"}
  Requests <- None
  CallocArgs <- None
  HDR = 2
  ALIGN = 2
  MIN_SPLIT_REMAINDER = 1
  HeapBase = 2
  BrkLimit = 120
  LibcSteps = {2}
  UINT_MAX = 31
  INTPTR_MAX = 63
INVARIANTS
  PointersAccounted
  LeaksAreFailedReallocs
PROPERTIES
  MainReturns
