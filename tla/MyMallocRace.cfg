SPECIFICATION Spec
CONSTANTS
  t1 = t1
  t2 = t2
  NoThread = NoThread
  Threads <- TwoThreads
  Reallocators <- TwoThreads
  Requests = {0, 1, 4}
  CallocArgs <- NoCallocs
  META_SIZE = 1
  MIN_SPLIT_REMAINDER = 1
  HeapBase = 1
  BrkLimit = 9
  LibcSteps = {}
  INTPTR_MAX = 31
INVARIANTS
  ListThreadsBlocks
