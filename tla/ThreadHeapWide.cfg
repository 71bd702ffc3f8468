SPECIFICATION Spec
CONSTANTS
  t1 = t1
  t2 = t2
  NoThread = NoThread
  Threads <- OneThread
  Policies = {"first"}
  Requests = {1, 35}
  CallocArgs <- NoCallocs
  HDR = 2
  ALIGN = 2
  MIN_SPLIT_REMAINDER = 1
  HeapBase = 2
  BrkLimit = 16
  LibcSteps = {}
  UINT_MAX = 31
  INTPTR_MAX = 63
INVARIANTS
  AllocationsKept
