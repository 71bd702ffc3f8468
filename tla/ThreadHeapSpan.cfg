SPECIFICATION Spec
CONSTANTS
  t1 = t1
  t2 = t2
  NoThread = NoThread
  Threads <- TwoThreads
  Policies = {"first"}
  Requests = {1}
  CallocArgs <- NoCallocs
  HDR = 2
  ALIGN = 2
  MIN_SPLIT_REMAINDER = 1
  HeapBase = 2
  BrkLimit = 18
  LibcSteps = {}
  UINT_MAX = 31
  INTPTR_MAX = 63
INVARIANTS
  SpanIsConsumption
