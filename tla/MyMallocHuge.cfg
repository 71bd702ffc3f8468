SPECIFICATION Spec
CONSTANTS
  t1 = t1
  t2 = t2
  NoThread = NoThread
  Threads <- OneThread
  Reallocators <- OneThread
  Requests = {1, 62}
  CallocArgs <- NoCallocs
  META_SIZE = 1
  MIN_SPLIT_REMAINDER = 1
  HeapBase = 1
  BrkLimit = 12
  LibcSteps = {}
  INTPTR_MAX = 31
INVARIANTS
  GrantCoversRequest
