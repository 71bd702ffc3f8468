SPECIFICATION Spec
CHECK_DEADLOCK FALSE
CONSTANTS
  t1 = t1
  t2 = t2
  Threads <- TwoThreads
  Variants = {"preloaded"}
  Callers = {"one"}
  Main = t1
  Requests = {0, 1, 2}
  CallocArgs <- SomeCallocs
  META_SIZE = 1
  HeapBase = 1
  BrkLimit = 9
  ManyLimit = 5
  INTPTR_MAX = 7
INVARIANTS
  AssertionsHold
