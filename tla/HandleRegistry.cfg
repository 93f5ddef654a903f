CONSTANTS
  t1 = t1
  t2 = t2
  t3 = t3
  Threads = {t1, t2, t3}
  Addresses = {1}
  MaxHandles = 3
SPECIFICATION FairSpec
INVARIANTS
  MemorySafe
  NothingLost
PROPERTY
  QueriesReturn
CHECK_DEADLOCK FALSE
