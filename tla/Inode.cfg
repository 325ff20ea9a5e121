CONSTANTS
  t1 = t1
  t2 = t2
  t3 = t3
  Threads = {t1, t2, t3}
  Deniers = {t1}
  MaxCalls = 1
  MaxLength = 2
  BLOCK_SECTOR_SIZE = 1
  DiskSize = 2
  NULL = NULL
  Stale = Stale
SPECIFICATION FairSpec
INVARIANTS InodeConsistent
PROPERTIES EveryCallReturns
CHECK_DEADLOCK FALSE
