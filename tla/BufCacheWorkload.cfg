CONSTANTS
  t1 = t1
  t2 = t2
  t3 = t3
  s1 = s1
  s2 = s2
  Threads = {t1, t2, t3}
  Sectors = {s1, s2, s3}
  s3 = s3
  BLOCK_SECTOR_SIZE = 1
  Values = {0, 1}
  Zero = 0
  NUM_ENTRIES = 2
  NULL = NULL
  NoSector = NoSector
  NoRequest = NoRequest
  MaxCalls = 1
SPECIFICATION WorkloadSpec
INVARIANTS CacheConsistent CleanMatchesDisk
PROPERTIES Linearizable EveryCallReturns
CHECK_DEADLOCK FALSE
