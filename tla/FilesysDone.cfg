CONSTANTS
  t1 = t1
  t2 = t2
  s1 = s1
  s2 = s2
  Threads = {t1, t2}
  Halter = t1
  Sectors = {s1, s2}
  FREE_MAP_SECTOR = s1
  BLOCK_SECTOR_SIZE = 1
  Values = {0, 1}
  Zero = 0
  NUM_ENTRIES = 2
  NULL = NULL
  NoSector = NoSector
  NoRequest = NoRequest
SPECIFICATION DoneSpec
INVARIANT NothingUnwritten
