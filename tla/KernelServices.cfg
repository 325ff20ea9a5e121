CONSTANTS
  Parts = {"threads", "shared inode", "open inodes", "block index", "files", "disk", "console"}
  Null = NULL
  KernelThreads = {t1, t2, t3}
  initial_thread = t1
  idle_thread = idle
  TIME_SLICE = 1
  Semas = {s}
  Locks = {l}
  Conds = {c}
  CondLock <- MCCondLock
  MaxValue = 2
  FileThreads = {t1, d2}
  Deniers = {t1}
  MaxCalls = 1
  FileLength = 3
  FileSectorSize = 2
  FileDiskSize = 2
  Stale = Stale
  InodeThreads = {t0}
  InodeSectors = {s1, s2, s3}
  Addresses = {a1, a2}
  MaxRefs = 2
  IndexFiles = {f1, f2}
  DiskSize = 9
  Lengths = {8, 9, 40}
  NUM_DIRECT = 1
  NUM_BLOCKS_IN_INDIRECT = 2
  BLOCK_SECTOR_SIZE = 8
  Junk = Junk
  Procs = {t2, t3}
  Names = {"a", "b", "bad"}
  BadNames = {"bad"}
  BlockCount = 7
  SectorCount = 7
  DirEntries = 1
  DirPerSector = 1
  MAX_FD = 4
  MAX_GLOBAL = 2
  MaxLength = 1
  DiskThreads = {t1, d2}
  DiskBlocks <- MCBlocks
  Capacity = 2
  Values = {0, 1}
  Zero = 0
  MaxSpurious = 1
  NoRequest = NoRequest
  Writers = {t2, t3}
  Readers = {r1}
  Handler = intr
  MessageLength <- MCMessageLength
  MaxIntrOutput = 1
  INTQ_BUFSIZE = 2
SYMMETRY Symmetry
SPECIFICATION Spec
INVARIANTS
  SynchConsistent
  NoLostWakeup
  SignalAccounting
  
  
  OpenListConsistent
  IndexConsistent
  FilesApart
  
  CompletionComing
  
  MessagesUnmixed
  WakeupsComing
PROPERTIES
  ExtendKeeps
  BlocksStay
  
CHECK_DEADLOCK FALSE
