CONSTANTS
  Parts = {"allocators", "page directories", "loading", "library"}
  Threads = {t1, t2}
  ArenaPage = 40
  MIN_BLOCK = 8
  ARENA = 12
  LIST_ELEM = 8
  FreePages = 6
  user_page_limit = 2
  SIZE_MAX = 63
  Requests <- MCRequests
  Callocs <- MCCallocs
  PageGroups <- MCGroups
  MaxBlocks = 2
  PGBITS = 2
  PTBITS = 1
  PDBITS = 2
  KernelPages = {1, 2, 3, 4, 5, 6}
  UserPages = {11, 12, 13, 14, 15}
  DIR_BASE = 24
  DirPages = {11}
  Vpages = {8}
  LOAD_BASE = 16
  Procs = {"one", "two"}
  Kernel = "kernel"
  Commands <- MCCommands
  Elf <- MCElf
SYMMETRY Symmetry
SPECIFICATION Spec
INVARIANTS
  BlocksIntact
  NothingLeaked
  AccessesRecorded
  ImageFaithful
  PagesAccounted
  ActiveDirectoryLives
  StructuresFaithful
  
  NumbersFaithful
CHECK_DEADLOCK FALSE
