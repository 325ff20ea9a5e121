---------------------------- MODULE KernelServices ----------------------------
(***************************************************************************)
(* Threads, the file system and the devices under it, side by side:        *)
(* synchronisation, one inode shared by threads, open inodes, block        *)
(* indexes, system calls on files, the disk driver and the console.  Each  *)
(* is a module of its own and they share no variable, so a behaviour is    *)
(* one of the part that `part' names, and the variables of the others are  *)
(* 0.                                                                      *)
(***************************************************************************)
EXTENDS Naturals, TLC

CONSTANTS
  Parts,            \* the parts of which there are behaviours
  Null,
  KernelThreads, initial_thread, idle_thread, TIME_SLICE, Semas, Locks, Conds, CondLock, MaxValue,
  FileThreads, Deniers, MaxCalls, FileLength, FileSectorSize, FileDiskSize, Stale,
  InodeThreads, InodeSectors, Addresses, MaxRefs,
  IndexFiles, DiskSize, Lengths, NUM_DIRECT, NUM_BLOCKS_IN_INDIRECT,
  BLOCK_SECTOR_SIZE, Junk,
  Procs, Names, BadNames, BlockCount, SectorCount, DirEntries, DirPerSector,
  MAX_FD, MAX_GLOBAL, MaxLength,
  DiskThreads, DiskBlocks, Capacity, Values, Zero, MaxSpurious,
  NoRequest,
  Writers, Readers, Handler, MessageLength, MaxIntrOutput, INTQ_BUFSIZE

VARIABLES
  part,
  thread_status, ready_list, running, thread_ticks, value, waiters, holder,
  cond_waiters, thread_pc, thread_arg, cond, ret, held,
  length, direct_ptrs, extending, deny_write_cnt, inode_lock,
  until_not_extending, until_no_writers, file_free, file_disk, file_pc, local,
  denying, calls,
  inode, allocated, open_inodes, linked, blocks, refs, open_pc, arg,
  inode_disk, index, free, state, lost,
  fs, heap, global_files, proc, fs_panicked, ref,
  lock, expecting_interrupt, completion_wait, is_ata, disk_pc, req,
  disk_buffer, selected, status, data, media, intrq, spurious, disk_panicked,
  mode, txq, buffer, ier, thr, rbr, log, sent, console_lock,
  console_lock_depth, pc, rest, printed

Sync == INSTANCE Synch WITH
  Threads <- KernelThreads, NULL <- Null,
  status <- thread_status, pc <- thread_pc, arg <- thread_arg
Shared == INSTANCE Inode WITH
  NULL <- Null, Threads <- FileThreads, MaxLength <- FileLength,
  DiskSize <- FileDiskSize,
  BLOCK_SECTOR_SIZE <- FileSectorSize, blocks <- direct_ptrs, free <- file_free,
  disk <- file_disk, pc <- file_pc
Opens == INSTANCE OpenInodes WITH
  NULL <- Null, Threads <- InodeThreads, Sectors <- InodeSectors, pc <- open_pc
Index == INSTANCE InodeIndex WITH Files <- IndexFiles, inode <- inode_disk
Calls == INSTANCE Files WITH panicked <- fs_panicked
Disk == INSTANCE Ide WITH
  NULL <- Null, Threads <- DiskThreads, Blocks <- DiskBlocks, pc <- disk_pc, buffer <- disk_buffer,
  panicked <- disk_panicked
Port == INSTANCE Console WITH NULL <- Null

ASSUME ServicesAssumption ==
  /\ Sync!ThreadAssumption /\ Sync!SynchAssumption /\ Shared!InodeAssumption
  /\ Opens!OpenInodesAssumption /\ Index!IndexAssumption
  /\ Calls!FilesAssumption /\ Disk!IdeAssumption /\ Port!ConsoleAssumption

syncVars == <<thread_status, ready_list, running, thread_ticks, value, waiters,
              holder, cond_waiters, thread_pc, thread_arg, cond, ret, held>>
sharedVars == <<length, direct_ptrs, extending, deny_write_cnt, inode_lock,
                until_not_extending, until_no_writers, file_free, file_disk,
                file_pc, local, denying, calls>>
openVars == <<inode, allocated, open_inodes, linked, blocks, refs, open_pc, arg>>
indexVars == <<inode_disk, index, free, state, lost>>
callVars == <<fs, heap, global_files, proc, fs_panicked, ref>>
diskVars == <<lock, expecting_interrupt, completion_wait, is_ata, disk_pc, req,
              disk_buffer, selected, status, data, media, intrq, spurious,
              disk_panicked>>
portVars == <<mode, txq, buffer, ier, thr, rbr, log, sent, console_lock,
              console_lock_depth, pc, rest, printed>>
vars == <<part, syncVars, sharedVars, openVars, indexVars, callVars, diskVars, portVars>>

\* The variables of the other parts.
NoSync ==
  /\ thread_status = 0 /\ ready_list = 0 /\ running = 0 /\ thread_ticks = 0
  /\ value = 0 /\ waiters = 0 /\ holder = 0 /\ cond_waiters = 0 /\ thread_pc = 0
  /\ thread_arg = 0 /\ cond = 0 /\ ret = 0 /\ held = 0
NoShared ==
  /\ length = 0 /\ direct_ptrs = 0 /\ extending = 0 /\ deny_write_cnt = 0
  /\ inode_lock = 0 /\ until_not_extending = 0 /\ until_no_writers = 0
  /\ file_free = 0 /\ file_disk = 0 /\ file_pc = 0 /\ local = 0 /\ denying = 0
  /\ calls = 0
NoOpens ==
  /\ inode = 0 /\ allocated = 0 /\ open_inodes = 0 /\ linked = 0 /\ blocks = 0
  /\ refs = 0 /\ open_pc = 0 /\ arg = 0
NoIndex ==
  /\ inode_disk = 0 /\ index = 0 /\ free = 0 /\ state = 0 /\ lost = 0
NoCalls ==
  /\ fs = 0 /\ heap = 0 /\ global_files = 0 /\ proc = 0 /\ fs_panicked = 0
  /\ ref = 0
NoDisk ==
  /\ lock = 0 /\ expecting_interrupt = 0 /\ completion_wait = 0 /\ is_ata = 0
  /\ disk_pc = 0 /\ req = 0 /\ disk_buffer = 0 /\ selected = 0 /\ status = 0
  /\ data = 0 /\ media = 0 /\ intrq = 0 /\ spurious = 0 /\ disk_panicked = 0
NoPort ==
  /\ mode = 0 /\ txq = 0 /\ buffer = 0 /\ ier = 0 /\ thr = 0 /\ rbr = 0
  /\ log = 0 /\ sent = 0 /\ console_lock = 0 /\ console_lock_depth = 0
  /\ pc = 0 /\ rest = 0 /\ printed = 0

Init ==
  /\ part \in Parts
  /\ \/ part = "threads" /\ Sync!Init
        /\ NoShared /\ NoOpens /\ NoIndex /\ NoCalls /\ NoDisk /\ NoPort
     \/ part = "shared inode" /\ Shared!Init
        /\ NoSync /\ NoOpens /\ NoIndex /\ NoCalls /\ NoDisk /\ NoPort
     \/ part = "open inodes" /\ Opens!Init
        /\ NoSync /\ NoShared /\ NoIndex /\ NoCalls /\ NoDisk /\ NoPort
     \/ part = "block index" /\ Index!Init
        /\ NoSync /\ NoShared /\ NoOpens /\ NoCalls /\ NoDisk /\ NoPort
     \/ part = "files" /\ Calls!Init
        /\ NoSync /\ NoShared /\ NoOpens /\ NoIndex /\ NoDisk /\ NoPort
     \/ part = "disk" /\ Disk!Init
        /\ NoSync /\ NoShared /\ NoOpens /\ NoIndex /\ NoCalls /\ NoPort
     \/ part = "console" /\ Port!Init
        /\ NoSync /\ NoShared /\ NoOpens /\ NoIndex /\ NoCalls /\ NoDisk

Next ==
  /\ UNCHANGED part
  /\ \/ part = "threads" /\ Sync!Next
        /\ UNCHANGED <<sharedVars, openVars, indexVars, callVars, diskVars, portVars>>
     \/ part = "shared inode" /\ Shared!Next
        /\ UNCHANGED <<syncVars, openVars, indexVars, callVars, diskVars, portVars>>
     \/ part = "open inodes" /\ Opens!Next
        /\ UNCHANGED <<syncVars, sharedVars, indexVars, callVars, diskVars, portVars>>
     \/ part = "block index" /\ Index!Next
        /\ UNCHANGED <<syncVars, sharedVars, openVars, callVars, diskVars, portVars>>
     \/ part = "files" /\ Calls!Next
        /\ UNCHANGED <<syncVars, sharedVars, openVars, indexVars, diskVars, portVars>>
     \/ part = "disk" /\ Disk!Next
        /\ UNCHANGED <<syncVars, sharedVars, openVars, indexVars, callVars, portVars>>
     \/ part = "console" /\ Port!Next
        /\ UNCHANGED <<syncVars, sharedVars, openVars, indexVars, callVars, diskVars>>

Spec == Init /\ [][Next]_vars
-----------------------------------------------------------------------------
(* Properties, each of the module it names. *)

\* The lists of the scheduler and of the semaphores, mutual exclusion and the
\* holders of locks (Synch).
SynchConsistent == part = "threads" => Sync!SynchConsistent

\* No unit of a semaphore is left while threads sleep on it (Synch).
NoLostWakeup == part = "threads" => Sync!NoLostWakeup

\* A signal wakes a thread that waits, and just one (Synch).
SignalAccounting == part = "threads" => Sync!SignalAccounting

\* The counts of writers and deniers, the sectors of the file and those that
\* reads and writes use, and the sleepers (Inode).
InodeConsistent == part = "shared inode" => Shared!InodeConsistent

\* An open file does not shrink, and extending it keeps its bytes (Inode).
ExtendKeeps == [][part = "shared inode" => Shared!KeepsBytes]_sharedVars

\* Each sector has at most one struct inode in use (OpenInodes).
OneInode == part = "open inodes" => Opens!OneInode

\* Open inodes are allocated, filled, and on the list, and a removed file is
\* kept until its last inode_close (OpenInodes).
OpenListConsistent == part = "open inodes" => Opens!OpenListConsistent

\* Each block of each file has a sector of its own, and a sector is free, in
\* one file, or lost to an allocation that failed (InodeIndex).
IndexConsistent == part = "block index" => Index!IndexConsistent

\* Whatever is created, extended and removed, a block stays in its sector
\* (InodeIndex).
BlocksStay == [][part = "block index" => Index!KeepsBlocks]_indexVars

\* Calls on different files do not affect each other (Files).
FilesApart == part = "files" => Calls!FilesApart

\* A descriptor that a process has open leads to its open file (Files).
DescriptorsValid == part = "files" => Calls!DescriptorsValid

\* struct thread is whole: `magic' has the value that is_thread looks for
\* (Files).
MagicKept == part = "files" => Calls!MagicKept

\* A thread that waits for its disk command will be woken (Ide).
CompletionComing == part = "disk" => Disk!CompletionComing

\* ide_read and ide_write implement the store of BlockStore (Ide).
SectorsAtomic ==
  /\ part = "disk" => Disk!Abstract!StoreInit
  /\ [][part = "disk" => [Disk!Abstract!StoreNext]_Disk!Abstract!storeVars]_diskVars

\* The serial port sends what it is given, in order (Console).
OutputInOrder == part = "console" => Port!OutputInOrder

\* The messages of two threads do not mix on the console (Console).
MessagesUnmixed == part = "console" => Port!MessagesUnmixed

\* Neither a sleeper nor the UART is left without the event that makes it go
\* on (Console).
WakeupsComing == part = "console" => Port!WakeupsComing
-----------------------------------------------------------------------------
(* The instance for TLC. *)

\* A partition in the middle of each of two disks.
MCBlocks ==
  [hda1 |-> [disk |-> 0, start |-> 1, size |-> 1],
   hdb1 |-> [disk |-> 1, start |-> 1, size |-> 1]]

\* A message of two characters with one of a single character inside.
MCMessageLength == <<2, 1>>

\* The threads but the first are interchangeable in each part: the first runs
\* main, and is the one that denies writes and that finds the disks.
Symmetry == Permutations(KernelThreads \ {initial_thread})

\* One lock with one condition.
MCCondLock == [c \in Conds |-> CHOOSE l \in Locks : TRUE]
=============================================================================
