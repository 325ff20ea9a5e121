# A TLA+ model of the Pintos kernel

This directory holds TLA+ specifications of the Pintos kernel in
`src/pintos/src`, the configurations that check them with TLC, and proofs that
TLAPS checks.  `PROJECT.json` lists the components, the runs, the theorems, the
hazards of the code with the properties that are about them, and, for every
definition that models code, the lines it models.

## The system

Pintos runs threads on one processor.  A thread is switched out when it blocks,
yields or exits, or when the timer interrupt ends its time slice, which may be
between any two instructions that run with interrupts on.

| Part | Source | State | Operations | Interacts with |
|---|---|---|---|---|
| Scheduler | `threads/thread.c` | `ready_list`, `all_list`, each thread's status, `thread_ticks` | create, block, unblock, yield, exit, tick, idle | all |
| Synchronisation | `threads/synch.c` | semaphores, locks, conditions with their wait lists | down, try, up; acquire, release; wait, signal, broadcast | scheduler, interrupt handlers |
| Buffer cache | `filesys/bufcache.c` | 64 entries, an LRU list, one lock, one condition per entry and one for all | read, write, (flush) | locks, block device, inodes |
| Inodes | `filesys/inode.c` | open inodes, length, index, `extending`, `deny_write_cnt` | create, open, close, remove, read, write, deny, allow | cache, free map |
| Directories, free map | `filesys/directory.c`, `free-map.c`, `filesys.c` | names, bitmap of sectors | create, open, remove, add, look up, allocate, release | inodes |
| Processes | `userprog/process.c`, `syscall.c` | tree of processes, one `process_share` per parent and child | execute, wait, exit | scheduler, locks, loader |
| Descriptors | `userprog/syscall.c`, `filesys/file.c` | descriptor lists, `global_files` | open, close, read, write, seek, tell | inodes |
| Loader, page directories | `userprog/process.c`, `pagedir.c` | page tables, `stack_args` | load, map, unmap | allocators, files |
| Allocators | `threads/palloc.c`, `malloc.c`, `lib/kernel/bitmap.c` | bitmaps of pages, arenas, free lists | get, free | locks |
| Interrupts, timer | `threads/interrupt.c`, `devices/timer.c` | level, external context, ticks | enable, disable, handler, sleep | scheduler |
| Character devices | `devices/intq.c`, `serial.c`, `kbd.c`, `input.c` | ring buffers | put, get, interrupt | interrupts |
| Block devices | `devices/block.c`, `ide.c` | channel lock, completion semaphore | read, write, interrupt | semaphores |
| Console | `lib/kernel/console.c` | lock and its depth | acquire, release, print | locks |

Beside these: exceptions (`userprog/exception.c`), the kernel command line
(`threads/init.c`), the display, the clock, partitions, tar archives
(`filesys/fsutil.c`, `lib/ustar.c`) and the C library in `lib/`.

What makes the kernel hard to get right, and hard to test:

- the timer switches threads between any two instructions that run with
  interrupts on;
- a thread that is woken is not yet running: others may take what it was woken
  for (semaphores), or change the state it waited for (conditions);
- the buffer cache and the inodes let go of their lock in the middle of an
  operation, around the device;
- parents and children exit in any order, and share memory that the last one
  frees;
- the disk gets full in the middle of an extension;
- the disk raises interrupts late or unasked, and the handler cannot tell;
- pages, blocks and directories are given back on every path of a load or an
  exit, with other threads in the allocators;
- the power goes off with data in memory only.

## The modules

| Module | Models | One step is |
|---|---|---|
| `Thread` | the scheduler of `threads/thread.c`: `ready_list`, `status`, `running`, `thread_ticks` | (operators only) |
| `Synch` | `threads/synch.c` over `Thread`, with threads that call any primitive its assertions allow, creation, exit, timer and device interrupts and the idle thread | what runs with interrupts off, or one access to shared state with interrupts on |
| `Interrupt` | `interrupt.c`, `intr-stubs.S`, the timer and the exceptions, over `Thread` and two external interrupt controllers | one stage of a frame of a kernel stack |
| `BlockStore` | what the buffer cache, and the disk driver, promise: atomic reads and writes of sectors | a call, or its effect |
| `BufCache` | `filesys/bufcache.c`; `Abstract` is its instance of `BlockStore` | from taking `cache_lock` to letting go of it; a device transfer |
| `BufCacheWorkload` | `BufCache` with a bounded number of calls, for liveness | as `BufCache` |
| `FilesysDone` | power-off through `filesys_done`, over `BufCache` | as `BufCache` |
| `Inode` | reads, writes, extensions and denial of writes on one inode | a critical section of `inode_lock`, or one access outside it |
| `InodeIndex` | the direct, singly and doubly indirect blocks: create, grow, remove | a whole call |
| `OpenInodes` | `open_inodes`: open, reopen, remove, close | a critical section of `open_inodes_lock`, or one access outside it |
| `Files` | descriptors, `global_files`, open files, the root directory and the free map, with the blocks they are kept in | a whole system call |
| `Process` | `process_execute`, `start_process`, `process_wait`, `process_exit`, `exit_share` and the system calls on top of them | one access to what parent and child share |
| `PageTable` | x86 page tables and the functions of `userprog/pagedir.c` on them | (operators only) |
| `Pagedir` | every function of `pagedir.c` beside a CPU that caches entries in a TLB | a function, or an access of the CPU |
| `Segment` | `validate_segment`, the pages of a segment, the layout of the stack | (operators only) |
| `Loader` | `start_process`, `load`, `process_exit`, `process_activate` of several processes | up to the next allocation, read or change of something shared |
| `Memory` | `palloc.c` and `malloc.c`, over `Bitmap` | one access to a bitmap, a free list or an arena |
| `Ide` | `block.c`, `partition.c` and one channel of `ide.c` with two external disks | between two places where the driver waits; an event of the disk |
| `Intq`, `Console` | `intq.c`; `console.c`, `serial.c`, `input.c` over it, with an external UART | what runs with interrupts off, up to a sleep |
| `List`, `HashTable`, `Bitmap` | `lib/kernel` | (operators; `HashTable` has steps, one per call) |
| `CString`, `Format`, `Arithmetic`, `FixedPoint` | `string.c` and `stdlib.c`; `stdio.c`; `arithmetic.c`; `fixed-point.h` and `random.c` | (operators) |
| `Archive`, `Boot`, `Clock`, `Screen`, `Keyboard`, `Partition` | `ustar.c` and `fsutil.c`; `init.c` and `shutdown.c`; `timer.c`, `pit.c` and `rtc.c`; `vga.c`; `kbd.c`; `partition.c` | (operators) |
| `Library` | a caller of the algorithms of the two rows above and of `Segment`, with all inputs of small sets | one call |
| `KernelServices` | `Synch`, `Inode`, `OpenInodes`, `InodeIndex`, `Files`, `Ide` and `Console` side by side | a step of one of them |
| `KernelMemory` | `Memory`, `Pagedir`, `Loader` and `Library` side by side | a step of one of them |
| `MCSynch` | constants for TLC | |
| `CpuProofs` | the proofs about `Interrupt` and `Pagedir` | |
| the other `...Proofs` | the proofs about the module of that name (`LoaderProofs` also has `Segment`) | |

Two of the modules, `KernelServices` and `KernelMemory`, put modules that share
no variable side by side: the variable `part` says which one a behaviour is of,
and the variables of the others are 0.  A property of theirs is that of the part
(`part = "disk" => Disk!CompletionComing`), so a run of the union checks what
runs of the parts would, for one instance of each.

Variables have the names of the fields they model (`lru_list`, `until_ready`,
`deny_write_cnt`, `ready_list`).  A `pc` per thread says between which lines it
is; a local of the code that lives across steps is in `arg`, `local`, `entry` or
`proc`.  An operator under a comment that starts with `Fault:`, as
`sema_up_no_pop` before `sema_up`, is a wrong variant of the one that follows:
each property is shown to fail for one of them (`mutants` in `PROJECT.json`).

How the layers rest on each other.  `BufCache`, `Process`, `Inode` and the
device modules take a lock as something one thread has at a time and a condition
as a set of sleeping threads; `Synch` shows that for the code of `synch.c`
(`SynchConsistent`, `SignalAccounting`).  `Inode` reads and writes a sector in
one step, which is what `Linearizable` says of `BufCache`; `BufCache` does so
with the device, which is what `SectorsAtomic` says of `Ide`.  `Files` runs one
call at a time; what concurrent calls do to an inode is in `Inode` and
`OpenInodes`.  `Process` takes the result of `load` as a choice; `Loader` has its
inside.  `FilesysDone` and `BufCacheWorkload` extend `BufCache` and contain all
of it.

Details of the translation that are easy to miss:

- *Increments.*  In the object code of the kernel's build, `--inode->open_cnt`,
  `deny_write_cnt++` and `deny_write_cnt--` are a load and a store, and a timer
  interrupt may come between them; `inode->open_cnt++` in `inode_reopen` is one
  instruction.  The models split them in the same way where no lock protects
  them.
- *Uninitialised memory.*  `p->rvalue` before the child exits is `Uninit`; the
  sector of an inode from `malloc` is whatever was there; a block of a new index
  sector is `Junk`; the bytes of a new sector are `Stale`.
- *Freed memory.*  `Files` keeps the blocks of `malloc` on a free list, so a
  pointer that stays in `global_files` after a `free` sees the block's next use.
  `Process` stops (`panicked`) when it uses a thread that has exited; `Loader`
  stops at a double free.
- *Words.*  Arithmetic keeps its width where it can overflow: divisions and
  shifts, fixed-point numbers, addresses of segments, PIT counts, sizes of
  `calloc`, the numbers of a tar header.  The widths are constants.
- *Abstracted data.*  A thread writes one byte value; names, arguments and file
  contents are members of small sets except where a property is about the
  conversion (`Format`, `Archive`, `Boot`, `CString`).
- *External.*  The interrupt controllers, the UART, the disks, the TLB and the
  clock chip are modelled from how the code programs and reads them.

## What TLC checks

| Run | Checks | Bounds |
|---|---|---|
| `synch` | a ready thread gets the CPU; a unit that sleepers wait for is used | 2 threads, a semaphore also raised by interrupts, a lock, a condition, a time slice of two ticks |
| `bufcache` | the entries, transfers, sleepers and LRU list are consistent; a clean entry equals the disk; the cache implements `BlockStore`; every call returns | 3 threads, 1 call each, 3 sectors, 2 entries, 2 values |
| `process` | no use of a freed share, no leak; wait returns the child's status, once; exec reports the child's load; wait returns | the initial thread and 2 processes |
| `inode` | counter of writers and deniers, blocks, sectors used and sleepers are right; every call returns if the disk has room | 3 threads, one of which may deny, 1 call each, 2 sectors of one byte |
| `interrupt` | `intr_context()` is right; every request is served; a slice that is used up ends in a yield | 2 threads, 3 lines on two controllers, one of them without a handler |
| `services` | the parts of `KernelServices`, below | below |
| `memory` | the parts of `KernelMemory`, below | below |
| `filesys_done` | *fails*: nothing is left unwritten at power-off | 2 threads, 2 sectors, 2 entries |
| `execute_returns` | *fails*: `process_execute` returns | the initial thread and 1 process |
| `open_inodes_twice` | *fails*: one inode per sector | 2 threads, 1 sector |
| `files_magic` | *fails*: `magic` of a `struct thread` is kept | 2 processes, 4 descriptors |
| `stack_args` | *fails*: a process starts with its own arguments | 2 processes |

| Part of `services` | Checks | Bounds |
|---|---|---|
| threads (`Synch`) | a thread is on one list at most, locks exclude and `holder` is right; no wakeup is lost; each thread in `cond_wait` has exactly one wakeup to come | 3 threads, 1 semaphore, 1 lock, 1 condition, a time slice of one tick |
| shared inode (`Inode`) | as `inode`; extending a file keeps its bytes | 2 threads, 3 bytes in sectors of 2, a disk of 2 sectors |
| open inodes (`OpenInodes`) | one inode per sector; none in use is freed or unread; the list is exactly the open inodes; a removed file goes with its last closer | 1 thread, 3 sectors, memory for 2 inodes, 2 references |
| block index (`InodeIndex`) | each block has a sector of its own and stays in it; a sector is free, in one file, or lost to a failed call | 2 files, 9 sectors, 1 direct block, 2 pointers in an index block, lengths that use each level |
| files (`Files`) | calls on different files do not affect each other; an open descriptor leads to its file | 2 processes, 2 good names, 7 sectors, 7 blocks, 4 descriptors, 2 global files |
| disk (`Ide`) | a waiting thread will be woken; the channel implements `BlockStore` | 2 threads, a partition on each of 2 disks, 2 values, 1 unasked interrupt |
| console (`Console`) | output in order; messages do not mix; sleepers and UART have their event coming | 2 writers, 1 reader, nested messages, queues of 2 bytes |

| Part of `memory` | Checks | Bounds |
|---|---|---|
| allocators (`Memory`) | blocks in use do not overlap and keep their contents; what nobody has is free | 2 threads, 3 kernel pages and a user page, blocks of 8 bytes and of two pages |
| page directories (`Pagedir`) | accessed and dirty bits tell of every access since they were cleared | 2 directories, 1 page |
| loading (`Loader`) | an image is what its headers say; pages are held once or free; the active directory lives | 2 processes, 5 kinds of executables, memory that runs out |
| library (`Library`) | structures, text and numbers against their reference definitions | all inputs up to the sizes in `Library` |

`Library` compares each algorithm with what it is for: lists with sequences,
bitmaps with functions, the hash table with a set, the sorts with sorted
permutations, `memmove` with simultaneous copying, `printf` with a definition of
the number it prints, an archive that was extracted with the files that went in,
the 64-bit division with `\div` and `%`, the screen with the last lines of what
was written.  Widths are 4 bits for 32, and so on, and all operands are tried.

Why the bounds are enough to be interesting.  Three threads make a third party
to every race of two, for instance a newcomer that takes a lock between its
release and the start of the thread that was woken for it.  Fewer entries than
sectors force evictions in the cache, and two entries let an eviction and a hit
go on at once; with as many transfers as entries, threads wait for any entry.
Free sectors from none to enough make an extension fail at its first block, in
the middle and not at all.  In the index, lengths 8, 9 and 40 end in the direct
block, at the first block of the singly indirect one and in the doubly indirect
one, and nine sectors do not hold two files of the greatest length.  The lines
of `interrupt` are on both controllers.  Memory of `loading` suffices for two
images but not for every way to share it, so allocations fail at each place.
`Files` has fewer blocks than the calls can ask for, and a name that is refused.

In the runs other than `synch`, `interrupt` and the failing `filesys_done` and
`open_inodes_twice`, calls, threads or resources are bounded and behaviours end,
so deadlock is not checked there; the liveness properties say that nobody is
stuck.

### The failing runs

Each states what a comment says and the code does not do.

- `filesys_done`: "Shuts down the file system module, writing any unwritten data
  to disk" (`filesys/filesys.c:33`).  `bufcache_flush` is not called by anybody;
  a dirty entry is lost.
- `execute_returns`: "The new thread may be scheduled (and may even exit) before
  process_execute() returns" (`userprog/process.c:31`).  `process_execute` looks
  the child up on `all_list` until it finds it, and never does when the child
  has exited.
- `open_inodes_twice`: "opening a single inode twice returns the same `struct
  inode'" (`filesys/inode.c:230`).  The lock is released between the search and
  the insertion.
- `files_magic`: "Detects stack overflow" (`threads/thread.h:126`) and "Find
  lowest available fd" (`userprog/syscall.c:330`).  The search for a descriptor
  runs past the end of `closed_files` and overwrites `magic`.
- `stack_args`: "Put file_name and args onto the heap so we can access from
  setup_stack()" (`userprog/process.c:301`).  The pointer is one global for all
  loads.

### Other observations

Met while modelling; where a model would be affected its inputs stay clear of
them, which is said beside the definition.

- `inode.c:108`: an extension that fails leaves `extending` set, and the next
  call that extends waits for ever; the run `inode`
  supposes room on the disk, the proofs do not.
- `inode.c:518`: `inode_allow_write` counts without the lock, so with two deniers
  a denial can be lost; `InodeConsistent` is for one denier at a time.
- `inode.c:403`: a read past the end returns -1, so `file_read` moves its
  position back by one and `fsutil_cat` does not end.
- `inode.c:86`, `153`, `214`: the index counts pointers by `BLOCK_SECTOR_SIZE`; a
  file that needs a second block under the doubly indirect one has blocks
  without a sector.  `block index` stays below that length.
- `process.c:60` follows a pointer to a thread that may have exited since it was
  looked up.
- `process.c:536`: `arg_locations` has 100 elements and the stack one page; no
  check is made against either.
- `syscall.c:103`: after `delete_global` the table keeps a pointer to the freed
  block.  `global_files` has 1024 elements for all opens.
- `filesys_create` does not give the data sectors back when `dir_add` fails;
  directory operations hold no lock; `free_thread` closes no files.
- `ide.c:514`: `expecting_interrupt` is never reset.  The comment of
  `wait_until_idle` says 10 seconds where the loop waits 10 milliseconds.
- `palloc.c:141` frees without the pool's lock; the bits it clears are nobody
  else's, and `BlocksIntact` holds.  A `load` whose `pagedir_create` fails frees
  the previous `stack_args`.
- `malloc.c:166`: the overflow check of `calloc` misses products that wrap to a
  value above both factors.
- `partition.c:91` reads sector 0 whatever sector it is given, so a disk with an
  extended partition is read for ever; `Partition` has none.
- `rtc.c:86`: the conversion to seconds has wrong months and leap years.
- `arithmetic.c:131`: `__umoddi3` and `__moddi3` return 32 bits.
- `string.c:45`: the overlapping branch of `memmove` returns a moved pointer;
  `strnlen` reads one byte past its bound.
- `fixed-point.h`: `fix_round` is wrong for negative numbers, and `FIX_MAX_INT`
  overflows.
- `fsutil.c:217`: the two end markers of an archive go to one sector.
- `init.c:267`: "-rs" seeds the generator, which is seeded again later.
- `pit.c`: above two thirds of `PIT_HZ` the count is 1, which the chip does not
  accept.  `timer_calibrate` refines nine bits where its comment says eight.

### Fairness

- `Synch`: the timer ticks, the idle thread loops, and a thread that is on the
  CPU again and again takes its next step (strong fairness of `Primitive(t)`):
  a time slice is long enough for an instruction.  Nothing makes a thread call a
  primitive or a device interrupt.  A time slice of one tick is not enough in
  the model, where a step is as long as a tick, so `synch` has two.
- `Interrupt`: the timer's line is raised again and again; the CPU takes a
  request that is deliverable again and again (strong fairness, as other lines
  and `cli` come between); a handler runs to its end; a sleeping thread that gets
  the CPU again and again looks at the ticks.
- `BufCacheWorkload`, `Process`, `Inode`: a thread inside a call that can take a
  step takes it (weak fairness per thread), which `RoundRobin` shows of the
  scheduler; a device transfer ends.  User programs need not call anything.
- Locks of `synch.c` can be taken by a newcomer before the thread they were
  released for.  With unbounded calls a thread can lose that race for ever, so
  liveness of the cache and of inodes is checked for bounded numbers of calls.

## What is proved

Each theorem is for every value of the constants that its assumptions allow: any
number of threads, processes, entries, sectors, pages, disks, any sizes.

| Module | Theorem | Says |
|---|---|---|
| `SynchProofs` | `SynchStaysConsistent` | a thread is on one list at most, the one its status calls for; a lock has one owner; `holder` names it |
| | `WakeupsNeverLost` | while a thread sleeps on a semaphore, at least as many threads are about to test it as it has units |
| | `SignalsAccounted` | the wakeup of a thread in `cond_wait` is in exactly one place |
| `CpuProofs` | `ContextStaysAccurate` | `intr_context()` is true exactly from the entry of an external interrupt to its acknowledgement, with interrupts off, and no thread is switched out there |
| | `AccessesStayRecorded` | what the CPU did to a page is in its entry until the kernel clears it, and the TLB has no flag the entry lacks |
| `BufCacheProofs` | `StaysConsistent` | types; a sector has one entry; an entry not ready is in one transfer; sleepers wait for a transfer under way; the LRU list has every entry (also as four theorems of their own) |
| | `CleanEntriesMatch` | an entry that may be dropped equals the disk |
| | `Refinement` | the cache implements `BlockStore` |
| `InodeProofs` | `InodeStaysConsistent` | with one denier: counter, blocks, sectors used and sleepers are right |
| | `ExtendsKeepBytes` | with any number of deniers: a file does not shrink, and extending it keeps its bytes |
| `ProcessProofs` | `SharesStayConsistent` | no share is used after its free, and none leaks |
| | `WaitsReturnStatus` | `process_wait` returns the child's status, once |
| | `ExecsReportLoad` | exec returns after the child's load, with its result |
| `IdeProofs` | `CompletionNeverLost` | who waits for its command will be woken |
| | `ChannelRefinement` | the channel implements `BlockStore` |
| `ConsoleProofs` | `OutputStaysInOrder`, `MessagesStayUnmixed`, `WakeupsStayComing` | no character is lost or overtaken; messages do not mix; sleepers and UART have their event coming |
| `LoaderProofs` | `PagesStayAccounted` | every page is free in its pool, or held by one process in one way, whatever fails in `load` and whenever a process exits |
| | `DirectoryStaysAlive` | the CPU's page directory is not freed, nor about to be freed |
| | `SegmentsInUserSpace` | a segment that `validate_segment` accepts is loaded to whole user pages above page 0, and no address wraps around |

The assumptions are those of the modules (`BufCacheAssumption`,
`InodeAssumption`, `IdeAssumption`, ...): sizes are positive, null values are
none of the things they stand beside, partitions do not overlap, the pools of
pages are apart.  TLC evaluates every one of them on the instances it checks.
`InodeStaysConsistent` has the hypothesis `SingleDenier` in addition, without
which it is false (see `inode.c:518` above).

Each proof has the same form: an invariant `Inv` that is inductive and implies
the property, one lemma per action (or per action and conjunct) that the action
preserves it, and a last step in temporal logic.  What makes the invariants
inductive:

- **Synch.**  The lists alone are not inductive: `sema_up` wakes the head of a
  list whatever it does.  `SleepersDown` says that whoever is on the list of a
  semaphore sleeps in its `sema_down`, `DormantOutside` that a page without a
  thread is in no primitive, `LockUnits` that a lock's unit is in its semaphore
  or with one thread, `WakeupKept` that the wakeup of a thread in `cond_wait` is
  on the queue, with one signaller, or in its semaphore.  `NoLostWakeup` is
  about numbers of threads; the `Counting` facts about finite sets are stated
  once.
- **Interrupt.**  `FramesOK`: every frame of every stack is acknowledged, but for
  the innermost of the running thread; `LinesOK`: the controllers have exactly
  that one in service.
- **BufCache.**  Between the release of `cache_lock` in `clean` or `replace` and
  its acquisition afterwards a thread relies on things that only hold because
  nobody touches an entry with `ready = false`.  `Owns(t)` says what they are:
  the entry is not ready, it has a sector, it is dirty during a write-back and
  clean, with the wanted sector, during a fill, and once the device is done the
  entry and the disk agree.  For the refinement the state of the store is what a
  reader would get: `Store[s]` is the contents of the entry of `s` if it has one
  that is filled, and the disk's otherwise.  A hit is the effect of the call,
  `Call` is the call, and every other step leaves `Store` alone (the lemmas
  `...Hidden`).
- **Inode.**  `ExtendOK`: one thread allocates at a time, for a longer file, and
  the blocks it has passed are the file's; a thread in the copy loop is inside
  the file, unless an extension has failed and the inode is `Stuck`.  `CountOK`:
  with one denier the loads of the unprotected counter are still current when
  they are stored.
- **Process.**  `ShareOK`: the reference count is the number of those of parent
  and child that have not let go, wherever they are in the code (`ByParent`,
  `ByChild`); the lock is held, and the share freed, by whoever is at those
  lines.  `StatusOK` and `LoadOK` add what `sig` and `successload` imply.
- **Ide.**  `CommandsMatch`: what the holder of the channel knows about the
  device at each of its waits; `DeviceSettles`: a write, and nothing else, may go
  on after its call has returned.  `media` is the store's state.
- **Console.**  `TxOK` and `RxOK`: who waits in a queue holds its lock, is
  remembered by it, and the queue is full (or empty); `ConsoleOK`: the depth of
  the lock is that of the messages of its holder.  The queues are rings with
  positions modulo their size, and the lemmas about `Contents` say what a put and
  a get do to the sequence a ring stands for.
- **Pagedir.**  `WellFormed`: no table is in two places or free; `CacheOK`: a copy
  in the TLB has no flag its entry lacks; `TouchedOK`: the bits of what was done
  are in the entry.
- **Loader.**  `PagesAccounted` is not inductive: that a page is freed once
  depends on where the process is.  `Tidy` says what a process holds at each of
  its places in `load`, `start_process` and `process_exit` (its copy of the
  command line up to the end of `load`, a page being filled between
  `palloc_get_page` and `install_page`, a directory in `pagedir` or, during the
  exit, in the local variable `pd`), and that the segment it loads lies in user
  space, so that `install_page` finds an entry for it.  `Books` says the same of
  the pools: what is not free is exactly the copies, the directories, the tables
  in them, the pages in those and the pages being filled, each in one place.
  `CpuOK` ties `cr3` to the running process.  The lemmas `Keeps_...` take one
  action each, over lemmas about what `pagedir_set_page`, `pagedir_destroy` and
  an allocation do to the books.

Two facts about data are taken from the library's theorems rather than proved by
induction: a nonempty set of naturals has a least element, and a bounded one a
greatest (`HasFirst`, `HasLast`, from the well-foundedness of `<`).  They are
what `palloc`, `get_eviction_candidate` and the free map rely on.

### Only model-checked

- Liveness (`RoundRobin`, `WakeupDelivered`, `EveryCallReturns`, `WaitReturns`,
  `RequestsServed`, `Preempted`, and `ExecuteReturns`, which fails): fairness and
  `ENABLED` are out of the provers' reach.
- `Library` with the modules under it: what a recursive definition computes for
  every input needs induction over data with an operator as a parameter, which
  the provers cannot instantiate.
- `OneInode` and `OpenListConsistent` hold for one thread only, where a run says
  what a proof would.
- `ImageFaithful` and `ArgumentsOwn` of `Loader`, which are about what the pages
  hold.  The first would need an invariant about each segment loaded so far and
  the part of the current one; the second fails.
- `InodeIndex`, `Files` and `Memory`: their invariants relate whole structures (an
  index tree, a heap of blocks with a free list, arenas) and are checked on the
  instances above.

## Not modelled

- Priorities, `nice` and `recent_cpu` (stubs in the code), thread names,
  `thread_foreach`; `sema_self_test`.
- `bufcache_flush`: nothing calls it.
- The validation of user pointers in `syscall.c`; the system call stubs and the
  rest of `lib/user`.
- Overlapping calls on directories: `Files` runs one call at a time.  The write of
  the inode itself at the last close.
- Progress of the console and of the disk driver is stated as safety only: the
  event that makes a waiter go on is coming.
- Setting up hardware tables and memory at boot (`gdt.c`, `tss.c`, `loader.S`,
  `start.S`, registration of interrupt handlers); the speaker; `debug.c`; the
  conversion of a date to seconds; the strings of IDENTIFY; statistics.
- `src/schedlab`, a notebook that shares no code with the kernel.
