---------------------------- MODULE KernelMemory ----------------------------
(***************************************************************************)
(* The kernel's memory and its library, side by side: the page and block   *)
(* allocators, page directories, the loading of executables, and the       *)
(* algorithms of Library.  They share no variable, so a behaviour is one   *)
(* of the part that `part' names, and the variables of the others are 0.   *)
(***************************************************************************)
EXTENDS Naturals, TLC

CONSTANTS
  Parts,            \* the parts of which there are behaviours
  Threads, ArenaPage, MIN_BLOCK, ARENA, LIST_ELEM, FreePages, user_page_limit,
  SIZE_MAX, Requests, Callocs, PageGroups, MaxBlocks,
  PGBITS, PTBITS, PDBITS, KernelPages, UserPages,
  DIR_BASE, DirPages, Vpages, LOAD_BASE, Procs, Kernel, Commands, Elf

VARIABLES
  part,
  used_map, pool_lock, desc_lock, free_list, arena, blocks, data, alloc, alloc_pc,
  panicked,
  tables, tables_cr3, tlb, touched,
  mm, frames, pagedir, cr3, running, stack_args, text, block, proc,
  call, hash, buckets, elem_cnt, contents, result

Alloc == INSTANCE Memory WITH
  PGSIZE <- ArenaPage, Groups <- PageGroups, ELEM_SIZE <- 4, CHAR_BIT <- 8,
  BITMAP_ERROR <- 1000, call <- alloc, pc <- alloc_pc
Dirs == INSTANCE Pagedir WITH
  PHYS_BASE <- DIR_BASE, UserPages <- DirPages, cr3 <- tables_cr3
Load == INSTANCE Loader WITH PHYS_BASE <- LOAD_BASE
Lib == INSTANCE Library

ASSUME KernelMemoryAssumption ==
  Alloc!MemoryAssumption /\ Dirs!PagedirAssumption /\ Load!LoaderAssumption

allocVars == <<used_map, pool_lock, desc_lock, free_list, arena, blocks, data, alloc,
               alloc_pc, panicked>>
dirVars == <<tables, tables_cr3, tlb, touched>>
loadVars == <<mm, frames, pagedir, cr3, running, stack_args, text, block, proc>>
libVars == <<call, hash, buckets, elem_cnt, contents, result>>
vars == <<part, allocVars, dirVars, loadVars, libVars>>

\* The variables of the other parts.
NoAlloc ==
  /\ used_map = 0 /\ pool_lock = 0 /\ desc_lock = 0 /\ free_list = 0 /\ arena = 0
  /\ blocks = 0 /\ data = 0 /\ alloc = 0 /\ alloc_pc = 0 /\ panicked = 0
NoDirs == tables = 0 /\ tables_cr3 = 0 /\ tlb = 0 /\ touched = 0
NoLoad ==
  /\ mm = 0 /\ frames = 0 /\ pagedir = 0 /\ cr3 = 0 /\ running = 0 /\ stack_args = 0
  /\ text = 0 /\ block = 0 /\ proc = 0
NoLib ==
  /\ call = 0 /\ hash = 0 /\ buckets = 0 /\ elem_cnt = 0 /\ contents = 0 /\ result = 0

Init ==
  /\ part \in Parts
  /\ \/ part = "allocators" /\ Alloc!Init /\ NoDirs /\ NoLoad /\ NoLib
     \/ part = "page directories" /\ NoAlloc /\ Dirs!TablesInit /\ NoLoad /\ NoLib
     \/ part = "loading" /\ NoAlloc /\ NoDirs /\ Load!Init /\ NoLib
     \/ part = "library" /\ NoAlloc /\ NoDirs /\ NoLoad /\ Lib!Init

Next ==
  /\ UNCHANGED part
  /\ \/ part = "allocators" /\ Alloc!Next /\ UNCHANGED <<dirVars, loadVars, libVars>>
     \/ part = "page directories" /\ Dirs!TablesNext
        /\ UNCHANGED <<allocVars, loadVars, libVars>>
     \/ part = "loading" /\ Load!Next /\ UNCHANGED <<allocVars, dirVars, libVars>>
     \/ part = "library" /\ Lib!Next /\ UNCHANGED <<allocVars, dirVars, loadVars>>

Spec == Init /\ [][Next]_vars
-----------------------------------------------------------------------------
(* Properties, each of the module it names. *)

\* A block that malloc, calloc, realloc or palloc_get_multiple returned overlaps
\* no other block and keeps its contents until it is freed (Memory).
BlocksIntact == part = "allocators" => Alloc!BlocksIntact

\* Pages and blocks that nobody has are free (Memory).
NothingLeaked == part = "allocators" => Alloc!NothingLeaked

\* The accessed and dirty bits of a page tell of every access since they were
\* cleared, although the CPU caches entries (Pagedir).
AccessesRecorded == part = "page directories" => Dirs!AccessesRecorded

\* A process that runs user code has its executable in its memory (Loader).
ImageFaithful == part = "loading" => Load!ImageFaithful

\* Loads that fail anywhere and exits give every page back, once (Loader).
PagesAccounted == part = "loading" => Load!PagesAccounted

\* A process that starts has the words of its own command line (Loader).
ArgumentsOwn == part = "loading" => Load!ArgumentsOwn

\* The CPU never uses a page directory that has been freed, nor one that is about
\* to be (Loader).
ActiveDirectoryLives == part = "loading" => Load!ActiveDirectoryLives

\* Lists, bitmaps, hash tables, arrays and memory hold what the calls on them
\* amount to (Library).
StructuresFaithful == part = "library" => Lib!StructuresFaithful

\* Strings, printf, tar archives, command lines, the stack of a program, the
\* screen and the keyboard (Library).
TextFaithful == part = "library" => Lib!TextFaithful

\* Division, fixed point, random bytes, timers, clocks, segments and partitions
\* (Library).
NumbersFaithful == part = "library" => Lib!NumbersFaithful
-----------------------------------------------------------------------------
(* The instance for TLC. *)

\* Three kernel pages and one user page; blocks of 8 bytes, three in an arena, and
\* big ones of two pages.
MCRequests == {0, 8, 29}
MCCallocs == {<<1, 29>>, <<9, 8>>}
MCGroups == {<<{"PAL_USER", "PAL_ASSERT"}, 1>>, <<{"PAL_ZERO"}, 2>>, <<{}, 0>>}
Symmetry == Permutations(Threads)

Phdr(type, offset, vaddr, filesz, memsz, flags) ==
  [p_type |-> type, p_offset |-> offset, p_vaddr |-> vaddr, p_filesz |-> filesz,
   p_memsz |-> memsz, p_flags |-> flags]

\* With pages of 4 bytes, tables of 2 pages and the stack in page 3: a segment of
\* two pages in two tables; a segment in one page; then the loads that fail:
\* segments that share a page, a header that load does not accept, or no executable.
\* There is memory for the first two together.
MCElf ==
  [prog |-> [ok |-> TRUE, length |-> 6, phdrs |-> <<Phdr("LOAD", 1, 5, 5, 6, {})>>],
   shared |-> [ok |-> TRUE, length |-> 8,
               phdrs |-> <<Phdr("LOAD", 0, 4, 2, 2, {}), Phdr("LOAD", 2, 6, 2, 2, {"W"})>>],
   small |-> [ok |-> TRUE, length |-> 2, phdrs |-> <<Phdr("LOAD", 0, 8, 2, 3, {"W"})>>],
   interp |-> [ok |-> TRUE, length |-> 8,
               phdrs |-> <<Phdr("NOTE", 0, 0, 0, 0, {}), Phdr("INTERP", 0, 8, 1, 1, {})>>]]
MCCommands ==
  [one |-> {<<"prog", "x">>},
   two |-> {<<"small", "y">>, <<"shared">>, <<"interp">>, <<"none">>}]
=============================================================================
