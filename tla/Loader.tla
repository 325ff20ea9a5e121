------------------------------- MODULE Loader -------------------------------
(***************************************************************************)
(* Loading an executable into a new process, and giving its memory back    *)
(* when it exits: start_process, load, process_exit and process_activate   *)
(* of userprog/process.c on the page tables of PageTable.  Several         *)
(* processes load at a time: a thread is preempted anywhere, and a switch  *)
(* activates the page directory of the next thread.                        *)
(*                                                                         *)
(* A byte of a page is 0, or 1 + the offset in the executable it came      *)
(* from.  A command line is a sequence of words, the first naming the      *)
(* executable.  stack_args is one global pointer for all the loads: they   *)
(* are concurrent when two processes exec at a time, each waiting for the  *)
(* load of its own child.  Kernel stands for all these parents.            *)
(***************************************************************************)
EXTENDS Segment

CONSTANTS Procs,
          Kernel,       \* a thread without a page directory
          Commands,     \* process -> the command lines it may execute
          Elf           \* name -> [ok, length, phdrs], for the files there are

Base == NULL            \* cr3 when init_page_dir is active
NoBlock == "null"       \* a null stack_args
Junk == "junk"          \* what a freed block is filled with
Min2(a, b) == IF a < b THEN a ELSE b

\* Pages are in one pool; user addresses have their entries in the tables; the
\* numbers in a program header are words.
LoaderAssumption ==
  /\ KernelPages \subseteq Nat \ {NULL} /\ UserPages \subseteq Nat \ {NULL}
  /\ KernelPages \cap UserPages = {} /\ Kernel \notin Procs
  /\ PGSIZE \in Nat \ {0} /\ AddressSpace \in Nat /\ PHYS_BASE \in Nat
  /\ PHYS_BASE % PGSIZE = 0 /\ PGSIZE <= PHYS_BASE /\ PHYS_BASE <= AddressSpace
  /\ \A va \in 0..PHYS_BASE - 1 :
       pd_no(va) \in DOMAIN init_page_dir /\ pt_no(va) \in DOMAIN ZeroTable
  /\ \A name \in DOMAIN Elf : LET phdrs == Elf[name].phdrs IN
       /\ Len(phdrs) \in Nat
       /\ \A i \in 1..Len(phdrs) :
            {phdrs[i].p_offset, phdrs[i].p_vaddr, phdrs[i].p_filesz, phdrs[i].p_memsz}
              \subseteq 0..AddressSpace - 1

VARIABLES mm,          \* the page tables and the pools
          frames,      \* user page -> [file, ofs, n]: n bytes of file from ofs, then zeros
          pagedir,     \* process -> its page directory or NULL
          cr3, running,
          stack_args,  \* whose block the global points to, NoBlock at first
          text,        \* process -> the words in the block its load allocated
          block,       \* process -> state of that block: "none", "live", "freed", "freed twice"
          proc         \* process -> pc and the locals of start_process and load
vars == <<mm, frames, pagedir, cr3, running, stack_args, text, block, proc>>
args == <<stack_args, text, block>>
cpu == <<pagedir, cr3, running>>

Freed == [file |-> Junk, ofs |-> 0, n |-> 0]
NoSegment == [pos |-> 0, upage |-> 0, read_bytes |-> 0, zero_bytes |-> 0, writable |-> FALSE]
Idle == [pc |-> "idle", cmd |-> <<>>, fn_copy |-> NULL, i |-> 0, seg |-> NoSegment,
         kpage |-> NULL, pd |-> NULL, argv |-> <<>>, success |-> FALSE]
Dead == [Idle EXCEPT !.pc = "dead"]
Init ==
  /\ mm = EmptyMm
  /\ frames = [u \in UserPages |-> Freed]
  /\ pagedir = [p \in Procs |-> NULL]
  /\ cr3 = Base /\ running = Kernel
  /\ stack_args = NoBlock
  /\ text = [p \in Procs |-> <<Junk>>]
  /\ block = [p \in Procs |-> "none"]
  /\ proc = [p \in Procs |-> Idle]

At(p, label) == running = p /\ proc[p].pc = label
Set(p, r) == proc' = [proc EXCEPT ![p] = r]
Goto(p, label) == Set(p, [proc[p] EXCEPT !.pc = label])
File(p) == Elf[Head(proc[p].cmd)]

\* process_execute: the copy of the command line needs a page.
process_execute(p, cmd) ==
  /\ running = Kernel /\ proc[p].pc = "idle" /\ HasKernelPage(mm)
  /\ mm' = [mm EXCEPT !.kernel = @ \ {KernelPage(mm)}]
  /\ Set(p, [proc[p] EXCEPT !.pc = "load", !.cmd = cmd, !.fn_copy = KernelPage(mm)])
  /\ UNCHANGED <<frames, cpu, args>>

\* A context switch, which ends in process_activate.
\* The kernel's thread waits when it has executed all processes.
Ready(t) == IF t = Kernel THEN \E p \in Procs : proc[p].pc = "idle"
            ELSE proc[t].pc \notin {"idle", "dead"}
process_activate(t) == cr3' = IF t = Kernel THEN Base ELSE pagedir[t]
Switch(t) ==
  /\ t # running /\ Ready(t)
  /\ running' = t
  /\ process_activate(t)
  /\ UNCHANGED <<mm, frames, pagedir, args, proc>>

\* load.
LoadPagedir(p) ==
  /\ At(p, "load")
  /\ IF HasKernelPage(mm)
     THEN /\ mm' = pagedir_create(mm)
          /\ pagedir' = [pagedir EXCEPT ![p] = KernelPage(mm)]
          /\ cr3' = KernelPage(mm)
          /\ Goto(p, "malloc")
     ELSE Goto(p, "done") /\ UNCHANGED <<mm, pagedir, cr3>>
  /\ UNCHANGED <<frames, running, args>>

\* malloc fails: load returns at once.
LoadMalloc(p) ==
  /\ At(p, "malloc")
  /\ \/ /\ stack_args' = p
        /\ block' = [block EXCEPT ![p] = "live"]
        /\ Goto(p, "copy")
     \/ Goto(p, "loaded") /\ UNCHANGED <<stack_args, block>>
  /\ UNCHANGED <<mm, frames, cpu, text>>

LoadCopy(p) ==
  /\ At(p, "copy")
  /\ text' = [text EXCEPT ![stack_args] = proc[p].cmd]
  /\ Goto(p, "open")
  /\ UNCHANGED <<mm, frames, cpu, stack_args, block>>

\* filesys_open, and the executable header read and verified.
LoadOpen(p) ==
  /\ At(p, "open")
  /\ IF Head(proc[p].cmd) \in DOMAIN Elf /\ File(p).ok
     THEN Set(p, [proc[p] EXCEPT !.pc = "phdr", !.i = 1]) ELSE Goto(p, "done")
  /\ UNCHANGED <<mm, frames, cpu, args>>

LoadPhdr(p) ==
  LET i == proc[p].i
      phdr == File(p).phdrs[i]
      skip == phdr.p_type \in {"NULL", "NOTE", "PHDR", "STACK", "other"}
      load == phdr.p_type = "LOAD" /\ validate_segment(phdr, File(p).length)
  IN /\ At(p, "phdr")
     /\ \/ i > Len(File(p).phdrs) /\ Goto(p, "stack")
        \/ i <= Len(File(p).phdrs) /\ skip /\ Set(p, [proc[p] EXCEPT !.i = i + 1])
        \/ /\ i <= Len(File(p).phdrs) /\ load
           /\ Set(p, [proc[p] EXCEPT !.i = i + 1, !.pc = "segment", !.seg = SegmentOf(phdr)])
        \/ i <= Len(File(p).phdrs) /\ ~skip /\ ~load /\ Goto(p, "done")
     /\ UNCHANGED <<mm, frames, cpu, args>>

\* palloc_get_page (PAL_USER), from the lowest page.
GetUserPage(p, label) ==
  IF mm.user # {}
  THEN /\ mm' = [mm EXCEPT !.user = @ \ {Min(mm.user)}]
       /\ Set(p, [proc[p] EXCEPT !.pc = label, !.kpage = Min(mm.user)])
  ELSE Goto(p, "done") /\ UNCHANGED mm

\* One page of load_segment: here it is allocated.
SegmentPage(p) ==
  /\ At(p, "segment")
  /\ IF proc[p].seg.read_bytes > 0 \/ proc[p].seg.zero_bytes > 0
     THEN GetUserPage(p, "fill")
     ELSE Set(p, [proc[p] EXCEPT !.pc = "phdr", !.seg = NoSegment]) /\ UNCHANGED mm
  /\ UNCHANGED <<frames, cpu, args>>

\* install_page, where CanInstall; upage must not be mapped.
CanInstall(p, upage) ==
  pagedir_get_page(mm, pagedir[p], upage) = NULL /\ CanSetPage(mm, pagedir[p], upage)
install_page(p, upage, writable) ==
  mm' = pagedir_set_page(mm, pagedir[p], upage, proc[p].kpage, writable)
\* Fault: the page is not freed when it cannot be installed.
FreeUserPage_leaks(p) == p \in Procs /\ UNCHANGED <<mm, frames>>
FreeUserPage(p) ==
  /\ mm' = [mm EXCEPT !.user = @ \cup {proc[p].kpage}]
  /\ frames' = [frames EXCEPT ![proc[p].kpage] = Freed]

\* Fault: the next page is read where this one was.
Advance_again(s, n) ==
  [s EXCEPT !.upage = @ + PGSIZE, !.read_bytes = @ - n, !.zero_bytes = @ - (PGSIZE - n)]
Advance(s, n) ==
  [s EXCEPT !.pos = @ + n, !.upage = @ + PGSIZE,
            !.read_bytes = @ - n, !.zero_bytes = @ - (PGSIZE - n)]

\* ... and here filled from the file, which must have the bytes, and installed.
SegmentFill(p) ==
  LET s == proc[p].seg
      n == Min2(s.read_bytes, PGSIZE)
  IN /\ At(p, "fill")
     /\ IF s.pos + n <= File(p).length /\ CanInstall(p, s.upage)
        THEN /\ frames' = [frames EXCEPT ![proc[p].kpage] = [file |-> Head(proc[p].cmd), ofs |-> s.pos, n |-> n]]
             /\ install_page(p, s.upage, s.writable)
             /\ Set(p, [proc[p] EXCEPT !.pc = "segment", !.kpage = NULL, !.seg = Advance(s, n)])
        ELSE FreeUserPage(p) /\ Set(p, [proc[p] EXCEPT !.pc = "done", !.kpage = NULL])
     /\ UNCHANGED <<cpu, args>>

\* setup_stack: the page, then the words found where stack_args points, which
\* strtok_r ends after the first.
StackPage(p) == At(p, "stack") /\ GetUserPage(p, "push") /\ UNCHANGED <<frames, cpu, args>>
setup_stack(p) ==
  /\ At(p, "push")
  /\ IF CanInstall(p, PHYS_BASE - PGSIZE)
     THEN /\ install_page(p, PHYS_BASE - PGSIZE, TRUE)
          /\ frames' = [frames EXCEPT ![proc[p].kpage] = Freed]
          /\ Set(p, [proc[p] EXCEPT !.pc = "done", !.kpage = NULL,
                                    !.argv = text[stack_args], !.success = TRUE])
          /\ text' = [text EXCEPT ![stack_args] = SubSeq(@, 1, 1)]
     ELSE FreeUserPage(p) /\ Set(p, [proc[p] EXCEPT !.pc = "done", !.kpage = NULL]) /\ UNCHANGED text
  /\ UNCHANGED <<cpu, stack_args, block>>

\* done: free (stack_args), whatever it points to by now.
LoadDone(p) ==
  /\ At(p, "done")
  /\ IF stack_args = NoBlock THEN UNCHANGED <<text, block>>
     ELSE /\ block' = [block EXCEPT ![stack_args] = IF @ = "live" THEN "freed" ELSE "freed twice"]
          /\ text' = [text EXCEPT ![stack_args] = <<Junk>>]
  /\ Set(p, [proc[p] EXCEPT !.pc = "loaded", !.i = 0, !.seg = NoSegment])
  /\ UNCHANGED <<mm, frames, cpu, stack_args>>

\* The rest of start_process.
start_process(p) ==
  /\ At(p, "loaded")
  /\ mm' = [mm EXCEPT !.kernel = @ \cup {proc[p].fn_copy}]
  /\ Set(p, [proc[p] EXCEPT !.pc = IF proc[p].success THEN "user" ELSE "exit", !.fn_copy = NULL])
  /\ UNCHANGED <<frames, cpu, args>>

\* The user program ends.
UserExit(p) == At(p, "user") /\ Goto(p, "exit") /\ UNCHANGED <<mm, frames, cpu, args>>

\* process_exit: the thread forgets the directory, then the CPU, then it is freed.
\* Fault: the thread forgets the directory only when it has been freed.
ExitForget_late(p) ==
  /\ At(p, "exit")
  /\ Set(p, IF pagedir[p] = NULL THEN Dead
            ELSE [proc[p] EXCEPT !.pd = pagedir[p], !.pc = "activate"])
  /\ running' = IF pagedir[p] = NULL THEN Kernel ELSE p
  /\ UNCHANGED <<mm, frames, args, cr3, pagedir>>
ExitForget(p) ==
  /\ At(p, "exit")
  /\ Set(p, IF pagedir[p] = NULL THEN Dead
            ELSE [proc[p] EXCEPT !.pd = pagedir[p], !.pc = "activate"])
  /\ pagedir' = [pagedir EXCEPT ![p] = NULL]
  /\ running' = IF pagedir[p] = NULL THEN Kernel ELSE p
  /\ UNCHANGED <<mm, frames, args, cr3>>
ExitActivate(p) ==
  /\ At(p, "activate")
  /\ cr3' = Base
  /\ Goto(p, "destroy")
  /\ UNCHANGED <<mm, frames, pagedir, running, args>>
\* The dying thread is switched from; the kernel's thread runs next.
ExitDestroy(p) ==
  /\ At(p, "destroy")
  /\ mm' = pagedir_destroy(mm, proc[p].pd)
  /\ frames' = [u \in UserPages |-> IF u \in PagesOf(mm, proc[p].pd) THEN Freed ELSE frames[u]]
  /\ Set(p, Dead)
  /\ running' = Kernel /\ cr3' = Base
  /\ UNCHANGED <<pagedir, args>>

\* What a double free leads to is not followed.
HeapIntact == \A p \in Procs : block[p] # "freed twice"
Next ==
  /\ HeapIntact
  /\ \/ \E t \in Procs \cup {Kernel} : Switch(t)
     \/ \E p \in Procs :
          \/ \E cmd \in Commands[p] : process_execute(p, cmd)
          \/ LoadPagedir(p) \/ LoadMalloc(p) \/ LoadCopy(p) \/ LoadOpen(p) \/ LoadPhdr(p)
          \/ SegmentPage(p) \/ SegmentFill(p) \/ StackPage(p) \/ setup_stack(p)
          \/ LoadDone(p) \/ start_process(p) \/ UserExit(p)
          \/ ExitForget(p) \/ ExitActivate(p) \/ ExitDestroy(p)
Spec == Init /\ [][Next]_vars
-----------------------------------------------------------------------------
Loads(p) == {phdr \in {File(p).phdrs[i] : i \in DOMAIN File(p).phdrs} : phdr.p_type = "LOAD"}
Within(a, phdr) == phdr.p_vaddr <= a /\ a < phdr.p_vaddr + phdr.p_memsz
Value(p, a) ==
  LET f == frames[pagedir_get_page(mm, pagedir[p], a)]
  IN IF pg_ofs(a) < f.n THEN 1 + f.ofs + pg_ofs(a) ELSE 0

\* A process that runs user code has in its memory, at every address of its
\* segments, the byte of its executable that the program header says, or zero
\* past p_filesz; a page is writable just when its segment is; and no other
\* page is mapped but the stack.  Loads of other processes, that end well or
\* not, and exits of others do not change that.
ImageFaithful ==
  \A p \in Procs : proc[p].pc = "user" =>
    /\ \A phdr \in Loads(p) : \A a \in phdr.p_vaddr..phdr.p_vaddr + phdr.p_memsz - 1 :
         /\ pagedir_get_page(mm, pagedir[p], a) # NULL
         /\ Value(p, a) = IF a < phdr.p_vaddr + phdr.p_filesz
                          THEN 1 + phdr.p_offset + (a - phdr.p_vaddr) ELSE 0
         /\ ("W" \in lookup_page(mm, pagedir[p], a).flags) = (PF_W \in phdr.p_flags)
    /\ \A page \in {pg_round_down(a) : a \in 0..PHYS_BASE - 1} :
         pagedir_get_page(mm, pagedir[p], page) # NULL =>
           \/ page = PHYS_BASE - PGSIZE
           \/ \E phdr \in Loads(p) : \E a \in page..page + PGSIZE - 1 : Within(a, phdr)

\* What a process holds: the copy of its command line, the page being loaded,
\* its directory, the tables of it and the pages mapped by them.
Dir(p) == IF pagedir[p] # NULL THEN pagedir[p] ELSE proc[p].pd
Tables(p) == IF Dir(p) = NULL THEN {} ELSE TablesOf(mm, Dir(p))
Mapped(p) == IF Dir(p) = NULL THEN {} ELSE PagesOf(mm, Dir(p))
HeldPages(p) == ({proc[p].fn_copy, proc[p].kpage, Dir(p)} \ {NULL}) \cup Tables(p) \cup Mapped(p)

\* No two entries of these directories or tables point to one page.
PointOnce(entries, rows) ==
  \A a, b \in rows : \A i \in DOMAIN entries[a], j \in DOMAIN entries[b] :
    /\ present(entries[a][i]) /\ present(entries[b][j])
    /\ entries[a][i].page = entries[b][j].page
    => a = b /\ i = j
HeldOnce(p) ==
  /\ proc[p].fn_copy # NULL =>
       proc[p].fn_copy \notin {proc[p].kpage, Dir(p)} \cup Tables(p) \cup Mapped(p)
  /\ proc[p].kpage # NULL => proc[p].kpage \notin {Dir(p)} \cup Tables(p) \cup Mapped(p)
  /\ Dir(p) \notin Tables(p) \cup Mapped(p)
  /\ Tables(p) \cap Mapped(p) = {}
  /\ Dir(p) # NULL => PointOnce(mm.pd, {Dir(p)}) /\ PointOnce(mm.pt, Tables(p))

\* Every page of the pools is free in its pool, or held by one process in one
\* way.  A load that fails at any point, and an exit at any point, gives every
\* page back, and frees none twice.
PagesAccounted ==
  LET held == UNION {HeldPages(p) : p \in Procs}
      free == mm.kernel \cup mm.user
  IN /\ \A p \in Procs : HeldOnce(p)
     /\ \A p, q \in Procs : p # q => HeldPages(p) \cap HeldPages(q) = {}
     /\ held \cap free = {} /\ held \cup free = KernelPages \cup UserPages
     /\ mm.kernel \subseteq KernelPages /\ mm.user \subseteq UserPages

\* The CPU's page directory is the running thread's or the kernel's, never one
\* that has been freed, nor the one that process_exit is about to free, "or our
\* active page directory will be one that's been freed (and cleared)".
ActiveDirectoryLives ==
  /\ cr3 # Base => cr3 \in DOMAIN mm.pd
  /\ running # Kernel /\ pagedir[running] # NULL => cr3 = pagedir[running]
  /\ \A p \in Procs : proc[p].pc = "destroy" => cr3 # proc[p].pd

\* A process that starts has the words of its own command line on its stack:
\* stack_args was put on the heap "so we can access from setup_stack()".
ArgumentsOwn == \A p \in Procs : proc[p].pc = "user" => proc[p].argv = proc[p].cmd
=============================================================================
