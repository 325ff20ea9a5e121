-------------------------------- MODULE Files --------------------------------
(***************************************************************************)
(* The file system calls of processes: file descriptors and the table of   *)
(* global files (userprog/syscall.c), open files (filesys/file.c), the root*)
(* directory (filesys/directory.c, filesys/filesys.c) and the free map     *)
(* (filesys/free-map.c), one call at a time; what concurrent calls do to an*)
(* inode is the subject of Inode and OpenInodes.                           *)
(*                                                                         *)
(* A sector has one byte of a file, or DirPerSector directory entries.     *)
(* struct file, struct global_file and struct file_descriptor are blocks of*)
(* one size, that malloc takes from the front of one free list and free    *)
(* puts there again: the block of one becomes that of another, while       *)
(* global_files keeps pointers to the freed ones.                          *)
(***************************************************************************)
EXTENDS Integers, Sequences, SequencesExt, FiniteSetsExt, Functions, TLC

CONSTANTS Procs,         \* the processes that run, each once
          Names,
          BadNames,      \* the ones that are empty or too long
          BlockCount,    \* blocks that malloc has for 16 bytes and less
          SectorCount,
          DirEntries,    \* entries of a new root directory, 16 in the source
          DirPerSector,
          MAX_FD,        \* length of closed_files, 128
          MAX_GLOBAL,    \* length of global_files, 1024
          MaxLength      \* of a file here

FREE_MAP_SECTOR == 0
ROOT_DIR_SECTOR == 1
Sectors == 0..SectorCount - 1
NULL == 0

FilesAssumption ==
  /\ BadNames \subseteq Names
  /\ 3 + (DirEntries \div DirPerSector) < SectorCount

VARIABLES fs,            \* the file system
          heap,          \* what each block holds, and the free list
          global_files,  \* slot -> block or NULL
          proc,          \* process -> [state, file, fds, closed_files, magic]
          panicked,
          ref            \* history: what the calls so far should amount to

vars == <<fs, heap, global_files, proc, panicked, ref>>

Blocks == 1..BlockCount
FreeBlock == [role |-> "free"]
File(sector) == [role |-> "file", inode |-> sector, pos |-> 0, deny_write |-> FALSE]
GlobalFile(file) == [role |-> "global", file |-> file, refcount |-> 1]
Descriptor(fd, gfile) == [role |-> "fd", value |-> fd, global_file |-> gfile]
NoInode == [length |-> 0, ptrs |-> <<>>, open_cnt |-> 0, removed |-> FALSE,
            deny_write_cnt |-> 0, extending |-> FALSE]
FirstIndex(seq, Test(_)) == Min({i \in DOMAIN seq : Test(seq[i])} \cup {Len(seq) + 1}) % (Len(seq) + 1)

\* malloc and free, of threads/malloc.c
Alloc(h, content) ==
  [block |-> [h.block EXCEPT ![Head(h.free)] = content], free |-> Tail(h.free)]
Free(h, b) == [block |-> [h.block EXCEPT ![b] = FreeBlock], free |-> <<b>> \o h.free]
NoProc == [state |-> "none", file |-> NULL, fds |-> <<>>, closed_files |-> {}, magic |-> TRUE]
FreeEntry == [in_use |-> FALSE, name |-> "", inode_sector |-> 0]
-----------------------------------------------------------------------------
(* free-map.c and the part of inode.c that the calls below need            *)

bytes_to_sectors(sector, length) ==
  IF sector = ROOT_DIR_SECTOR THEN (length + DirPerSector - 1) \div DirPerSector ELSE length

\* The sectors that cnt calls of free_map_allocate (1) get, fewer when the disk
\* is full: the first free ones.
free_map_allocate(f, cnt) ==
  LET free == Sectors \ f.free_map
  IN SetToSortSeq({s \in free : Cardinality({r \in free : r < s}) < cnt}, <)

free_map_release(f, sectors) == [f EXCEPT !.free_map = @ \ sectors]

\* A failing allocation keeps what it got so far, and leaves the inode extending.
allocate_file(f, sector, length) ==
  LET ino == f.inode[sector]
      old == bytes_to_sectors(sector, ino.length)
      need == Max({0, bytes_to_sectors(sector, length) - old})
      got == free_map_allocate(f, need)
      marked == [f EXCEPT !.free_map = @ \cup ToSet(got),
                          !.inode[sector].ptrs = SubSeq(@, 1, old) \o got]
  IN IF Len(got) < need THEN [marked EXCEPT !.inode[sector].extending = TRUE]
     ELSE [marked EXCEPT !.inode[sector].length = length]

\* The new inode is written only if all of its sectors were allocated.
inode_create(f, sector, length) ==
  LET made == allocate_file([f EXCEPT !.inode[sector] = NoInode], sector, length)
  IN IF made.inode[sector].extending THEN [made EXCEPT !.inode[sector] = f.inode[sector]] ELSE made

inode_open(f, sector) ==
  IF f.inode[sector].open_cnt > 0 THEN [f EXCEPT !.inode[sector].open_cnt = @ + 1]
  ELSE [f EXCEPT !.inode[sector] = [NoInode EXCEPT !.length = f.inode[sector].length,
                                                   !.ptrs = f.inode[sector].ptrs,
                                                   !.open_cnt = 1]]

deallocate_file(f, sector) ==
  LET ino == f.inode[sector]
  IN [free_map_release(f, {ino.ptrs[i] : i \in 1..ino.length} \cup {sector})
        EXCEPT !.inode[sector] = NoInode]   \* nobody reads it again

inode_close(f, sector) ==
  LET closed == [f EXCEPT !.inode[sector].open_cnt = @ - 1]
  IN IF closed.inode[sector].open_cnt > 0 \/ ~closed.inode[sector].removed THEN closed
     ELSE deallocate_file(closed, sector)

\* Bytes written, and the file system after it.  What the sectors of a file
\* hold is the subject of Inode.
inode_write_at(f, sector, size, offset) ==
  LET length == f.inode[sector].length
      grown == IF size + offset > length THEN allocate_file(f, sector, size + offset) ELSE f
  IN [n |-> Max({0, Min({size, grown.inode[sector].length - offset})}), f |-> grown]
-----------------------------------------------------------------------------
(* directory.c: the root directory is closed, hence written, by every call *)

\* Fault: an erased entry still counts.
lookup_erased(f, name) ==
  FirstIndex(f.entries, LAMBDA e : e.name = name)

\* Index of the entry for name, 0 if there is none.
lookup(f, name) ==
  FirstIndex(f.entries, LAMBDA e : e.in_use /\ e.name = name)

\* The directory grows by an entry when none is free.
dir_add(f, name, sector) ==
  LET slot == FirstIndex(f.entries, LAMBDA e : ~e.in_use)
      entry == [in_use |-> TRUE, name |-> name, inode_sector |-> sector]
      grown == allocate_file(f, ROOT_DIR_SECTOR, Len(f.entries) + 1)
  IN CASE name \in BadNames \/ lookup(f, name) # 0 -> [ok |-> FALSE, f |-> f]
       [] slot # 0 -> [ok |-> TRUE, f |-> [f EXCEPT !.entries[slot] = entry]]
       [] grown.inode[ROOT_DIR_SECTOR].extending ->
            [ok |-> FALSE, f |-> [grown EXCEPT !.inode[ROOT_DIR_SECTOR].extending = FALSE]]
       [] OTHER -> [ok |-> TRUE, f |-> [grown EXCEPT !.entries = Append(@, entry)]]

\* dir_create and do_format: an inode for the free map, one for the root.
do_format ==
  LET empty == [free_map |-> {FREE_MAP_SECTOR, ROOT_DIR_SECTOR},
                inode |-> [s \in Sectors |-> NoInode],
                entries |-> [i \in 1..DirEntries |-> FreeEntry]]
  IN inode_create(inode_create(empty, FREE_MAP_SECTOR, 1), ROOT_DIR_SECTOR, DirEntries)

Init ==
  /\ fs = do_format
  /\ heap = [block |-> [b \in Blocks |-> FreeBlock], free |-> [i \in Blocks |-> i]]
  /\ global_files = [i \in 1..MAX_GLOBAL |-> NULL]
  /\ proc = [p \in Procs |-> NoProc]
  /\ panicked = FALSE
  /\ ref = [names |-> << >>, fds |-> [p \in Procs |-> << >>]]

Running(p) == ~panicked /\ proc[p].state = "running"
\* dir_open_root gets its struct dir, which dir_close frees.
DirOpens == heap.free # <<>>
-----------------------------------------------------------------------------
(* filesys.c *)

\* A create that fails gives back the inode's sector, not the file's.
filesys_create(name, initial_size) ==
  LET got == free_map_allocate(fs, 1)
      taken == [fs EXCEPT !.free_map = @ \cup ToSet(got)]
      made == inode_create(taken, got[1], initial_size)
      full == Cardinality(Sectors \ taken.free_map) < initial_size
      added == dir_add(made, name, got[1])
  IN IF ~DirOpens \/ got = <<>> THEN UNCHANGED <<fs, ref>>
     ELSE IF full THEN fs' = free_map_release(made, {got[1]}) /\ UNCHANGED ref
     ELSE IF ~added.ok THEN fs' = free_map_release(added.f, {got[1]}) /\ UNCHANGED ref
     ELSE /\ fs' = added.f
          /\ ref' = [ref EXCEPT !.names = (name :> got[1]) @@ @]

\* dir_remove: the entry is erased, the inode removed when it was the last
\* opener that closed it.
filesys_remove(name) ==
  LET i == lookup(fs, name)
      sector == fs.entries[i].inode_sector
      opened == inode_open(fs, sector)
      erased == [opened EXCEPT !.entries[i].in_use = FALSE, !.inode[sector].removed = TRUE]
  IN IF ~DirOpens \/ i = 0 THEN UNCHANGED <<fs, ref>>
     ELSE /\ fs' = inode_close(erased, sector)
          /\ ref' = [ref EXCEPT !.names = Restrict(@, DOMAIN @ \ {name})]

\* The inode that filesys_open finds; 0 for none.
dir_lookup(name) ==
  LET i == lookup(fs, name) IN IF ~DirOpens \/ i = 0 THEN 0 ELSE fs.entries[i].inode_sector
-----------------------------------------------------------------------------
(* file.c, on the block file *)

\* file_close, with file_allow_write.
file_close(f, h, file) ==
  inode_close(IF h.block[file].deny_write THEN [f EXCEPT !.inode[h.block[file].inode].deny_write_cnt = @ - 1] ELSE f,
              h.block[file].inode)

\* The program of process p is the file name; load () of process.c opens it and
\* denies writes to it as long as the process runs.  It waits for ever for an
\* inode whose extension failed.
load(p, name) ==
  LET sector == dir_lookup(name)
      opened == inode_open(fs, sector)
  IN /\ ~panicked /\ proc[p].state = "none"
     /\ sector # 0
     /\ heap' = Alloc(heap, [File(sector) EXCEPT !.deny_write = TRUE])
     /\ proc' = [proc EXCEPT ![p] = [NoProc EXCEPT !.file = Head(heap.free),
                   !.state = IF opened.inode[sector].extending THEN "hung" ELSE "running"]]
     /\ fs' = [opened EXCEPT !.inode[sector].deny_write_cnt = @ + 1]
     /\ UNCHANGED <<global_files, panicked, ref>>
-----------------------------------------------------------------------------
(* syscall.c *)

\* Block of the file that p has as fd; NULL if it has none.
search_fd(p, fd) ==
  LET i == FirstIndex(proc[p].fds, LAMBDA b : heap.block[b].value = fd)
  IN IF i = 0 THEN NULL ELSE heap.block[heap.block[proc[p].fds[i]].global_file].file

\* Fault: any file of the same inode will do.
search_global_inode(h, file) ==
  FirstIndex(global_files, LAMBDA g : /\ g # NULL /\ h.block[g].role = "global"
                                      /\ h.block[h.block[g].file].role = "file"
                                      /\ h.block[h.block[g].file].inode = h.block[file].inode)

\* Slot of the global file for file, 0 if none.  A slot may point to a freed
\* block: its words are those of the free list, or of what has the block now.
search_global(h, file) ==
  FirstIndex(global_files, LAMBDA g : g # NULL /\ h.block[g].role = "global" /\ h.block[g].file = file)

\* delete_global: the last reference frees the block; its slot stays.
delete_global(h, file) ==
  LET g == global_files[search_global(h, file)]
  IN IF h.block[g].refcount = 1 THEN Free(h, g) ELSE [h EXCEPT !.block[g].refcount = @ - 1]

syscall_create(p, name, size) ==
  /\ Running(p)
  /\ filesys_create(name, size)
  /\ UNCHANGED <<heap, global_files, proc, panicked>>

syscall_remove(p, name) ==
  /\ Running(p)
  /\ filesys_remove(name)
  /\ UNCHANGED <<heap, global_files, proc, panicked>>

\* closed_files[MAX_FD] is the thread's file, never null in a process, and the
\* element after it its magic: without an fd the kernel stops.
NextFd(p) == Min({fd \in 2..MAX_FD + 1 : fd < MAX_FD => fd \notin proc[p].closed_files} \ {MAX_FD})

syscall_open(p, name) ==
  LET sector == dir_lookup(name)
      fd == NextFd(p)
      slot == FirstIndex(global_files, LAMBDA g : g = NULL)
      marked == [proc[p] EXCEPT !.closed_files = @ \cup {fd}]
      file == Head(heap.free)
      h == Alloc(heap, File(sector))
      found == search_global(h, file)
      new == found = 0 /\ slot # 0
      g == IF new THEN Head(h.free) ELSE global_files[found]
      hg == IF new THEN Alloc(h, GlobalFile(file)) ELSE h
  IN /\ Running(p)
     /\ sector # 0
     /\ fs' = inode_open(fs, sector)
     /\ CASE fd > MAX_FD \/ (new /\ h.free = <<>>) ->    \* malloc's null is not tested
               /\ panicked' = TRUE
               /\ heap' = h
               /\ proc' = [proc EXCEPT ![p].magic = fd <= MAX_FD]
               /\ UNCHANGED <<global_files, ref>>
          [] found = 0 /\ slot = 0 ->                     \* the file stays open
               /\ heap' = h
               /\ proc' = [proc EXCEPT ![p] = marked]
               /\ UNCHANGED <<global_files, panicked, ref>>
          [] OTHER ->
               /\ global_files' = IF new THEN [global_files EXCEPT ![slot] = g] ELSE global_files
               /\ UNCHANGED panicked
               /\ IF hg.free = <<>>
                  THEN /\ heap' = hg
                       /\ proc' = [proc EXCEPT ![p] = marked]
                       /\ UNCHANGED ref
                  ELSE /\ heap' = Alloc(hg, Descriptor(fd, g))
                       /\ proc' = [proc EXCEPT ![p] = [marked EXCEPT !.fds = Append(@, Head(hg.free))]]
                       /\ ref' = [ref EXCEPT !.fds[p] = (fd :> [inode |-> sector, pos |-> 0]) @@ @]

\* The calls on an open file.  A position before the start of the file, where
\* reads at its end lead, reaches outside of the buffer cache: after it
\* nothing is known.
OnFile(p, fd, file) == Running(p) /\ fd \in 2..MAX_FD /\ search_fd(p, fd) = file /\ file # NULL

Hangs(p) ==
  /\ proc' = [proc EXCEPT ![p].state = "hung"]
  /\ UNCHANGED <<fs, heap, global_files, panicked, ref>>

Wild == panicked' = TRUE /\ UNCHANGED <<fs, heap, global_files, proc, ref>>

\* file->pos += n
Moved(p, fd, file, n) ==
  /\ heap' = [heap EXCEPT !.block[file].pos = @ + n]
  /\ ref' = [ref EXCEPT !.fds[p][fd].pos = @ + n]

\* inode_read_at: -1 if the file ends before SIZE bytes.
syscall_read(p, fd, size) ==
  LET file == search_fd(p, fd)
      ino == fs.inode[heap.block[file].inode]
      pos == heap.block[file].pos
  IN /\ OnFile(p, fd, file)
     /\ IF ino.extending THEN Hangs(p)
        ELSE IF pos < 0 THEN Wild
        ELSE /\ Moved(p, fd, file, IF pos + size > ino.length THEN -1 ELSE size)
             /\ UNCHANGED <<fs, global_files, proc, panicked>>

syscall_write(p, fd, size) ==
  LET file == search_fd(p, fd)
      sector == heap.block[file].inode
      pos == heap.block[file].pos
      done == inode_write_at(fs, sector, size, pos)
  IN /\ OnFile(p, fd, file)
     /\ pos + size <= MaxLength
     /\ IF fs.inode[sector].deny_write_cnt > 0 THEN UNCHANGED vars
        ELSE IF fs.inode[sector].extending THEN Hangs(p)
        ELSE IF pos < 0 THEN Wild
        ELSE /\ fs' = done.f
             /\ Moved(p, fd, file, done.n)
             /\ UNCHANGED <<global_files, proc, panicked>>

syscall_seek(p, fd, position) ==
  LET file == search_fd(p, fd)
  IN /\ OnFile(p, fd, file)
     /\ heap' = [heap EXCEPT !.block[file].pos = position]
     /\ ref' = [ref EXCEPT !.fds[p][fd].pos = position]
     /\ UNCHANGED <<fs, global_files, proc, panicked>>

\* The fd is not used again: closed_files[fd] stays set.
syscall_close(p, fd) ==
  LET file == search_fd(p, fd)
      i == FirstIndex(proc[p].fds, LAMBDA b : heap.block[b].value = fd)
      freed == delete_global(Free(heap, proc[p].fds[i]), file)
  IN /\ OnFile(p, fd, file)
     /\ proc' = [proc EXCEPT ![p].fds = RemoveAt(@, i)]
     /\ fs' = file_close(fs, freed, file)
     /\ heap' = Free(freed, file)
     /\ ref' = [ref EXCEPT !.fds[p] = Restrict(@, DOMAIN @ \ {fd})]
     /\ UNCHANGED <<global_files, panicked>>

\* free_thread: the descriptors go, the files stay open.
free_thread(h, fds) ==
  FoldLeft(LAMBDA g, b : Free(delete_global(g, g.block[g.block[b].global_file].file), b), h, fds)

\* By exit, a wrong argument or an exception; process_exit closes the program.
process_exit(p) ==
  LET program == proc[p].file
  IN /\ Running(p)
     /\ fs' = file_close(fs, heap, program)
     /\ heap' = free_thread(Free(heap, program), proc[p].fds)
     /\ proc' = [proc EXCEPT ![p] = [NoProc EXCEPT !.state = "exited"]]
     /\ ref' = [ref EXCEPT !.fds[p] = << >>]
     /\ UNCHANGED <<global_files, panicked>>
-----------------------------------------------------------------------------
\* fsutil_extract, before the first process, puts a program on the disk.
Install(name) ==
  /\ \A p \in Procs : proc[p] = NoProc
  /\ fs.free_map = do_format.free_map
  /\ filesys_create(name, 1)
  /\ UNCHANGED <<heap, global_files, proc, panicked>>

Next ==
  \/ \E name \in Names : Install(name)
  \/ \E p \in Procs :
       \/ \E name \in Names : \/ load(p, name) \/ syscall_open(p, name) \/ syscall_remove(p, name)
                              \/ \E size \in 0..MaxLength : syscall_create(p, name, size)
       \/ \E fd \in 2..MAX_FD :
            \/ syscall_close(p, fd)
            \/ \E size \in 1..MaxLength :
                 \/ syscall_read(p, fd, size) \/ syscall_write(p, fd, size)
                 \/ syscall_seek(p, fd, size - 1)
       \/ process_exit(p)

Spec == Init /\ [][Next]_vars
-----------------------------------------------------------------------------
FilesOf(sector) == {b \in Blocks : heap.block[b].role = "file" /\ heap.block[b].inode = sector}

\* The directory has exactly the files that were created and not removed, each
\* once.  Every file that has a name or is open has its inode and its data in
\* allocated sectors that no other file has, whatever was created, removed,
\* extended, closed or given up half-way.
FilesApart ==
  LET inUse == {i \in DOMAIN fs.entries : fs.entries[i].in_use}
      live == {ROOT_DIR_SECTOR} \cup Range(ref.names) \cup {s \in Sectors : FilesOf(s) # {}}
      Own(s) == {s} \cup {fs.inode[s].ptrs[i] : i \in 1..bytes_to_sectors(s, fs.inode[s].length)}
  IN /\ {<<fs.entries[i].name, fs.entries[i].inode_sector>> : i \in inUse}
           = {<<n, ref.names[n]>> : n \in DOMAIN ref.names}
     /\ Cardinality(inUse) = Cardinality(DOMAIN ref.names)
     /\ \A s \in live :
          /\ Own(s) \subseteq fs.free_map
          /\ \A r \in live \ {s} : Own(s) \cap Own(r) = {}

\* Every descriptor of a process leads, through global files that others
\* opened and closed in between, to the file it was opened for, at its own
\* position; the inode counts every open file, and those that deny writes.
DescriptorsValid ==
  /\ \A p \in Procs :
       LET fds == proc[p].fds
       IN /\ \A i \in DOMAIN fds :
               LET d == heap.block[fds[i]]
               IN /\ d.role = "fd" /\ heap.block[d.global_file].role = "global"
                  /\ LET file == heap.block[heap.block[d.global_file].file]
                     IN /\ file.role = "file"
                        /\ [inode |-> file.inode, pos |-> file.pos] = ref.fds[p][d.value]
          /\ Len(fds) = Cardinality(DOMAIN ref.fds[p])
  /\ \A s \in Sectors \ {FREE_MAP_SECTOR} :
       /\ fs.inode[s].open_cnt = Cardinality(FilesOf(s))
       /\ fs.inode[s].deny_write_cnt = Cardinality({b \in FilesOf(s) : heap.block[b].deny_write})

\* thread_current asserts that the magic of the running thread is intact: no
\* call of a process may overwrite it.
MagicKept == \A p \in Procs : proc[p].magic
=============================================================================
