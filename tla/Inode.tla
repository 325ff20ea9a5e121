------------------------------- MODULE Inode -------------------------------
(***************************************************************************)
(* One open inode (filesys/inode.c) that several threads read, write,      *)
(* extend and protect from writes.                                         *)
(*                                                                         *)
(* A critical section of inode_lock is one step, and outside of it so is   *)
(* each access to the inode or to a sector; sectors are read and written   *)
(* atomically, as BufCache guarantees.  Both conditions are only broadcast *)
(* and are modelled as sets of threads.  The index has direct blocks only  *)
(* here: InodeIndex models the indirect ones.                              *)
(***************************************************************************)
EXTENDS Integers, FiniteSets, FiniteSetsExt

CONSTANTS
  Threads,
  Deniers,          \* the threads that may deny writes
  MaxCalls,         \* bound on the calls of a thread
  MaxLength,        \* bound on the end of a read or write
  BLOCK_SECTOR_SIZE,
  DiskSize,         \* number of sectors besides those of other files
  NULL,
  Stale             \* what a sector holds before the file writes it

Sectors == 1 .. DiskSize
NoSector == -1
Blocks == 0 .. MaxLength - 1
Bytes == Threads \cup {Stale}     \* a thread writes its own byte

ASSUME InodeAssumption ==
  /\ IsFiniteSet(Threads) /\ Deniers \subseteq Threads
  /\ MaxCalls \in Nat /\ MaxLength \in Nat /\ DiskSize \in Nat
  /\ BLOCK_SECTOR_SIZE \in Nat \ {0}
  /\ NULL \notin Threads /\ Stale \notin Threads

VARIABLES
  length, blocks,   \* inode->data: length and direct_ptrs
  extending, deny_write_cnt, inode_lock,
  until_not_extending, until_no_writers,
  free,             \* the sectors free_map_allocate can return
  disk,             \* [Sectors -> the bytes of a sector]
  pc, local,        \* where each thread is, and its variables
  denying,          \* the threads that have denied writes and not allowed them
  calls             \* calls each thread has made

dataVars == <<length, blocks, free, disk>>
condVars == <<until_not_extending, until_no_writers>>
vars == <<dataVars, extending, deny_write_cnt, inode_lock, condVars, pc, local,
          denying, calls>>

Ops == {"read", "write", "deny"}
Pcs == {"idle", "enter", "count", "reenter", "wait", "alloc", "locate", "copy", "leave",
        "deny", "deny_store", "allow_store"}

\* count is allocate_file's, sector is sector_idx, eax a copy of deny_write_cnt.
Locals == [op : Ops, offset : 0 .. MaxLength, size : 0 .. MaxLength,
           done : 0 .. MaxLength, count : 0 .. MaxLength,
           sector : Sectors \cup {0, NoSector}, eax : Int, result : -1 .. MaxLength]

\* The locals of a thread outside of the calls, the last of which returned
\* value.
Outside(value) == [op |-> "read", offset |-> 0, size |-> 0, done |-> 0, count |-> 0,
                   sector |-> 0, eax |-> 0, result |-> value]

TypeOK ==
  /\ length \in 0 .. MaxLength
  /\ blocks \in [Blocks -> Sectors \cup {0}]
  /\ extending \in BOOLEAN
  /\ deny_write_cnt \in Int
  /\ inode_lock \in Threads \cup {NULL}
  /\ until_not_extending \in SUBSET Threads
  /\ until_no_writers \in SUBSET Threads
  /\ free \in SUBSET Sectors
  /\ disk \in [Sectors -> [0 .. BLOCK_SECTOR_SIZE - 1 -> Bytes]]
  /\ pc \in [Threads -> Pcs]
  /\ local \in [Threads -> Locals]
  /\ denying \in SUBSET Threads
  /\ calls \in [Threads -> 0 .. MaxCalls]

\* inode_open of an empty file; some sectors may not be free any more.
Init ==
  /\ length = 0
  /\ blocks = [b \in Blocks |-> 0]
  /\ extending = FALSE
  /\ deny_write_cnt = 0
  /\ inode_lock = NULL
  /\ until_not_extending = {}
  /\ until_no_writers = {}
  /\ free \in SUBSET Sectors
  /\ disk = [s \in Sectors |-> [i \in 0 .. BLOCK_SECTOR_SIZE - 1 |-> Stale]]
  /\ pc = [t \in Threads |-> "idle"]
  /\ local = [t \in Threads |-> Outside(0)]
  /\ denying = {}
  /\ calls = [t \in Threads |-> 0]

-----------------------------------------------------------------------------
Goto(t, p) == pc' = [pc EXCEPT ![t] = p]

\* Thread t is at p and finds inode_lock free.
Locked(t, p) == pc[t] = p /\ inode_lock = NULL

bytes_to_sectors(size) == (size + BLOCK_SECTOR_SIZE - 1) \div BLOCK_SECTOR_SIZE

\* Fault: the last byte of the file is taken for the end.
byte_to_sector_short(pos) ==
  IF pos + 1 < length THEN blocks[pos \div BLOCK_SECTOR_SIZE] ELSE NoSector

byte_to_sector(pos) ==
  IF pos < length THEN blocks[pos \div BLOCK_SECTOR_SIZE] ELSE NoSector

\* Fault: the size that is asked for is no limit.
chunk_size_whole_sector(t) ==
  LET sector_left == BLOCK_SECTOR_SIZE - (local[t].offset % BLOCK_SECTOR_SIZE)
  IN  Min({length - local[t].offset, sector_left})

\* The bytes to copy from or to the sector of the current offset.
chunk_size(t) ==
  LET sector_left == BLOCK_SECTOR_SIZE - (local[t].offset % BLOCK_SECTOR_SIZE)
  IN  Min({local[t].size, length - local[t].offset, sector_left})

\* Where a woken thread goes on: inode_read_at goes on with its second test
\* when it comes from until_not_extending, and tests again from the top when
\* it comes from until_no_writers.
AfterExtending(u) == IF local[u].op = "read" THEN "reenter" ELSE "enter"

AfterWriters(u) == IF local[u].op = "deny" THEN "deny" ELSE "enter"

\* inode_read_at or inode_write_at is called.
Call(t, op, offset, size) ==
  /\ pc[t] = "idle"
  /\ calls[t] < MaxCalls
  /\ calls' = [calls EXCEPT ![t] = @ + 1]
  /\ local' = [local EXCEPT ![t].op = op, ![t].offset = offset, ![t].size = size]
  /\ Goto(t, IF op = "read" THEN "enter" ELSE "count")
  /\ UNCHANGED <<dataVars, extending, deny_write_cnt, inode_lock, condVars, denying>>

Return(t, value) ==
  /\ Goto(t, "idle")
  /\ local' = [local EXCEPT ![t] = Outside(value)]

\* The loop of inode_read_at that waits, and the test of the end of file.
read_wait_extending(t) ==
  /\ Locked(t, "enter") \/ (Locked(t, "reenter") /\ deny_write_cnt >= 0)
  /\ local[t].op = "read"
  /\ extending
  /\ until_not_extending' = until_not_extending \cup {t}
  /\ Goto(t, "wait")
  /\ UNCHANGED <<dataVars, extending, deny_write_cnt, inode_lock, until_no_writers,
                 local, denying, calls>>

read_wait_writers(t) ==
  /\ (Locked(t, "enter") /\ ~extending) \/ Locked(t, "reenter")
  /\ local[t].op = "read"
  /\ deny_write_cnt < 0
  /\ until_no_writers' = until_no_writers \cup {t}
  /\ Goto(t, "wait")
  /\ UNCHANGED <<dataVars, extending, deny_write_cnt, inode_lock, until_not_extending,
                 local, denying, calls>>

read_test_end(t) ==
  /\ Locked(t, "enter") \/ Locked(t, "reenter")
  /\ local[t].op = "read"
  /\ ~extending
  /\ deny_write_cnt >= 0
  /\ \/ /\ local[t].offset + local[t].size > length
        /\ Return(t, -1)
     \/ /\ local[t].offset + local[t].size <= length
        /\ Goto(t, "locate")
        /\ UNCHANGED local
  /\ UNCHANGED <<dataVars, extending, deny_write_cnt, inode_lock, condVars, denying, calls>>

\* Fault: no test of the counter.
write_count_unchecked(t) ==
  /\ Locked(t, "count")
  /\ deny_write_cnt' = deny_write_cnt - 1
  /\ Goto(t, "enter")
  /\ UNCHANGED <<dataVars, extending, inode_lock, condVars, local, denying, calls>>

\* The first critical section of inode_write_at.
write_count(t) ==
  /\ Locked(t, "count")
  /\ \/ /\ deny_write_cnt > 0
        /\ Return(t, 0)
        /\ UNCHANGED deny_write_cnt
     \/ /\ deny_write_cnt <= 0
        /\ deny_write_cnt' = deny_write_cnt - 1
        /\ Goto(t, "enter")
        /\ UNCHANGED local
  /\ UNCHANGED <<dataVars, extending, inode_lock, condVars, denying, calls>>

\* Its second one, with the first lines of allocate_file.
write_wait_extending(t) ==
  /\ Locked(t, "enter")
  /\ local[t].op = "write"
  /\ extending
  /\ until_not_extending' = until_not_extending \cup {t}
  /\ Goto(t, "wait")
  /\ UNCHANGED <<dataVars, extending, deny_write_cnt, inode_lock, until_no_writers,
                 local, denying, calls>>

\* Fault: no test of the length.
write_test_end_always(t) ==
  /\ Locked(t, "enter")
  /\ local[t].op = "write"
  /\ ~extending
  /\ extending' = TRUE
  /\ Goto(t, "alloc")
  /\ UNCHANGED <<dataVars, deny_write_cnt, inode_lock, condVars, local, denying, calls>>

write_test_end(t) ==
  /\ Locked(t, "enter")
  /\ local[t].op = "write"
  /\ ~extending
  /\ \/ /\ local[t].size + local[t].offset > length
        /\ extending' = TRUE
        /\ Goto(t, "alloc")
     \/ /\ local[t].size + local[t].offset <= length
        /\ Goto(t, "locate")
        /\ UNCHANGED extending
  /\ UNCHANGED <<dataVars, deny_write_cnt, inode_lock, condVars, local, denying, calls>>

\* Fault: the sector stays free.
allocate_file_not_taken(t) ==
  LET b == local[t].count
  IN  /\ pc[t] = "alloc"
      /\ b < bytes_to_sectors(local[t].offset + local[t].size)
      /\ free # {}
      /\ blocks' = IF b * BLOCK_SECTOR_SIZE < length THEN blocks
                   ELSE [blocks EXCEPT ![b] = Min(free)]
      /\ local' = [local EXCEPT ![t].count = b + 1]
      /\ UNCHANGED <<length, free, disk, extending, deny_write_cnt, inode_lock, condVars,
                     pc, denying, calls>>

\* One turn of the loop of allocate_file: the block has a sector, gets the
\* first free one, or there is none and allocate_file returns false.
allocate_file(t) ==
  LET b == local[t].count
  IN  /\ pc[t] = "alloc"
      /\ b < bytes_to_sectors(local[t].offset + local[t].size)
      /\ \/ /\ b * BLOCK_SECTOR_SIZE < length
            /\ local' = [local EXCEPT ![t].count = b + 1]
            /\ UNCHANGED <<blocks, free, pc>>
         \/ /\ b * BLOCK_SECTOR_SIZE >= length
            /\ free # {}
            /\ blocks' = [blocks EXCEPT ![b] = Min(free)]
            /\ free' = free \ {Min(free)}
            /\ local' = [local EXCEPT ![t].count = b + 1]
            /\ UNCHANGED pc
         \/ /\ b * BLOCK_SECTOR_SIZE >= length
            /\ free = {}
            /\ Goto(t, "locate")
            /\ UNCHANGED <<blocks, free, local>>
      /\ UNCHANGED <<length, disk, extending, deny_write_cnt, inode_lock, condVars,
                     denying, calls>>

\* Fault: no broadcast.
allocate_file_end_silent(t) ==
  /\ Locked(t, "alloc")
  /\ local[t].count = bytes_to_sectors(local[t].offset + local[t].size)
  /\ length' = local[t].offset + local[t].size
  /\ extending' = FALSE
  /\ Goto(t, "locate")
  /\ UNCHANGED <<blocks, free, disk, deny_write_cnt, inode_lock, condVars, local, denying,
                 calls>>

\* Fault: the extension does not end.
allocate_file_end_extending(t) ==
  /\ Locked(t, "alloc")
  /\ local[t].count = bytes_to_sectors(local[t].offset + local[t].size)
  /\ length' = local[t].offset + local[t].size
  /\ until_not_extending' = {}
  /\ pc' = [u \in Threads |->
              IF u = t THEN "locate"
              ELSE IF u \in until_not_extending THEN AfterExtending(u)
              ELSE pc[u]]
  /\ UNCHANGED <<blocks, free, disk, extending, deny_write_cnt, inode_lock,
                 until_no_writers, local, denying, calls>>

\* Its last critical section.
allocate_file_end(t) ==
  /\ Locked(t, "alloc")
  /\ local[t].count = bytes_to_sectors(local[t].offset + local[t].size)
  /\ length' = local[t].offset + local[t].size
  /\ extending' = FALSE
  /\ until_not_extending' = {}
  /\ pc' = [u \in Threads |->
              IF u = t THEN "locate"
              ELSE IF u \in until_not_extending THEN AfterExtending(u)
              ELSE pc[u]]
  /\ UNCHANGED <<blocks, free, disk, deny_write_cnt, inode_lock, until_no_writers, local,
                 denying, calls>>

\* The loop of inode_read_at and inode_write_at: find the sector of the
\* offset, then, without a lock in between, the size of the chunk and copy.
locate(t) ==
  /\ pc[t] = "locate"
  /\ local[t].size > 0
  /\ local' = [local EXCEPT ![t].sector = byte_to_sector(local[t].offset)]
  /\ Goto(t, "copy")
  /\ UNCHANGED <<dataVars, extending, deny_write_cnt, inode_lock, condVars, denying, calls>>

Patched(bytes, t) ==
  [i \in 0 .. BLOCK_SECTOR_SIZE - 1 |->
     IF i - (local[t].offset % BLOCK_SECTOR_SIZE) \in 0 .. chunk_size(t) - 1
     THEN t ELSE bytes[i]]

copy(t) ==
  LET n == chunk_size(t)
  IN  /\ pc[t] = "copy"
      /\ n > 0
      /\ disk' = IF local[t].op = "write"
                 THEN [disk EXCEPT ![local[t].sector] = Patched(@, t)]
                 ELSE disk
      /\ local' = [local EXCEPT ![t].size = @ - n, ![t].offset = @ + n, ![t].done = @ + n]
      /\ Goto(t, "locate")
      /\ UNCHANGED <<length, blocks, free, extending, deny_write_cnt, inode_lock, condVars,
                     denying, calls>>

\* The loop is over: size is 0, or there is nothing to copy.
copied(t) ==
  /\ \/ pc[t] = "locate" /\ local[t].size = 0
     \/ pc[t] = "copy" /\ chunk_size(t) <= 0
  /\ \/ local[t].op = "read" /\ Return(t, local[t].done)
     \/ local[t].op = "write" /\ Goto(t, "leave") /\ UNCHANGED local
  /\ UNCHANGED <<dataVars, extending, deny_write_cnt, inode_lock, condVars, denying, calls>>

\* Fault: no broadcast.
write_leave_silent(t) ==
  /\ Locked(t, "leave")
  /\ deny_write_cnt' = deny_write_cnt + 1
  /\ Goto(t, "idle")
  /\ local' = [local EXCEPT ![t] = Outside(local[t].done)]
  /\ UNCHANGED <<dataVars, extending, inode_lock, condVars, denying, calls>>

\* The last critical section of inode_write_at.
write_leave(t) ==
  /\ Locked(t, "leave")
  /\ deny_write_cnt' = deny_write_cnt + 1
  /\ LET woken == IF deny_write_cnt' = 0 THEN until_no_writers ELSE {}
     IN  /\ until_no_writers' = until_no_writers \ woken
         /\ pc' = [u \in Threads |->
                     IF u = t THEN "idle"
                     ELSE IF u \in woken THEN AfterWriters(u)
                     ELSE pc[u]]
  /\ local' = [local EXCEPT ![t] = Outside(local[t].done)]
  /\ UNCHANGED <<dataVars, extending, inode_lock, until_not_extending, denying, calls>>

-----------------------------------------------------------------------------
(* Denying writes. *)

Call_deny(t) ==
  /\ pc[t] = "idle"
  /\ t \in Deniers \ denying
  /\ calls[t] < MaxCalls
  /\ calls' = [calls EXCEPT ![t] = @ + 1]
  /\ local' = [local EXCEPT ![t].op = "deny"]
  /\ Goto(t, "deny")
  /\ UNCHANGED <<dataVars, extending, deny_write_cnt, inode_lock, condVars, denying>>

deny_wait(t) ==
  /\ Locked(t, "deny")
  /\ deny_write_cnt < 0
  /\ until_no_writers' = until_no_writers \cup {t}
  /\ Goto(t, "wait")
  /\ UNCHANGED <<dataVars, extending, deny_write_cnt, inode_lock, until_not_extending,
                 local, denying, calls>>

\* deny_write_cnt++ is a load and a store, and inode_allow_write does not take
\* the lock.  While writers are counted nobody calls inode_allow_write, so the
\* counting of writers is not split.
deny_load(t) ==
  /\ Locked(t, "deny")
  /\ deny_write_cnt >= 0
  /\ inode_lock' = t
  /\ local' = [local EXCEPT ![t].eax = deny_write_cnt]
  /\ Goto(t, "deny_store")
  /\ UNCHANGED <<dataVars, extending, deny_write_cnt, condVars, denying, calls>>

deny_store(t) ==
  /\ pc[t] = "deny_store"
  /\ deny_write_cnt' = local[t].eax + 1
  /\ inode_lock' = NULL
  /\ denying' = denying \cup {t}
  /\ Return(t, 0)
  /\ UNCHANGED <<dataVars, extending, condVars, calls>>

\* inode_allow_write: one load for its assertions and the decrement.
allow_load(t) ==
  /\ pc[t] = "idle"
  /\ t \in denying
  /\ denying' = denying \ {t}
  /\ local' = [local EXCEPT ![t].eax = deny_write_cnt]
  /\ Goto(t, "allow_store")
  /\ UNCHANGED <<dataVars, extending, deny_write_cnt, inode_lock, condVars, calls>>

allow_store(t) ==
  /\ pc[t] = "allow_store"
  /\ deny_write_cnt' = local[t].eax - 1
  /\ Return(t, 0)
  /\ UNCHANGED <<dataVars, extending, inode_lock, condVars, denying, calls>>

-----------------------------------------------------------------------------
Step(t) ==
  \/ read_wait_extending(t) \/ read_wait_writers(t) \/ read_test_end(t)
  \/ write_count(t) \/ write_wait_extending(t) \/ write_test_end(t)
  \/ allocate_file(t) \/ allocate_file_end(t)
  \/ locate(t) \/ copy(t) \/ copied(t) \/ write_leave(t)
  \/ deny_wait(t) \/ deny_load(t) \/ deny_store(t) \/ allow_store(t)

User(t) ==
  \/ \E op \in {"read", "write"}, offset \in 0 .. MaxLength, size \in 1 .. MaxLength :
       offset + size <= MaxLength /\ Call(t, op, offset, size)
  \/ Call_deny(t)
  \/ allow_load(t)

Next == \E t \in Threads : Step(t) \/ User(t)

Spec == Init /\ [][Next]_vars

\* The scheduler is round-robin and no thread keeps inode_lock while it waits,
\* so a thread in a call takes its next step.
FairSpec == Spec /\ \A t \in Threads : WF_vars(Step(t))

-----------------------------------------------------------------------------
(* Properties. *)

\* The threads inode_write_at has counted and not yet discounted.
Writing ==
  {t \in Threads : /\ local[t].op = "write"
                   /\ pc[t] \in {"enter", "wait", "alloc", "locate", "copy", "leave"}}

\* One counter serves writers and deniers: it counts the one kind up and the
\* other kind down, and never both at once.
CountAccurate ==
  /\ deny_write_cnt = Cardinality(denying)
                        + Cardinality({t \in Threads : pc[t] = "allow_store"})
                        - Cardinality(Writing)
  /\ denying # {} => Writing = {}

\* The blocks of the file are sectors of its own, one each, although
\* allocate_file works without the lock.
BlocksOwned ==
  LET n == bytes_to_sectors(length)
  IN  \A b \in 0 .. n - 1 : /\ blocks[b] \in Sectors \ free
                            /\ \A c \in 0 .. n - 1 : blocks[b] = blocks[c] => b = c

\* The sector is looked up before the size of the chunk, with the length read
\* twice: a chunk is never copied from or to the sector -1 of the first lookup.
SectorValid ==
  \A t \in Threads : pc[t] = "copy" /\ chunk_size(t) > 0 => local[t].sector \in Sectors

\* One thread extends at a time, and whoever waits for it, or for the writers,
\* waits for a thread that will broadcast.
NoMissedBroadcast ==
  /\ Cardinality({t \in Threads : pc[t] = "alloc"}) <= 1
  /\ until_not_extending # {} => extending
  /\ until_no_writers # {} => Writing # {}
  /\ \A t \in Threads : pc[t] = "wait" =>
       t \in until_not_extending \cup until_no_writers

\* The counts of writers and deniers, the sectors of the file and those that
\* reads and writes use, and the sleepers, together with the types.
InodeConsistent ==
  TypeOK /\ CountAccurate /\ BlocksOwned /\ SectorValid /\ NoMissedBroadcast

FileByte(pos) ==
  disk[blocks[pos \div BLOCK_SECTOR_SIZE]][pos % BLOCK_SECTOR_SIZE]

\* A file never shrinks while it is open, although a writer may have waited
\* for others to extend it further, and extending it keeps its bytes.
KeepsBytes ==
  /\ length' >= length
  /\ disk' = disk => \A pos \in 0 .. length - 1 : FileByte(pos)' = FileByte(pos)
ExtendKeeps == [][KeepsBytes]_vars

\* The free map had sectors for all that may be written.
Room ==
  Cardinality((free \cup {blocks[b] : b \in Blocks}) \ {0}) >= bytes_to_sectors(MaxLength)

\* Every read, write and deny returns if the disk has room, whatever the
\* others extend, write and deny.
EveryCallReturns ==
  Room => \A t \in Threads : pc[t] # "idle" ~> pc[t] = "idle"

-----------------------------------------------------------------------------
(* What comments and tests say. *)

\* "Disables writes to INODE" (the comment on inode_deny_write).
WritesDenied == denying # {} => Writing = {}

\* "Returns the number of bytes actually read, which may be less than SIZE if
\* an error occurs or end of file is reached" (the comment on inode_read_at).
ReadReturnsCount == \A t \in Threads : local[t].result >= 0

\* "seeking past the end of a file and writing will properly zero out the
\* region in between" (tests/filesys/extended/grow-sparse.c).
GapIsCleared ==
  (\A t \in Threads : pc[t] = "idle") =>
    \A pos \in 0 .. length - 1 : FileByte(pos) # Stale

\* "Returns the number of bytes actually written, which may be less than SIZE
\* if end of file is reached or an error occurs" (the comment on
\* inode_write_at): it returns, on a full disk too.
WriteReturns ==
  \A t \in Threads : local[t].op = "write" ~> pc[t] = "idle"
=============================================================================
