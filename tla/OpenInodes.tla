----------------------------- MODULE OpenInodes -----------------------------
(***************************************************************************)
(* The list of open inodes: inode_open, inode_reopen, inode_close and      *)
(* inode_remove of filesys/inode.c.                                        *)
(*                                                                         *)
(* open_inodes_lock is held for the search of the list and for the push    *)
(* onto it, not in between and not by inode_close, so these are separate   *)
(* steps.  A change of the list is one step here although it is several    *)
(* stores.  Memory from malloc holds what its last user left there.  That  *)
(* a file still has the name its sector was looked up by is part of the    *)
(* search.                                                                 *)
(***************************************************************************)
EXTENDS Integers, FiniteSetsExt, SequencesExt

CONSTANTS
  Threads,
  Sectors,          \* the sectors that hold inodes
  Addresses,        \* where malloc can put a struct inode
  MaxRefs,          \* bound on the references a thread has to one inode
  NULL

OpenInodesAssumption ==
  /\ MaxRefs \in Nat \ {0}
  /\ NULL \notin Sectors \cup Addresses

VARIABLES
  inode,            \* [Addresses -> struct inode]
  allocated,        \* the addresses malloc has given out
  open_inodes,      \* the list, first element first
  linked,           \* sectors of files that have a name
  blocks,           \* sectors of inodes that are, with their blocks, not free
  refs,             \* references each thread has to each address
  pc, arg           \* where each thread is; the sector or address it works on

vars == <<inode, allocated, open_inodes, linked, blocks, refs, pc, arg>>

\* filled: data has been read from the disk.
Inodes == [sector : Sectors \cup {NULL}, open_cnt : Int, removed : BOOLEAN,
           filled : BOOLEAN]

TypeOK ==
  /\ inode \in [Addresses -> Inodes]
  /\ allocated \in SUBSET Addresses
  /\ open_inodes \in Seq(Addresses)
  /\ linked \in SUBSET Sectors
  /\ blocks \in SUBSET Sectors
  /\ refs \in [Threads -> [Addresses -> 0 .. MaxRefs]]
  /\ pc \in [Threads -> {"idle", "push", "sector", "init", "read", "store", "unlist", "write", "free"}]
  /\ arg \in [Threads -> [sector : Sectors \cup {NULL}, address : Addresses \cup {NULL},
                          eax : Int]]

NoArg == [sector |-> NULL, address |-> NULL, eax |-> 0]

Init ==
  /\ \E leftover \in [Addresses -> Sectors \cup {NULL}] :
       inode = [a \in Addresses |-> [sector |-> leftover[a], open_cnt |-> 0,
                                     removed |-> FALSE, filled |-> FALSE]]
  /\ allocated = {}
  /\ open_inodes = <<>>
  /\ linked = Sectors
  /\ blocks = Sectors
  /\ refs = [t \in Threads |-> [a \in Addresses |-> 0]]
  /\ pc = [t \in Threads |-> "idle"]
  /\ arg = [t \in Threads |-> NoArg]

-----------------------------------------------------------------------------
Goto(t, p) == pc' = [pc EXCEPT ![t] = p]

Return(t) == Goto(t, "idle") /\ arg' = [arg EXCEPT ![t] = NoArg]

AddRef(t, a) == refs' = [refs EXCEPT ![t][a] = @ + 1]

\* Fault: the search starts at the second element.
Matches_second(s) ==
  {i \in 2 .. Len(open_inodes) : inode[open_inodes[i]].sector = s}

\* The places of the list where inode_open finds sector s.
Matches(s) == {i \in 1 .. Len(open_inodes) : inode[open_inodes[i]].sector = s}

\* inode_open(s), the search: the file has a name, or its caller would not
\* know s.
open_found(t, s) ==
  LET a == open_inodes[Min(Matches(s))]
  IN  /\ pc[t] = "idle"
      /\ s \in linked
      /\ Matches(s) # {}
      /\ refs[t][a] < MaxRefs
      /\ inode' = [inode EXCEPT ![a].open_cnt = @ + 1]
      /\ AddRef(t, a)
      /\ UNCHANGED <<allocated, open_inodes, linked, blocks, pc, arg>>

open_not_found(t, s) ==
  /\ pc[t] = "idle"
  /\ s \in linked
  /\ Matches(s) = {}
  /\ Goto(t, "push")
  /\ arg' = [arg EXCEPT ![t].sector = s]
  /\ UNCHANGED <<inode, allocated, open_inodes, linked, blocks, refs>>

\* Fault: a null pointer from malloc is not noticed.
open_push_unchecked(t) ==
  /\ pc[t] = "push"
  /\ \E a \in IF allocated = Addresses THEN {NULL} ELSE Addresses \ allocated :
       /\ allocated' = allocated \cup {a}
       /\ open_inodes' = <<a>> \o open_inodes
       /\ arg' = [arg EXCEPT ![t].address = a]
  /\ Goto(t, "sector")
  /\ UNCHANGED <<inode, linked, blocks, refs>>

\* malloc and list_push_front, or a null pointer when malloc has no memory.
open_push(t) ==
  /\ pc[t] = "push"
  /\ \/ \E a \in Addresses \ allocated :
          /\ refs[t][a] < MaxRefs
          /\ allocated' = allocated \cup {a}
          /\ open_inodes' = <<a>> \o open_inodes
          /\ arg' = [arg EXCEPT ![t].address = a]
          /\ Goto(t, "sector")
     \/ /\ allocated = Addresses
        /\ Return(t)
        /\ UNCHANGED <<allocated, open_inodes>>
  /\ UNCHANGED <<inode, linked, blocks, refs>>

open_set_sector(t) ==
  /\ pc[t] = "sector"
  /\ inode' = [inode EXCEPT ![arg[t].address].sector = arg[t].sector]
  /\ Goto(t, "init")
  /\ UNCHANGED <<allocated, open_inodes, linked, blocks, refs, arg>>

\* Fault: the inode is not read.
open_init_unread(t) ==
  /\ pc[t] = "init"
  /\ inode' = [inode EXCEPT ![arg[t].address] =
                 [@ EXCEPT !.open_cnt = 1, !.removed = FALSE, !.filled = FALSE]]
  /\ AddRef(t, arg[t].address)
  /\ Return(t)
  /\ UNCHANGED <<allocated, open_inodes, linked, blocks>>

open_init(t) ==
  /\ pc[t] = "init"
  /\ inode' = [inode EXCEPT ![arg[t].address] =
                 [@ EXCEPT !.open_cnt = 1, !.removed = FALSE, !.filled = FALSE]]
  /\ Goto(t, "read")
  /\ UNCHANGED <<allocated, open_inodes, linked, blocks, refs, arg>>

open_read(t) ==
  /\ pc[t] = "read"
  /\ inode' = [inode EXCEPT ![arg[t].address].filled = TRUE]
  /\ AddRef(t, arg[t].address)
  /\ Return(t)
  /\ UNCHANGED <<allocated, open_inodes, linked, blocks>>

inode_reopen(t, a) ==
  /\ pc[t] = "idle"
  /\ refs[t][a] \in 1 .. MaxRefs - 1
  /\ inode' = [inode EXCEPT ![a].open_cnt = @ + 1]
  /\ AddRef(t, a)
  /\ UNCHANGED <<allocated, open_inodes, linked, blocks, pc, arg>>

\* dir_remove takes the name away, and inode_remove marks the inode.
inode_remove(t, a) ==
  /\ pc[t] = "idle"
  /\ refs[t][a] > 0
  /\ inode[a].sector \in linked
  /\ linked' = linked \ {inode[a].sector}
  /\ inode' = [inode EXCEPT ![a].removed = TRUE]
  /\ UNCHANGED <<allocated, open_inodes, blocks, refs, pc, arg>>

\* inode_close: --inode->open_cnt is a load and a store.
close_load(t, a) ==
  /\ pc[t] = "idle"
  /\ refs[t][a] > 0
  /\ refs' = [refs EXCEPT ![t][a] = @ - 1]
  /\ arg' = [arg EXCEPT ![t].address = a, ![t].eax = inode[a].open_cnt - 1]
  /\ Goto(t, "store")
  /\ UNCHANGED <<inode, allocated, open_inodes, linked, blocks>>

\* Fault: every close releases the inode.
close_store_always(t) ==
  /\ pc[t] = "store"
  /\ inode' = [inode EXCEPT ![arg[t].address].open_cnt = arg[t].eax]
  /\ Goto(t, "unlist")
  /\ UNCHANGED <<allocated, open_inodes, linked, blocks, refs, arg>>

\* Fault: open_cnt is tested before it is decremented.
close_store_post_decrement(t) ==
  /\ pc[t] = "store"
  /\ inode' = [inode EXCEPT ![arg[t].address].open_cnt = arg[t].eax]
  /\ \/ arg[t].eax = -1 /\ Goto(t, "unlist") /\ UNCHANGED arg
     \/ arg[t].eax # -1 /\ Return(t)
  /\ UNCHANGED <<allocated, open_inodes, linked, blocks, refs>>

close_store(t) ==
  /\ pc[t] = "store"
  /\ inode' = [inode EXCEPT ![arg[t].address].open_cnt = arg[t].eax]
  /\ \/ arg[t].eax = 0 /\ Goto(t, "unlist") /\ UNCHANGED arg
     \/ arg[t].eax # 0 /\ Return(t)
  /\ UNCHANGED <<allocated, open_inodes, linked, blocks, refs>>

close_unlist(t) ==
  /\ pc[t] = "unlist"
  /\ open_inodes' = SelectSeq(open_inodes, LAMBDA a : a # arg[t].address)
  /\ Goto(t, "write")
  /\ UNCHANGED <<inode, allocated, linked, blocks, refs, arg>>

\* Fault: a removed inode keeps its blocks.
close_write_keeps_blocks(t) ==
  /\ pc[t] = "write"
  /\ Goto(t, "free")
  /\ UNCHANGED <<inode, allocated, open_inodes, linked, blocks, refs, arg>>

\* The inode is written; a removed one is released with its blocks.
close_write(t) ==
  /\ pc[t] = "write"
  /\ blocks' = IF inode[arg[t].address].removed
               THEN blocks \ {inode[arg[t].address].sector} ELSE blocks
  /\ Goto(t, "free")
  /\ UNCHANGED <<inode, allocated, open_inodes, linked, refs, arg>>

close_free(t) ==
  /\ pc[t] = "free"
  /\ allocated' = allocated \ {arg[t].address}
  /\ Return(t)
  /\ UNCHANGED <<inode, open_inodes, linked, blocks, refs>>

\* filesys_create gives a new file a free sector and a name.
filesys_create(t, s) ==
  /\ pc[t] = "idle"
  /\ s \notin blocks
  /\ linked' = linked \cup {s}
  /\ blocks' = blocks \cup {s}
  /\ UNCHANGED <<inode, allocated, open_inodes, refs, pc, arg>>

Next ==
  \E t \in Threads :
    \/ \E s \in Sectors :
         open_found(t, s) \/ open_not_found(t, s) \/ filesys_create(t, s)
    \/ open_push(t) \/ open_set_sector(t) \/ open_init(t) \/ open_read(t)
    \/ \E a \in Addresses : inode_reopen(t, a) \/ inode_remove(t, a) \/ close_load(t, a)
    \/ close_store(t) \/ close_unlist(t) \/ close_write(t) \/ close_free(t)

Spec == Init /\ [][Next]_vars

-----------------------------------------------------------------------------
(* Properties. *)

References(a) == MapThenSumSet(LAMBDA t : refs[t][a], Threads)

\* Opening a single inode twice returns the same struct inode: no two
\* inodes that threads have open and that are read are of one sector.
OneInode ==
  \A a, b \in Addresses :
    /\ References(a) > 0 /\ inode[a].filled
    /\ References(b) > 0 /\ inode[b].filled
    /\ inode[a].sector = inode[b].sector
    => a = b

\* inode_close frees the memory only with the last reference.
InUseAllocated ==
  \A a \in Addresses : References(a) > 0 => a \in allocated

\* The inode that inode_open returns has been read from the disk.
InUseFilled ==
  \A a \in Addresses : References(a) > 0 => inode[a].filled

\* Between calls the open inodes are the allocated ones, in the list once,
\* each counting its openers: no memory leaks, and none is freed early.
ListedWhileOpen ==
  (\A t \in Threads : pc[t] = "idle") =>
    /\ IsInjective(open_inodes)
    /\ ToSet(open_inodes) = allocated
    /\ \A a \in Addresses : References(a) = IF a \in allocated THEN inode[a].open_cnt ELSE 0
    /\ \A a \in allocated : References(a) > 0

\* A removed file stays until its last opener closes it, and then its
\* sector is free: a sector is in use exactly when its file has a name,
\* is open or is being closed.
RemovedAtLastClose ==
  blocks = linked \cup {inode[a].sector : a \in {b \in allocated : References(b) > 0}}
                  \cup {inode[arg[t].address].sector : t \in
                          {u \in Threads : pc[u] \in {"store", "unlist", "write"}}}

\* The above but for OneInode, with the types of the variables.
OpenListConsistent ==
  TypeOK /\ InUseAllocated /\ InUseFilled /\ ListedWhileOpen /\ RemovedAtLastClose
=============================================================================
