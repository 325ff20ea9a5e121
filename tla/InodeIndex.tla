----------------------------- MODULE InodeIndex -----------------------------
(***************************************************************************)
(* The block index of an inode: direct, singly and doubly indirect blocks  *)
(* (byte_to_sector, allocate_file and deallocate_file of filesys/inode.c), *)
(* for files that are created, grow and are removed one after another.     *)
(*                                                                         *)
(* The sectors of an index live on the disk.  What a sector holds when it  *)
(* is allocated, from an earlier use or from none, is no pointer of the    *)
(* file and is modelled as Junk, which is not a sector.                    *)
(***************************************************************************)
EXTENDS Integers, Sequences, FiniteSetsExt, SequencesExt

CONSTANTS
  Files,
  DiskSize,
  Lengths,          \* the lengths a file may be given, in bytes
  NUM_DIRECT, NUM_BLOCKS_IN_INDIRECT, BLOCK_SECTOR_SIZE,
  Junk              \* a pointer nobody has set

Sectors == 1 .. DiskSize
NoSector == -1
Direct == 0 .. NUM_DIRECT - 1
Indirect == 0 .. NUM_BLOCKS_IN_INDIRECT - 1

\* A sector of the index is filled with four-byte pointers.
IndexAssumption ==
  /\ DiskSize \in Nat /\ Lengths \subseteq Nat
  /\ NUM_DIRECT \in Nat /\ NUM_BLOCKS_IN_INDIRECT \in Nat \ {0}
  /\ BLOCK_SECTOR_SIZE = 4 * NUM_BLOCKS_IN_INDIRECT
  /\ Junk \notin Int

VARIABLES
  inode,            \* [Files -> inode_disk]
  index,            \* [Sectors -> indirect_block], what a sector holds as one
  free,             \* the free map
  state,            \* [Files -> "none", "open", "stuck"]
  lost              \* sectors taken by an allocation that failed

vars == <<inode, index, free, state, lost>>

Pointers == Sectors \cup {Junk}

TypeOK ==
  /\ inode \in [Files -> [length : {0} \cup Lengths, direct : [Direct -> Pointers],
                          singly : Pointers, doubly : Pointers]]
  /\ index \in [Sectors -> [Indirect -> Pointers]]
  /\ free \in SUBSET Sectors
  /\ state \in [Files -> {"none", "open", "stuck"}]
  /\ lost \in SUBSET Sectors

EmptyInode == [length |-> 0, direct |-> [i \in Direct |-> Junk],
               singly |-> Junk, doubly |-> Junk]

Unset == [i \in Indirect |-> Junk]

Init ==
  /\ inode = [f \in Files |-> EmptyInode]
  /\ index = [s \in Sectors |-> Unset]
  /\ free = Sectors
  /\ state = [f \in Files |-> "none"]
  /\ lost = {}

-----------------------------------------------------------------------------
DIV_ROUND_UP(x, step) == (x + step - 1) \div step

bytes_to_sectors(size) == DIV_ROUND_UP(size, BLOCK_SECTOR_SIZE)

\* indirect.blocks[i] of a block read from sector s; what lies behind the
\* array, or in a sector that does not exist, is anything.
Block(s, i) == IF s \in Sectors /\ i \in Indirect THEN index[s][i] ELSE Junk

\* Fault: the position in the singly indirect block wraps around at the number
\* of its blocks in use.
byte_to_sector_wrapped(node, pos) ==
  LET block_num == pos \div BLOCK_SECTOR_SIZE
      in_use == Min({bytes_to_sectors(node.length) - NUM_DIRECT, NUM_BLOCKS_IN_INDIRECT})
      rest == block_num - (NUM_DIRECT + NUM_BLOCKS_IN_INDIRECT)
  IN  IF pos >= node.length THEN NoSector
      ELSE IF block_num < NUM_DIRECT THEN node.direct[block_num]
      ELSE IF rest < 0 THEN Block(node.singly, block_num % in_use)
      ELSE Block(Block(node.doubly, rest \div NUM_BLOCKS_IN_INDIRECT),
                 rest % BLOCK_SECTOR_SIZE)

byte_to_sector(node, pos) ==
  LET block_num == pos \div BLOCK_SECTOR_SIZE
      rest == block_num - (NUM_DIRECT + NUM_BLOCKS_IN_INDIRECT)
  IN  IF pos >= node.length THEN NoSector
      ELSE IF block_num < NUM_DIRECT THEN node.direct[block_num]
      ELSE IF rest < 0 THEN Block(node.singly, block_num - NUM_DIRECT)
      ELSE Block(Block(node.doubly, rest \div NUM_BLOCKS_IN_INDIRECT),
                 rest % BLOCK_SECTOR_SIZE)

\* How allocate_file and deallocate_file divide num_sectors among the levels.
InDirect(n) == Min({n, NUM_DIRECT})
InSingly(n) == Min({n - InDirect(n), NUM_BLOCKS_IN_INDIRECT})
InDoubly(n) == n - InDirect(n) - InSingly(n)
num_indirect_blocks(n) == DIV_ROUND_UP(InDoubly(n), BLOCK_SECTOR_SIZE)
InIndirect(n, i) == Min({InDoubly(n) - i * NUM_BLOCKS_IN_INDIRECT, NUM_BLOCKS_IN_INDIRECT})

\* A slot is a place for a pointer: the part of the index it belongs to, the
\* arrays' subscripts, and the block number at which allocate_file asks
\* whether the slot is in use already.
Slot(part, level, i, j, block) ==
  [part |-> part, level |-> level, i |-> i, j |-> j, block |-> block]

\* The slots of doubly_indirect.blocks[i] and of the block it points to.
IndirectSlots(n, i) ==
  LET b == NUM_DIRECT + NUM_BLOCKS_IN_INDIRECT * (1 + i)
  IN  <<Slot(3 + i, "indirect", i, 0, b)>>
        \o [k \in 1 .. InIndirect(n, i) |-> Slot(3 + i, "indirect_block", i, k - 1, b + k - 1)]

\* All slots of a file of n sectors, in the order of allocate_file.
Slots(n) ==
  [k \in 1 .. InDirect(n) |-> Slot(0, "direct", k - 1, 0, k - 1)]
    \o (IF InSingly(n) = 0 THEN <<>>
        ELSE <<Slot(1, "singly", 0, 0, NUM_DIRECT)>>
               \o [k \in 1 .. InSingly(n) |->
                     Slot(1, "singly_block", 0, k - 1, NUM_DIRECT + k - 1)])
    \o (IF InDoubly(n) = 0 THEN <<>>
        ELSE <<Slot(2, "doubly", 0, 0, NUM_DIRECT + NUM_BLOCKS_IN_INDIRECT)>>
               \o FlattenSeq([i \in 1 .. num_indirect_blocks(n) |-> IndirectSlots(n, i - 1)]))

\* The pointer in a slot.
Pointer(node, slot) ==
  CASE slot.level = "direct" -> node.direct[slot.i]
    [] slot.level = "singly" -> node.singly
    [] slot.level = "singly_block" -> Block(node.singly, slot.j)
    [] slot.level = "doubly" -> node.doubly
    [] slot.level = "indirect" -> Block(node.doubly, slot.i)
    [] slot.level = "indirect_block" -> Block(Block(node.doubly, slot.i), slot.j)

\* The sectors of a file of n sectors.
Contents(node, n) == {Pointer(node, slot) : slot \in ToSet(Slots(n))}

-----------------------------------------------------------------------------
\* Fault: a block that starts at the end of the file counts as present.
NewSlots_past_end(node, length) ==
  SelectSeq(Slots(bytes_to_sectors(length)),
            LAMBDA slot : slot.block * BLOCK_SECTOR_SIZE > node.length)

\* The slots allocate_file has to fill, those that get a sector before
\* free_map_allocate finds none, and the sector each of them gets: the first
\* that is free.
NewSlots(node, length) ==
  SelectSeq(Slots(bytes_to_sectors(length)),
            LAMBDA slot : slot.block * BLOCK_SECTOR_SIZE >= node.length)

Given(new) ==
  LET filled == 1 .. Min({Len(new), Cardinality(free)})
      Smaller(s) == {r \in free : r < s}
  IN  [slot \in {new[k] : k \in filled} |->
         CHOOSE s \in free : new[Cardinality(Smaller(s)) + 1] = slot]

Failed(new) == Len(new) > Cardinality(free)

\* The pointers of the inode itself.
Grown(node, given) ==
  LET Or(slot, old) == IF slot \in DOMAIN given THEN given[slot] ELSE old
  IN  [node EXCEPT
         !.direct = [i \in Direct |-> Or(Slot(0, "direct", i, 0, i), @[i])],
         !.singly = Or(Slot(1, "singly", 0, 0, NUM_DIRECT), @),
         !.doubly = Or(Slot(2, "doubly", 0, 0, NUM_DIRECT + NUM_BLOCKS_IN_INDIRECT), @)]

\* The pointers in sectors of the index: those of a part are written once the
\* part is complete, those of the doubly indirect block at the end.
Indexed(node, new, given) ==
  LET Indirects(i) == {slot \in DOMAIN given : slot.level = "indirect" /\ slot.i = i}
      IndirectAt(i) == IF Indirects(i) = {} THEN Block(node.doubly, i)
                       ELSE given[CHOOSE slot \in Indirects(i) : TRUE]
      Home(slot) == CASE slot.level = "singly_block" -> <<node.singly, slot.j>>
                      [] slot.level = "indirect_block" -> <<IndirectAt(slot.i), slot.j>>
                      [] slot.level = "indirect" -> <<node.doubly, slot.i>>
                      [] OTHER -> <<NoSector, 0>>
      Saved(slot) == Failed(new) => /\ slot.level # "indirect"
                                    /\ slot.part < new[Cardinality(free) + 1].part
      At(s, i) == {slot \in DOMAIN given : Home(slot) = <<s, i>> /\ Saved(slot)}
  IN  [s \in Sectors |-> [i \in Indirect |->
         IF At(s, i) = {} THEN index[s][i] ELSE given[CHOOSE slot \in At(s, i) : TRUE]]]

\* Fault: the length is recorded in sectors.
allocate_file_in_sectors(f, node, length, then, otherwise) ==
  LET new == NewSlots(node, length)
      given == Given(new)
      grown == Grown(node, given)
  IN  /\ free' = free \ {given[slot] : slot \in DOMAIN given}
      /\ index' = Indexed(grown, new, given)
      /\ inode' = [inode EXCEPT ![f] = [grown EXCEPT !.length = bytes_to_sectors(length)]]
      /\ state' = [state EXCEPT ![f] = then]
      /\ UNCHANGED lost

\* What allocate_file(node, length) leaves behind for file f; then is the state
\* of the file when it succeeds, otherwise when it fails.
allocate_file(f, node, length, then, otherwise) ==
  LET new == NewSlots(node, length)
      given == Given(new)
      grown == Grown(node, given)
      taken == {given[slot] : slot \in DOMAIN given}
  IN  /\ free' = free \ taken
      /\ index' = Indexed(grown, new, given)
      /\ \/ /\ ~Failed(new)
            /\ inode' = [inode EXCEPT ![f] = [grown EXCEPT !.length = length]]
            /\ state' = [state EXCEPT ![f] = then]
            /\ UNCHANGED lost
         \/ /\ Failed(new)
            /\ inode' = [inode EXCEPT ![f] = IF otherwise = "none" THEN EmptyInode ELSE grown]
            /\ state' = [state EXCEPT ![f] = otherwise]
            /\ lost' = lost \cup taken

inode_create(f, length) ==
  /\ state[f] = "none"
  /\ allocate_file(f, EmptyInode, length, "open", "none")

\* inode_write_at beyond the end of the file.  When allocate_file fails,
\* extending stays set and the file cannot grow again.
inode_extend(f, length) ==
  /\ state[f] = "open"
  /\ length > inode[f].length
  /\ allocate_file(f, inode[f], length, "open", "stuck")

\* Fault: the sectors of the index are not released.
inode_remove_blocks(f) ==
  /\ state[f] # "none"
  /\ free' = free \cup {byte_to_sector(inode[f], b * BLOCK_SECTOR_SIZE) :
                          b \in 0 .. bytes_to_sectors(inode[f].length) - 1}
  /\ inode' = [inode EXCEPT ![f] = EmptyInode]
  /\ state' = [state EXCEPT ![f] = "none"]
  /\ UNCHANGED <<index, lost>>

\* The last inode_close of a removed file: deallocate_file.
inode_remove(f) ==
  /\ state[f] # "none"
  /\ LET released == Contents(inode[f], bytes_to_sectors(inode[f].length)) \ {Junk}
     IN  /\ free' = free \cup released
         /\ index' = [s \in Sectors |-> IF s \in released THEN Unset ELSE index[s]]
  /\ inode' = [inode EXCEPT ![f] = EmptyInode]
  /\ state' = [state EXCEPT ![f] = "none"]
  /\ UNCHANGED lost

Next ==
  \E f \in Files :
    \/ \E length \in Lengths : inode_create(f, length) \/ inode_extend(f, length)
    \/ inode_remove(f)

Spec == Init /\ [][Next]_vars

-----------------------------------------------------------------------------
(* Properties. *)

NumBlocks(f) == bytes_to_sectors(inode[f].length)

SectorOf(f, b) == byte_to_sector(inode[f], b * BLOCK_SECTOR_SIZE)

\* "Returns the block device sector that contains byte offset POS within
\* INODE" (the comment on byte_to_sector): every block of every file has a
\* sector that is allocated and no other block's.
BlocksDistinct ==
  \A f, g \in Files : \A b \in 0 .. NumBlocks(f) - 1, c \in 0 .. NumBlocks(g) - 1 :
    /\ SectorOf(f, b) \in Sectors \ free
    /\ SectorOf(f, b) = SectorOf(g, c) => f = g /\ b = c

\* Whatever is created, extended and removed, a block stays in its sector.
KeepsBlocks ==
  \A f \in Files : \A b \in 0 .. NumBlocks(f) - 1 :
    state'[f] # "none" => SectorOf(f, b)' = SectorOf(f, b)
BlocksStay == [][KeepsBlocks]_vars

\* A sector is free, or in one file as a block or as a part of its index, or
\* was taken by an allocation that failed later on: deallocate_file gives back
\* all that allocate_file has taken for a file and nothing else.
Accounted ==
  LET Used(f) == Contents(inode[f], NumBlocks(f))
  IN  /\ \A f \in Files : Used(f) \subseteq Sectors \ (free \cup lost)
      /\ \A f, g \in Files : f # g => Used(f) \cap Used(g) = {}
      /\ free \cup lost \cup UNION {Used(f) : f \in Files} = Sectors
      /\ \A f \in Files : Cardinality(Used(f)) = Len(Slots(NumBlocks(f)))

\* The above together, with the types of the variables.
IndexConsistent == TypeOK /\ BlocksDistinct /\ Accounted
=============================================================================
