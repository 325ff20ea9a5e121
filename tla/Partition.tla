------------------------------ MODULE Partition ------------------------------
(***************************************************************************)
(* The partitions of a disk (devices/partition.c) and the block devices    *)
(* registered for them (devices/block.c).  A table is [signature, entries],*)
(* an entry [type, offset, size].  read_partition_table reads sector 0     *)
(* whatever sector it is given, so a disk is its table there.              *)
(***************************************************************************)
EXTENDS Integers, Sequences, SequencesExt

CONSTANTS SectorBits,   \* block_sector_t has 32
          MaxDepth      \* calls of read_partition_table that the kernel stack holds

Sector(x) == x % 2 ^ SectorBits
Extended == {5, 15, 133, 197}
BlockType(type) ==
  CASE type = 32 -> "kernel" [] type = 33 -> "filesys" [] type = 34 -> "scratch"
    [] type = 35 -> "swap" [] OTHER -> "foreign"

\* A block device: [name, type, size, disk, start]; part_nr stands for the name
\* that ends in it.  acc: [all_blocks, part_nr, overflow].
block_register(acc, block) == [acc EXCEPT !.all_blocks = Append(@, block)]

\* Fault: the end of a partition is not checked for wrapping around.
EndsPast_wraps(start, size, block_size) == Sector(start + size) > block_size
EndsPast(start, size, block_size) ==
  Sector(start + size) < start \/ Sector(start + size) > block_size
found_partition(acc, block_size, type, start, size) ==
  IF start >= block_size \/ EndsPast(start, size, block_size) THEN acc
  ELSE block_register(acc, [name |-> acc.part_nr, type |-> BlockType(type), size |-> size, start |-> start])

RECURSIVE read_partition_table(_, _, _, _, _, _)
read_partition_table(acc, table, block_size, sector, primary, depth) ==
  LET Entry(a, e) ==
        IF e.size = 0 \/ e.type = 0 THEN a
        ELSE IF e.type \in Extended
             THEN IF sector = 0
                  THEN read_partition_table(a, table, block_size, e.offset, e.offset, depth + 1)
                  ELSE read_partition_table(a, table, block_size, Sector(e.offset + primary), primary, depth + 1)
        ELSE found_partition([a EXCEPT !.part_nr = @ + 1], block_size, e.type,
                             Sector(e.offset + sector), e.size)
  IN IF acc.overflow \/ sector >= block_size \/ ~table.signature THEN acc
     ELSE IF depth > MaxDepth THEN [acc EXCEPT !.overflow = TRUE]
     ELSE FoldLeft(Entry, acc, table.entries)

partition_scan(table, block_size) ==
  read_partition_table([all_blocks |-> <<>>, part_nr |-> 0, overflow |-> FALSE], table, block_size, 0, 0, 1)

\* The first block of that name in probe order; 0 stands for a null pointer.
block_get_by_name(all_blocks, name) ==
  LET found == {i \in DOMAIN all_blocks : all_blocks[i].name = name}
  IN IF found = {} THEN 0 ELSE CHOOSE i \in found : \A j \in found : i <= j

\* Where a read or write of sector ends on the disk; -1 where check_sector panics.
check_sector(size, sector) == sector < size
block_access(block, block_size, sector) ==
  IF ~check_sector(block.size, sector) THEN -1
  ELSE IF ~check_sector(block_size, Sector(block.start + sector)) THEN -1
  ELSE Sector(block.start + sector)

\* Of a disk whose table has no extended partition: every partition that is
\* registered is one entry of the table, lies on the disk, has a name of its own,
\* and its sectors are those of the entry, one for one, so that partitions whose
\* entries do not overlap share no sector; and none that lies on the disk is missed.
PartitionsFaithful(table, block_size) ==
  LET r == partition_scan(table, block_size)
      used == SelectSeq(table.entries, LAMBDA e : e.size # 0 /\ e.type # 0)
      fits(e) == e.offset + e.size <= block_size
  IN (\A i \in DOMAIN table.entries : table.entries[i].type \notin Extended) /\ table.signature =>
       /\ ~r.overflow
       /\ [i \in DOMAIN r.all_blocks |-> <<r.all_blocks[i].start, r.all_blocks[i].size>>] =
            LET kept == SelectSeq(used, fits) IN [i \in DOMAIN kept |-> <<kept[i].offset, kept[i].size>>]
       /\ \A i \in DOMAIN r.all_blocks :
            LET b == r.all_blocks[i]
            IN /\ block_get_by_name(r.all_blocks, b.name) = i
               /\ used[b.name].offset = b.start
               /\ \A s \in 0..block_size + 1 :
                    block_access(b, block_size, s) = IF s < b.size THEN b.start + s ELSE -1

\* A partition lies on the disk whatever the table holds, extended entries included.
PartitionsOnDisk(table, block_size) ==
  LET r == partition_scan(table, block_size)
  IN \A i \in DOMAIN r.all_blocks : r.all_blocks[i].start + r.all_blocks[i].size <= block_size
=============================================================================
