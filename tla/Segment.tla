------------------------------ MODULE Segment ------------------------------
(***************************************************************************)
(* Where load of userprog/process.c puts what it loads: the pages of a     *)
(* segment, for a program header it accepts, and the layout of the stack   *)
(* for the words of a command line.  Addresses are words of the machine.   *)
(***************************************************************************)
EXTENDS PageTable, Sequences

PF_W == "W"
ROUND_UP(x, step) == ((x + step - 1) \div step) * step
Word(x) == x % AddressSpace    \* arithmetic on uint32_t

\* phdr: [p_type, p_offset, p_vaddr, p_filesz, p_memsz, p_flags].
\* Fault: the end of the segment is not checked for wrapping around.
EndsInUserSpace_wraps(phdr) == is_user_vaddr(Word(phdr.p_vaddr + phdr.p_memsz))
EndsInUserSpace(phdr) ==
  LET end == Word(phdr.p_vaddr + phdr.p_memsz) IN is_user_vaddr(end) /\ end >= phdr.p_vaddr
validate_segment(phdr, length) ==
  /\ pg_ofs(phdr.p_offset) = pg_ofs(phdr.p_vaddr)
  /\ phdr.p_offset <= length
  /\ phdr.p_memsz >= phdr.p_filesz
  /\ phdr.p_memsz # 0
  /\ is_user_vaddr(phdr.p_vaddr)
  /\ EndsInUserSpace(phdr)
  /\ phdr.p_vaddr >= PGSIZE

\* The arguments that load passes to load_segment.
SegmentOf(phdr) ==
  LET page_offset == pg_ofs(phdr.p_vaddr)
      read_bytes == IF phdr.p_filesz > 0 THEN page_offset + phdr.p_filesz ELSE 0
  IN [pos |-> pg_round_down(phdr.p_offset), upage |-> pg_round_down(phdr.p_vaddr),
      read_bytes |-> read_bytes,
      zero_bytes |-> Word(ROUND_UP(page_offset + phdr.p_memsz, PGSIZE) - read_bytes),
      writable |-> PF_W \in phdr.p_flags]

\* A segment that validate_segment accepts is loaded to whole user pages, page
\* 0 excepted, that hold all of it and no page more: load_segment's assertions
\* hold, and no address computation of load wraps around (process.c 372-386).
SegmentInUserSpace(phdr, length) ==
  LET s == SegmentOf(phdr)
      last == s.upage + s.read_bytes + s.zero_bytes
  IN validate_segment(phdr, length) =>
       /\ (s.read_bytes + s.zero_bytes) % PGSIZE = 0
       /\ PGSIZE <= s.upage /\ s.upage <= phdr.p_vaddr
       /\ phdr.p_vaddr + phdr.p_memsz <= last /\ last < phdr.p_vaddr + phdr.p_memsz + PGSIZE
       /\ last <= PHYS_BASE

\* What setup_stack writes, for words of the given lengths, below the address
\* top: where each word's string is, the 4-byte words by address, and esp.
\* Fault: the words to be pushed are not counted when aligning.
Padding_strings(esp, argc) == IF argc >= 0 THEN esp % 16 ELSE 0
Padding(esp, argc) == (esp - 4 * (argc + 3)) % 16
StackLayout(len, top) ==
  LET argc == Len(len)
      at[i \in 0..argc] == IF i = 0 THEN top ELSE at[i - 1] - (len[i] + 1)
      argv == at[argc] - Padding(at[argc], argc) - 4 * (argc + 1)
  IN [strings |-> [i \in 1..argc |-> at[i]],
      words |-> [i \in 0..argc |-> [addr |-> argv + 4 * i, val |-> IF i < argc THEN at[i + 1] ELSE 0]],
      argv |-> [addr |-> argv - 4, val |-> argv], argc |-> [addr |-> argv - 8, val |-> argc],
      esp |-> argv - 12]

\* The stack is what a C function main (argc, argv) expects to be called with: argc
\* and argv above the return address, the arguments aligned to 16 bytes, argv[argc]
\* null, and strings that overlap neither each other nor the pointers.
StackFaithful(len, top) ==
  LET s == StackLayout(len, top)
      argc == Len(len)
  IN /\ s.argc = [addr |-> s.esp + 4, val |-> argc]
     /\ s.argv = [addr |-> s.esp + 8, val |-> s.esp + 12]
     /\ (s.esp + 4) % 16 = 0
     /\ \A i \in 0..argc : s.words[i] = [addr |-> s.argv.val + 4 * i,
                                         val |-> IF i < argc THEN s.strings[i + 1] ELSE 0]
     /\ \A i \in 1..argc : /\ s.strings[i] >= s.words[argc].addr + 4
                           /\ s.strings[i] + len[i] < IF i = 1 THEN top ELSE s.strings[i - 1]
=============================================================================
