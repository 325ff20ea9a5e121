------------------------------ MODULE Library ------------------------------
(***************************************************************************)
(* The algorithms of the kernel that keep no state between calls, and the  *)
(* hash table: every step picks one of them with inputs from small sets,   *)
(* and the invariants compare its result with what it is for.              *)
(***************************************************************************)
EXTENDS Integers, Sequences, SequencesExt, FiniteSetsExt, TLC

VARIABLES
  call,                                     \* <<topic, inputs ...>>
  hash, buckets, elem_cnt, contents, result \* of HashTable

Lists == INSTANCE List WITH MaxListSize <- 5
Maps == INSTANCE Bitmap WITH ELEM_SIZE <- 1, CHAR_BIT <- 2, BITMAP_ERROR <- -1
Tables == INSTANCE HashTable WITH
  Keys <- 1..4, Versions <- {1, 2}, MIN_BUCKETS <- 2, BEST_ELEMS_PER_BUCKET <- 1,
  Hashes <- {[k \in 1..4 |-> k], [k \in 1..4 |-> (k * 2) % 5]}
Division == INSTANCE Arithmetic WITH W <- 4
Fixed == INSTANCE FixedPoint WITH FIX_BITS <- 6, FIX_Q <- 3, S_SIZE <- 4
Text == INSTANCE Format WITH
  TypeBits <- [CHAR |-> 3, SHORT |-> 4, INT |-> 6, INTMAX |-> 8, LONG |-> 6,
               LONGLONG |-> 8, PTRDIFFT |-> 6, SIZET |-> 6],
  BUF_SIZE <- 64, PER_LINE <- 4
Ustar == INSTANCE Archive WITH
  NAME <- 4, NUMBER <- 4, CHKSUM <- 5, ULONG_MAX <- 4095, INT_MAX <- 2047,
  BLOCK_SECTOR_SIZE <- 2
Start == INSTANCE Boot WITH
  LOADER_ARGS_LEN <- 8, ClockSeed <- "now",
  Valued <- {"-filesys", "-scratch", "-rs", "-ul"},
  Plain <- {"-f", "-q", "-r", "-h", "-mlfqs"},
  ActionArgc <- ("run" :> 2) @@ ("ls" :> 1)
Segments == INSTANCE Segment WITH
  PGBITS <- 2, PTBITS <- 1, PDBITS <- 2, PHYS_BASE <- 24, KernelPages <- {},
  UserPages <- {}
Times == INSTANCE Clock WITH
  FirstBit <- 2, RefineBits <- 2, TIMER_FREQ <- 3, Thousand <- 4, PIT_HZ <- 90,
  MinFrequency <- 6, CounterSize <- 16, Limits <- <<3, 2, 2>>
Display == INSTANCE Screen WITH COL_CNT <- 3, ROW_CNT <- 2, TAB <- 2
Keys == INSTANCE Keyboard WITH Buffer <- 2
Disks == INSTANCE Partition WITH SectorBits <- 3, MaxDepth <- 4

-----------------------------------------------------------------------------
(* Inputs.  What is not chosen by a step is quantified in the invariants.  *)

Strings(chars, n) == BoundedSeq(chars, n)

\* Conversion specifications: flags, a width, a precision, a length, a letter.
Formats ==
  {<<37>> \o SetToSeq(f) \o w \o p \o m \o <<c>> :
     f \in SUBSET Text!Flags, w \in {<<>>, <<52>>}, p \in {<<>>, <<46>>, <<46, 51>>},
     m \in {<<>>, <<104, 104>>}, c \in {100, 111, 117, 120}}

Word(text, value) == [text |-> text, value |-> value]
Words ==
  {Word(t, Start!NoValue) :
     t \in {"-f", "-q", "-r", "-h", "-other", "-filesys", "-ul", "run", "ls", "prog"}}
  \cup {Word("-filesys", "a"), Word("-scratch", "c"), Word("-rs", "5")}
Block(name, type) == [name |-> name, type |-> type]
BlockLists ==
  {<<>>, <<Block("a", "scratch"), Block("b", "filesys"), Block("d", "scratch")>>,
   <<Block("b", "filesys"), Block("c", "filesys")>>}

TarFiles == [name : {<<97>>, <<98>>}, bytes : Strings({1}, 3)]
\* A device of n sectors with what it held before.
TarDevices(n) ==
  {[i \in 1..n |-> s] : s \in {Ustar!ZeroSector, Ustar!Data(<<9, 9>>),
                              Ustar!ustar_make_header(<<99>>, Ustar!REGULAR, 0)}}

KeyEvents ==
  {[key |-> k, press |-> p, code |-> 0] : k \in Keys!Modifiers \cup {"caps"}, p \in BOOLEAN}
  \cup {[key |-> "char", press |-> TRUE, code |-> c] : c \in {30, 3, 83}}

Entries == [type : {0, 5, 33, 99}, offset : {0, 1, 3, 7}, size : {0, 1, 6, 7}]

Phdr(vaddr, memsz, offset, filesz) ==
  [p_type |-> "LOAD", p_offset |-> offset, p_vaddr |-> vaddr, p_filesz |-> filesz,
   p_memsz |-> memsz, p_flags |-> {}]

-----------------------------------------------------------------------------
Structures ==
  \/ \E n \in 0..5 : \E key \in [1..n + 1 -> 1..3] : call' = <<"list", n, key>>
  \/ \E n \in 0..4 : \E bits \in Maps!Bits(n) :
       call' = <<"bitmap", [bit_cnt |-> n, bits |-> bits]>>
  \/ \E a \in Strings(1..3, 6) : call' = <<"array", a>>
  \/ \E m \in [0..4 -> 1..2] : call' = <<"memory", m>>

Texts ==
  \/ \E s \in Strings(1..3, 4) : call' = <<"string", s>>
  \/ \E f \in Formats : call' = <<"printf", f>>
  \/ \E ofs \in 0..7, size \in 0..9 : call' = <<"hex_dump", ofs, size>>
  \/ \E name \in Strings({47, 46, 97}, 4) \ {<<>>} : call' = <<"header", name>>
  \/ \E n \in 1..6 : \E dev \in TarDevices(n) : call' = <<"archive", dev>>
  \/ \E words \in Strings(Words, 2) : call' = <<"boot", words>>
  \/ \E line \in Strings(Strings({1, 2}, 3) \ {<<>>}, 3) : call' = <<"line", line>>
  \/ \E line \in Strings(1..17, 3) : call' = <<"stack", line>>
  \/ \E chars \in Strings({"a", "b", "newline", "formfeed", "backspace", "return", "tab"}, 4) :
       call' = <<"screen", chars>>
  \/ \E events \in Strings(KeyEvents, 3) : call' = <<"keyboard", events>>

Numbers ==
  \/ \E n \in 0..255 : call' = <<"division", n>>
  \/ \E x \in -32..31 : call' = <<"fixed point", x>>
  \/ \E seed \in [1..2 -> 0..3] : call' = <<"random", seed>>
  \/ \E speed \in 1..70 : call' = <<"delay", speed>>
  \/ \E frequency \in 1..120 : call' = <<"counter", frequency>>
  \/ \E moment \in [1..4 -> 0..8] : call' = <<"clock", moment>>
  \/ \E vaddr, memsz \in 0..31 : call' = <<"segment", vaddr, memsz>>
  \/ \E table \in [signature : BOOLEAN, entries : Strings(Entries, 1)] :
       call' = <<"partitions", table>>

Init ==
  /\ call \in {<<"structures">>, <<"texts">>, <<"numbers">>, <<"hash">>}
  /\ Tables!hash_init
  /\ call # <<"hash">> => hash = [k \in 1..4 |-> k]

tableVars == <<hash, buckets, elem_cnt, contents, result>>

Next ==
  \/ /\ \/ call = <<"structures">> /\ Structures
        \/ call = <<"texts">> /\ Texts
        \/ call = <<"numbers">> /\ Numbers
     /\ UNCHANGED tableVars
  \/ /\ call = <<"hash">>
     /\ Tables!hash_next_state
     /\ UNCHANGED call

Spec == Init /\ [][Next]_<<call, tableVars>>
-----------------------------------------------------------------------------
\* Linked lists, bitmaps, hash tables, arrays and blocks of memory hold what
\* the calls on them amount to: each function of list.c, bitmap.c, hash.c, the
\* sort and search of stdlib.c and memmove and its like of string.c changes
\* what it says and nothing else, at the ends, across elements and for equal
\* keys as well.
StructuresFaithful ==
  CASE call[1] = "hash" -> Tables!HashFaithful
    [] call[1] = "list" -> Lists!ListFaithful(call[2], call[3])
    [] call[1] = "bitmap" ->
         \A start \in 0..call[2].bit_cnt, cnt \in 0..call[2].bit_cnt + 1 :
           Maps!BitmapFaithful(call[2], start, cnt)
    [] call[1] = "array" -> \A key \in 0..4 : Text!SortFaithful(call[2], key)
    [] call[1] = "memory" ->
         \A dst, src \in 0..4 : \A size \in 0..5 - Max({dst, src}) :
           Text!MemoryFaithful(call[2], dst, src, size)
    [] OTHER -> TRUE

\* Text goes in and out whole: string functions stay within the sizes they are
\* given, printf prints what its format asks for, a tar archive gives back the
\* files put into it and a damaged header is refused, the command line is cut
\* into the words it was made of and obeyed in order, a program finds the
\* words of its own on its stack, the screen shows what was written since it
\* was cleared, scrolled, and a key types what the modifiers held with it say.
TextFaithful ==
  CASE call[1] = "string" -> \A t \in Strings(1..3, 3) :
         /\ Text!StringsFaithful(call[2], t)
         /\ Len(call[2]) <= 3 => \A size \in 0..7 : Text!CopiesBounded(call[2], t, size)
    [] call[1] = "printf" ->
         \A arg \in {-33, -4, 0, 7, 255}, size \in {0, 3} :
           Text!PrintfFaithful(call[2], arg, size)
    [] call[1] = "hex_dump" -> Text!DumpFaithful(call[2], call[3])
    [] call[1] = "header" -> \A type \in Ustar!Types :
         /\ \A size \in {0, 1, 7, 8, 63, 511} : Ustar!HeaderFaithful(call[2], type, size)
         /\ \A size \in {0, 63}, i \in 1..4, byte \in {0, 1, 97, 98, 255} :
              Ustar!DamageFound(call[2], type, size, i, byte)
    [] call[1] = "archive" ->
         \A files \in Strings(TarFiles, 2) : Ustar!ArchiveFaithful(call[2], files)
    [] call[1] = "boot" -> \A last \in Strings(Words, 1), blocks \in BlockLists :
         Start!BootFaithful(call[2] \o last, blocks)
    [] call[1] = "line" -> Start!CommandLineFaithful(call[2])
    [] call[1] = "stack" -> Segments!StackFaithful(call[2], 4096)
    [] call[1] = "screen" -> Display!ScreenFaithful(call[2])
    [] call[1] = "keyboard" -> Keys!KeyboardFaithful(call[2])
    [] OTHER -> TRUE

\* Arithmetic at its limits: division and fixed point in words of the machine,
\* the random bytes, delays and counters of the timer, a clock that ticks while
\* it is read, the pages of a segment, and partitions, which stay on their disk.
NumbersFaithful ==
  CASE call[1] = "division" -> \A d \in 1..255 : Division!DivisionExact(call[2], d)
    [] call[1] = "fixed point" -> \A y \in -32..31 : Fixed!FixFaithful(call[2], y)
    [] call[1] = "random" -> \A n, m \in 0..4 : Fixed!RandomFaithful(call[2], n, m)
    [] call[1] = "delay" -> \A num \in 0..30, denom \in {4, 8, 16} :
         Times!DelaysFaithful(call[2], num, denom)
    [] call[1] = "counter" -> Times!CounterFaithful(call[2])
    [] call[1] = "clock" -> Times!ReadFaithful(call[2])
    [] call[1] = "segment" -> \A offset \in 0..3, filesz \in 0..31 :
         Segments!SegmentInUserSpace(Phdr(call[2], call[3], offset, filesz), 6)
    [] call[1] = "partitions" ->
         \A more \in Strings(Entries, 1), size \in {0, 4, 7} :
           LET table == [call[2] EXCEPT !.entries = @ \o more]
           IN  Disks!PartitionsFaithful(table, size) /\ Disks!PartitionsOnDisk(table, size)
    [] OTHER -> TRUE
=============================================================================
