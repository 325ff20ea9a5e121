------------------------------ MODULE Archive ------------------------------
(***************************************************************************)
(* Tar archives on the scratch device: the ustar headers (lib/ustar.c) and *)
(* the extract and append actions of the kernel command line               *)
(* (filesys/fsutil.c).  Characters are their codes.                        *)
(***************************************************************************)
EXTENDS Integers, Sequences, SequencesExt, FiniteSets

CONSTANTS NAME, NUMBER, CHKSUM,      \* sizes of the fields: 100, 12 and 8
          ULONG_MAX, INT_MAX,
          BLOCK_SECTOR_SIZE

Slash == 47
Dot == 46
Zero == 48      \* the digit
Blank == 32
Nul == 0
REGULAR == 48   \* typeflag '0'
DIRECTORY == 53 \* typeflag '5'
Types == {REGULAR, DIRECTORY}

\* The string s in an array of n characters, as strlcpy to a cleared header leaves it.
Field(s, n) == [i \in 1..n |-> IF i <= Len(s) /\ i < n THEN s[i] ELSE Nul]
CString(field) ==
  LET ends == {i \in DOMAIN field : field[i] = Nul}
  IN IF ends = {} THEN field ELSE SubSeq(field, 1, (CHOOSE i \in ends : \A j \in ends : i <= j) - 1)
\* snprintf (field, n, "%0<n-1>o", value): at least n - 1 octal digits, cut to n - 1.
Octal(value, n) ==
  LET width == CHOOSE w \in n - 1..10 : value < 8 ^ w /\ (w = n - 1 \/ value >= 8 ^ (w - 1))
  IN Field([i \in 1..width |-> Zero + ((value \div 8 ^ (width - i)) % 8)], n)

Starts(name, prefix) == IsPrefix(prefix, name)
strip_antisocial_prefixes(file_name) ==
  LET Bad(s) == Starts(s, <<Slash>>) \/ Starts(s, <<Dot, Slash>>) \/ Starts(s, <<Dot, Dot, Slash>>)
      After(s) == LET i == CHOOSE j \in DOMAIN s : s[j] = Slash /\ \A k \in 1..j - 1 : s[k] # Slash
                  IN SubSeq(s, i + 1, Len(s))
      rest[n \in 0..Len(file_name)] ==
        IF n = 0 THEN file_name ELSE IF Bad(rest[n - 1]) THEN After(rest[n - 1]) ELSE rest[n - 1]
      left == rest[Len(file_name)]
  IN IF left = <<>> \/ left = <<Dot, Dot>> THEN <<Dot>> ELSE left

\* The fields of a header, in their order; the constant ones stand for mode, uid ...
Header(name, size, chksum, typeflag, magic) ==
  [kind |-> "header", name |-> name, size |-> size, chksum |-> chksum, typeflag |-> typeflag, magic |-> magic]
Magic == <<117, 115, 48, 48>>   \* magic and version
Total(s) == FoldLeft(LAMBDA a, b : a + b, 0, s)

\* Fault: the bytes of the checksum itself are counted.
calculate_chksum_all(h) == Total(h.name) + Total(h.size) + Total(h.chksum) + h.typeflag + Total(h.magic)
calculate_chksum(h) == Total(h.name) + Total(h.size) + CHKSUM * Blank + h.typeflag + Total(h.magic)

Failed == [kind |-> "failed"]
ustar_make_header(file_name, type, size) ==
  LET name == strip_antisocial_prefixes(file_name)
      h == Header(Field(name, NAME), Octal(size, NUMBER), Field(<<>>, CHKSUM), type, Magic)
  IN IF Len(name) > NAME - 1 THEN Failed
     ELSE [h EXCEPT !.chksum = Octal(calculate_chksum(h), CHKSUM)]

\* -1 when the field is not a number.
parse_octal_field(s) ==
  LET digit == {Zero + d : d \in 0..7}
      ends == {i \in DOMAIN s : s[i] \in {Blank, Nul}}
      value[i \in 0..Len(s)] ==
        IF i = 0 THEN 0
        ELSE IF value[i - 1] = -1 \/ s[i] \notin digit \/ value[i - 1] > ULONG_MAX \div 8 THEN -1
        ELSE s[i] - Zero + value[i - 1] * 8
  IN IF ends = {} THEN -1
     ELSE LET ofs == CHOOSE i \in ends : \A j \in ends : i <= j
          IN IF ofs > 1 THEN value[ofs - 1] ELSE -1

ZeroSector == [kind |-> "zero"]
EndOfArchive == [kind |-> "eof"]
\* Fields of zeros: is_all_zeros.
ustar_parse_header(h) ==
  LET size == parse_octal_field(h.size)
  IN IF h.kind = "zero" THEN EndOfArchive
     ELSE IF \/ h.kind # "header" \/ h.magic # Magic
             \/ parse_octal_field(h.chksum) = -1 \/ parse_octal_field(h.chksum) # calculate_chksum(h)
             \/ h.name[NAME] # Nul \/ h.typeflag \notin Types
             \/ h.typeflag = REGULAR /\ (size = -1 \/ size > INT_MAX)
          THEN Failed
     ELSE [kind |-> "file", name |-> strip_antisocial_prefixes(CString(h.name)), type |-> h.typeflag,
           size |-> IF h.typeflag = REGULAR THEN size ELSE 0]
-----------------------------------------------------------------------------
(* fsutil.c.  A device is a sequence of sectors; d: [dev, sector, files,    *)
(* panic], where sector counts from 0 and files is what was extracted.      *)
Data(bytes) == [kind |-> "data", bytes |-> bytes]
Write(d, sector, contents) ==
  IF sector >= Len(d.dev) THEN [d EXCEPT !.panic = TRUE] ELSE [d EXCEPT !.dev[sector + 1] = contents]
Chunks(size) == (size + BLOCK_SECTOR_SIZE - 1) \div BLOCK_SECTOR_SIZE
Padded(s, from) ==
  [i \in 1..BLOCK_SECTOR_SIZE |-> IF from + i <= Len(s) THEN s[from + i] ELSE Nul]

\* Both writes of the end-of-archive marker go to one sector, after the file.
\* Fault: the position is advanced past the marker.
AppendEnd_past(d) == [Write(d, d.sector, ZeroSector) EXCEPT !.sector = @ + 1]
AppendEnd(d) == Write(Write(d, d.sector, ZeroSector), d.sector, ZeroSector)

\* file: [name, bytes].
fsutil_append(d, file) ==
  LET h == ustar_make_header(file.name, REGULAR, Len(file.bytes))
      Put(e, contents) == [Write(e, e.sector, contents) EXCEPT !.sector = @ + 1]
      copied == FoldLeft(LAMBDA e, n : Put(e, Data(Padded(file.bytes, (n - 1) * BLOCK_SECTOR_SIZE))),
                         Put(d, h), [n \in 1..Chunks(Len(file.bytes)) |-> n])
  IN IF d.panic \/ h = Failed THEN [d EXCEPT !.panic = TRUE] ELSE AppendEnd(copied)

\* The files from sector on to the end of the archive; n bounds the headers.
Extracted(dev, start) ==
  LET Read(s) == IF s.sector >= Len(dev) THEN Failed
                 ELSE IF dev[s.sector + 1].kind = "data" THEN Failed
                 ELSE ustar_parse_header(dev[s.sector + 1])
      Bytes(s, size) == [i \in 1..size |->
        dev[s.sector + 2 + ((i - 1) \div BLOCK_SECTOR_SIZE)].bytes[1 + ((i - 1) % BLOCK_SECTOR_SIZE)]]
      step[n \in 0..Len(dev)] ==
        IF n = 0 THEN [sector |-> start, files |-> <<>>, panic |-> FALSE, done |-> FALSE]
        ELSE LET s == step[n - 1]
                 h == Read(s)
                 next == s.sector + 1 + Chunks(h.size)
             IN IF s.done \/ s.panic THEN s
                ELSE IF h.kind = "eof" THEN [s EXCEPT !.done = TRUE, !.sector = @ + 1]
                ELSE IF h.kind = "failed" THEN [s EXCEPT !.panic = TRUE]
                ELSE IF h.type = DIRECTORY THEN [s EXCEPT !.sector = @ + 1]
                ELSE IF next > Len(dev) \/ \E i \in DOMAIN s.files : s.files[i].name = h.name
                     THEN [s EXCEPT !.panic = TRUE]
                ELSE [s EXCEPT !.sector = next,
                               !.files = Append(@, [name |-> h.name, bytes |-> Bytes(s, h.size)])]
  IN step[Len(dev)]
fsutil_extract(d) ==
  LET got == Extracted(d.dev, d.sector)
      erased == Write(Write(d, 0, ZeroSector), 1, ZeroSector)
  IN [erased EXCEPT !.files = got.files, !.sector = got.sector, !.panic = @ \/ got.panic \/ ~got.done]
-----------------------------------------------------------------------------
\* A header says what it was made from: the name without the prefixes that would
\* leave the directory, the type and the size; and a name is kept whole.
HeaderFaithful(file_name, type, size) ==
  LET h == ustar_make_header(file_name, type, size)
      name == strip_antisocial_prefixes(file_name)
  IN /\ name = <<Dot>> \/ IsSuffix(name, file_name)
     /\ ~Starts(name, <<Slash>>) /\ ~Starts(name, <<Dot, Slash>>) /\ ~Starts(name, <<Dot, Dot, Slash>>)
     /\ name \notin {<<>>, <<Dot, Dot>>}
     /\ h # Failed => ustar_parse_header(h) =
          [kind |-> "file", name |-> name, type |-> type, size |-> IF type = REGULAR THEN size ELSE 0]

\* A header of which one byte of the name changed is refused: the checksum finds
\* the change.
DamageFound(file_name, type, size, i, byte) ==
  LET h == ustar_make_header(file_name, type, size)
      damaged == [h EXCEPT !.name[i] = byte]
  IN h # Failed /\ damaged # h => ustar_parse_header(damaged) = Failed

\* out is what extract makes of the device when files were written to it.
ExtractFaithful(written, files, out) ==
  LET twice == \E i, j \in DOMAIN files : i < j /\ files[i].name = files[j].name
  IN ~written.panic =>
       /\ out.panic <=> twice \/ Len(written.dev) < 2
       /\ ~out.panic => out.files = files /\ fsutil_extract([out EXCEPT !.sector = 0]).files = <<>>

\* ... and written is the device after the appends.
AppendFaithful(dev, files, written) ==
  LET need == Total([i \in DOMAIN files |-> 1 + Chunks(Len(files[i].bytes))]) + 1
  IN /\ written.panic <=> need > Len(dev)
     /\ ExtractFaithful(written, files, fsutil_extract([written EXCEPT !.sector = 0]))

\* Files appended to the scratch device come out of extract with their names and
\* contents, in their order, even over an older archive; unless the device is
\* full, or two have one name, which ends in a panic.  An extraction after a reboot
\* finds nothing.
ArchiveFaithful(dev, files) ==
  files # <<>> =>
    AppendFaithful(dev, files,
      FoldLeft(fsutil_append, [dev |-> dev, sector |-> 0, files |-> <<>>, panic |-> FALSE], files))
=============================================================================
