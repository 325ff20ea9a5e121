------------------------------- MODULE Format -------------------------------
(***************************************************************************)
(* lib/stdio.c: printf conversions.  Characters are their codes, a flag is *)
(* its character.  An argument is an integer or a string.                  *)
(***************************************************************************)
EXTENDS CString

CONSTANTS TypeBits,   \* bits of CHAR, SHORT, INT, INTMAX, LONG, LONGLONG,
                      \* PTRDIFFT and SIZET; 8, 16, 32, 64, 32, 64, 32, 32
          BUF_SIZE,   \* size of buf in format_integer, 64
          PER_LINE    \* bytes on a line of hex_dump, 16

MINUS == 45
PLUS == 43
SPACE == 32
POUND == 35
ZERO == 48
GROUP == 39
Flags == {MINUS, PLUS, SPACE, POUND, ZERO, GROUP}
COMMA == 44
PERCENT == 37
STAR == 42
DOT == 46
LETTER == [d |-> 100, i |-> 105, o |-> 111, u |-> 117, x |-> 120, X |-> 88,
           c |-> 99, s |-> 115, p |-> 112, h |-> 104, j |-> 106, l |-> 108,
           t |-> 116, z |-> 122]

\* digits[v] of the base, with the letters from a or from A.
DigitChar(v, letterA) == IF v < 10 THEN ZERO + v ELSE letterA + v - 10
base_d == [base |-> 10, a |-> 97, x |-> 0, group |-> 3]
base_o == [base |-> 8, a |-> 97, x |-> 0, group |-> 3]
base_x == [base |-> 16, a |-> 97, x |-> LETTER.x, group |-> 4]
base_X == [base |-> 16, a |-> 65, x |-> LETTER.X, group |-> 4]

output_dup(ch, cnt) == [i \in 1..cnt |-> ch]

\* The number that digits i.. of f write in decimal, and where they end.
ParseNumber(f, i) ==
  LET end == Min({k \in i..Len(f) : At(f, k) \notin ZERO..ZERO + 9})
      value[k \in i..end] ==
        IF k = i THEN 0 ELSE (value[k - 1] * 10) + At(f, k - 1) - ZERO
  IN [pos |-> end, value |-> value[end]]

\* A number in the format, or the next argument for `*'.
NumberOrStar(f, i, args) ==
  IF At(f, i) = STAR THEN [pos |-> i + 1, value |-> args[1], args |-> Tail(args)]
  ELSE ParseNumber(f, i) @@ [args |-> args]

TypeAt(f, i) ==
  LET ch == At(f, i)
      twice == At(f, i + 1) = ch
  IN CASE ch = LETTER.h -> IF twice THEN <<"CHAR", 2>> ELSE <<"SHORT", 1>>
       [] ch = LETTER.l -> IF twice THEN <<"LONGLONG", 2>> ELSE <<"LONG", 1>>
       [] ch = LETTER.j -> <<"INTMAX", 1>>
       [] ch = LETTER.t -> <<"PTRDIFFT", 1>>
       [] ch = LETTER.z -> <<"SIZET", 1>>
       [] OTHER -> <<"INT", 0>>

\* Returns the conversion, the offset of its letter and the arguments left.
parse_conversion(f, i, args) ==
  LET end == Min({k \in i..Len(f) : At(f, k) \notin Flags})
      given == {At(f, k) : k \in i..end - 1}
      w == NumberOrStar(f, end, args)
      dot == At(f, w.pos) = DOT
      p == IF dot THEN NumberOrStar(f, w.pos + 1, w.args)
           ELSE [pos |-> w.pos, value |-> -1, args |-> w.args]
      type == TypeAt(f, p.pos)
      left == MINUS \in given
  IN [flags |-> {fl \in given \cup (IF w.value < 0 THEN {MINUS} ELSE {}) :
                   /\ fl = ZERO => ~left /\ p.value < 0
                   /\ fl = SPACE => PLUS \notin given},
      width |-> IF w.value < 0 THEN -w.value ELSE w.value,
      precision |-> IF p.value < 0 THEN -1 ELSE p.value,
      type |-> type[1],
      pos |-> p.pos + type[2],
      args |-> p.args]

\* Digits from the lowest up, with a comma before every full group.
RECURSIVE ReversedDigits(_, _, _, _)
ReversedDigits(value, b, grouped, digit_cnt) ==
  IF value = 0 THEN <<>>
  ELSE (IF grouped /\ digit_cnt > 0 /\ digit_cnt % b.group = 0 THEN <<COMMA>> ELSE <<>>)
       \o <<DigitChar(value % b.base, b.a)>>
       \o ReversedDigits(value \div b.base, b, grouped, digit_cnt + 1)

\* Fault: the sign is not counted in the width.
format_integer_wide(value, is_signed, negative, b, c) ==
  LET sign == IF ~is_signed THEN <<>>
              ELSE IF negative THEN <<MINUS>> ELSE SelectSeq(<<PLUS, SPACE>>, LAMBDA ch : ch \in c.flags)
      body == ReversedDigits(value, b, GROUP \in c.flags, 0)
  IN output_dup(SPACE, Max({0, c.width - Len(body)})) \o sign \o Reverse(body)

format_integer(value, is_signed, negative, b, c) ==
  LET sign == IF ~is_signed THEN <<>>
              ELSE IF negative THEN <<MINUS>>
              ELSE SelectSeq(<<PLUS, SPACE>>, LAMBDA ch : ch \in c.flags)
      x == IF POUND \in c.flags /\ value # 0 /\ b.x # 0 THEN <<ZERO, b.x>> ELSE <<>>
      digits == ReversedDigits(value, b, GROUP \in c.flags, 0)
      precision == Min({BUF_SIZE - 1, IF c.precision < 0 THEN 1 ELSE c.precision})
      padded == digits \o output_dup(ZERO, Max({0, precision - Len(digits)}))
      octal == POUND \in c.flags /\ b.base = 8 /\ (padded = <<>> \/ Last(padded) # ZERO)
      buf == IF octal THEN padded \o <<ZERO>> ELSE padded
      pad_cnt == Max({0, c.width - Len(buf) - Len(x) - Len(sign)})
      When(cond, ch) == IF cond THEN output_dup(ch, pad_cnt) ELSE <<>>
  IN When({MINUS, ZERO} \cap c.flags = {}, SPACE) \o sign \o x
     \o When(ZERO \in c.flags, ZERO) \o Reverse(buf) \o When(MINUS \in c.flags, SPACE)

format_string(string, length, c) ==
  LET pad == output_dup(SPACE, Max({0, c.width - length}))
      text == SubSeq(string, 1, length)
  IN IF MINUS \in c.flags THEN text \o pad ELSE pad \o text

\* An argument of the type: its low bits, signed or not.
Unsigned(v, type) == v % 2 ^ TypeBits[type]
SignedArg(v, type) ==
  LET u == Unsigned(v, type)
  IN IF u >= 2 ^ (TypeBits[type] - 1) THEN u - 2 ^ TypeBits[type] ELSE u

\* What __vprintf outputs for the conversion c with letter ch and the
\* argument arg; "(null)" and the refusals of unknown letters are one marker.
Convert(ch, c, arg) ==
  LET value == SignedArg(arg, c.type)
  IN CASE ch \in {LETTER.d, LETTER.i} ->
            format_integer(IF value < 0 THEN -value ELSE value, TRUE, value < 0, base_d, c)
       [] ch = LETTER.o -> format_integer(Unsigned(arg, c.type), FALSE, FALSE, base_o, c)
       [] ch = LETTER.u -> format_integer(Unsigned(arg, c.type), FALSE, FALSE, base_d, c)
       [] ch = LETTER.x -> format_integer(Unsigned(arg, c.type), FALSE, FALSE, base_x, c)
       [] ch = LETTER.X -> format_integer(Unsigned(arg, c.type), FALSE, FALSE, base_X, c)
       [] ch = LETTER.p -> format_integer(Unsigned(arg, "INT"), FALSE, FALSE, base_x,
                                          [c EXCEPT !.flags = {POUND}])
       [] ch = LETTER.c -> format_string(<<arg>>, 1, c)
       [] ch = LETTER.s -> format_string(arg, IF c.precision = -1 THEN Len(arg)
                                              ELSE strnlen(arg, c.precision), c)

RECURSIVE vprintf_from(_, _, _)
vprintf_from(f, i, args) ==
  LET c == parse_conversion(f, i + 1, args)
  IN CASE i >= Len(f) -> <<>>
       [] At(f, i) # PERCENT -> <<At(f, i)>> \o vprintf_from(f, i + 1, args)
       [] At(f, i + 1) = PERCENT -> <<PERCENT>> \o vprintf_from(f, i + 2, args)
       [] OTHER -> Convert(At(f, c.pos), c, c.args[1])
                   \o vprintf_from(f, c.pos + 1, Tail(c.args))
vprintf(format, args) == vprintf_from(format, 0, args)

\* Into m, from offset 0.
vsnprintf(m, buf_size, format, args) ==
  LET out == vprintf(format, args)
      kept == Min({Len(out), IF buf_size > 0 THEN buf_size - 1 ELSE 0})
  IN [mem |-> [i \in DOMAIN m |-> IF i < kept THEN out[i + 1]
                                  ELSE IF i = kept /\ buf_size > 0 THEN NUL ELSE m[i]],
      length |-> Len(out)]

\* The lines: where the line starts, and the columns its bytes take.
RECURSIVE hex_dump(_, _)
hex_dump(ofs, size) ==
  LET start == ofs % PER_LINE
      end == IF PER_LINE - start > size THEN start + size ELSE PER_LINE
  IN IF size = 0 THEN <<>>
     ELSE <<[at |-> ofs - start, cols |-> start..end - 1]>>
          \o hex_dump(ofs + end - start, size - (end - start))

\* The number printed and which of bytes, kB, MB, GB, TB follows it.
RECURSIVE HumanSize(_, _)
HumanSize(size, unit) ==
  IF size >= 1024 /\ unit < 5 THEN HumanSize(size \div 1024, unit + 1) ELSE <<size, unit>>
print_human_readable_size(size) == HumanSize(size, 1)
-----------------------------------------------------------------------------
\* What the digits in s, after spaces, a sign and 0x, come to.
ReadBack(s, base) ==
  LET Digit(ch) == IF ch \in ZERO..ZERO + 9 THEN ch - ZERO
                   ELSE IF ch \in 97..102 THEN ch - 87
                   ELSE IF ch \in 65..70 THEN ch - 55 ELSE -1
      digits == SelectSeq([i \in DOMAIN s |-> Digit(s[i])], LAMBDA v : v >= 0)
      value[i \in 0..Len(digits)] == IF i = 0 THEN 0 ELSE (value[i - 1] * base) + digits[i]
  IN value[Len(digits)]

\* The output out of conversion c with letter for arg, given that it is bare when
\* no width is asked for, and s, what snprintf leaves of it in buf_size bytes.
OutputFaithful(c, letter, arg, out, bare, s, buf_size) ==
  LET base == CASE letter = LETTER.d -> 10 [] letter = LETTER.u -> 10
                [] letter = LETTER.o -> 8 [] OTHER -> 16
      is_signed == letter = LETTER.d
      value == IF is_signed THEN SignedArg(arg, c.type) ELSE Unsigned(arg, c.type)
  IN /\ ReadBack(out, base) = IF value < 0 THEN -value ELSE value
     /\ is_signed /\ GROUP \notin c.flags => atoi(out) = value
     /\ Len(out) = Max({c.width, Len(bare)})
     /\ CASE MINUS \in c.flags -> SubSeq(out, 1, Len(bare)) = bare
          [] ZERO \in c.flags -> SPACE \notin ToSet(out) \ ToSet(bare)
          [] OTHER -> SubSeq(out, Len(out) - Len(bare) + 1, Len(out)) = bare
     /\ s.length = Len(out)
     /\ buf_size > 0 => StringAt(s.mem, 0) = SubSeq(out, 1, Min({Len(out), buf_size - 1}))
     /\ \A i \in DOMAIN s.mem : i >= buf_size => s.mem[i] = 1

\* Any flags, width, precision and length modifier.  A number that printf wrote
\* reads back as the argument, cut to its type; the output is as wide as asked
\* and no wider than it must; it is left-justified with `-' and right-justified
\* without; snprintf keeps a prefix, terminates it and returns the whole length.
PrintfFaithful(format, arg, buf_size) ==
  LET c == parse_conversion(format, 1, <<arg>>)
      letter == At(format, c.pos)
  IN OutputFaithful(c, letter, arg, vprintf(format, <<arg>>),
                    Convert(letter, [c EXCEPT !.width = 0], arg),
                    vsnprintf([i \in 0..buf_size + 1 |-> 1], buf_size, format, <<arg>>),
                    buf_size)

\* hex_dump shows every byte once, in order, each line but the first and the
\* last full.
DumpFaithful(ofs, size) ==
  LET lines == hex_dump(ofs, size)
      shown == UNION {{lines[i].at + col : col \in lines[i].cols} : i \in DOMAIN lines}
  IN /\ shown = ofs..ofs + size - 1
     /\ FoldLeft(LAMBDA n, line : n + Cardinality(line.cols), 0, lines) = size
     /\ \A i \in 2..Len(lines) : lines[i].at = lines[i - 1].at + PER_LINE
=============================================================================
