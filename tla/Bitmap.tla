------------------------------- MODULE Bitmap -------------------------------
(***************************************************************************)
(* The bitmaps of lib/kernel/bitmap.c.  An element is the set of its one   *)
(* bits, so that OR, AND NOT and XOR are set operations.  A bitmap is its  *)
(* bit_cnt and its array of elements; functions return the new bitmap.     *)
(***************************************************************************)
EXTENDS Integers, FiniteSetsExt

CONSTANTS ELEM_SIZE,    \* bytes in an elem_type, 4 in the source
          CHAR_BIT,     \* bits in a byte
          BITMAP_ERROR  \* SIZE_MAX in the source: no index

ELEM_BITS == ELEM_SIZE * CHAR_BIT

elem_idx(i) == i \div ELEM_BITS
bit_mask(i) == {i % ELEM_BITS}
elem_cnt(n) == (n + ELEM_BITS - 1) \div ELEM_BITS
byte_cnt(n) == ELEM_SIZE * elem_cnt(n)
bitmap_buf_size(n) == 8 + byte_cnt(n)

last_mask(b) ==
  LET last_bits == b.bit_cnt % ELEM_BITS
  IN IF last_bits # 0 THEN 0..last_bits - 1 ELSE 0..ELEM_BITS - 1

bitmap_mark(b, i) == [b EXCEPT !.bits[elem_idx(i)] = @ \cup bit_mask(i)]
bitmap_reset(b, i) == [b EXCEPT !.bits[elem_idx(i)] = @ \ bit_mask(i)]
bitmap_flip(b, i) ==
  [b EXCEPT !.bits[elem_idx(i)] = (@ \ bit_mask(i)) \cup (bit_mask(i) \ @)]
bitmap_set(b, i, value) == IF value THEN bitmap_mark(b, i) ELSE bitmap_reset(b, i)
bitmap_test(b, i) == b.bits[elem_idx(i)] \cap bit_mask(i) # {}

bitmap_set_multiple(b, start, cnt, value) ==
  LET set[i \in 0..cnt] ==
        IF i = 0 THEN b ELSE bitmap_set(set[i - 1], start + i - 1, value)
  IN set[cnt]

\* Memory holds anything before it is cleared.
bitmap_create(bit_cnt, junk) ==
  bitmap_set_multiple([bit_cnt |-> bit_cnt, bits |-> junk], 0, bit_cnt, FALSE)

bitmap_count(b, start, cnt, value) ==
  Cardinality({i \in 0..cnt - 1 : bitmap_test(b, start + i) = value})
bitmap_contains(b, start, cnt, value) ==
  \E i \in 0..cnt - 1 : bitmap_test(b, start + i) = value
bitmap_any(b, start, cnt) == bitmap_contains(b, start, cnt, TRUE)
bitmap_none(b, start, cnt) == ~bitmap_contains(b, start, cnt, TRUE)
bitmap_all(b, start, cnt) == ~bitmap_contains(b, start, cnt, FALSE)

\* Fault: the last place a group fits is not tried.
bitmap_scan_short(b, start, cnt, value) ==
  LET fits == {i \in start..b.bit_cnt - cnt - 1 : ~bitmap_contains(b, i, cnt, ~value)}
  IN IF fits = {} THEN BITMAP_ERROR ELSE Min(fits)

bitmap_scan(b, start, cnt, value) ==
  LET fits == {i \in start..b.bit_cnt - cnt : ~bitmap_contains(b, i, cnt, ~value)}
  IN IF fits = {} THEN BITMAP_ERROR ELSE Min(fits)

bitmap_scan_and_flip(b, start, cnt, value) ==
  LET idx == bitmap_scan(b, start, cnt, value)
  IN [idx |-> idx,
      map |-> IF idx = BITMAP_ERROR THEN b
              ELSE bitmap_set_multiple(b, idx, cnt, ~value)]

\* The whole elements go to the file; what the unused bits of the last one
\* are there is masked when they come back.
bitmap_write(b) == b.bits
bitmap_read(b, file) ==
  IF b.bit_cnt = 0 THEN b
  ELSE [b EXCEPT !.bits = [file EXCEPT ![elem_cnt(b.bit_cnt) - 1] = @ \cap last_mask(b)]]
-----------------------------------------------------------------------------
\* The bits that are one.
Ones(b) == {i \in 0..b.bit_cnt - 1 : bitmap_test(b, i)}
Bits(n) == [0..elem_cnt(n) - 1 -> SUBSET (0..ELEM_BITS - 1)]

\* Every bitmap, whatever its unused bits, with a range in it: what each
\* function reads or changes are exactly the bits it names, across elements;
\* scan finds the lowest group there is, also at the very end of the map.
BitmapFaithful(b, start, cnt) ==
  LET range == start..start + cnt - 1
      Groups(v) == {i \in start..b.bit_cnt : /\ i + cnt <= b.bit_cnt
                      /\ \A j \in i..i + cnt - 1 : (j \in Ones(b)) = v}
  IN /\ Ones(bitmap_create(b.bit_cnt, b.bits)) = {}
     /\ \A i \in range \cap (0..b.bit_cnt - 1) :
          /\ Ones(bitmap_set(b, i, TRUE)) = Ones(b) \cup {i}
          /\ Ones(bitmap_set(b, i, FALSE)) = Ones(b) \ {i}
          /\ Ones(bitmap_flip(b, i)) = SymDiff(Ones(b), {i})
     /\ Ones(bitmap_read(bitmap_create(b.bit_cnt, b.bits), bitmap_write(b))) = Ones(b)
     /\ b.bit_cnt > 0 =>
          \A i \in DOMAIN b.bits, j \in 0..ELEM_BITS - 1 :
            j \in bitmap_read(b, b.bits).bits[i] => i * ELEM_BITS + j \in Ones(b)
     /\ start + cnt <= b.bit_cnt =>
          /\ Ones(bitmap_set_multiple(b, start, cnt, TRUE)) = Ones(b) \cup range
          /\ Ones(bitmap_set_multiple(b, start, cnt, FALSE)) = Ones(b) \ range
          /\ bitmap_count(b, start, cnt, TRUE) = Cardinality(range \cap Ones(b))
          /\ bitmap_any(b, start, cnt) = (range \cap Ones(b) # {})
          /\ bitmap_none(b, start, cnt) = (range \cap Ones(b) = {})
          /\ bitmap_all(b, start, cnt) = (range \subseteq Ones(b))
     /\ \A v \in BOOLEAN :
          LET r == bitmap_scan_and_flip(b, start, cnt, v)
          IN IF Groups(v) = {} THEN r.idx = BITMAP_ERROR /\ r.map = b
             ELSE /\ r.idx = Min(Groups(v))
                  /\ Ones(r.map) = IF v THEN Ones(b) \ (r.idx..r.idx + cnt - 1)
                                   ELSE Ones(b) \cup (r.idx..r.idx + cnt - 1)
=============================================================================
