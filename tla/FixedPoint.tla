----------------------------- MODULE FixedPoint -----------------------------
(***************************************************************************)
(* Fixed-point numbers (threads/fixed-point.h) and the pseudo-random       *)
(* number generator (lib/random.c).  A fixed-point number is its field f.  *)
(***************************************************************************)
EXTENDS Integers, Sequences, SequencesExt, FiniteSets

CONSTANTS FIX_BITS, FIX_Q,   \* 32 and 16 in the source
          S_SIZE             \* 256, size of the generator's table

FIX_F == 2 ^ FIX_Q
FIX_MAX_INT == 2 ^ (FIX_BITS - FIX_Q) - 1
\* Division of C, towards zero.
Quot(n, d) ==
  LET q == (IF n < 0 THEN -n ELSE n) \div (IF d < 0 THEN -d ELSE d)
  IN IF (n < 0) = (d < 0) THEN q ELSE -q
\* An int of FIX_BITS bits: __mk_fix.
mk_fix(f) == LET m == f % 2 ^ FIX_BITS IN IF m < 2 ^ (FIX_BITS - 1) THEN m ELSE m - 2 ^ FIX_BITS
Fits(f) == mk_fix(f) = f

fix_int(n) == mk_fix(n * FIX_F)
fix_frac(n, d) == mk_fix(Quot(n * FIX_F, d))
fix_round(x) == Quot(mk_fix(x + FIX_F \div 2), FIX_F)
fix_trunc(x) == Quot(x, FIX_F)
fix_add(x, y) == mk_fix(x + y)
fix_sub(x, y) == mk_fix(x - y)
\* Fault: the product is formed in an int.
fix_mul_narrow(x, y) == mk_fix(Quot(mk_fix(x * y), FIX_F))
fix_mul(x, y) == mk_fix(Quot(x * y, FIX_F))
fix_scale(x, n) == mk_fix(x * n)
fix_div(x, y) == mk_fix(Quot(x * FIX_F, y))
fix_unscale(x, n) == mk_fix(Quot(x, n))
fix_inv(x) == fix_div(fix_int(1), x)
fix_compare(x, y) == IF x < y THEN -1 ELSE IF x > y THEN 1 ELSE 0

\* e is within one unit of the fraction n / d, and not further from zero.
Nearly(e, n, d) ==
  LET a == (IF e < 0 THEN -e ELSE e) * (IF d < 0 THEN -d ELSE d)
      b == IF n < 0 THEN -n ELSE n
  IN a <= b /\ b < a + (IF d < 0 THEN -d ELSE d) /\ (e = 0 \/ (e < 0) = ((n < 0) # (d < 0)))

\* Wherever the result fits, the operations are those on fractions with the
\* denominator FIX_F, cut to a multiple of 1 / FIX_F: products and quotients go
\* through numbers of twice the size, so that no part of them is lost.  A number
\* that is not negative is rounded to the nearest integer.
FixFaithful(x, y) ==
  /\ Fits(x + y) => fix_add(x, y) = x + y
  /\ Fits(x - y) => fix_sub(x, y) = x - y /\ fix_compare(x, y) * (x - y) >= 0
  /\ Fits(Quot(x * y, FIX_F)) => Nearly(fix_mul(x, y), x * y, FIX_F)
  /\ y # 0 /\ Fits(Quot(x * FIX_F, y)) => Nearly(fix_div(x, y), x * FIX_F, y)
  /\ y # 0 /\ Fits(Quot(FIX_F * FIX_F, y)) /\ Fits(FIX_F) => Nearly(fix_inv(y), FIX_F * FIX_F, y)
  /\ y > 0 => Nearly(fix_unscale(x, y), x, y)
  /\ y >= 0 /\ Fits(x * y) => fix_scale(x, y) = x * y
  /\ y # 0 /\ Fits(Quot(x * FIX_F, y)) => Nearly(fix_frac(x, y), x * FIX_F, y)
  /\ Fits(x * FIX_F) => fix_trunc(fix_int(x)) = x
  /\ Nearly(fix_trunc(x), x, FIX_F)
  /\ x >= 0 /\ Fits(x + FIX_F \div 2) =>
       2 * fix_round(x) * FIX_F <= 2 * x + FIX_F /\ 2 * x < (2 * fix_round(x) + 1) * FIX_F
-----------------------------------------------------------------------------
(* random.c: [s, i, j, inited], s a function on 0..S_SIZE - 1.              *)
swap_byte(s, a, b) == [s EXCEPT ![a] = s[b], ![b] = s[a]]
Byte(x) == x % S_SIZE
random_init(seedp) ==
  LET r == FoldLeft(LAMBDA a, i : LET j == Byte(a.j + a.s[i] + seedp[(i % Len(seedp)) + 1])
                                  IN [s |-> swap_byte(a.s, i, j), j |-> j],
                    [s |-> [i \in 0..S_SIZE - 1 |-> i], j |-> 0], [i \in 1..S_SIZE |-> i - 1])
  IN [s |-> r.s, i |-> 0, j |-> 0, inited |-> TRUE]
\* One byte of random_bytes.
random_byte(r) ==
  LET i == Byte(r.i + 1)
      j == Byte(r.j + r.s[i])
      s == swap_byte(r.s, i, j)
  IN [s |-> s, i |-> i, j |-> j, inited |-> TRUE, byte |-> s[Byte(s[i] + s[j])]]
random_bytes(r, size) ==
  FoldLeft(LAMBDA a, k : LET b == random_byte(a.r) IN [r |-> b, buf |-> Append(a.buf, b.byte)],
           [r |-> IF r.inited THEN r ELSE random_init(<<0, 0, 0, 0>>), buf |-> <<>>],
           [k \in 1..size |-> k])

\* Whatever the seed and however many bytes were drawn, the table is a permutation:
\* no value is ever lost; and bytes drawn at once are those drawn in two calls.
RandomFaithful(seedp, n, m) ==
  LET first == random_bytes(random_init(seedp), n)
      both == random_bytes(random_init(seedp), n + m)
  IN /\ {both.r.s[i] : i \in 0..S_SIZE - 1} = 0..S_SIZE - 1
     /\ first.buf \o random_bytes(first.r, m).buf = both.buf
=============================================================================
