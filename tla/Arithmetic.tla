----------------------------- MODULE Arithmetic -----------------------------
(***************************************************************************)
(* The 64-bit division of lib/arithmetic.c, which GCC calls for / and % on *)
(* long long, with words of W bits (32 in the source) and double words of  *)
(* 2W bits.  Everything is an unsigned number below B2 unless it says so.  *)
(***************************************************************************)
EXTENDS Integers

CONSTANT W   \* bits in a word, a power of 2

B == 2 ^ W
B2 == 2 ^ (2 * W)
TRAP == -B2 - 1            \* the divide error, which stops the kernel

\* The number of the double word u as int64_t, and back.
Signed(u) == IF u >= B2 \div 2 THEN u - B2 ELSE u
Abs(n) == IF n >= 0 THEN n ELSE -n

divl(n, d) ==
  IF d = 0 THEN TRAP ELSE IF n \div d >= B THEN TRAP ELSE n \div d

\* Halves the window: 16, 8, 4, 2 and 1 bits for a word of 32.
nlz(x) ==
  LET step[h \in 0..W, y \in 0..B - 1] ==
        IF h = 0 THEN 0
        ELSE IF y < 2 ^ (W - h) THEN h + step[h \div 2, (y * 2 ^ h) % B]
        ELSE step[h \div 2, y]
  IN step[W \div 2, x]

\* Fault: the estimate is taken as the quotient.
udiv64_estimate(n, d) ==
  LET s == nlz(d \div B)
  IN IF d < B THEN divl(B * ((n \div B) % d) + (n % B), d) + B * ((n \div B) \div d)
     ELSE IF n < d THEN 0
     ELSE divl(n \div 2, ((d * 2 ^ s) % B2) \div B) \div 2 ^ (W - 1 - s)

udiv64(n, d) ==
  LET n1 == n \div B
      n0 == n % B
      short == divl(B * (n1 % d) + n0, d)
      s == nlz(d \div B)
      guess == divl(n \div 2, ((d * 2 ^ s) % B2) \div B)
      q == guess \div 2 ^ (W - 1 - s)
  IN IF d < B THEN IF short = TRAP THEN TRAP ELSE short + B * (n1 \div d)
     ELSE IF n < d THEN 0
     ELSE IF guess = TRAP THEN TRAP
     ELSE IF (n - (q - 1) * d) % B2 < d THEN (q - 1) % B2 ELSE q

\* The result is a uint32_t: the high word is lost.
umod64(n, d) == (n - d * udiv64(n, d)) % B

sdiv64(n, d) ==
  LET q_abs == udiv64(Abs(n), Abs(d))
  IN IF (n < 0) = (d < 0) THEN Signed(q_abs) ELSE Signed((B2 - q_abs) % B2)

\* The result is an int32_t.
smod64(n, d) ==
  LET r == (n - d * sdiv64(n, d)) % B
  IN IF r >= B \div 2 THEN r - B ELSE r
-----------------------------------------------------------------------------
\* C's division rounds towards zero.
Quotient(n, d) ==
  LET q == Abs(n) \div Abs(d) IN IF (n < 0) = (d < 0) THEN q ELSE -q

\* Dividing never traps and gives the exact quotient, for every dividend and
\* divisor of two words; the one signed case whose quotient has no
\* representation wraps around.  Remainders are right when they fit in the
\* word that umod64 and smod64 return.
DivisionExact(n, d) ==
  LET sn == Signed(n)
      sd == Signed(d)
  IN /\ udiv64(n, d) = n \div d
     /\ n % d < B => umod64(n, d) = n % d
     /\ sdiv64(sn, sd) = Signed(Quotient(sn, sd) % B2)
     /\ Abs(sn) % Abs(sd) < B \div 2 => smod64(sn, sd) = sn - sd * Quotient(sn, sd)

\* "Divides unsigned 64-bit N by unsigned 64-bit D and returns the remainder."
RemainderExact(n, d) == umod64(n, d) = n % d
=============================================================================
