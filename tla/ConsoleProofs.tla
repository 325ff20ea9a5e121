---------------------------- MODULE ConsoleProofs ----------------------------
(***************************************************************************)
(* Proofs about Console: no character is lost or overtaken between         *)
(* serial_putc and the UART, the messages of two threads do not mix, and   *)
(* every sleeper and the UART have the event coming that makes them go on. *)
(***************************************************************************)
EXTENDS Console, SequenceTheorems, TLAPS

-----------------------------------------------------------------------------
(* The ring of an interrupt queue                                          *)

\* What a slot holds: the writer of a character, or an input byte.
Chars == Writers \cup {Handler, NULL}

Queue ==
  [buf : [Slots -> Chars], head : Slots, tail : Slots,
   lock : Threads \cup {NULL}, not_full : Threads \cup {NULL},
   not_empty : Threads \cup {NULL}]

\* Bytes between a tail and a head, as Contents counts them.
Count(h, t) == (h + INTQ_BUFSIZE - t) % INTQ_BUFSIZE

\* The remainders of intq.c without the remainder: next() and the index into
\* the ring only ever go once around.
LEMMA Wraps ==
  ASSUME IntqAssumption, NEW x \in 0 .. 2 * INTQ_BUFSIZE - 1
  PROVE  x % INTQ_BUFSIZE = IF x < INTQ_BUFSIZE THEN x ELSE x - INTQ_BUFSIZE
<1>1. CASE x < INTQ_BUFSIZE
  BY <1>1 DEF IntqAssumption
<1>2. CASE ~(x < INTQ_BUFSIZE)
  BY <1>2 DEF IntqAssumption
<1> QED
  BY Zenon, <1>1, <1>2

\* next() of intq.c.
LEMMA NextSlot ==
  ASSUME IntqAssumption, NEW x \in Slots
  PROVE  /\ next(x) \in Slots
         /\ next(x) = IF x = INTQ_BUFSIZE - 1 THEN 0 ELSE x + 1
<1>1. x + 1 \in 0 .. 2 * INTQ_BUFSIZE - 1
  BY DEF IntqAssumption, Slots
<1> QED
  BY <1>1, Wraps DEF IntqAssumption, Slots, next

\* The number of bytes between a tail and a head of the ring.
LEMMA CountValue ==
  ASSUME IntqAssumption, NEW h \in Slots, NEW t \in Slots
  PROVE  /\ Count(h, t) = IF h < t THEN h + INTQ_BUFSIZE - t ELSE h - t
         /\ Count(h, t) \in 0 .. INTQ_BUFSIZE - 1
<1>1. h + INTQ_BUFSIZE - t \in 0 .. 2 * INTQ_BUFSIZE - 1
  BY DEF IntqAssumption, Slots
<1> QED
  BY SMTT(30), <1>1, Wraps DEF IntqAssumption, Slots, Count

\* Moving the head of a ring that is not full: one byte more, its place the
\* old head, which none of the bytes before it occupies.
LEMMA HeadMoves ==
  ASSUME IntqAssumption, NEW h \in Slots, NEW t \in Slots, next(h) # t
  PROVE  /\ Count(next(h), t) = Count(h, t) + 1
         /\ Count(h, t) \in Nat
         /\ (t + (Count(h, t) + 1) - 1) % INTQ_BUFSIZE = h
         /\ \A i \in 1 .. Count(h, t) : (t + i - 1) % INTQ_BUFSIZE # h
<1> DEFINE n == Count(h, t)
<1>1. /\ n = IF h < t THEN h + INTQ_BUFSIZE - t ELSE h - t
      /\ n \in 0 .. INTQ_BUFSIZE - 1
  BY CountValue, Zenon
<1>2. /\ next(h) = IF h = INTQ_BUFSIZE - 1 THEN 0 ELSE h + 1
      /\ next(h) \in Slots
  BY NextSlot, Zenon
<1>3. Count(next(h), t) =
        IF next(h) < t THEN next(h) + INTQ_BUFSIZE - t ELSE next(h) - t
  BY <1>2, CountValue, Zenon
<1> HIDE DEF n
<1>4. Count(next(h), t) = n + 1
  BY <1>1, <1>2, <1>3 DEF Slots, IntqAssumption
<1>5. (t + (n + 1) - 1) % INTQ_BUFSIZE = h
  <2>1. t + (n + 1) - 1 \in 0 .. 2 * INTQ_BUFSIZE - 1
    BY <1>1 DEF Slots, IntqAssumption
  <2> DEFINE x == t + (n + 1) - 1
  <2>2. x % INTQ_BUFSIZE = IF x < INTQ_BUFSIZE THEN x ELSE x - INTQ_BUFSIZE
    BY <2>1, Wraps, Zenon
  <2> QED
    BY <1>1, <2>2 DEF Slots, IntqAssumption
<1>6. ASSUME NEW i \in 1 .. n PROVE (t + i - 1) % INTQ_BUFSIZE # h
  <2> DEFINE x == t + i - 1
  <2>1. x \in 0 .. 2 * INTQ_BUFSIZE - 1
    BY <1>1 DEF Slots, IntqAssumption
  <2>2. x % INTQ_BUFSIZE = IF x < INTQ_BUFSIZE THEN x ELSE x - INTQ_BUFSIZE
    BY <2>1, Wraps, Zenon
  <2> QED
    BY <1>1, <2>2 DEF Slots, IntqAssumption
<1>7. n \in Nat
  BY <1>1 DEF IntqAssumption
<1> QED
  BY Zenon, <1>4, <1>5, <1>6, <1>7 DEF n

\* Moving the tail of a ring that is not empty: one byte less, and the others
\* keep their order.
LEMMA TailMoves ==
  ASSUME IntqAssumption, NEW h \in Slots, NEW t \in Slots, h # t
  PROVE  /\ Count(h, t) = Count(h, next(t)) + 1
         /\ Count(h, next(t)) \in Nat
         /\ (t + 1 - 1) % INTQ_BUFSIZE = t
         /\ \A i \in 1 .. Count(h, next(t)) :
              (next(t) + i - 1) % INTQ_BUFSIZE = (t + (i + 1) - 1) % INTQ_BUFSIZE
<1> DEFINE n == Count(h, next(t))
<1>1. /\ Count(h, t) = IF h < t THEN h + INTQ_BUFSIZE - t ELSE h - t
      /\ Count(h, t) \in 0 .. INTQ_BUFSIZE - 1
  BY CountValue, Zenon
<1>2. /\ next(t) = IF t = INTQ_BUFSIZE - 1 THEN 0 ELSE t + 1
      /\ next(t) \in Slots
  BY NextSlot, Zenon
<1>3. /\ n = IF h < next(t) THEN h + INTQ_BUFSIZE - next(t) ELSE h - next(t)
      /\ n \in 0 .. INTQ_BUFSIZE - 1
  BY <1>2, CountValue, Zenon
<1> HIDE DEF n
<1>4. Count(h, t) = n + 1
  BY <1>1, <1>2, <1>3 DEF Slots, IntqAssumption
<1>5. (t + 1 - 1) % INTQ_BUFSIZE = t
  <2> DEFINE x == t + 1 - 1
  <2>1. x \in 0 .. 2 * INTQ_BUFSIZE - 1
    BY DEF Slots, IntqAssumption
  <2>2. x % INTQ_BUFSIZE = IF x < INTQ_BUFSIZE THEN x ELSE x - INTQ_BUFSIZE
    BY <2>1, Wraps, Zenon
  <2> QED
    BY <2>2 DEF Slots, IntqAssumption
<1>6. ASSUME NEW i \in 1 .. n
      PROVE  (next(t) + i - 1) % INTQ_BUFSIZE = (t + (i + 1) - 1) % INTQ_BUFSIZE
  <2> DEFINE x == next(t) + i - 1
             y == t + (i + 1) - 1
  <2>1. x \in 0 .. 2 * INTQ_BUFSIZE - 1 /\ y \in 0 .. 2 * INTQ_BUFSIZE - 1
    BY <1>2, <1>3 DEF Slots, IntqAssumption
  <2>2. x % INTQ_BUFSIZE = IF x < INTQ_BUFSIZE THEN x ELSE x - INTQ_BUFSIZE
    BY <2>1, Wraps, Zenon
  <2>3. y % INTQ_BUFSIZE = IF y < INTQ_BUFSIZE THEN y ELSE y - INTQ_BUFSIZE
    BY <2>1, Wraps, Zenon
  <2> QED
    BY <1>2, <1>3, <2>2, <2>3 DEF Slots, IntqAssumption
<1>7. n \in Nat
  BY <1>3 DEF IntqAssumption
<1> QED
  BY Zenon, <1>4, <1>5, <1>6, <1>7 DEF n

\* Contents is a sequence of as many bytes as the ring holds.
LEMMA ContentsValue ==
  ASSUME IntqAssumption, NEW q \in Queue
  PROVE  /\ Contents(q) \in Seq(Chars)
         /\ Len(Contents(q)) = Count(q.head, q.tail)
         /\ \A i \in 1 .. Count(q.head, q.tail) :
              /\ (q.tail + i - 1) % INTQ_BUFSIZE \in Slots
              /\ Contents(q)[i] = q.buf[(q.tail + i - 1) % INTQ_BUFSIZE]
<1> DEFINE n == Count(q.head, q.tail)
<1>1. q.head \in Slots /\ q.tail \in Slots /\ q.buf \in [Slots -> Chars]
  BY Zenon DEF Queue
<1>2. n \in 0 .. INTQ_BUFSIZE - 1 /\ n \in Nat /\ q.tail \in 0 .. INTQ_BUFSIZE - 1
  <2>1. n \in 0 .. INTQ_BUFSIZE - 1
    BY <1>1, CountValue, Zenon
  <2> HIDE DEF n
  <2> QED
    BY <1>1, <2>1 DEF IntqAssumption, Slots
<1>3. ASSUME NEW i \in 1 .. n
      PROVE  (q.tail + i - 1) % INTQ_BUFSIZE \in Slots
  <2>1. q.tail + i - 1 \in 0 .. 2 * INTQ_BUFSIZE - 1
    BY <1>2 DEF IntqAssumption
  <2> QED
    BY <2>1, Wraps DEF IntqAssumption, Slots
<1>4. Contents(q) = [i \in 1 .. n |-> q.buf[(q.tail + i - 1) % INTQ_BUFSIZE]]
  BY Zenon DEF Contents, Count
<1>5. \A i \in 1 .. n : q.buf[(q.tail + i - 1) % INTQ_BUFSIZE] \in Chars
  BY Zenon, <1>1, <1>3
<1> HIDE DEF n
<1>6. Contents(q) \in [1 .. n -> Chars]
  BY Zenon, <1>4, <1>5
<1>7. Contents(q) \in Seq(Chars) /\ Len(Contents(q)) = n
  BY <1>2, <1>6
<1> QED
  BY ZenonT(30), <1>3, <1>4, <1>7 DEF n

\* An empty queue holds nothing.
LEMMA EmptyContents ==
  ASSUME IntqAssumption, NEW q \in Queue, intq_empty(q)
  PROVE  Contents(q) = <<>>
<1>1. q.head \in Slots /\ q.tail \in Slots
  BY Zenon DEF Queue
<1>2. Count(q.head, q.tail) = 0
  <2>1. \A h \in Slots : Count(h, h) = 0
    BY CountValue DEF Slots, IntqAssumption
  <2> QED
    BY <1>1, <2>1, Zenon DEF intq_empty
<1>3. Contents(q) \in Seq(Chars) /\ Len(Contents(q)) = 0
  BY Zenon, <1>2, ContentsValue
<1> QED
  BY Zenon, <1>3, EmptySeq

\* intq_putc to a queue that is not full.
LEMMA PutEffect ==
  ASSUME IntqAssumption, NEW q \in Queue, NEW c \in Chars, ~intq_full(q)
  PROVE  /\ intq_putc(q, c) \in Queue
         /\ ~intq_empty(intq_putc(q, c))
         /\ intq_putc(q, c).lock = q.lock
         /\ intq_putc(q, c).not_full = q.not_full
         /\ intq_putc(q, c).not_empty = NULL
         /\ Contents(intq_putc(q, c)) = Append(Contents(q), c)
<1> DEFINE r == intq_putc(q, c)
           n == Count(q.head, q.tail)
<1>1. q.head \in Slots /\ q.tail \in Slots /\ q.buf \in [Slots -> Chars]
  BY Zenon DEF Queue
<1>2. next(q.head) \in Slots /\ next(q.head) # q.tail
  BY <1>1, NextSlot, Zenon DEF intq_full
<1>3. r \in Queue
  BY ZenonT(30), <1>1, <1>2 DEF intq_putc, Queue
<1>4. /\ r.head = next(q.head) /\ r.tail = q.tail /\ r.lock = q.lock
      /\ r.not_full = q.not_full /\ r.not_empty = NULL
      /\ r.buf = [q.buf EXCEPT ![q.head] = c]
  BY Zenon DEF intq_putc, Queue
<1> HIDE DEF r
<1>5. /\ Count(r.head, r.tail) = n + 1 /\ n \in Nat
      /\ (q.tail + (n + 1) - 1) % INTQ_BUFSIZE = q.head
      /\ \A i \in 1 .. n : (q.tail + i - 1) % INTQ_BUFSIZE # q.head
  BY <1>1, <1>2, <1>4, HeadMoves, ZenonT(90)
<1>6. /\ Contents(q) \in Seq(Chars) /\ Len(Contents(q)) = n
      /\ Contents(r) \in Seq(Chars) /\ Len(Contents(r)) = n + 1
      /\ \A i \in 1 .. n :
           /\ (q.tail + i - 1) % INTQ_BUFSIZE \in Slots
           /\ Contents(q)[i] = q.buf[(q.tail + i - 1) % INTQ_BUFSIZE]
      /\ \A i \in 1 .. n + 1 :
           Contents(r)[i] = r.buf[(q.tail + i - 1) % INTQ_BUFSIZE]
  <2>1. /\ Len(Contents(r)) = n + 1 /\ Contents(r) \in Seq(Chars)
        /\ \A i \in 1 .. n + 1 :
             Contents(r)[i] = r.buf[(r.tail + i - 1) % INTQ_BUFSIZE]
    BY <1>3, <1>5, ContentsValue, Zenon
  <2>2. /\ Contents(q) \in Seq(Chars) /\ Len(Contents(q)) = n
        /\ \A i \in 1 .. n :
             /\ (q.tail + i - 1) % INTQ_BUFSIZE \in Slots
             /\ Contents(q)[i] = q.buf[(q.tail + i - 1) % INTQ_BUFSIZE]
    BY ContentsValue, Zenon
  <2> QED
    BY <1>4, <2>1, <2>2, Zenon
<1> HIDE DEF n
<1>7. n + 1 \in 1 .. n + 1 /\ \A i \in 1 .. n : i \in 1 .. n + 1
  BY <1>5
<1>8. Contents(r)[n + 1] = c
  <2>1. Contents(r)[n + 1] = r.buf[(q.tail + (n + 1) - 1) % INTQ_BUFSIZE]
    BY <1>6, <1>7, Zenon
  <2>2. r.buf[q.head] = c
    BY <1>1, <1>4, Zenon
  <2> QED
    BY <1>5, <2>1, <2>2, Zenon
<1>9. ASSUME NEW i \in 1 .. n PROVE Contents(r)[i] = Contents(q)[i]
  BY <1>1, <1>4, <1>5, <1>6, <1>7, ZenonT(30)
<1>10. Contents(r) = Append(Contents(q), c)
  <2>1. /\ Append(Contents(q), c) \in Seq(Chars)
        /\ Len(Append(Contents(q), c)) = n + 1
        /\ Append(Contents(q), c)[n + 1] = c
        /\ \A i \in 1 .. n : Append(Contents(q), c)[i] = Contents(q)[i]
    BY <1>6, AppendProperties
  <2>2. \A i \in 1 .. n + 1 : i \in 1 .. n \/ i = n + 1
    BY <1>5
  <2>3. \A i \in 1 .. n + 1 : Contents(r)[i] = Append(Contents(q), c)[i]
    BY <1>8, <1>9, <2>1, <2>2, Zenon
  <2> QED
    BY Zenon, <1>6, <2>1, <2>3, SeqEqual
<1>11. ~intq_empty(r)
  <2>1. \A h \in Slots : Count(h, h) = 0
    BY CountValue DEF Slots, IntqAssumption
  <2>2. r.head \in Slots
    BY Zenon, <1>2, <1>4
  <2>3. n + 1 # 0
    BY <1>5
  <2> QED
    BY <1>5, <2>1, <2>2, <2>3, Zenon DEF intq_empty
<1> QED
  BY Zenon, <1>3, <1>4, <1>10, <1>11 DEF r

\* intq_getc from a queue that is not empty.
LEMMA GetEffect ==
  ASSUME IntqAssumption, NEW q \in Queue, ~intq_empty(q)
  PROVE  /\ intq_getc(q) \in Queue
         /\ ~intq_full(intq_getc(q))
         /\ intq_getc(q).lock = q.lock
         /\ intq_getc(q).not_full = NULL
         /\ intq_getc(q).not_empty = q.not_empty
         /\ FirstByte(q) \in Chars
         /\ Contents(q) = <<FirstByte(q)>> \o Contents(intq_getc(q))
<1> DEFINE r == intq_getc(q)
           n == Count(q.head, next(q.tail))
<1>1. /\ q.head \in Slots /\ q.tail \in Slots /\ q.buf \in [Slots -> Chars]
      /\ q.head # q.tail
  BY Zenon DEF Queue, intq_empty
<1>2. next(q.tail) \in Slots
  BY <1>1, NextSlot, Zenon
<1>3. r \in Queue
  BY ZenonT(30), <1>1, <1>2 DEF intq_getc, Queue
<1>4. /\ r.head = q.head /\ r.tail = next(q.tail) /\ r.lock = q.lock
      /\ r.not_full = NULL /\ r.not_empty = q.not_empty /\ r.buf = q.buf
  BY Zenon DEF intq_getc, Queue
<1> HIDE DEF r
<1>5. /\ Count(q.head, q.tail) = n + 1 /\ n \in Nat
      /\ (q.tail + 1 - 1) % INTQ_BUFSIZE = q.tail
      /\ \A i \in 1 .. n : (next(q.tail) + i - 1) % INTQ_BUFSIZE
                             = (q.tail + (i + 1) - 1) % INTQ_BUFSIZE
  BY <1>1, TailMoves, Zenon
<1>6. /\ Contents(q) \in Seq(Chars) /\ Len(Contents(q)) = n + 1
      /\ Contents(r) \in Seq(Chars) /\ Len(Contents(r)) = n
      /\ \A i \in 1 .. n + 1 :
           Contents(q)[i] = q.buf[(q.tail + i - 1) % INTQ_BUFSIZE]
      /\ \A i \in 1 .. n :
           Contents(r)[i] = q.buf[(next(q.tail) + i - 1) % INTQ_BUFSIZE]
  BY <1>3, <1>4, <1>5, ContentsValue, Zenon
<1>7. FirstByte(q) \in Chars /\ FirstByte(q) = q.buf[q.tail]
  BY <1>1, Zenon DEF FirstByte
<1> HIDE DEF n
<1>8. 1 \in 1 .. n + 1 /\ \A i \in 1 .. n : i + 1 \in 1 .. n + 1
  BY <1>5
<1>9. Contents(q)[1] = FirstByte(q)
  BY <1>5, <1>6, <1>7, <1>8, Zenon
<1>10. \A i \in 1 .. n : Contents(q)[i + 1] = Contents(r)[i]
  BY <1>5, <1>6, <1>8, ZenonT(90)
<1>11. Contents(q) = <<FirstByte(q)>> \o Contents(r)
  <2> DEFINE f == <<FirstByte(q)>>
             s == f \o Contents(r)
  <2>1. f \in Seq(Chars) /\ Len(f) = 1 /\ f[1] = FirstByte(q)
    BY <1>7
  <2> HIDE DEF f
  <2>2. /\ s \in Seq(Chars) /\ Len(s) = n + 1
        /\ \A i \in 1 .. n + 1 : s[i] = IF i <= 1 THEN f[i] ELSE Contents(r)[i - 1]
    <3>1. /\ s \in Seq(Chars) /\ Len(s) = 1 + n
          /\ \A i \in 1 .. 1 + n : s[i] = IF i <= 1 THEN f[i] ELSE Contents(r)[i - 1]
      <4>1. /\ s \in Seq(Chars) /\ Len(s) = Len(f) + Len(Contents(r))
            /\ \A i \in 1 .. Len(f) + Len(Contents(r)) :
                 s[i] = IF i <= Len(f) THEN f[i] ELSE Contents(r)[i - Len(f)]
        BY ZenonT(90), <1>6, <2>1, ConcatProperties
      <4> QED
        BY <1>6, <2>1, <4>1, Zenon
    <3>2. 1 + n = n + 1
      BY <1>5
    <3> QED
      BY <3>1, <3>2, Zenon
  <2> HIDE DEF s
  <2>3. ASSUME NEW i \in 1 .. n + 1 PROVE Contents(q)[i] = s[i]
    <3>1. CASE i = 1
      BY <1>9, <2>1, <2>2, <3>1
    <3>2. CASE i # 1
      <4>1. i - 1 \in 1 .. n /\ (i - 1) + 1 = i /\ ~(i <= 1)
        BY <1>5, <3>2
      <4> QED
        BY <1>10, <2>2, <4>1, Zenon
    <3> QED
      BY Zenon, <3>1, <3>2
  <2>4. Contents(q) = s
    BY Zenon, <1>6, <2>2, <2>3, SeqEqual
  <2> QED
    BY Zenon, <2>4 DEF s, f
<1>12. ~intq_full(r)
  <2>1. ASSUME NEW h \in Slots, NEW t \in Slots, h # t PROVE next(h) # next(t)
    BY <2>1, NextSlot DEF Slots, IntqAssumption
  <2> QED
    BY <1>1, <1>4, <2>1, Zenon DEF intq_full
<1> QED
  BY <1>3, <1>4, <1>7, <1>11, <1>12, Zenon DEF r

\* Sleeping on a queue and releasing its lock leave the bytes alone.
LEMMA LockEffect ==
  ASSUME IntqAssumption, NEW q \in Queue, NEW t \in Threads
  PROVE  /\ wait_not_full(q, t) \in Queue
         /\ wait_not_full(q, t).lock = t
         /\ wait_not_full(q, t).not_full = t
         /\ intq_full(wait_not_full(q, t)) = intq_full(q)
         /\ intq_empty(wait_not_full(q, t)) = intq_empty(q)
         /\ Contents(wait_not_full(q, t)) = Contents(q)
         /\ wait_not_empty(q, t) \in Queue
         /\ wait_not_empty(q, t).lock = t
         /\ wait_not_empty(q, t).not_empty = t
         /\ intq_full(wait_not_empty(q, t)) = intq_full(q)
         /\ intq_empty(wait_not_empty(q, t)) = intq_empty(q)
         /\ Unlocked(q) \in Queue
         /\ Unlocked(q).lock = NULL
         /\ Unlocked(q).not_full = q.not_full
         /\ Unlocked(q).not_empty = q.not_empty
         /\ intq_full(Unlocked(q)) = intq_full(q)
         /\ intq_empty(Unlocked(q)) = intq_empty(q)
         /\ Contents(Unlocked(q)) = Contents(q)
<1>1. /\ wait_not_full(q, t) \in Queue
      /\ wait_not_full(q, t).lock = t
      /\ wait_not_full(q, t).not_full = t
      /\ wait_not_full(q, t).head = q.head /\ wait_not_full(q, t).tail = q.tail
      /\ wait_not_full(q, t).buf = q.buf
  BY ZenonT(30) DEF wait_not_full, Queue
<1>2. /\ wait_not_empty(q, t) \in Queue
      /\ wait_not_empty(q, t).lock = t
      /\ wait_not_empty(q, t).not_empty = t
      /\ wait_not_empty(q, t).head = q.head /\ wait_not_empty(q, t).tail = q.tail
  BY ZenonT(30) DEF wait_not_empty, Queue
<1>3. /\ Unlocked(q) \in Queue
      /\ Unlocked(q).lock = NULL
      /\ Unlocked(q).not_full = q.not_full
      /\ Unlocked(q).not_empty = q.not_empty
      /\ Unlocked(q).head = q.head /\ Unlocked(q).tail = q.tail
      /\ Unlocked(q).buf = q.buf
  BY Zenon DEF Unlocked, Queue
<1>4. /\ intq_full(wait_not_full(q, t)) = intq_full(q)
      /\ intq_empty(wait_not_full(q, t)) = intq_empty(q)
      /\ intq_full(wait_not_empty(q, t)) = intq_full(q)
      /\ intq_empty(wait_not_empty(q, t)) = intq_empty(q)
      /\ intq_full(Unlocked(q)) = intq_full(q)
      /\ intq_empty(Unlocked(q)) = intq_empty(q)
  BY <1>1, <1>2, <1>3, Zenon DEF intq_full, intq_empty
<1>5. /\ Contents(wait_not_full(q, t)) = Contents(q)
      /\ Contents(Unlocked(q)) = Contents(q)
  BY <1>1, <1>3, Zenon DEF Contents
<1> QED
  BY <1>1, <1>2, <1>3, <1>4, <1>5, Zenon

-----------------------------------------------------------------------------
(* The inductive invariant                                                 *)

TypeOK ==
  /\ mode \in {"UNINIT", "POLL", "QUEUE"}
  /\ txq \in Queue /\ buffer \in Queue
  /\ pc \in [Threads -> {"idle", "print", "wait", "woken"}]
  /\ log \in Seq(Chars) /\ sent \in Seq(Chars)
  /\ rest \in [Writers -> Seq(Int)]
  /\ printed \in [Writers -> Nat]
  /\ console_lock_depth \in Nat

\* A writer inside intq_putc's wait holds the lock of the queue, what waits
\* is what the queue remembers, and there is no other way into the queue than
\* the queued mode of the port.
TxOK ==
  /\ \A t \in Writers : pc[t] \in {"wait", "woken"} => txq.lock = t /\ mode = "QUEUE"
  /\ \A t \in Writers : pc[t] = "wait" => intq_full(txq) /\ txq.not_full = t
  /\ txq.not_full # NULL => txq.not_full \in Writers /\ pc[txq.not_full] = "wait"
  /\ mode # "QUEUE" => intq_empty(txq)

\* The same for a reader inside intq_getc.
RxOK ==
  /\ \A t \in Readers : pc[t] \in {"wait", "woken"} => buffer.lock = t
  /\ \A t \in Readers : pc[t] = "wait" => intq_empty(buffer) /\ buffer.not_empty = t
  /\ buffer.not_empty # NULL => buffer.not_empty \in Readers /\ pc[buffer.not_empty] = "wait"

\* The thread in the middle of messages is the one that holds the console, as
\* deep in the lock as in messages; a thread that has begun no message is not
\* in the log.
ConsoleOK ==
  /\ \A t \in Writers : rest[t] = <<>> <=> pc[t] = "idle"
  /\ \A t \in Writers : rest[t] # <<>> =>
       console_lock = t /\ Len(rest[t]) = console_lock_depth + 1
  /\ (\A t \in Writers : rest[t] = <<>>) => console_lock = NULL /\ console_lock_depth = 0
  /\ \A t \in Writers : Len(rest[t]) <= printed[t] /\ printed[t] <= Len(MessageLength)
  /\ \A t \in Writers : printed[t] = 0 => \A i \in 1 .. Len(log) : log[i] # t

Inv ==
  /\ TypeOK /\ TxOK /\ RxOK /\ ConsoleOK
  /\ MessagesUnmixed /\ OutputInOrder /\ InterruptsEnabled

-----------------------------------------------------------------------------
(* What a step may do to the transmit queue and its writers                *)

\* A step that is none of a writer's and leaves the queue alone.
LEMMA TxFrame ==
  ASSUME TxOK, txq' = txq, mode' = mode \/ mode # "QUEUE",
         \A t \in Writers : pc'[t] = pc[t]
  PROVE  TxOK'
BY Zenon DEF TxOK

\* A step that makes room and signals the writer that waits for it.
LEMMA TxSignal ==
  ASSUME ConsoleAssumption, TxOK, mode = "QUEUE", mode' = mode,
         txq'.lock = txq.lock, txq'.not_full = NULL,
         \A t \in Writers : pc'[t] = IF t = txq.not_full THEN "woken" ELSE pc[t]
  PROVE  TxOK'
<1>1. \A t \in Writers : pc'[t] # "wait"
  BY Zenon DEF TxOK
<1>2. \A t \in Writers : pc'[t] \in {"wait", "woken"} => pc[t] \in {"wait", "woken"}
  <2>1. \A t \in Writers : t # NULL
    BY Zenon DEF ConsoleAssumption, Threads
  <2> QED
    BY <2>1, Zenon DEF TxOK
<1> QED
  BY <1>1, <1>2, Zenon DEF TxOK

\* A writer finds the queue full and sleeps.
LEMMA TxSleep ==
  ASSUME ConsoleAssumption, TypeOK, TxOK, mode = "QUEUE", mode' = mode,
         NEW t \in Writers, txq.lock = NULL \/ pc[t] = "woken",
         txq'.lock = t, txq'.not_full = t, intq_full(txq'),
         pc' = [pc EXCEPT ![t] = "wait"]
  PROVE  TxOK'
<1>1. t # NULL /\ \A u \in Writers : u # NULL /\ u \in Threads
  BY Zenon DEF ConsoleAssumption, Threads
<1>2. pc'[t] = "wait" /\ \A u \in Writers : u # t => pc'[u] = pc[u]
  BY Zenon, <1>1 DEF TypeOK
<1>3. \A u \in Writers : pc[u] \in {"wait", "woken"} => u = t
  BY <1>1, Zenon DEF TxOK
<1> QED
  BY <1>1, <1>2, <1>3, ZenonT(30) DEF TxOK, intq_full

\* A writer that was not asleep, or has been woken, stores its character.
LEMMA TxStore ==
  ASSUME ConsoleAssumption, TypeOK, TxOK, mode = "QUEUE", mode' = mode,
         NEW t \in Writers, pc[t] \in {"print", "woken"}, ~intq_full(txq),
         txq'.lock = IF pc[t] = "woken" THEN NULL ELSE txq.lock,
         txq'.not_full = txq.not_full,
         pc' = [pc EXCEPT ![t] = "print"]
  PROVE  TxOK'
<1>1. \A u \in Writers : u \in Threads
  BY Zenon DEF Threads
<1>2. pc'[t] = "print" /\ \A u \in Writers : u # t => pc'[u] = pc[u]
  BY Zenon, <1>1 DEF TypeOK
<1>3. txq.not_full = NULL /\ \A u \in Writers : pc[u] # "wait"
  BY Zenon DEF TxOK
<1>4. \A u \in Writers : u # t /\ pc[u] \in {"wait", "woken"} => pc[t] # "woken"
  BY Zenon DEF TxOK
<1> QED
  BY <1>2, <1>3, <1>4, Zenon DEF TxOK

\* A handler stores a character in a queue that is not full.
LEMMA TxHandler ==
  ASSUME TxOK, mode = "QUEUE", mode' = mode, ~intq_full(txq),
         txq'.lock = txq.lock, txq'.not_full = txq.not_full, pc' = pc
  PROVE  TxOK'
<1>1. txq.not_full = NULL /\ \A u \in Writers : pc[u] # "wait"
  BY Zenon DEF TxOK
<1> QED
  BY <1>1, Zenon DEF TxOK

-----------------------------------------------------------------------------
(* What a step may do to the input buffer and its readers                  *)

\* A step that is none of a reader's and leaves the buffer alone.
LEMMA RxFrame ==
  ASSUME RxOK, buffer' = buffer, \A t \in Readers : pc'[t] = pc[t]
  PROVE  RxOK'
BY Zenon DEF RxOK

\* A step that adds a byte and signals the reader that waits for it.
LEMMA RxSignal ==
  ASSUME ConsoleAssumption, RxOK, buffer'.lock = buffer.lock, buffer'.not_empty = NULL,
         \A t \in Readers : pc'[t] = IF t = buffer.not_empty THEN "woken" ELSE pc[t]
  PROVE  RxOK'
<1>1. \A t \in Readers : pc'[t] # "wait"
  BY Zenon DEF RxOK
<1>2. \A t \in Readers : pc'[t] \in {"wait", "woken"} => pc[t] \in {"wait", "woken"}
  <2>1. \A t \in Readers : t # NULL
    BY Zenon DEF ConsoleAssumption, Threads
  <2> QED
    BY <2>1, Zenon DEF RxOK
<1> QED
  BY <1>1, <1>2, Zenon DEF RxOK

\* A reader finds the buffer empty and sleeps.
LEMMA RxSleep ==
  ASSUME ConsoleAssumption, TypeOK, RxOK,
         NEW t \in Readers, buffer.lock = NULL \/ pc[t] = "woken",
         buffer'.lock = t, buffer'.not_empty = t, intq_empty(buffer'),
         pc' = [pc EXCEPT ![t] = "wait"]
  PROVE  RxOK'
<1>1. t # NULL /\ \A u \in Readers : u # NULL /\ u \in Threads
  BY Zenon DEF ConsoleAssumption, Threads
<1>2. pc'[t] = "wait" /\ \A u \in Readers : u # t => pc'[u] = pc[u]
  BY Zenon, <1>1 DEF TypeOK
<1>3. \A u \in Readers : pc[u] \in {"wait", "woken"} => u = t
  BY <1>1, Zenon DEF RxOK
<1> QED
  BY <1>1, <1>2, <1>3, Zenon DEF RxOK, intq_empty

\* A reader that was not asleep, or has been woken, takes a byte.
LEMMA RxTake ==
  ASSUME ConsoleAssumption, TypeOK, RxOK,
         NEW t \in Readers, pc[t] \in {"idle", "woken"}, ~intq_empty(buffer),
         buffer'.lock = IF pc[t] = "woken" THEN NULL ELSE buffer.lock,
         buffer'.not_empty = buffer.not_empty,
         pc' = [pc EXCEPT ![t] = "idle"]
  PROVE  RxOK'
<1>1. \A u \in Readers : u \in Threads
  BY Zenon DEF Threads
<1>2. pc'[t] = "idle" /\ \A u \in Readers : u # t => pc'[u] = pc[u]
  BY Zenon, <1>1 DEF TypeOK
<1>3. buffer.not_empty = NULL /\ \A u \in Readers : pc[u] # "wait"
  BY Zenon DEF RxOK
<1>4. \A u \in Readers : u # t /\ pc[u] \in {"wait", "woken"} => pc[t] # "woken"
  BY Zenon DEF RxOK
<1> QED
  BY <1>2, <1>3, <1>4, Zenon DEF RxOK

-----------------------------------------------------------------------------
(* What a step may do to the console lock and to the log                   *)

\* A step that writes nothing and begins or ends no message.
LEMMA ConsoleFrame ==
  ASSUME ConsoleOK, MessagesUnmixed, UNCHANGED consoleVars, log' = log,
         \A t \in Writers : pc'[t] = "idle" <=> pc[t] = "idle"
  PROVE  ConsoleOK' /\ MessagesUnmixed'
<1>1. /\ console_lock' = console_lock /\ console_lock_depth' = console_lock_depth
      /\ rest' = rest /\ printed' = printed
  BY Zenon DEF consoleVars
<1> QED
  BY <1>1, Zenon DEF ConsoleOK, MessagesUnmixed

\* A character appended to the log: by a handler, or by the thread that is in
\* the middle of a message.
LEMMA LogAppend ==
  ASSUME ConsoleAssumption, TypeOK, ConsoleOK, MessagesUnmixed,
         NEW c \in Chars, c = Handler \/ (c \in Writers /\ rest[c] # <<>>),
         log' = Append(log, c), printed' = printed,
         \A t \in Writers : rest'[t] # <<>> => rest[t] # <<>>
  PROVE  /\ MessagesUnmixed'
         /\ \A t \in Writers : printed'[t] = 0 => \A i \in 1 .. Len(log') : log'[i] # t
<1>1. /\ log \in Seq(Chars) /\ Len(log) \in Nat /\ Len(log') = Len(log) + 1
      /\ \A i \in 1 .. Len(log) : log'[i] = log[i]
      /\ log'[Len(log) + 1] = c
  <2>1. log \in Seq(Chars)
    BY Zenon DEF TypeOK
  <2> QED
    BY <2>1, AppendProperties, LenProperties
<1>2. \A i \in 1 .. Len(log') : i \in 1 .. Len(log) \/ i = Len(log) + 1
  BY <1>1
<1>3. \A t \in Writers : t # Handler
  BY Zenon DEF ConsoleAssumption, Threads
<1>4. \A t \in Writers : rest[t] # <<>> => c \in {t, Handler}
  BY Zenon DEF ConsoleOK
<1>5. ASSUME NEW t \in Writers, rest'[t] # <<>>,
             NEW i \in 1 .. Len(log'), NEW j \in 1 .. Len(log'),
             i < j, log'[i] = t
      PROVE  log'[j] \in {t, Handler}
  <2>1. rest[t] # <<>>
    BY <1>5, Zenon
  <2>2. CASE j = Len(log) + 1
    BY <1>1, <1>4, <2>1, <2>2, Zenon
  <2>3. CASE j # Len(log) + 1
    <3>1. j \in 1 .. Len(log) /\ i \in 1 .. Len(log)
      BY <1>1, <1>5, <2>3
    <3>2. log[i] = t /\ log'[j] = log[j]
      BY <1>1, <1>5, <3>1, Zenon
    <3> QED
      BY <1>5, <2>1, <3>1, <3>2, Zenon DEF MessagesUnmixed
  <2> QED
    BY <2>2, <2>3, Zenon
<1>6. ASSUME NEW t \in Writers, printed'[t] = 0, NEW i \in 1 .. Len(log')
      PROVE  log'[i] # t
  <2>1. CASE i = Len(log) + 1
    <3>1. CASE c = Handler
      BY <1>1, <1>3, <2>1, <3>1, Zenon
    <3>2. CASE c # Handler
      <4>1. c \in Writers /\ rest[c] # <<>>
        BY Zenon, <3>2
      <4>2. rest[c] \in Seq(Int) /\ Len(rest[c]) <= printed[c]
        BY <4>1, Zenon DEF TypeOK, ConsoleOK
      <4>3. printed[c] # 0
        BY <4>1, <4>2, EmptySeq
      <4> QED
        BY <1>1, <1>6, <2>1, <4>3, Zenon
    <3> QED
      BY Zenon, <3>1, <3>2
  <2>2. CASE i \in 1 .. Len(log)
    BY <1>1, <1>6, <2>2, ZenonT(90) DEF ConsoleOK
  <2> QED
    BY <1>2, <2>1, <2>2, Zenon
<1>7. MessagesUnmixed'
  BY <1>5, Zenon DEF MessagesUnmixed
<1> QED
  BY <1>6, <1>7, Zenon

\* A handler prints: nothing of the console's changes but the log.
LEMMA ConsoleHandler ==
  ASSUME ConsoleAssumption, TypeOK, ConsoleOK, MessagesUnmixed,
         UNCHANGED consoleVars, log' = Append(log, Handler),
         \A t \in Writers : pc'[t] = "idle" <=> pc[t] = "idle"
  PROVE  ConsoleOK' /\ MessagesUnmixed'
<1>1. /\ console_lock' = console_lock /\ console_lock_depth' = console_lock_depth
      /\ rest' = rest /\ printed' = printed
  BY Zenon DEF consoleVars
<1>2. /\ MessagesUnmixed'
      /\ \A t \in Writers : printed'[t] = 0 => \A i \in 1 .. Len(log') : log'[i] # t
  BY <1>1, LogAppend, Zenon DEF Chars
<1> QED
  BY <1>1, <1>2, Zenon DEF ConsoleOK

\* The holder of the console writes a character of its innermost message.
LEMMA ConsoleWrite ==
  ASSUME ConsoleAssumption, TypeOK, ConsoleOK, MessagesUnmixed,
         NEW t \in Writers, pc[t] # "idle",
         log' = Append(log, t),
         rest' = [rest EXCEPT ![t][Len(rest[t])] = @ - 1],
         UNCHANGED <<console_lock, console_lock_depth, printed>>,
         \A u \in Writers : pc'[u] = "idle" <=> pc[u] = "idle"
  PROVE  ConsoleOK' /\ MessagesUnmixed' /\ rest' \in [Writers -> Seq(Int)]
<1> DEFINE s == rest[t]
           r == [s EXCEPT ![Len(s)] = @ - 1]
<1>1. s \in Seq(Int) /\ s # <<>> /\ rest \in [Writers -> Seq(Int)]
  BY Zenon DEF TypeOK, ConsoleOK
<1>2. r \in Seq(Int) /\ Len(r) = Len(s) /\ r # <<>>
  <2>1. Len(s) \in Nat \ {0} /\ Len(s) \in 1 .. Len(s) /\ s[Len(s)] \in Int
    BY <1>1, EmptySeq, ElementOfSeq
  <2>2. s[Len(s)] - 1 \in Int /\ r = [s EXCEPT ![Len(s)] = s[Len(s)] - 1]
    BY <2>1
  <2>3. r \in Seq(Int) /\ Len(r) = Len(s)
    BY <1>1, <2>1, <2>2, ExceptSeq
  <2> QED
    BY Zenon, <2>1, <2>3, EmptySeq
<1>3. rest' = [rest EXCEPT ![t] = r]
  BY Zenon
<1> HIDE DEF s, r
<1>4. rest' \in [Writers -> Seq(Int)]
  BY Zenon, <1>1, <1>2, <1>3
<1>5. /\ rest'[t] = r /\ \A u \in Writers : u # t => rest'[u] = rest[u]
  BY Zenon, <1>1, <1>3
<1>6. /\ \A u \in Writers : rest'[u] = <<>> <=> rest[u] = <<>>
      /\ \A u \in Writers : Len(rest'[u]) = Len(rest[u])
  BY <1>1, <1>2, <1>5, Zenon DEF s
<1>7. /\ MessagesUnmixed'
      /\ \A u \in Writers : printed'[u] = 0 => \A i \in 1 .. Len(log') : log'[i] # u
  BY <1>1, <1>6, LogAppend, Zenon DEF Chars, s
<1> QED
  BY <1>4, <1>6, <1>7, Zenon DEF ConsoleOK

\* acquire_console by a thread that is in no message, or in one: the lock is
\* as deep as the messages.
LEMMA ConsoleBegin ==
  ASSUME ConsoleAssumption, TypeOK, ConsoleOK, MessagesUnmixed,
         NEW t \in Writers, PrintStart(t)
  PROVE  /\ ConsoleOK' /\ MessagesUnmixed'
         /\ rest' \in [Writers -> Seq(Int)] /\ printed' \in [Writers -> Nat]
         /\ console_lock_depth' \in Nat
         /\ pc' \in [Threads -> {"idle", "print", "wait", "woken"}]
         /\ \A u \in Threads : u # t => pc'[u] = pc[u]
         /\ pc'[t] = "print" /\ pc[t] \in {"idle", "print"}
         /\ UNCHANGED serialVars
<1> DEFINE s == rest[t]
           m == MessageLength[Len(s) + 1]
<1>1. /\ t \in Threads /\ rest \in [Writers -> Seq(Int)]
      /\ pc \in [Threads -> {"idle", "print", "wait", "woken"}]
      /\ printed \in [Writers -> Nat] /\ console_lock_depth \in Nat
      /\ MessageLength \in Seq(Nat) /\ MessageLength # <<>>
      /\ \A u \in Writers : u # NULL
  BY Zenon DEF TypeOK, ConsoleAssumption, Threads
<1>2. /\ \/ pc[t] = "idle" /\ printed[t] = 0
         \/ pc[t] = "print" /\ printed[t] \in 1 .. Len(MessageLength) - 1
      /\ acquire_console(t)
      /\ pc' = [pc EXCEPT ![t] = "print"]
      /\ rest' = [rest EXCEPT ![t] = Append(s, m)]
      /\ printed' = [printed EXCEPT ![t] = printed[t] + 1]
      /\ UNCHANGED serialVars
  BY Zenon DEF PrintStart
<1>3. s \in Seq(Int) /\ printed[t] \in Nat /\ Len(s) \in Nat /\ Len(s) <= printed[t]
  BY Zenon, <1>1, LenProperties DEF ConsoleOK
<1>4. Len(s) + 1 \in 1 .. Len(MessageLength) /\ printed[t] + 1 <= Len(MessageLength)
  <2>1. Len(MessageLength) \in Nat \ {0}
    BY Zenon, <1>1, EmptySeq
  <2> QED
    BY SMTT(30), <1>2, <1>3, <2>1
<1>5. m \in Int
  BY <1>1, <1>4, ElementOfSeq
<1>6. /\ Append(s, m) \in Seq(Int) /\ Append(s, m) # <<>>
      /\ Len(Append(s, m)) = Len(s) + 1
  BY <1>3, <1>5, AppendProperties
<1> HIDE DEF m
<1>7. s = <<>> <=> pc[t] = "idle"
  BY Zenon DEF ConsoleOK
<1>8. Len(<<>>) = 0
  BY Zenon, EmptySeq
<1>9. /\ console_lock' = t /\ console_lock_depth' \in Nat
      /\ Len(s) + 1 = console_lock_depth' + 1
      /\ \A u \in Writers : u # t => rest[u] = <<>>
  <2>1. CASE console_lock = t
    <3>1. console_lock' = t /\ console_lock_depth' = console_lock_depth + 1
      BY <1>2, <2>1, Zenon DEF acquire_console
    <3>2. \A u \in Writers : u # t => rest[u] = <<>>
      BY <2>1, Zenon DEF ConsoleOK
    <3>3. s # <<>>
      BY <1>1, <2>1, <3>2, Zenon DEF ConsoleOK
    <3>4. Len(s) = console_lock_depth + 1
      BY <3>3, Zenon DEF ConsoleOK
    <3> QED
      BY <1>1, <3>1, <3>2, <3>4
  <2>2. CASE console_lock # t
    <3>1. /\ console_lock = NULL /\ console_lock' = t
          /\ console_lock_depth' = console_lock_depth
      BY <1>2, <2>2, Zenon DEF acquire_console
    <3>2. \A u \in Writers : rest[u] = <<>>
      BY <1>1, <3>1, Zenon DEF ConsoleOK
    <3>3. console_lock_depth = 0 /\ Len(s) = 0
      BY <1>8, <3>2, Zenon DEF ConsoleOK
    <3> QED
      BY Zenon, <3>1, <3>2, <3>3
  <2> QED
    BY <2>1, <2>2, Zenon
<1> HIDE DEF s
<1>10. /\ rest' \in [Writers -> Seq(Int)] /\ rest'[t] = Append(s, m)
       /\ \A u \in Writers : u # t => rest'[u] = rest[u]
  BY Zenon, <1>1, <1>2, <1>6
<1>11. /\ printed' \in [Writers -> Nat] /\ printed'[t] = printed[t] + 1
       /\ \A u \in Writers : u # t => printed'[u] = printed[u]
  BY SMTT(30), <1>1, <1>2
<1>12. /\ pc' \in [Threads -> {"idle", "print", "wait", "woken"}] /\ pc'[t] = "print"
       /\ \A u \in Threads : u # t => pc'[u] = pc[u]
  BY Zenon, <1>1, <1>2
<1>13. log' = log
  BY <1>2, Zenon DEF serialVars
<1>14. /\ printed[t] + 1 # 0 /\ Len(s) + 1 <= printed[t] + 1
  BY <1>3
<1>15. ConsoleOK'
  <2>1. \A u \in Writers : rest'[u] = <<>> <=> pc'[u] = "idle"
    <3>1. \A u \in Writers : u \in Threads
      BY Zenon DEF Threads
    <3> QED
      BY <1>6, <1>10, <1>12, <3>1, Zenon DEF ConsoleOK
  <2>2. \A u \in Writers : rest'[u] # <<>> =>
          console_lock' = u /\ Len(rest'[u]) = console_lock_depth' + 1
    BY <1>6, <1>9, <1>10, Zenon
  <2>3. ~(\A u \in Writers : rest'[u] = <<>>)
    BY <1>6, <1>10, Zenon
  <2>4. \A u \in Writers :
          Len(rest'[u]) <= printed'[u] /\ printed'[u] <= Len(MessageLength)
    <3> SUFFICES ASSUME NEW u \in Writers
                 PROVE  /\ Len(rest'[u]) <= printed'[u]
                        /\ printed'[u] <= Len(MessageLength)
      BY Zenon
    <3>1. CASE u = t
      <4>1. Len(rest'[u]) = Len(s) + 1 /\ printed'[u] = printed[t] + 1
        BY <1>6, <1>10, <1>11, <3>1, Zenon
      <4> QED
        BY <1>4, <1>14, <4>1, Zenon
    <3>2. CASE u # t
      BY <1>10, <1>11, <3>2, Zenon DEF ConsoleOK
    <3> QED
      BY <3>1, <3>2, Zenon
  <2>5. \A u \in Writers : printed'[u] = 0 => \A i \in 1 .. Len(log') : log'[i] # u
    BY <1>11, <1>13, <1>14, Zenon DEF ConsoleOK
  <2> QED
    BY <2>1, <2>2, <2>3, <2>4, <2>5, Zenon DEF ConsoleOK
<1>16. MessagesUnmixed'
  <2>1. CASE s = <<>>
    <3>1. printed[t] = 0
      BY Zenon, <1>2, <1>7, <2>1
    <3>2. \A i \in 1 .. Len(log) : log[i] # t
      BY <3>1, Zenon DEF ConsoleOK
    <3> QED
      BY <1>10, <1>13, <3>2, ZenonT(30) DEF MessagesUnmixed
  <2>2. CASE s # <<>>
    BY <1>10, <1>13, <2>2, Zenon DEF MessagesUnmixed, s
  <2> QED
    BY <2>1, <2>2, Zenon
<1>17. pc[t] \in {"idle", "print"}
  BY Zenon, <1>2
<1> QED
  BY <1>2, <1>9, <1>10, <1>11, <1>12, <1>15, <1>16, <1>17, Zenon

\* release_console at the end of a message.
LEMMA ConsoleEnd ==
  ASSUME ConsoleAssumption, TypeOK, ConsoleOK, MessagesUnmixed,
         NEW t \in Writers, PrintEnd(t)
  PROVE  /\ ConsoleOK' /\ MessagesUnmixed'
         /\ rest' \in [Writers -> Seq(Int)] /\ printed' \in [Writers -> Nat]
         /\ console_lock_depth' \in Nat
         /\ pc' \in [Threads -> {"idle", "print", "wait", "woken"}]
         /\ \A u \in Threads : u # t => pc'[u] = pc[u]
         /\ pc'[t] \in {"idle", "print"} /\ pc[t] = "print"
         /\ UNCHANGED serialVars
<1> DEFINE s == rest[t]
           r == SubSeq(s, 1, Len(s) - 1)
           p == IF Len(s) = 1 THEN "idle" ELSE "print"
<1>1. /\ t \in Threads /\ rest \in [Writers -> Seq(Int)]
      /\ pc \in [Threads -> {"idle", "print", "wait", "woken"}]
      /\ printed \in [Writers -> Nat] /\ console_lock_depth \in Nat
  BY Zenon DEF TypeOK, Threads
<1>2. /\ pc[t] = "print" /\ release_console(t)
      /\ pc' = [pc EXCEPT ![t] = p]
      /\ rest' = [rest EXCEPT ![t] = r]
      /\ UNCHANGED serialVars /\ printed' = printed
  BY Zenon DEF PrintEnd
<1>3. s \in Seq(Int) /\ s # <<>> /\ Len(s) \in Nat \ {0} /\ Len(s) <= printed[t]
  <2>1. s \in Seq(Int) /\ s # <<>> /\ Len(s) <= printed[t]
    BY <1>1, <1>2, Zenon DEF ConsoleOK
  <2> QED
    BY Zenon, <2>1, EmptySeq
<1>4. /\ console_lock = t /\ Len(s) = console_lock_depth + 1
      /\ \A u \in Writers : u # t => rest[u] = <<>>
  BY <1>3, Zenon DEF ConsoleOK
<1>5. r \in Seq(Int) /\ Len(r) = Len(s) - 1
  <2>1. \A i \in 1 .. Len(s) - 1 : s[i] \in Int
    BY <1>3, ElementOfSeq
  <2>2. 1 \in Int /\ Len(s) - 1 \in Int
    BY <1>3
  <2>3. r \in Seq(Int) /\ Len(r) = IF 1 <= Len(s) - 1 THEN Len(s) - 1 - 1 + 1 ELSE 0
    BY <2>1, <2>2, SubSeqProperties
  <2> QED
    BY <1>3, <2>3
<1> HIDE DEF r
<1>6. r = <<>> <=> Len(s) = 1
  <2>1. r = <<>> <=> Len(r) = 0
    BY ZenonT(30), <1>5, EmptySeq
  <2> QED
    BY <1>3, <1>5, <2>1
<1> HIDE DEF s
<1>7. /\ rest' \in [Writers -> Seq(Int)] /\ rest'[t] = r
      /\ \A u \in Writers : u # t => rest'[u] = rest[u]
  BY Zenon, <1>1, <1>2, <1>5
<1>8. /\ pc' \in [Threads -> {"idle", "print", "wait", "woken"}] /\ pc'[t] = p
      /\ \A u \in Threads : u # t => pc'[u] = pc[u]
  BY Zenon, <1>1, <1>2
<1>9. p \in {"idle", "print"} /\ (p = "idle" <=> Len(s) = 1)
  BY Zenon
<1> HIDE DEF p
<1>10. log' = log
  BY <1>2, Zenon DEF serialVars
<1>11. /\ console_lock_depth' \in Nat
       /\ Len(s) = 1 => console_lock' = NULL /\ console_lock_depth' = 0
       /\ Len(s) # 1 => console_lock' = t /\ Len(r) = console_lock_depth' + 1
  <2>1. CASE console_lock_depth > 0
    <3>1. console_lock' = t /\ console_lock_depth' = console_lock_depth - 1
      BY <1>2, <1>4, <2>1, Zenon DEF release_console
    <3> QED
      BY <1>1, <1>4, <1>5, <2>1, <3>1
  <2>2. CASE ~(console_lock_depth > 0)
    <3>1. console_lock' = NULL /\ console_lock_depth' = console_lock_depth
      BY <1>2, <2>2, Zenon DEF release_console
    <3> QED
      BY <1>1, <1>4, <1>5, <2>2, <3>1
  <2> QED
    BY <2>1, <2>2, Zenon
<1>12. Len(r) <= printed[t]
  BY <1>1, <1>3, <1>5
<1>13. ConsoleOK'
  <2>1. \A u \in Writers : rest'[u] = <<>> <=> pc'[u] = "idle"
    <3>1. \A u \in Writers : u \in Threads
      BY Zenon DEF Threads
    <3> QED
      BY <1>6, <1>7, <1>8, <1>9, <3>1, ZenonT(90) DEF ConsoleOK
  <2>2. \A u \in Writers : rest'[u] # <<>> =>
          console_lock' = u /\ Len(rest'[u]) = console_lock_depth' + 1
    <3> SUFFICES ASSUME NEW u \in Writers, rest'[u] # <<>>
                 PROVE  console_lock' = u /\ Len(rest'[u]) = console_lock_depth' + 1
      BY Zenon
    <3>1. u = t
      BY <1>4, <1>7, Zenon
    <3>2. rest'[u] = r /\ Len(s) # 1
      BY <1>6, <1>7, <3>1, Zenon
    <3> QED
      BY <1>11, <3>1, <3>2, Zenon
  <2>3. (\A u \in Writers : rest'[u] = <<>>) =>
          console_lock' = NULL /\ console_lock_depth' = 0
    BY <1>6, <1>7, <1>11, Zenon
  <2>4. \A u \in Writers :
          Len(rest'[u]) <= printed'[u] /\ printed'[u] <= Len(MessageLength)
    BY <1>2, <1>7, <1>12, Zenon DEF ConsoleOK
  <2>5. \A u \in Writers : printed'[u] = 0 => \A i \in 1 .. Len(log') : log'[i] # u
    BY <1>2, <1>10, Zenon DEF ConsoleOK
  <2> QED
    BY <2>1, <2>2, <2>3, <2>4, <2>5, Zenon DEF ConsoleOK
<1>14. MessagesUnmixed'
  BY <1>3, <1>7, <1>10, Zenon DEF MessagesUnmixed, s
<1> QED
  BY <1>1, <1>2, <1>7, <1>8, <1>9, <1>11, <1>13, <1>14, Zenon

-----------------------------------------------------------------------------
(* What a step may do to the order of the characters                       *)

\* A character goes to the end of the log and to the end of the queue.
LEMMA OrderPut ==
  ASSUME ConsoleAssumption, TypeOK, OutputInOrder, NEW c \in Chars,
         log' = Append(log, c), sent' = sent,
         Contents(txq') = Append(Contents(txq), c)
  PROVE  OutputInOrder'
<1> DEFINE C == Contents(txq)
<1>1. sent \in Seq(Chars) /\ C \in Seq(Chars) /\ <<c>> \in Seq(Chars)
  BY ContentsValue DEF TypeOK, ConsoleAssumption
<1>2. log = sent \o C /\ Contents(txq') = Append(C, c)
  BY Zenon DEF OutputInOrder
<1> HIDE DEF C
<1>3. sent \o C \in Seq(Chars) /\ (sent \o C) \o <<c>> = sent \o (C \o <<c>>)
  BY SMTT(30), <1>1, ConcatProperties, ConcatAssociative
<1>4. Append(sent \o C, c) = (sent \o C) \o <<c>> /\ Append(C, c) = C \o <<c>>
  BY Zenon, <1>1, <1>3, AppendIsConcat
<1> QED
  BY <1>2, <1>3, <1>4, Zenon DEF OutputInOrder

\* The oldest character of the queue goes to the UART.
LEMMA OrderGet ==
  ASSUME ConsoleAssumption, TypeOK, OutputInOrder, ~intq_empty(txq)
  PROVE  log = Append(sent, FirstByte(txq)) \o Contents(intq_getc(txq))
<1> DEFINE C == Contents(intq_getc(txq))
           f == FirstByte(txq)
<1>1. /\ sent \in Seq(Chars) /\ f \in Chars /\ intq_getc(txq) \in Queue
      /\ Contents(txq) = <<f>> \o C
  BY Zenon, GetEffect DEF TypeOK, ConsoleAssumption
<1>2. C \in Seq(Chars)
  BY Zenon, <1>1, ContentsValue DEF ConsoleAssumption
<1>3. log = sent \o (<<f>> \o C)
  BY <1>1, Zenon DEF OutputInOrder
<1> HIDE DEF C, f
<1>4. <<f>> \in Seq(Chars)
  BY <1>1
<1>5. sent \o (<<f>> \o C) = (sent \o <<f>>) \o C
  BY SMTT(30), <1>1, <1>2, <1>4, ConcatAssociative
<1>6. Append(sent, f) = sent \o <<f>>
  BY Zenon, <1>1, AppendIsConcat
<1> QED
  BY <1>3, <1>5, <1>6, Zenon DEF C, f

\* While the queue is not used it is empty, and what is written is sent.
LEMMA OrderPoll ==
  ASSUME ConsoleAssumption, TypeOK, OutputInOrder, intq_empty(txq),
         NEW c \in Chars, log' = Append(log, c), sent' = Append(sent, c), txq' = txq
  PROVE  OutputInOrder'
<1>1. Contents(txq) = <<>> /\ sent \in Seq(Chars)
  BY Zenon, EmptyContents DEF TypeOK, ConsoleAssumption
<1>2. Append(sent, c) \in Seq(Chars)
  BY Zenon, <1>1, AppendProperties
<1>3. log = sent
  BY Zenon, <1>1, ConcatEmptySeq DEF OutputInOrder
<1>4. Append(sent, c) \o <<>> = Append(sent, c)
  BY Zenon, <1>2, ConcatEmptySeq
<1> QED
  BY <1>1, <1>3, <1>4, Zenon DEF OutputInOrder

\* write_ier enables what InterruptsEnabled asks for.
LEMMA Enabled ==
  ASSUME ier' = write_ier(txq', buffer')
  PROVE  InterruptsEnabled'
BY Zenon DEF InterruptsEnabled, write_ier, intq_empty, intq_full

-----------------------------------------------------------------------------
(* Every action keeps the invariant                                        *)

\* The loop of intq_putc, entered by a writer or resumed after a sleep.
LEMMA PutcInv ==
  ASSUME ConsoleAssumption, Inv, NEW t \in Writers, NEW q,
         (q = txq /\ pc[t] = "print") \/ (q = Unlocked(txq) /\ pc[t] = "woken"),
         mode = "QUEUE", PutcLoop(t, q),
         UNCHANGED <<mode, buffer, sent, console_lock, console_lock_depth, printed>>
  PROVE  Inv'
<1>1. /\ IntqAssumption /\ TypeOK /\ TxOK /\ RxOK /\ ConsoleOK
      /\ MessagesUnmixed /\ OutputInOrder /\ InterruptsEnabled
      /\ mode' = mode /\ buffer' = buffer /\ sent' = sent
      /\ console_lock' = console_lock /\ console_lock_depth' = console_lock_depth
      /\ printed' = printed
  BY Zenon DEF Inv, ConsoleAssumption
<1>2. /\ txq \in Queue /\ pc \in [Threads -> {"idle", "print", "wait", "woken"}]
      /\ t \in Threads /\ t \in Chars /\ log \in Seq(Chars)
      /\ mode \in {"UNINIT", "POLL", "QUEUE"} /\ buffer \in Queue
      /\ sent \in Seq(Chars) /\ printed \in [Writers -> Nat]
      /\ console_lock_depth \in Nat /\ rest \in [Writers -> Seq(Int)]
  BY <1>1, Zenon DEF TypeOK, Threads, Chars
<1>3. /\ q \in Queue /\ intq_full(q) = intq_full(txq) /\ intq_empty(q) = intq_empty(txq)
      /\ Contents(q) = Contents(txq) /\ q.not_full = txq.not_full
      /\ q.lock = IF pc[t] = "woken" THEN NULL ELSE txq.lock
      /\ pc[t] \in {"print", "woken"}
  <2>1. CASE q = txq /\ pc[t] = "print"
    BY Zenon, <1>2, <2>1
  <2>2. CASE q = Unlocked(txq) /\ pc[t] = "woken"
    BY <1>1, <1>2, <2>2, LockEffect, Zenon
  <2> QED
    BY <2>1, <2>2, Zenon
<1>4. \A u \in Readers : u \in Threads /\ u # t
  BY Zenon DEF ConsoleAssumption, Threads
<1>5. CASE intq_full(q)
  <2>1. /\ q.lock = NULL /\ txq' = wait_not_full(q, t)
        /\ pc' = [pc EXCEPT ![t] = "wait"]
        /\ ier' = ier /\ log' = log /\ rest' = rest
    BY <1>5, Zenon DEF PutcLoop
  <2>2. /\ txq' \in Queue /\ txq'.lock = t /\ txq'.not_full = t
        /\ intq_full(txq') = intq_full(q) /\ intq_empty(txq') = intq_empty(q)
        /\ Contents(txq') = Contents(q)
    BY <1>1, <1>2, <1>3, <2>1, LockEffect, ZenonT(30)
  <2>3. /\ pc' \in [Threads -> {"idle", "print", "wait", "woken"}] /\ pc'[t] = "wait"
        /\ \A u \in Threads : u # t => pc'[u] = pc[u]
    BY Zenon, <1>2, <2>1
  <2>4. TypeOK'
    BY <1>1, <1>2, <2>1, <2>2, <2>3, Zenon DEF TypeOK
  <2>5. TxOK'
    <3>1. intq_full(txq')
      BY Zenon, <1>5, <2>2
    <3> QED
      BY <1>1, <1>3, <2>1, <2>2, <3>1, TxSleep, Zenon
  <2>6. RxOK'
    BY <1>1, <1>4, <2>3, RxFrame, Zenon
  <2>7. ConsoleOK' /\ MessagesUnmixed'
    <3>1. \A u \in Writers : pc'[u] = "idle" <=> pc[u] = "idle"
      BY Zenon, <1>3, <2>3 DEF Threads
    <3> QED
      BY <1>1, <2>1, <3>1, ConsoleFrame, Zenon DEF consoleVars
  <2>8. OutputInOrder'
    BY <1>1, <1>3, <2>1, <2>2, Zenon DEF OutputInOrder
  <2>9. InterruptsEnabled'
    BY <1>1, <1>3, <2>1, <2>2, Zenon DEF InterruptsEnabled
  <2> QED
    BY <2>4, <2>5, <2>6, <2>7, <2>8, <2>9, Zenon DEF Inv
<1>6. CASE ~intq_full(q)
  <2>1. /\ txq' = intq_putc(q, t) /\ ier' = write_ier(txq', buffer)
        /\ log' = Append(log, t) /\ pc' = [pc EXCEPT ![t] = "print"]
        /\ rest' = [rest EXCEPT ![t][Len(rest[t])] = @ - 1]
    BY <1>6, Zenon DEF PutcLoop
  <2>2. /\ txq' \in Queue /\ txq'.lock = q.lock /\ txq'.not_full = q.not_full
        /\ Contents(txq') = Append(Contents(q), t)
    BY <1>1, <1>2, <1>3, <1>6, <2>1, PutEffect, Zenon
  <2>3. /\ pc' \in [Threads -> {"idle", "print", "wait", "woken"}] /\ pc'[t] = "print"
        /\ \A u \in Threads : u # t => pc'[u] = pc[u]
    BY Zenon, <1>2, <2>1
  <2>4. ConsoleOK' /\ MessagesUnmixed' /\ rest' \in [Writers -> Seq(Int)]
    <3>1. pc[t] # "idle" /\ \A u \in Writers : pc'[u] = "idle" <=> pc[u] = "idle"
      BY Zenon, <1>3, <2>3 DEF Threads
    <3> QED
      BY <1>1, <2>1, <3>1, ConsoleWrite, Zenon
  <2>5. TypeOK'
    <3>1. log' \in Seq(Chars)
      BY Zenon, <1>2, <2>1, AppendProperties
    <3> QED
      BY <1>1, <1>2, <2>2, <2>3, <2>4, <3>1, Zenon DEF TypeOK
  <2>6. TxOK'
    BY <1>1, <1>3, <1>6, <2>1, <2>2, TxStore, ZenonT(30)
  <2>7. RxOK'
    BY <1>1, <1>4, <2>3, RxFrame, Zenon
  <2>8. OutputInOrder'
    BY <1>1, <1>2, <1>3, <2>1, <2>2, OrderPut, Zenon
  <2>9. InterruptsEnabled'
    BY <1>1, <2>1, Enabled, Zenon
  <2> QED
    BY <2>4, <2>5, <2>6, <2>7, <2>8, <2>9, Zenon DEF Inv
<1> QED
  BY <1>5, <1>6, Zenon

\* putchar_have_lock and the rest of intq_putc after a sleep.
LEMMA WriteInv ==
  ASSUME ConsoleAssumption, Inv, NEW t \in Writers,
         putchar_have_lock(t) \/ Resume(t)
  PROVE  Inv'
<1>1. /\ TypeOK /\ TxOK /\ RxOK /\ ConsoleOK
      /\ MessagesUnmixed /\ OutputInOrder /\ InterruptsEnabled
  BY Zenon DEF Inv
<1>2. CASE Resume(t)
  <2>1. pc[t] = "woken" /\ mode = "QUEUE"
    BY <1>1, <1>2, Zenon DEF Resume, TxOK
  <2> QED
    BY <1>2, <2>1, PutcInv, Zenon DEF Resume
<1>3. CASE putchar_have_lock(t) /\ mode = "QUEUE"
  <2>1. /\ pc[t] = "print" /\ PutcLoop(t, txq)
        /\ UNCHANGED <<mode, sent, buffer, console_lock, console_lock_depth, printed>>
    BY Zenon, <1>3 DEF putchar_have_lock
  <2> QED
    BY <1>3, <2>1, PutcInv, Zenon
<1>4. CASE putchar_have_lock(t) /\ mode # "QUEUE"
  <2>1. /\ pc[t] = "print" /\ mode' = "POLL" /\ sent' = Append(sent, t)
        /\ log' = Append(log, t)
        /\ rest' = [rest EXCEPT ![t][Len(rest[t])] = @ - 1]
        /\ txq' = txq /\ pc' = pc /\ buffer' = buffer
        /\ console_lock' = console_lock /\ console_lock_depth' = console_lock_depth
        /\ printed' = printed
    BY <1>4, Zenon DEF putchar_have_lock, putc_poll
  <2>2. t \in Chars /\ pc[t] # "idle"
    BY Zenon, <2>1 DEF Chars
  <2>3. ConsoleOK' /\ MessagesUnmixed' /\ rest' \in [Writers -> Seq(Int)]
    BY <1>1, <2>1, <2>2, ConsoleWrite, Zenon
  <2>4. TypeOK'
    <3>1. log' \in Seq(Chars) /\ sent' \in Seq(Chars)
      <4>1. log \in Seq(Chars) /\ sent \in Seq(Chars)
        BY <1>1, Zenon DEF TypeOK
      <4> QED
        BY Zenon, <2>1, <2>2, <4>1, AppendProperties
    <3> QED
      BY <1>1, <2>1, <2>3, <3>1, Zenon DEF TypeOK
  <2>5. TxOK' /\ RxOK'
    BY <1>1, <1>4, <2>1, TxFrame, RxFrame, Zenon
  <2>6. OutputInOrder'
    <3>1. intq_empty(txq)
      BY <1>1, <1>4, Zenon DEF TxOK
    <3> QED
      BY <1>1, <2>1, <2>2, <3>1, OrderPoll, Zenon
  <2>7. InterruptsEnabled'
    BY Zenon, <2>1 DEF InterruptsEnabled
  <2> QED
    BY <2>3, <2>4, <2>5, <2>6, <2>7, Zenon DEF Inv
<1> QED
  BY <1>2, <1>3, <1>4, Zenon

\* A message begins or ends.
LEMMA MessageInv ==
  ASSUME ConsoleAssumption, Inv, NEW t \in Writers, PrintStart(t) \/ PrintEnd(t)
  PROVE  Inv'
<1>1. /\ TypeOK /\ TxOK /\ RxOK /\ ConsoleOK
      /\ MessagesUnmixed /\ OutputInOrder /\ InterruptsEnabled
  BY Zenon DEF Inv
<1>2. /\ ConsoleOK' /\ MessagesUnmixed'
      /\ rest' \in [Writers -> Seq(Int)] /\ printed' \in [Writers -> Nat]
      /\ console_lock_depth' \in Nat
      /\ pc' \in [Threads -> {"idle", "print", "wait", "woken"}]
      /\ \A u \in Threads : u # t => pc'[u] = pc[u]
      /\ pc'[t] \in {"idle", "print"} /\ pc[t] \in {"idle", "print"}
      /\ UNCHANGED serialVars
  <2>1. CASE PrintStart(t)
    BY <1>1, <2>1, ConsoleBegin, Zenon
  <2>2. CASE PrintEnd(t)
    BY <1>1, <2>2, ConsoleEnd, Zenon
  <2> QED
    BY <2>1, <2>2, Zenon
<1>3. /\ mode' = mode /\ txq' = txq /\ buffer' = buffer /\ ier' = ier
      /\ log' = log /\ sent' = sent
  BY <1>2, Zenon DEF serialVars
<1>4. TypeOK'
  BY <1>1, <1>2, <1>3, Zenon DEF TypeOK
<1>5. TxOK'
  <2>1. /\ \A u \in Writers : u \in Threads
        /\ pc'[t] \notin {"wait", "woken"} /\ pc[t] \notin {"wait", "woken"}
    BY Zenon, <1>2 DEF Threads
  <2> QED
    BY <1>1, <1>2, <1>3, <2>1, ZenonT(30) DEF TxOK
<1>6. RxOK'
  <2>1. \A u \in Readers : u \in Threads /\ u # t
    BY Zenon DEF ConsoleAssumption, Threads
  <2> QED
    BY <1>1, <1>2, <1>3, <2>1, RxFrame, Zenon
<1>7. OutputInOrder' /\ InterruptsEnabled'
  BY <1>1, <1>3, Zenon DEF OutputInOrder, InterruptsEnabled
<1> QED
  BY <1>2, <1>4, <1>5, <1>6, <1>7, Zenon DEF Inv

\* What signal() of the two conditions threads wait for does to the threads:
\* it wakes sleepers only.
LEMMA SignalEffect ==
  ASSUME ConsoleAssumption, TypeOK, TxOK, RxOK,
         NEW w \in {NULL, txq.not_full}, NEW r \in {NULL, buffer.not_empty}, NEW W,
         \A t \in Threads : t \in W <=> (t = w \/ t = r),
         pc' = signal(W)
  PROVE  /\ pc' \in [Threads -> {"idle", "print", "wait", "woken"}]
         /\ \A t \in Writers : pc'[t] = IF t = w THEN "woken" ELSE pc[t]
         /\ \A t \in Readers : pc'[t] = IF t = r THEN "woken" ELSE pc[t]
         /\ \A t \in Writers : pc'[t] = "idle" <=> pc[t] = "idle"
<1>1. /\ pc \in [Threads -> {"idle", "print", "wait", "woken"}]
      /\ pc' = [t \in Threads |-> IF t \in W THEN "woken" ELSE pc[t]]
  BY Zenon DEF TypeOK, signal
<1>2. /\ \A t \in Writers : t \in Threads /\ t # NULL /\ t \notin Readers
      /\ \A t \in Readers : t \in Threads /\ t # NULL /\ t \notin Writers
  BY Zenon DEF ConsoleAssumption, Threads
<1>3. pc' \in [Threads -> {"idle", "print", "wait", "woken"}]
  BY Zenon, <1>1
<1>4. \A t \in Threads : pc'[t] = IF t = w \/ t = r THEN "woken" ELSE pc[t]
  BY <1>1, Zenon
<1>5. /\ \A t \in Writers : t = w => pc[t] = "wait"
      /\ \A t \in Writers : t # r
      /\ \A t \in Readers : t # w
  BY <1>2, ZenonT(30) DEF TxOK, RxOK
<1> QED
  BY <1>2, <1>3, <1>4, <1>5, ZenonT(30)

\* A handler prints with interrupts off.
LEMMA IntrPutcInv ==
  ASSUME ConsoleAssumption, Inv, IntrPutc
  PROVE  Inv'
<1>1. /\ IntqAssumption /\ TypeOK /\ TxOK /\ RxOK /\ ConsoleOK
      /\ MessagesUnmixed /\ OutputInOrder /\ InterruptsEnabled
  BY Zenon DEF Inv, ConsoleAssumption
<1>2. /\ mode = "QUEUE" /\ log' = Append(log, Handler)
      /\ ier' = write_ier(txq', buffer')
      /\ mode' = mode /\ buffer' = buffer /\ UNCHANGED consoleVars
  BY Zenon DEF IntrPutc
<1>3. /\ rest' = rest /\ printed' = printed /\ console_lock_depth' = console_lock_depth
  BY <1>2, Zenon DEF consoleVars
<1>4. /\ txq \in Queue /\ Handler \in Chars /\ log \in Seq(Chars) /\ sent \in Seq(Chars)
  BY <1>1, Zenon DEF TypeOK, Chars
<1>5. log' \in Seq(Chars)
  BY Zenon, <1>2, <1>4, AppendProperties
<1>6. CASE intq_full(txq)
  <2> DEFINE g == intq_getc(txq)
             f == FirstByte(txq)
  <2>1. /\ sent' = Append(sent, f) /\ txq' = intq_putc(g, Handler)
        /\ pc' = signal({txq.not_full})
    BY <1>6, Zenon DEF IntrPutc, putc_poll
  <2>2. ~intq_empty(txq)
    <3>1. txq.head \in Slots
      BY Zenon, <1>4 DEF Queue
    <3>2. next(txq.head) # txq.head
      BY <1>1, <3>1, NextSlot DEF Slots, IntqAssumption
    <3> QED
      BY <1>6, <3>2, Zenon DEF intq_full, intq_empty
  <2>3. /\ g \in Queue /\ ~intq_full(g) /\ g.lock = txq.lock /\ g.not_full = NULL
        /\ f \in Chars
    BY <1>1, <1>4, <2>2, GetEffect, Zenon
  <2>4. log = Append(sent, f) \o Contents(g)
    BY <1>1, <2>2, OrderGet, Zenon
  <2> HIDE DEF g, f
  <2>5. /\ txq' \in Queue /\ txq'.lock = txq.lock /\ txq'.not_full = NULL
        /\ Contents(txq') = Append(Contents(g), Handler)
    BY <1>1, <1>4, <2>1, <2>3, PutEffect, ZenonT(30)
  <2>6. /\ pc' \in [Threads -> {"idle", "print", "wait", "woken"}]
        /\ \A t \in Writers : pc'[t] = IF t = txq.not_full THEN "woken" ELSE pc[t]
        /\ \A t \in Readers : pc'[t] = pc[t]
        /\ \A t \in Writers : pc'[t] = "idle" <=> pc[t] = "idle"
    <3>1. \A t \in Threads : t # NULL
      BY Zenon DEF ConsoleAssumption
    <3>2. \A t \in Threads : t \in {txq.not_full} <=> (t = txq.not_full \/ t = NULL)
      BY <3>1, Zenon
    <3>3. \A t \in Readers : t \in Threads
      BY Zenon DEF Threads
    <3>4. /\ pc' \in [Threads -> {"idle", "print", "wait", "woken"}]
          /\ \A t \in Writers : pc'[t] = IF t = txq.not_full THEN "woken" ELSE pc[t]
          /\ \A t \in Readers : pc'[t] = IF t = NULL THEN "woken" ELSE pc[t]
          /\ \A t \in Writers : pc'[t] = "idle" <=> pc[t] = "idle"
      BY <1>1, <2>1, <3>2, SignalEffect, Zenon
    <3> QED
      BY <3>1, <3>3, <3>4, Zenon
  <2>7. sent' \in Seq(Chars)
    BY Zenon, <1>4, <2>1, <2>3, AppendProperties
  <2>8. TypeOK'
    BY <1>1, <1>2, <1>3, <1>5, <2>5, <2>6, <2>7, ZenonT(30) DEF TypeOK
  <2>9. TxOK' /\ RxOK'
    BY <1>1, <1>2, <2>5, <2>6, TxSignal, RxFrame, Zenon
  <2>10. ConsoleOK' /\ MessagesUnmixed'
    BY <1>1, <1>2, <2>6, ConsoleHandler, Zenon
  <2>11. OutputInOrder'
    <3> DEFINE C == Contents(g)
    <3>1. C \in Seq(Chars) /\ <<Handler>> \in Seq(Chars)
      BY <1>1, <1>4, <2>3, ContentsValue
    <3>2. log' = Append(sent' \o C, Handler) /\ Contents(txq') = Append(C, Handler)
      BY <1>2, <2>1, <2>4, <2>5, Zenon
    <3> HIDE DEF C
    <3>3. sent' \o C \in Seq(Chars) /\ (sent' \o C) \o <<Handler>> = sent' \o (C \o <<Handler>>)
      BY SMTT(30), <2>7, <3>1, ConcatProperties, ConcatAssociative
    <3>4. /\ Append(sent' \o C, Handler) = (sent' \o C) \o <<Handler>>
          /\ Append(C, Handler) = C \o <<Handler>>
      BY Zenon, <1>4, <3>1, <3>3, AppendIsConcat
    <3> QED
      BY <3>2, <3>3, <3>4, Zenon DEF OutputInOrder
  <2>12. InterruptsEnabled'
    BY <1>2, Enabled, Zenon
  <2> QED
    BY <2>8, <2>9, <2>10, <2>11, <2>12, Zenon DEF Inv
<1>7. CASE ~intq_full(txq)
  <2>1. /\ txq' = intq_putc(txq, Handler) /\ sent' = sent /\ pc' = pc
    BY <1>7, Zenon DEF IntrPutc
  <2>2. /\ txq' \in Queue /\ txq'.lock = txq.lock /\ txq'.not_full = txq.not_full
        /\ Contents(txq') = Append(Contents(txq), Handler)
    BY <1>1, <1>4, <1>7, <2>1, PutEffect, Zenon
  <2>3. TypeOK'
    BY <1>1, <1>2, <1>3, <1>5, <2>1, <2>2, Zenon DEF TypeOK
  <2>4. TxOK' /\ RxOK'
    BY <1>1, <1>2, <1>7, <2>1, <2>2, TxHandler, RxFrame, Zenon
  <2>5. ConsoleOK' /\ MessagesUnmixed'
    BY <1>1, <1>2, <2>1, ConsoleHandler, Zenon
  <2>6. OutputInOrder'
    BY <1>1, <1>2, <1>4, <2>1, <2>2, OrderPut, Zenon
  <2>7. InterruptsEnabled'
    BY <1>2, Enabled, Zenon
  <2> QED
    BY <2>3, <2>4, <2>5, <2>6, <2>7, Zenon DEF Inv
<1> QED
  BY <1>6, <1>7, Zenon

\* serial_flush empties the queue into the UART.
LEMMA FlushInv ==
  ASSUME ConsoleAssumption, Inv, serial_flush
  PROVE  Inv'
<1>1. /\ IntqAssumption /\ TypeOK /\ TxOK /\ RxOK /\ ConsoleOK
      /\ MessagesUnmixed /\ OutputInOrder /\ InterruptsEnabled
  BY Zenon DEF Inv, ConsoleAssumption
<1>2. /\ ~intq_empty(txq) /\ sent' = sent \o Contents(txq)
      /\ txq' = [txq EXCEPT !.tail = txq.head, !.not_full = NULL]
      /\ pc' = signal({txq.not_full}) /\ ier' = ier /\ log' = log
      /\ mode' = mode /\ buffer' = buffer /\ UNCHANGED consoleVars
  BY Zenon DEF serial_flush
<1>3. /\ rest' = rest /\ printed' = printed /\ console_lock_depth' = console_lock_depth
  BY <1>2, Zenon DEF consoleVars
<1>4. txq \in Queue /\ sent \in Seq(Chars) /\ log \in Seq(Chars)
  BY <1>1, Zenon DEF TypeOK
<1>5. /\ txq' \in Queue /\ txq'.lock = txq.lock /\ txq'.not_full = NULL
      /\ txq'.head = txq'.tail
  BY ZenonT(30), <1>2, <1>4 DEF Queue
<1>6. mode = "QUEUE"
  BY <1>1, <1>2, Zenon DEF TxOK
<1>7. /\ pc' \in [Threads -> {"idle", "print", "wait", "woken"}]
      /\ \A t \in Writers : pc'[t] = IF t = txq.not_full THEN "woken" ELSE pc[t]
      /\ \A t \in Readers : pc'[t] = pc[t]
      /\ \A t \in Writers : pc'[t] = "idle" <=> pc[t] = "idle"
  <2>1. \A t \in Threads : t # NULL
    BY Zenon DEF ConsoleAssumption
  <2>2. \A t \in Threads : t \in {txq.not_full} <=> (t = txq.not_full \/ t = NULL)
    BY <2>1, Zenon
  <2>3. \A t \in Readers : t \in Threads
    BY Zenon DEF Threads
  <2>4. /\ pc' \in [Threads -> {"idle", "print", "wait", "woken"}]
        /\ \A t \in Writers : pc'[t] = IF t = txq.not_full THEN "woken" ELSE pc[t]
        /\ \A t \in Readers : pc'[t] = IF t = NULL THEN "woken" ELSE pc[t]
        /\ \A t \in Writers : pc'[t] = "idle" <=> pc[t] = "idle"
    BY <1>1, <1>2, <2>2, SignalEffect, Zenon
  <2> QED
    BY <2>1, <2>3, <2>4, Zenon
<1>8. /\ sent' = log /\ sent' \in Seq(Chars)
  BY <1>1, <1>2, <1>4, Zenon DEF OutputInOrder
<1>9. TypeOK'
  BY <1>1, <1>2, <1>3, <1>5, <1>7, <1>8, Zenon DEF TypeOK
<1>10. TxOK' /\ RxOK'
  BY <1>1, <1>2, <1>5, <1>6, <1>7, TxSignal, RxFrame, Zenon
<1>11. ConsoleOK' /\ MessagesUnmixed'
  BY <1>1, <1>2, <1>7, ConsoleFrame, Zenon
<1>12. OutputInOrder'
  <2>1. intq_empty(txq')
    BY <1>5, Zenon DEF intq_empty
  <2>2. Contents(txq') = <<>>
    BY <1>1, <1>5, <2>1, EmptyContents, Zenon
  <2>3. sent' \o <<>> = sent'
    BY Zenon, <1>8, ConcatEmptySeq
  <2> QED
    BY <1>2, <1>8, <2>2, <2>3, Zenon DEF OutputInOrder
<1>13. InterruptsEnabled'
  BY <1>1, <1>2, <1>5, Zenon DEF InterruptsEnabled, intq_empty
<1> QED
  BY <1>9, <1>10, <1>11, <1>12, <1>13, Zenon DEF Inv

\* input_getc, entered by a reader or resumed after a sleep.
LEMMA GetcInv ==
  ASSUME ConsoleAssumption, Inv, NEW t \in Readers, input_getc(t)
  PROVE  Inv'
<1>1. /\ IntqAssumption /\ TypeOK /\ TxOK /\ RxOK /\ ConsoleOK
      /\ MessagesUnmixed /\ OutputInOrder /\ InterruptsEnabled
  BY Zenon DEF Inv, ConsoleAssumption
<1>2. /\ ier' = (IF pc'[t] = "wait" THEN ier ELSE Notified(txq, buffer'))
      /\ mode' = mode /\ txq' = txq /\ log' = log /\ sent' = sent
      /\ UNCHANGED consoleVars
  BY Zenon DEF input_getc
<1>3. /\ rest' = rest /\ printed' = printed /\ console_lock_depth' = console_lock_depth
  BY <1>2, Zenon DEF consoleVars
<1>4. /\ buffer \in Queue /\ pc \in [Threads -> {"idle", "print", "wait", "woken"}]
      /\ t \in Threads
  BY <1>1, Zenon DEF TypeOK, Threads
<1>5. \A u \in Writers : u \in Threads /\ u # t
  BY Zenon DEF ConsoleAssumption, Threads
<1>6. PICK q : /\ \/ q = buffer /\ pc[t] = "idle"
                  \/ q = Unlocked(buffer) /\ pc[t] = "woken"
               /\ GetcLoop(t, q)
  BY Zenon DEF input_getc
<1>7. /\ q \in Queue /\ intq_full(q) = intq_full(buffer)
      /\ intq_empty(q) = intq_empty(buffer) /\ q.not_empty = buffer.not_empty
      /\ q.lock = IF pc[t] = "woken" THEN NULL ELSE buffer.lock
      /\ pc[t] \in {"idle", "woken"}
  <2>1. CASE q = buffer /\ pc[t] = "idle"
    BY Zenon, <1>4, <2>1
  <2>2. CASE q = Unlocked(buffer) /\ pc[t] = "woken"
    BY <1>1, <1>4, <2>2, LockEffect, Zenon
  <2> QED
    BY <1>6, <2>1, <2>2, Zenon
<1>8. CASE intq_empty(q)
  <2>1. /\ q.lock = NULL /\ buffer' = wait_not_empty(q, t)
        /\ pc' = [pc EXCEPT ![t] = "wait"]
    BY <1>6, <1>8, Zenon DEF GetcLoop
  <2>2. /\ buffer' \in Queue /\ buffer'.lock = t /\ buffer'.not_empty = t
        /\ intq_full(buffer') = intq_full(q) /\ intq_empty(buffer') = intq_empty(q)
    BY <1>1, <1>4, <1>7, <2>1, LockEffect, Zenon
  <2>3. /\ pc' \in [Threads -> {"idle", "print", "wait", "woken"}] /\ pc'[t] = "wait"
        /\ \A u \in Threads : u # t => pc'[u] = pc[u]
    BY Zenon, <1>4, <2>1
  <2>4. TypeOK'
    BY <1>1, <1>2, <1>3, <2>2, <2>3, Zenon DEF TypeOK
  <2>5. RxOK'
    <3>1. intq_empty(buffer')
      BY Zenon, <1>8, <2>2
    <3> QED
      BY <1>1, <1>7, <2>1, <2>2, <3>1, RxSleep, Zenon
  <2>6. TxOK' /\ ConsoleOK' /\ MessagesUnmixed'
    BY <1>1, <1>2, <1>5, <2>3, TxFrame, ConsoleFrame, Zenon
  <2>7. OutputInOrder'
    BY <1>1, <1>2, Zenon DEF OutputInOrder
  <2>8. InterruptsEnabled'
    BY <1>1, <1>2, <1>7, <2>2, <2>3, Zenon DEF InterruptsEnabled
  <2> QED
    BY <2>4, <2>5, <2>6, <2>7, <2>8, Zenon DEF Inv
<1>9. CASE ~intq_empty(q)
  <2>1. buffer' = intq_getc(q) /\ pc' = [pc EXCEPT ![t] = "idle"]
    BY <1>6, <1>9, Zenon DEF GetcLoop
  <2>2. /\ buffer' \in Queue /\ buffer'.lock = q.lock
        /\ buffer'.not_empty = q.not_empty
    BY <1>1, <1>7, <1>9, <2>1, GetEffect, Zenon
  <2>3. /\ pc' \in [Threads -> {"idle", "print", "wait", "woken"}] /\ pc'[t] = "idle"
        /\ \A u \in Threads : u # t => pc'[u] = pc[u]
    BY Zenon, <1>4, <2>1
  <2>4. TypeOK'
    BY <1>1, <1>2, <1>3, <2>2, <2>3, Zenon DEF TypeOK
  <2>5. RxOK'
    BY <1>1, <1>7, <1>9, <2>1, <2>2, RxTake, Zenon
  <2>6. TxOK' /\ ConsoleOK' /\ MessagesUnmixed'
    BY <1>1, <1>2, <1>5, <2>3, TxFrame, ConsoleFrame, Zenon
  <2>7. OutputInOrder'
    BY <1>1, <1>2, Zenon DEF OutputInOrder
  <2>8. InterruptsEnabled'
    <3>1. CASE mode = "QUEUE"
      <4>1. ier' = write_ier(txq', buffer')
        BY Zenon, <1>2, <2>3, <3>1 DEF Notified
      <4> QED
        BY <4>1, Enabled, Zenon
    <3>2. CASE mode # "QUEUE"
      BY <1>2, <3>2, Zenon DEF InterruptsEnabled
    <3> QED
      BY <3>1, <3>2, Zenon
  <2> QED
    BY <2>4, <2>5, <2>6, <2>7, <2>8, Zenon DEF Inv
<1> QED
  BY <1>8, <1>9, Zenon

\* A key that is a character.
LEMMA KeyboardInv ==
  ASSUME ConsoleAssumption, Inv, keyboard_interrupt
  PROVE  Inv'
<1>1. /\ IntqAssumption /\ TypeOK /\ TxOK /\ RxOK /\ ConsoleOK
      /\ MessagesUnmixed /\ OutputInOrder /\ InterruptsEnabled
  BY Zenon DEF Inv, ConsoleAssumption
<1>2. /\ ~intq_full(buffer) /\ buffer' = intq_putc(buffer, NULL)
      /\ ier' = Notified(txq, buffer') /\ pc' = signal({buffer.not_empty})
      /\ mode' = mode /\ txq' = txq /\ log' = log /\ sent' = sent
      /\ UNCHANGED consoleVars
  BY Zenon DEF keyboard_interrupt, input_full
<1>3. /\ rest' = rest /\ printed' = printed /\ console_lock_depth' = console_lock_depth
  BY <1>2, Zenon DEF consoleVars
<1>4. buffer \in Queue /\ NULL \in Chars
  BY <1>1, Zenon DEF TypeOK, Chars
<1>5. buffer' \in Queue /\ buffer'.lock = buffer.lock /\ buffer'.not_empty = NULL
  BY <1>1, <1>2, <1>4, PutEffect, Zenon
<1>6. /\ pc' \in [Threads -> {"idle", "print", "wait", "woken"}]
      /\ \A t \in Writers : pc'[t] = pc[t]
      /\ \A t \in Readers : pc'[t] = IF t = buffer.not_empty THEN "woken" ELSE pc[t]
  <2>1. \A t \in Threads : t # NULL
    BY Zenon DEF ConsoleAssumption
  <2>2. \A t \in Threads : t \in {buffer.not_empty} <=> (t = NULL \/ t = buffer.not_empty)
    BY <2>1, Zenon
  <2>3. \A t \in Writers : t \in Threads
    BY Zenon DEF Threads
  <2>4. /\ pc' \in [Threads -> {"idle", "print", "wait", "woken"}]
        /\ \A t \in Writers : pc'[t] = IF t = NULL THEN "woken" ELSE pc[t]
        /\ \A t \in Readers : pc'[t] = IF t = buffer.not_empty THEN "woken" ELSE pc[t]
    BY <1>1, <1>2, <2>2, SignalEffect, ZenonT(30)
  <2> QED
    BY <2>1, <2>3, <2>4, Zenon
<1>7. TypeOK'
  BY <1>1, <1>2, <1>3, <1>5, <1>6, Zenon DEF TypeOK
<1>8. TxOK' /\ RxOK' /\ ConsoleOK' /\ MessagesUnmixed'
  BY <1>1, <1>2, <1>5, <1>6, TxFrame, RxSignal, ConsoleFrame, ZenonT(30)
<1>9. OutputInOrder'
  BY <1>1, <1>2, Zenon DEF OutputInOrder
<1>10. InterruptsEnabled'
  <2>1. CASE mode = "QUEUE"
    <3>1. ier' = write_ier(txq', buffer')
      BY <1>2, <2>1, Zenon DEF Notified
    <3> QED
      BY <3>1, Enabled, Zenon
  <2>2. CASE mode # "QUEUE"
    BY <1>2, <2>2, Zenon DEF InterruptsEnabled
  <2> QED
    BY <2>1, <2>2, Zenon
<1> QED
  BY <1>7, <1>8, <1>9, <1>10, Zenon DEF Inv

\* The serial port's interrupt, which may receive, send or do both.
LEMMA SerialInv ==
  ASSUME ConsoleAssumption, Inv, serial_interrupt
  PROVE  Inv'
<1> DEFINE receive == rbr /\ ~intq_full(buffer)
           send == ~thr /\ ~intq_empty(txq)
           r == IF receive THEN buffer.not_empty ELSE NULL
           w == IF send THEN txq.not_full ELSE NULL
<1>1. /\ IntqAssumption /\ TypeOK /\ TxOK /\ RxOK /\ ConsoleOK
      /\ MessagesUnmixed /\ OutputInOrder /\ InterruptsEnabled
  BY Zenon DEF Inv, ConsoleAssumption
<1>2. /\ mode = "QUEUE" /\ mode' = mode /\ log' = log /\ UNCHANGED consoleVars
      /\ buffer' = (IF receive THEN intq_putc(buffer, NULL) ELSE buffer)
      /\ txq' = (IF send THEN intq_getc(txq) ELSE txq)
      /\ sent' = (IF send THEN Append(sent, FirstByte(txq)) ELSE sent)
      /\ ier' = write_ier(txq', buffer')
      /\ pc' = signal({r, w})
  BY Zenon DEF serial_interrupt, input_full
<1>3. /\ rest' = rest /\ printed' = printed /\ console_lock_depth' = console_lock_depth
  BY <1>2, Zenon DEF consoleVars
<1>4. /\ buffer \in Queue /\ txq \in Queue /\ NULL \in Chars /\ sent \in Seq(Chars)
  BY <1>1, Zenon DEF TypeOK, Chars
<1>5. /\ pc' \in [Threads -> {"idle", "print", "wait", "woken"}]
      /\ \A t \in Writers : pc'[t] = IF t = w THEN "woken" ELSE pc[t]
      /\ \A t \in Readers : pc'[t] = IF t = r THEN "woken" ELSE pc[t]
      /\ \A t \in Writers : pc'[t] = "idle" <=> pc[t] = "idle"
  <2>1. w \in {NULL, txq.not_full} /\ r \in {NULL, buffer.not_empty}
    BY Zenon
  <2> HIDE DEF w, r
  <2>2. \A t \in Threads : t \in {r, w} <=> (t = w \/ t = r)
    BY Zenon
  <2> QED
    BY <1>1, <1>2, <2>1, <2>2, SignalEffect, ZenonT(90)
<1>6. \A t \in Threads : t # NULL
  BY Zenon DEF ConsoleAssumption
<1>7. buffer' \in Queue /\ RxOK'
  <2>1. CASE receive
    <3>1. buffer' \in Queue /\ buffer'.lock = buffer.lock /\ buffer'.not_empty = NULL
      BY <1>1, <1>2, <1>4, <2>1, PutEffect, Zenon
    <3>2. r = buffer.not_empty
      BY <2>1, Zenon
    <3> HIDE DEF r
    <3> QED
      BY <1>1, <1>5, <3>1, <3>2, RxSignal, Zenon
  <2>2. CASE ~receive
    <3>1. buffer' = buffer /\ r = NULL
      BY <1>2, <2>2, Zenon
    <3> HIDE DEF r
    <3>2. \A t \in Readers : pc'[t] = pc[t]
      BY <1>5, <1>6, <3>1, Zenon DEF Threads
    <3> QED
      BY <1>1, <1>4, <3>1, <3>2, RxFrame, Zenon
  <2> QED
    BY <2>1, <2>2, Zenon
<1>8. txq' \in Queue /\ TxOK' /\ sent' \in Seq(Chars) /\ OutputInOrder'
  <2>1. CASE send
    <3>1. /\ txq' \in Queue /\ txq'.lock = txq.lock /\ txq'.not_full = NULL
          /\ FirstByte(txq) \in Chars
      BY <1>1, <1>2, <1>4, <2>1, GetEffect, Zenon
    <3>2. sent' = Append(sent, FirstByte(txq)) /\ txq' = intq_getc(txq)
      BY <1>2, <2>1, Zenon
    <3>3. sent' \in Seq(Chars)
      BY Zenon, <1>4, <3>1, <3>2, AppendProperties
    <3>4. OutputInOrder'
      BY <1>1, <1>2, <2>1, <3>2, OrderGet, Zenon DEF OutputInOrder
    <3>5. w = txq.not_full
      BY <2>1, Zenon
    <3> HIDE DEF w
    <3>6. TxOK'
      BY <1>1, <1>2, <1>5, <3>1, <3>5, TxSignal, ZenonT(30)
    <3> QED
      BY <3>1, <3>3, <3>4, <3>6, Zenon
  <2>2. CASE ~send
    <3>1. txq' = txq /\ w = NULL /\ sent' = sent
      BY <1>2, <2>2, Zenon
    <3> HIDE DEF w
    <3>2. \A t \in Writers : pc'[t] = pc[t]
      BY <1>5, <1>6, <3>1, Zenon DEF Threads
    <3>3. TxOK'
      BY <1>1, <1>2, <3>1, <3>2, TxFrame, Zenon
    <3> QED
      BY <1>1, <1>2, <1>4, <3>1, <3>3, Zenon DEF OutputInOrder
  <2> QED
    BY <2>1, <2>2, Zenon
<1> HIDE DEF r, w, send, receive
<1>9. TypeOK'
  BY <1>1, <1>2, <1>3, <1>5, <1>7, <1>8, Zenon DEF TypeOK
<1>10. ConsoleOK' /\ MessagesUnmixed'
  BY <1>1, <1>2, <1>5, ConsoleFrame, Zenon
<1>11. InterruptsEnabled'
  BY <1>2, Enabled, Zenon
<1> QED
  BY <1>7, <1>8, <1>9, <1>10, <1>11, Zenon DEF Inv

\* The steps that touch neither queue nor thread.
LEMMA DeviceInv ==
  ASSUME Inv, serial_init_queue \/ TransmitDone \/ Receive \/ UNCHANGED vars
  PROVE  Inv'
<1>1. /\ TypeOK /\ TxOK /\ RxOK /\ ConsoleOK
      /\ MessagesUnmixed /\ OutputInOrder /\ InterruptsEnabled
  BY Zenon DEF Inv
<1>2. /\ txq' = txq /\ buffer' = buffer /\ log' = log /\ sent' = sent /\ pc' = pc
      /\ UNCHANGED consoleVars
      /\ \/ mode' = mode /\ ier' = ier
         \/ mode # "QUEUE" /\ mode' = "QUEUE" /\ ier' = write_ier(txq', buffer')
  <2>1. CASE serial_init_queue
    BY Zenon, <2>1 DEF serial_init_queue
  <2>2. CASE TransmitDone \/ Receive
    BY <2>2, Zenon DEF TransmitDone, Receive
  <2>3. CASE UNCHANGED vars
    BY <2>3, Zenon DEF vars, serialVars
  <2> QED
    BY <2>1, <2>2, <2>3, Zenon
<1>3. /\ rest' = rest /\ printed' = printed /\ console_lock_depth' = console_lock_depth
  BY <1>2, Zenon DEF consoleVars
<1>4. TypeOK'
  BY <1>1, <1>2, <1>3, Zenon DEF TypeOK
<1>5. TxOK' /\ RxOK' /\ ConsoleOK' /\ MessagesUnmixed'
  BY <1>1, <1>2, TxFrame, RxFrame, ConsoleFrame, Zenon
<1>6. OutputInOrder'
  BY <1>1, <1>2, Zenon DEF OutputInOrder
<1>7. InterruptsEnabled'
  BY <1>1, <1>2, Enabled, Zenon DEF InterruptsEnabled
<1> QED
  BY <1>4, <1>5, <1>6, <1>7, Zenon DEF Inv

\* Both queues are empty and nobody prints when the machine starts.
LEMMA InitInv ==
  ASSUME ConsoleAssumption, Init
  PROVE  Inv
<1> DEFINE q == intq_init(NULL)
<1>1. /\ IntqAssumption /\ NULL \in Chars /\ 0 \in Slots
      /\ MessageLength \in Seq(Nat)
  BY DEF ConsoleAssumption, IntqAssumption, Chars, Slots
<1>2. /\ mode = "UNINIT" /\ txq = q /\ buffer = q /\ ier = {}
      /\ console_lock = NULL /\ console_lock_depth = 0
      /\ pc = [t \in Threads |-> "idle"]
      /\ rest = [t \in Writers |-> <<>>] /\ printed = [t \in Writers |-> 0]
      /\ log = <<>> /\ sent = <<>>
  BY Zenon DEF Init
<1>3. /\ q \in Queue /\ q.not_full = NULL /\ q.not_empty = NULL /\ q.head = q.tail
  BY Zenon, <1>1 DEF intq_init, Queue
<1> HIDE DEF q
<1>4. /\ \A t \in Writers : pc[t] = "idle" /\ rest[t] = <<>> /\ printed[t] = 0
      /\ \A t \in Readers : pc[t] = "idle"
  BY Zenon, <1>2 DEF Threads
<1>5. Len(<<>>) = 0 /\ Len(MessageLength) \in Nat
  BY Zenon, <1>1, EmptySeq, LenProperties
<1>6. TypeOK
  <2>1. /\ pc \in [Threads -> {"idle", "print", "wait", "woken"}]
        /\ printed \in [Writers -> Nat]
    BY Zenon, <1>2
  <2>2. /\ rest \in [Writers -> Seq(Int)] /\ log \in Seq(Chars) /\ sent \in Seq(Chars)
    BY Zenon, <1>2, EmptySeq
  <2>3. mode \in {"UNINIT", "POLL", "QUEUE"} /\ console_lock_depth \in Nat
    BY Zenon, <1>2
  <2> QED
    BY <1>2, <1>3, <2>1, <2>2, <2>3, Zenon DEF TypeOK
<1>7. TxOK /\ RxOK
  <2>1. \A t \in Writers \cup Readers : pc[t] \notin {"wait", "woken"} /\ pc[t] # "wait"
    BY Zenon, <1>4
  <2> QED
    BY <1>2, <1>3, <2>1, Zenon DEF TxOK, RxOK, intq_empty
<1>8. ConsoleOK
  <2>1. 0 <= Len(MessageLength) /\ 0 <= 0 /\ ~(\E i \in 1 .. 0 : TRUE)
    BY <1>5
  <2> QED
    BY <1>2, <1>4, <1>5, <2>1, Zenon DEF ConsoleOK
<1>9. MessagesUnmixed
  BY <1>4, Zenon DEF MessagesUnmixed
<1>10. OutputInOrder
  <2>1. intq_empty(txq) /\ txq \in Queue
    BY <1>2, <1>3, Zenon DEF intq_empty
  <2>2. Contents(txq) = <<>>
    BY <1>1, <2>1, EmptyContents, Zenon
  <2>3. <<>> \o <<>> = <<>>
    BY Zenon, ConcatEmptySeq, EmptySeq
  <2> QED
    BY <1>2, <2>2, <2>3, Zenon DEF OutputInOrder
<1>11. InterruptsEnabled
  BY Zenon, <1>2 DEF InterruptsEnabled
<1> QED
  BY <1>6, <1>7, <1>8, <1>9, <1>10, <1>11, ZenonT(30) DEF Inv

\* The inductive invariant, for any number of writers and readers and any size
\* of the queues.
THEOREM Invariance ==
  ASSUME ConsoleAssumption
  PROVE  Spec => []Inv
<1>1. Init => Inv
  BY InitInv, Zenon
<1>2. Inv /\ [Next]_vars => Inv'
  <2> SUFFICES ASSUME Inv, [Next]_vars PROVE Inv'
    BY Zenon
  <2>1. ASSUME NEW t \in Writers, PrintStart(t) \/ WriterStep(t) PROVE Inv'
    BY <2>1, MessageInv, WriteInv, Zenon DEF WriterStep
  <2>2. ASSUME NEW t \in Readers, input_getc(t) PROVE Inv'
    BY <2>2, GetcInv, Zenon
  <2>3. CASE IntrPutc \/ serial_flush
    BY <2>3, IntrPutcInv, FlushInv, Zenon
  <2>4. CASE keyboard_interrupt \/ serial_interrupt
    BY <2>4, KeyboardInv, SerialInv, Zenon
  <2>5. CASE serial_init_queue \/ TransmitDone \/ Receive \/ UNCHANGED vars
    BY <2>5, DeviceInv, Zenon
  <2> QED
    BY <2>1, <2>2, <2>3, <2>4, <2>5, Zenon DEF Next
<1> QED
  BY <1>1, <1>2, PTL DEF Spec

\* What serial_putc took and the UART has not is in the queue, in order,
\* whichever of handler, flush and writers moves characters.
THEOREM OutputStaysInOrder ==
  ASSUME ConsoleAssumption
  PROVE  Spec => []OutputInOrder
<1>1. Inv => OutputInOrder
  BY Zenon DEF Inv
<1> QED
  BY <1>1, Invariance, PTL

\* console_lock keeps the messages of two threads apart, nested messages
\* included: nothing of another thread comes between two characters of the
\* thread that has not let go of the console.
THEOREM MessagesStayUnmixed ==
  ASSUME ConsoleAssumption
  PROVE  Spec => []MessagesUnmixed
<1>1. Inv => MessagesUnmixed
  BY Zenon DEF Inv
<1> QED
  BY <1>1, Invariance, PTL

\* No sleeper of a queue is forgotten, and the UART may interrupt whenever it
\* could do something.
THEOREM WakeupsStayComing ==
  ASSUME ConsoleAssumption
  PROVE  Spec => []WakeupsComing
<1>1. Inv => WakeupsComing
  BY Zenon DEF Inv, WakeupsComing, NoSleeperForgotten, TxOK, RxOK
<1> QED
  BY <1>1, Invariance, PTL
=============================================================================
