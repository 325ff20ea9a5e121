-------------------------------- MODULE Intq --------------------------------
(***************************************************************************)
(* The interrupt queue of devices/intq.c: a ring of bytes between threads  *)
(* and interrupt handlers.  All its code runs with interrupts off, so each *)
(* operator is what happens between two points where a thread may sleep.   *)
(***************************************************************************)
EXTENDS Naturals, Sequences

CONSTANTS
  INTQ_BUFSIZE,     \* slots of the ring
  NULL

IntqAssumption == INTQ_BUFSIZE \in Nat \ {0, 1}

Slots == 0 .. INTQ_BUFSIZE - 1

intq_init(byte) ==
  [buf |-> [i \in Slots |-> byte], head |-> 0, tail |-> 0,
   lock |-> NULL, not_full |-> NULL, not_empty |-> NULL]

next(pos) == (pos + 1) % INTQ_BUFSIZE

intq_empty(q) == q.head = q.tail

intq_full(q) == next(q.head) = q.tail

\* The byte intq_getc returns, and the queue after it has signalled not_full.
FirstByte(q) == q.buf[q.tail]

intq_getc(q) == [q EXCEPT !.tail = next(@), !.not_full = NULL]

\* The queue after intq_putc has stored byte and signalled not_empty.
intq_putc(q, byte) ==
  [q EXCEPT !.buf[q.head] = byte, !.head = next(@), !.not_empty = NULL]

\* wait: t holds the queue's lock and sleeps on the given condition.
wait_not_full(q, t) == [q EXCEPT !.lock = t, !.not_full = t]

wait_not_empty(q, t) == [q EXCEPT !.lock = t, !.not_empty = t]

Unlocked(q) == [q EXCEPT !.lock = NULL]

\* The bytes in the queue, oldest first.
Contents(q) ==
  LET n == (q.head + INTQ_BUFSIZE - q.tail) % INTQ_BUFSIZE
  IN  [i \in 1 .. n |-> q.buf[(q.tail + i - 1) % INTQ_BUFSIZE]]
=============================================================================
