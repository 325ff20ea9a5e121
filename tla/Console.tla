------------------------------ MODULE Console ------------------------------
(***************************************************************************)
(* The character devices: the console of lib/kernel/console.c, the serial  *)
(* port of devices/serial.c and the input buffer of devices/input.c, with  *)
(* the queues of Intq between their threads and their interrupt handlers.  *)
(*                                                                         *)
(* What runs with interrupts off is one step, up to a point where the      *)
(* thread sleeps in an interrupt queue.  The UART is external; a step of   *)
(* it finishes a transmission or delivers a byte.  A character on the      *)
(* console is identified by who wrote it.                                  *)
(***************************************************************************)
EXTENDS Intq, Integers

CONSTANTS
  Writers,          \* threads that print
  Readers,          \* threads that call input_getc
  Handler,          \* an interrupt handler that prints
  MessageLength,    \* characters of a writer's messages, the first the outermost
  MaxIntrOutput     \* bound on the characters printed by handlers

VARIABLES
  mode,             \* of the serial port: UNINIT, POLL, QUEUE
  txq, buffer,      \* queue of the transmitter, input buffer
  ier,              \* interrupts the UART may raise
  thr, rbr,         \* transmitter busy, received byte waiting
  console_lock, console_lock_depth,
  pc,               \* [thread -> where it is]
  rest,             \* [writer -> characters left of each message it is in]
  printed,          \* [writer -> messages it has begun]
  log,              \* characters in the order serial_putc took them
  sent              \* characters in the order the UART took them

serialVars == <<mode, txq, buffer, ier, thr, rbr, log, sent>>
consoleVars == <<console_lock, console_lock_depth, rest, printed>>
vars == <<serialVars, consoleVars, pc>>

Threads == Writers \cup Readers

ConsoleAssumption ==
  /\ IntqAssumption
  /\ Writers \cap Readers = {} /\ {NULL, Handler} \cap Threads = {}
  /\ MessageLength \in Seq(Nat) \ {<<>>}

Init ==
  /\ mode = "UNINIT"
  /\ txq = intq_init(NULL) /\ buffer = intq_init(NULL)
  /\ ier = {} /\ thr = FALSE /\ rbr = FALSE
  /\ console_lock = NULL /\ console_lock_depth = 0
  /\ pc = [t \in Threads |-> "idle"]
  /\ rest = [t \in Writers |-> <<>>]
  /\ printed = [t \in Writers |-> 0]
  /\ log = <<>> /\ sent = <<>>

input_full == intq_full(buffer)

\* The interrupts write_ier enables, for a transmit queue and input buffer.
write_ier(tx, in) ==
  (IF intq_empty(tx) THEN {} ELSE {"xmit"})
    \cup (IF intq_full(in) THEN {} ELSE {"recv"})

\* serial_notify
Notified(tx, in) == IF mode = "QUEUE" THEN write_ier(tx, in) ELSE ier

\* Fault: the waiting thread is forgotten and not unblocked.
signal_forgets(waiters) == pc

\* What signal does to the threads that wait for a queue's condition.
signal(waiters) ==
  [t \in Threads |-> IF t \in waiters THEN "woken" ELSE pc[t]]

-----------------------------------------------------------------------------
(* Output                                                                  *)

\* The loop of intq_putc at its top, for the transmit queue as the thread sees
\* it there: store the character, or sleep until there is room.  Only the
\* thread with the console prints, so the lock of the queue is free.
PutcLoop(t, q) ==
  IF intq_full(q)
  THEN /\ q.lock = NULL
       /\ txq' = wait_not_full(q, t)
       /\ pc' = [pc EXCEPT ![t] = "wait"]
       /\ UNCHANGED <<ier, log, rest>>
  ELSE /\ txq' = intq_putc(q, t)
       /\ ier' = write_ier(txq', buffer)
       /\ log' = Append(log, t)
       /\ pc' = [pc EXCEPT ![t] = "print"]
       /\ rest' = [rest EXCEPT ![t][Len(rest[t])] = @ - 1]

\* putc_poll waits for the transmitter and hands it the character.
putc_poll(c) == sent' = Append(sent, c) /\ thr' = TRUE

\* putchar_have_lock by a thread, with interrupts on.
putchar_have_lock(t) ==
  /\ pc[t] = "print"
  /\ rest[t][Len(rest[t])] > 0
  /\ \/ /\ mode = "QUEUE"
        /\ PutcLoop(t, txq)
        /\ UNCHANGED <<mode, thr, sent>>
     \/ /\ mode # "QUEUE"
        /\ mode' = "POLL"
        /\ putc_poll(t)
        /\ log' = Append(log, t)
        /\ rest' = [rest EXCEPT ![t][Len(rest[t])] = @ - 1]
        /\ UNCHANGED <<txq, ier, pc>>
  /\ UNCHANGED <<buffer, rbr, console_lock, console_lock_depth, printed>>

\* A thread woken in intq_putc releases the queue's lock and looks again.
Resume(t) ==
  /\ pc[t] = "woken"
  /\ PutcLoop(t, Unlocked(txq))
  /\ UNCHANGED <<mode, buffer, thr, rbr, sent, console_lock,
                 console_lock_depth, printed>>

acquire_console(t) ==
  IF console_lock = t
  THEN /\ console_lock_depth' = console_lock_depth + 1
       /\ UNCHANGED console_lock
  ELSE /\ console_lock = NULL
       /\ console_lock' = t
       /\ UNCHANGED console_lock_depth

\* Fault: the lock is released at the end of an inner message.
release_console_flat(t) ==
  /\ console_lock' = NULL
  /\ console_lock_depth' = 0

release_console(t) ==
  IF console_lock_depth > 0
  THEN /\ console_lock_depth' = console_lock_depth - 1
       /\ UNCHANGED console_lock
  ELSE /\ console_lock' = NULL
       /\ UNCHANGED console_lock_depth

\* vprintf, puts, putbuf and putchar: a message of its own, or one printed by
\* what interrupted the thread in the middle of another.
PrintStart(t) ==
  /\ \/ pc[t] = "idle" /\ printed[t] = 0
     \/ pc[t] = "print" /\ printed[t] \in 1 .. Len(MessageLength) - 1
  /\ acquire_console(t)
  /\ pc' = [pc EXCEPT ![t] = "print"]
  /\ rest' = [rest EXCEPT ![t] = Append(@, MessageLength[Len(@) + 1])]
  /\ printed' = [printed EXCEPT ![t] = @ + 1]
  /\ UNCHANGED serialVars

PrintEnd(t) ==
  /\ pc[t] = "print"
  /\ rest[t][Len(rest[t])] = 0
  /\ release_console(t)
  /\ pc' = [pc EXCEPT ![t] = IF Len(rest[t]) = 1 THEN "idle" ELSE "print"]
  /\ rest' = [rest EXCEPT ![t] = SubSeq(@, 1, Len(@) - 1)]
  /\ UNCHANGED <<serialVars, printed>>

\* Fault: the new character is sent in place of the oldest.
IntrPutc_overtakes ==
  /\ mode = "QUEUE"
  /\ Len(SelectSeq(log, LAMBDA c : c = Handler)) < MaxIntrOutput
  /\ log' = Append(log, Handler)
  /\ IF intq_full(txq)
     THEN /\ putc_poll(Handler)
          /\ UNCHANGED <<txq, ier, pc>>
     ELSE /\ txq' = intq_putc(txq, Handler)
          /\ ier' = write_ier(txq', buffer)
          /\ UNCHANGED <<sent, thr, pc>>
  /\ UNCHANGED <<mode, buffer, rbr, consoleVars>>

\* serial_putc with interrupts off, from a handler: no lock, and a character
\* of a full queue is sent by polling to make room.
IntrPutc ==
  /\ mode = "QUEUE"
  /\ Len(SelectSeq(log, LAMBDA c : c = Handler)) < MaxIntrOutput
  /\ log' = Append(log, Handler)
  /\ IF intq_full(txq)
     THEN /\ putc_poll(FirstByte(txq))
          /\ txq' = intq_putc(intq_getc(txq), Handler)
          /\ pc' = signal({txq.not_full})
     ELSE /\ txq' = intq_putc(txq, Handler)
          /\ UNCHANGED <<sent, thr, pc>>
  /\ ier' = write_ier(txq', buffer)
  /\ UNCHANGED <<mode, buffer, rbr, consoleVars>>

\* serial_flush, before the machine is turned off or after a panic.
serial_flush ==
  /\ ~intq_empty(txq)
  /\ sent' = sent \o Contents(txq)
  /\ thr' = TRUE
  /\ txq' = [txq EXCEPT !.tail = txq.head, !.not_full = NULL]
  /\ pc' = signal({txq.not_full})
  /\ UNCHANGED <<mode, buffer, ier, rbr, log, consoleVars>>

serial_init_queue ==
  /\ mode \in {"UNINIT", "POLL"}
  /\ mode' = "QUEUE"
  /\ ier' = write_ier(txq, buffer)
  /\ UNCHANGED <<txq, buffer, thr, rbr, log, sent, consoleVars, pc>>

-----------------------------------------------------------------------------
(* Input                                                                   *)

\* The loop of intq_getc for the input buffer as the thread sees it.
GetcLoop(t, q) ==
  IF intq_empty(q)
  THEN /\ q.lock = NULL
       /\ buffer' = wait_not_empty(q, t)
       /\ pc' = [pc EXCEPT ![t] = "wait"]
  ELSE /\ buffer' = intq_getc(q)
       /\ pc' = [pc EXCEPT ![t] = "idle"]

\* Fault: the serial port is not told that there is room again.
input_getc_silent(t) ==
  /\ \/ pc[t] = "idle" /\ GetcLoop(t, buffer)
     \/ pc[t] = "woken" /\ GetcLoop(t, Unlocked(buffer))
  /\ UNCHANGED <<mode, txq, ier, thr, rbr, log, sent, consoleVars>>

input_getc(t) ==
  /\ \/ pc[t] = "idle" /\ GetcLoop(t, buffer)
     \/ pc[t] = "woken" /\ GetcLoop(t, Unlocked(buffer))
  /\ ier' = IF pc'[t] = "wait" THEN ier ELSE Notified(txq, buffer')
  /\ UNCHANGED <<mode, txq, thr, rbr, log, sent, consoleVars>>

\* keyboard_interrupt for a key that is a character.
keyboard_interrupt ==
  /\ ~input_full
  /\ buffer' = intq_putc(buffer, NULL)
  /\ ier' = Notified(txq, buffer')
  /\ pc' = signal({buffer.not_empty})
  /\ UNCHANGED <<mode, txq, thr, rbr, log, sent, consoleVars>>

-----------------------------------------------------------------------------
(* The UART and its interrupt                                              *)

TransmitDone ==
  /\ thr
  /\ thr' = FALSE
  /\ UNCHANGED <<mode, txq, buffer, ier, rbr, log, sent, consoleVars, pc>>

Receive ==
  /\ ~rbr
  /\ rbr' = TRUE
  /\ UNCHANGED <<mode, txq, buffer, ier, thr, log, sent, consoleVars, pc>>

\* serial_interrupt receives while there is a byte and room for it, sends
\* while there is a byte and the transmitter takes it, and enables anew.
serial_interrupt ==
  LET receive == rbr /\ ~input_full
      send    == ~thr /\ ~intq_empty(txq)
      reader  == IF receive THEN buffer.not_empty ELSE NULL
      writer  == IF send THEN txq.not_full ELSE NULL
  IN  /\ mode = "QUEUE"
      /\ ("xmit" \in ier /\ ~thr) \/ ("recv" \in ier /\ rbr)
      /\ buffer' = IF receive THEN intq_putc(buffer, NULL) ELSE buffer
      /\ rbr' = (rbr /\ ~receive)
      /\ txq' = IF send THEN intq_getc(txq) ELSE txq
      /\ thr' = (thr \/ send)
      /\ sent' = IF send THEN Append(sent, FirstByte(txq)) ELSE sent
      /\ ier' = write_ier(txq', buffer')
      /\ pc' = signal({reader, writer})
      /\ UNCHANGED <<mode, log, consoleVars>>

-----------------------------------------------------------------------------
WriterStep(t) ==
  putchar_have_lock(t) \/ Resume(t) \/ PrintEnd(t)

Next ==
  \/ \E t \in Writers : PrintStart(t) \/ WriterStep(t)
  \/ \E t \in Readers : input_getc(t)
  \/ IntrPutc \/ serial_flush \/ serial_init_queue \/ keyboard_interrupt
  \/ TransmitDone \/ Receive \/ serial_interrupt

Spec == Init /\ [][Next]_vars

-----------------------------------------------------------------------------
\* What the serial port was given and has not sent is what its queue holds,
\* in the order it was given, although characters leave the queue through
\* the interrupt handler, through a printing handler and through a flush.
OutputInOrder == log = sent \o Contents(txq)

\* The UART may interrupt whenever it could do something: bytes to send, or
\* room to receive.  Nothing else would start the device again.
InterruptsEnabled ==
  mode = "QUEUE" =>
    /\ ~intq_empty(txq) => "xmit" \in ier
    /\ ~intq_full(buffer) => "recv" \in ier

\* A thread sleeps on a queue only while the queue has no room for its byte,
\* or no byte for it, and then the queue knows it: whoever takes or adds a
\* byte, a handler, a flush or another thread, wakes the sleeper.
NoSleeperForgotten ==
  /\ \A t \in Writers : pc[t] = "wait" => intq_full(txq) /\ txq.not_full = t
  /\ \A t \in Readers : pc[t] = "wait" => intq_empty(buffer) /\ buffer.not_empty = t

\* The two above: neither the UART nor a sleeper is left without the event
\* that makes it go on.
WakeupsComing == InterruptsEnabled /\ NoSleeperForgotten

\* The messages of two threads do not mix on the console, although messages
\* nest within a thread: between two characters of a thread that has not let
\* go of the console there is nothing of another thread.
MessagesUnmixed ==
  \A t \in Writers : rest[t] # <<>> =>
    \A i, j \in 1 .. Len(log) :
      (i < j /\ log[i] = t) => log[j] \in {t, Handler}
=============================================================================
