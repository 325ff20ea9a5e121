------------------------------- MODULE Thread -------------------------------
(***************************************************************************)
(* The uniprocessor thread scheduler of threads/thread.c.                  *)
(*                                                                         *)
(* Every operation of this module runs in the source with interrupts off,  *)
(* from intr_disable() to the end of schedule(), so each one is a single   *)
(* step of the system.  The operators below describe what the operation    *)
(* does to the scheduler's variables; the modules that use the scheduler   *)
(* say when it is called.                                                  *)
(***************************************************************************)
EXTENDS Naturals, Sequences, FiniteSets

CONSTANTS
  Threads,          \* pages a struct thread can live in (idle's excluded)
  initial_thread,   \* the thread that runs main()
  idle_thread,      \* runs when no other thread is ready
  TIME_SLICE        \* timer ticks a thread may run before it is preempted

ASSUME ThreadAssumption ==
  /\ IsFiniteSet(Threads)
  /\ initial_thread \in Threads
  /\ idle_thread \notin Threads
  /\ TIME_SLICE \in Nat \ {0}

VARIABLES
  status,           \* [thread -> thread_status]; FREE: the page is not in use
  ready_list,       \* run queue, oldest first
  running,          \* the thread whose stack the CPU is on
  thread_ticks      \* ticks since the last thread switch

schedVars == <<status, ready_list, running, thread_ticks>>

AllThreads == Threads \cup {idle_thread}

ThreadStatus == {"RUNNING", "READY", "BLOCKED", "DYING", "FREE"}

ThreadTypeOK ==
  /\ status \in [AllThreads -> ThreadStatus]
  /\ ready_list \in Seq(Threads)
  /\ running \in AllThreads
  /\ thread_ticks \in 0 .. TIME_SLICE

\* After thread_start(): idle has run once and blocked itself, and only the
\* initial thread exists besides it.
ThreadInit ==
  /\ status = [t \in AllThreads |-> IF t = initial_thread THEN "RUNNING"
                                    ELSE IF t = idle_thread THEN "BLOCKED"
                                    ELSE "FREE"]
  /\ ready_list = <<>>
  /\ running = initial_thread
  /\ thread_ticks = 0

-----------------------------------------------------------------------------
next_thread_to_run(list) == IF list = <<>> THEN idle_thread ELSE Head(list)

\* What is left in a run queue once next_thread_to_run has popped it.
Popped(list) == IF list = <<>> THEN list ELSE Tail(list)

\* The status function once prev has been switched out and next switched in:
\* next is running, and prev's page is freed if prev was dying.
thread_schedule_tail(st, prev, next) ==
  [t \in AllThreads |->
     IF t = next THEN "RUNNING"
     ELSE IF t = prev /\ st[t] = "DYING" /\ t # initial_thread THEN "FREE"
     ELSE st[t]]

\* The running thread has left the CPU with status s; list is the run queue.
schedule(s, list) ==
  LET next == next_thread_to_run(list)
  IN  /\ status' = thread_schedule_tail([status EXCEPT ![running] = s],
                                        running, next)
      /\ ready_list' = Popped(list)
      /\ running' = next
      /\ thread_ticks' = 0

thread_block == schedule("BLOCKED", ready_list)

\* Fault: list_push_front in place of list_push_back.
thread_yield_lifo ==
  schedule("READY", IF running = idle_thread THEN ready_list
                    ELSE <<running>> \o ready_list)

thread_yield ==
  schedule("READY", IF running = idle_thread THEN ready_list
                    ELSE Append(ready_list, running))

thread_exit == schedule("DYING", ready_list)

thread_unblock(t) ==
  /\ status' = [status EXCEPT ![t] = "READY"]
  /\ ready_list' = Append(ready_list, t)
  /\ UNCHANGED <<running, thread_ticks>>

\* init_thread marks the page it fills in as a blocked thread on no list.
init_thread(t) ==
  /\ status[t] = "FREE"
  /\ status' = [status EXCEPT ![t] = "BLOCKED"]
  /\ UNCHANGED <<ready_list, running, thread_ticks>>

\* The timer interrupt: intr_handler calls thread_yield on return when
\* thread_tick has found the time slice used up.
thread_tick ==
  IF thread_ticks + 1 >= TIME_SLICE
  THEN thread_yield
  ELSE /\ thread_ticks' = thread_ticks + 1
       /\ UNCHANGED <<status, ready_list, running>>

\* One turn of idle's loop: hlt has returned because of an interrupt.
idle == running = idle_thread /\ thread_block

\* Range of a sequence (kept apart from the community module's Range).
Elems(seq) == {seq[i] : i \in 1 .. Len(seq)}

Injective(seq) ==
  \A i, j \in 1 .. Len(seq) : seq[i] = seq[j] => i = j
=============================================================================
