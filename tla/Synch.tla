-------------------------------- MODULE Synch --------------------------------
(***************************************************************************)
(* Semaphores, locks and condition variables (threads/synch.c) on top of   *)
(* the scheduler, used by threads that call them in any order their        *)
(* assertions allow.                                                       *)
(*                                                                         *)
(* A step is what the code does with interrupts off, or, where interrupts  *)
(* are on, one access to shared state: the timer and the devices may       *)
(* interrupt between any two steps.                                        *)
(***************************************************************************)
EXTENDS Thread

CONSTANTS
  Semas,            \* semaphores threads and interrupt handlers use directly
  Locks,            \* a lock's semaphore has the name of the lock
  Conds,            \* condition variables
  CondLock,         \* [Conds -> Locks]: the lock each one is used with
  NULL,
  MaxValue          \* bound on the value of a semaphore of Semas

\* sema_down's argument: one of Semas, a lock's semaphore, or the semaphore in
\* the struct semaphore_elem on the stack of a thread that is in cond_wait,
\* which has the name of that thread.
SemaIds == Semas \cup Locks \cup Threads

ASSUME SynchAssumption ==
  /\ Semas \cap Locks = {} /\ Semas \cap Threads = {} /\ Locks \cap Threads = {}
  /\ Conds \cap Threads = {}
  /\ CondLock \in [Conds -> Locks]
  /\ NULL \notin AllThreads
  /\ Conds # {}
  /\ MaxValue \in Nat

VARIABLES
  value, waiters,   \* struct semaphore
  holder,           \* struct lock
  cond_waiters,     \* struct condition: the threads in cond_wait, oldest first
  pc,               \* where each thread is
  arg,              \* the semaphore (thread_create: the thread) it works on
  cond,             \* the condition cond_wait or cond_broadcast works on
  ret,              \* what follows the sema_up in progress
  held              \* the locks a thread has acquired and not released

synchVars == <<value, waiters, holder, cond_waiters, pc, arg, cond, ret, held>>
vars == <<schedVars, synchVars>>

Pcs == {"user", "down", "hold", "up", "bcast", "create"}
Rets == {"user", "wait", "bcast"}

TypeOK ==
  /\ ThreadTypeOK
  /\ value \in [SemaIds -> Nat]
  /\ waiters \in [SemaIds -> Seq(Threads)]
  /\ holder \in [Locks -> Threads \cup {NULL}]
  /\ cond_waiters \in [Conds -> Seq(Threads)]
  /\ pc \in [Threads -> Pcs]
  /\ arg \in [Threads -> SemaIds]
  /\ cond \in [Threads -> Conds]
  /\ ret \in [Threads -> Rets]
  /\ held \in [Threads -> SUBSET Locks]

Init ==
  /\ ThreadInit
  /\ value = [s \in SemaIds |-> IF s \in Locks THEN 1 ELSE 0]
  /\ waiters = [s \in SemaIds |-> <<>>]
  /\ holder = [l \in Locks |-> NULL]
  /\ cond_waiters = [c \in Conds |-> <<>>]
  /\ pc = [t \in Threads |-> "user"]
  /\ arg = [t \in Threads |-> t]
  /\ cond = [t \in Threads |-> CHOOSE c \in Conds : TRUE]
  /\ ret = [t \in Threads |-> "user"]
  /\ held = [t \in Threads |-> {}]

-----------------------------------------------------------------------------
(* Semaphores. *)

\* Thread t is the one on the CPU and is about to take the step at point p.
At(t, p) == running = t /\ pc[t] = p

Goto(t, p) == pc' = [pc EXCEPT ![t] = p]

\* sema_down(s) begins: the test of the value is the next step of t.
Call_sema_down(t, s) ==
  /\ Goto(t, "down")
  /\ arg' = [arg EXCEPT ![t] = s]

\* The value is 0: t queues up and blocks, to test again once it is woken.
sema_down_wait(t) ==
  /\ At(t, "down")
  /\ value[arg[t]] = 0
  /\ waiters' = [waiters EXCEPT ![arg[t]] = Append(@, t)]
  /\ thread_block
  /\ UNCHANGED <<value, holder, cond_waiters, pc, arg, cond, ret, held>>

\* Fault: cond_wait returns with the lock without acquiring it again.
sema_down_take_no_reacquire(t) ==
  /\ At(t, "down")
  /\ value[arg[t]] > 0
  /\ value' = [value EXCEPT ![arg[t]] = @ - 1]
  /\ \/ arg[t] \in Semas /\ Goto(t, "user") /\ UNCHANGED arg
     \/ arg[t] \in Locks /\ Goto(t, "hold") /\ UNCHANGED arg
     \/ arg[t] = t /\ Goto(t, "hold") /\ arg' = [arg EXCEPT ![t] = CondLock[cond[t]]]
  /\ UNCHANGED <<schedVars, waiters, holder, cond_waiters, cond, ret, held>>

\* The value is positive: t takes a unit and returns to its caller, which is
\* lock_acquire for a lock's semaphore and cond_wait for t's own one; the
\* latter goes on to re-acquire the condition's lock.
sema_down_take(t) ==
  /\ At(t, "down")
  /\ value[arg[t]] > 0
  /\ value' = [value EXCEPT ![arg[t]] = @ - 1]
  /\ \/ arg[t] \in Semas /\ Goto(t, "user") /\ UNCHANGED arg
     \/ arg[t] \in Locks /\ Goto(t, "hold") /\ UNCHANGED arg
     \/ arg[t] = t /\ Call_sema_down(t, CondLock[cond[t]])
  /\ UNCHANGED <<schedVars, waiters, holder, cond_waiters, cond, ret, held>>

\* Fault: no test of the value.
sema_try_down_unchecked(t, s) ==
  /\ At(t, "user")
  /\ value' = [value EXCEPT ![s] = @ - 1]
  /\ UNCHANGED <<schedVars, waiters, holder, cond_waiters, pc, arg, cond, ret, held>>

\* sema_try_down(s), which a thread calls with a semaphore of Semas.
sema_try_down(t, s) ==
  /\ At(t, "user")
  /\ value[s] > 0
  /\ value' = [value EXCEPT ![s] = @ - 1]
  /\ UNCHANGED <<schedVars, waiters, holder, cond_waiters, pc, arg, cond, ret, held>>

\* Fault: list_front in place of list_pop_front.
sema_up_no_pop(s) ==
  /\ value' = [value EXCEPT ![s] = @ + 1]
  /\ IF waiters[s] # <<>>
     THEN thread_unblock(Head(waiters[s])) /\ UNCHANGED waiters
     ELSE UNCHANGED <<schedVars, waiters>>

\* Fault: a wakeup only when the value was 0.
sema_up_from_zero(s) ==
  /\ value' = [value EXCEPT ![s] = @ + 1]
  /\ IF waiters[s] # <<>> /\ value[s] = 0
     THEN /\ thread_unblock(Head(waiters[s]))
          /\ waiters' = [waiters EXCEPT ![s] = Tail(@)]
     ELSE UNCHANGED <<schedVars, waiters>>

\* Fault: no wakeup.
sema_up_silent(s) ==
  /\ value' = [value EXCEPT ![s] = @ + 1]
  /\ UNCHANGED <<schedVars, waiters>>

\* sema_up(s): wake the oldest waiter, then increment.
sema_up(s) ==
  /\ value' = [value EXCEPT ![s] = @ + 1]
  /\ IF waiters[s] # <<>>
     THEN /\ thread_unblock(Head(waiters[s]))
          /\ waiters' = [waiters EXCEPT ![s] = Tail(@)]
     ELSE UNCHANGED <<schedVars, waiters>>

user_sema_down(t, s) ==
  /\ At(t, "user")
  /\ Call_sema_down(t, s)
  /\ UNCHANGED <<schedVars, value, waiters, holder, cond_waiters, cond, ret, held>>

user_sema_up(t, s) ==
  /\ At(t, "user")
  /\ value[s] < MaxValue
  /\ sema_up(s)
  /\ UNCHANGED <<holder, cond_waiters, pc, arg, cond, ret, held>>

\* A device's interrupt handler calls sema_up, whoever is running.
interrupt_sema_up(s) ==
  /\ value[s] < MaxValue
  /\ sema_up(s)
  /\ UNCHANGED <<holder, cond_waiters, pc, arg, cond, ret, held>>

-----------------------------------------------------------------------------
(* Locks. *)

lock_acquire(t, l) ==
  /\ At(t, "user")
  /\ l \notin held[t]
  /\ Call_sema_down(t, l)
  /\ UNCHANGED <<schedVars, value, waiters, holder, cond_waiters, cond, ret, held>>

\* lock_try_acquire that succeeds; one that fails changes nothing.
lock_try_acquire(t, l) ==
  /\ At(t, "user")
  /\ l \notin held[t]
  /\ value[l] > 0
  /\ value' = [value EXCEPT ![l] = @ - 1]
  /\ Goto(t, "hold")
  /\ arg' = [arg EXCEPT ![t] = l]
  /\ UNCHANGED <<schedVars, waiters, holder, cond_waiters, cond, ret, held>>

\* The last step of lock_acquire and of lock_try_acquire.
lock_set_holder(t) ==
  /\ At(t, "hold")
  /\ holder' = [holder EXCEPT ![arg[t]] = t]
  /\ held' = [held EXCEPT ![t] = @ \cup {arg[t]}]
  /\ Goto(t, "user")
  /\ UNCHANGED <<schedVars, value, waiters, cond_waiters, arg, cond, ret>>

\* Fault: the holder is not cleared.
Begin_release_stale_holder(t, l, r) ==
  /\ held' = [held EXCEPT ![t] = @ \ {l}]
  /\ Goto(t, "up")
  /\ arg' = [arg EXCEPT ![t] = l]
  /\ ret' = [ret EXCEPT ![t] = r]
  /\ UNCHANGED holder

\* lock_release up to its call of sema_up; r is what follows the release.
Begin_release(t, l, r) ==
  /\ holder' = [holder EXCEPT ![l] = NULL]
  /\ held' = [held EXCEPT ![t] = @ \ {l}]
  /\ Goto(t, "up")
  /\ arg' = [arg EXCEPT ![t] = l]
  /\ ret' = [ret EXCEPT ![t] = r]

lock_release(t, l) ==
  /\ At(t, "user")
  /\ l \in held[t]
  /\ Begin_release(t, l, "user")
  /\ UNCHANGED <<schedVars, value, waiters, cond_waiters, cond>>

\* The sema_up that ends lock_release and cond_signal.
call_sema_up(t) ==
  /\ At(t, "up")
  /\ sema_up(arg[t])
  /\ \/ ret[t] = "user" /\ Goto(t, "user") /\ UNCHANGED arg
     \/ ret[t] = "bcast" /\ Goto(t, "bcast") /\ UNCHANGED arg
     \/ ret[t] = "wait" /\ Call_sema_down(t, t)
  /\ UNCHANGED <<holder, cond_waiters, cond, ret, held>>

-----------------------------------------------------------------------------
(* Condition variables. *)

\* cond_wait up to the sema_up of its lock_release.  The queue of the
\* condition is only accessed with the lock held, so its append and the
\* release's first assignment are seen together.
cond_wait(t, c) ==
  /\ At(t, "user")
  /\ CondLock[c] \in held[t]
  /\ value' = [value EXCEPT ![t] = 0]
  /\ waiters' = [waiters EXCEPT ![t] = <<>>]
  /\ cond_waiters' = [cond_waiters EXCEPT ![c] = Append(@, t)]
  /\ cond' = [cond EXCEPT ![t] = c]
  /\ Begin_release(t, CondLock[c], "wait")
  /\ UNCHANGED schedVars

\* Fault: the waiter stays in the queue.
Pop_waiter_no_pop(t, c, r) ==
  /\ cond_waiters[c] # <<>>
  /\ arg' = [arg EXCEPT ![t] = Head(cond_waiters[c])]
  /\ ret' = [ret EXCEPT ![t] = r]
  /\ Goto(t, "up")
  /\ UNCHANGED cond_waiters

\* Take the oldest waiter off c; sema_up on its semaphore is t's next step.
Pop_waiter(t, c, r) ==
  /\ cond_waiters[c] # <<>>
  /\ cond_waiters' = [cond_waiters EXCEPT ![c] = Tail(@)]
  /\ arg' = [arg EXCEPT ![t] = Head(cond_waiters[c])]
  /\ ret' = [ret EXCEPT ![t] = r]
  /\ Goto(t, "up")

cond_signal(t, c) ==
  /\ At(t, "user")
  /\ CondLock[c] \in held[t]
  /\ Pop_waiter(t, c, "user")
  /\ UNCHANGED <<schedVars, value, waiters, holder, cond, held>>

cond_broadcast(t, c) ==
  /\ At(t, "user")
  /\ CondLock[c] \in held[t]
  /\ Goto(t, "bcast")
  /\ cond' = [cond EXCEPT ![t] = c]
  /\ UNCHANGED <<schedVars, value, waiters, holder, cond_waiters, arg, ret, held>>

cond_broadcast_loop(t) ==
  /\ At(t, "bcast")
  /\ \/ Pop_waiter(t, cond[t], "bcast")
     \/ /\ cond_waiters[cond[t]] = <<>>
        /\ Goto(t, "user")
        /\ UNCHANGED <<cond_waiters, arg, ret>>
  /\ UNCHANGED <<schedVars, value, waiters, holder, cond, held>>

-----------------------------------------------------------------------------
(* Threads and interrupts. *)

\* thread_create puts the new thread on the run queue in a step of its own.
thread_create(t, u) ==
  /\ At(t, "user")
  /\ init_thread(u)
  /\ Goto(t, "create")
  /\ arg' = [arg EXCEPT ![t] = u]
  /\ UNCHANGED <<value, waiters, holder, cond_waiters, cond, ret, held>>

thread_create_unblock(t) ==
  /\ At(t, "create")
  /\ thread_unblock(arg[t])
  /\ Goto(t, "user")
  /\ UNCHANGED <<value, waiters, holder, cond_waiters, arg, cond, ret, held>>

user_yield(t) == At(t, "user") /\ thread_yield /\ UNCHANGED synchVars

\* No caller of thread_exit holds a lock.
user_exit(t) ==
  /\ At(t, "user")
  /\ held[t] = {}
  /\ thread_exit
  /\ UNCHANGED synchVars

timer_interrupt == thread_tick /\ UNCHANGED synchVars

idle_loop == idle /\ UNCHANGED synchVars

\* The steps inside a primitive, which the thread takes without a choice.
Primitive(t) ==
  \/ sema_down_wait(t)
  \/ sema_down_take(t)
  \/ lock_set_holder(t)
  \/ call_sema_up(t)
  \/ cond_broadcast_loop(t)
  \/ thread_create_unblock(t)

\* The calls a thread may make between primitives.
Call(t) ==
  \/ \E s \in Semas : user_sema_down(t, s) \/ user_sema_up(t, s) \/ sema_try_down(t, s)
  \/ \E l \in Locks : lock_acquire(t, l) \/ lock_try_acquire(t, l) \/ lock_release(t, l)
  \/ \E c \in Conds : cond_wait(t, c) \/ cond_signal(t, c) \/ cond_broadcast(t, c)
  \/ \E u \in Threads : thread_create(t, u)
  \/ user_yield(t)
  \/ user_exit(t)

Next ==
  \/ \E t \in Threads : Primitive(t) \/ Call(t)
  \/ \E s \in Semas : interrupt_sema_up(s)
  \/ timer_interrupt
  \/ idle_loop

Spec == Init /\ [][Next]_vars

\* A thread on the CPU gets to execute before its time slice is over, so one
\* that is scheduled again and again takes its next step; the timer keeps
\* ticking and the idle thread keeps looping.  Nothing makes a thread call a
\* primitive, or a device interrupt.
Fairness ==
  /\ \A t \in Threads : SF_vars(Primitive(t))
  /\ WF_vars(timer_interrupt)
  /\ WF_vars(idle_loop)

FairSpec == Spec /\ Fairness

-----------------------------------------------------------------------------
(* Properties. *)

BeingCreated(t) == \E u \in Threads : pc[u] = "create" /\ arg[u] = t

\* The dual use of struct thread's elem (thread.h) is sound: a thread is on at
\* most one of the run queue and the semaphores' wait lists, and once; the
\* ready threads are those on the run queue, the blocked ones those on a wait
\* list or still under construction in thread_create, and exactly the thread
\* on the CPU is marked running, as thread_current, thread_unblock and
\* schedule assert.
ElemOnOneList ==
  /\ \A t \in AllThreads : status[t] = "RUNNING" <=> t = running
  /\ Injective(ready_list)
  /\ \A t \in Threads : status[t] = "READY" <=> t \in Elems(ready_list)
  /\ \A s \in SemaIds : Injective(waiters[s])
  /\ \A s, r \in SemaIds : s # r => Elems(waiters[s]) \cap Elems(waiters[r]) = {}
  /\ \A t \in Threads : status[t] = "BLOCKED" <=>
        (BeingCreated(t) \/ \E s \in SemaIds : t \in Elems(waiters[s]))

\* The threads that will test the value of s again: they are in sema_down and
\* not asleep, either on their way in or woken and not yet back on the CPU.
Testing(s) ==
  {t \in Threads : pc[t] = "down" /\ arg[t] = s /\ status[t] # "BLOCKED"}

\* sema_down and sema_up lose no wakeup: sema_up wakes a thread before it
\* increments and any running thread may take the unit first, yet while some
\* thread sleeps on s there are at least as many threads about to test s as s
\* has units.
NoLostWakeup ==
  \A s \in SemaIds :
    waiters[s] # <<>> => Cardinality(Testing(s)) >= value[s]

\* Between them, a lock's semaphore and the threads that are past sema_down in
\* lock_acquire and not yet past sema_up in lock_release have one unit.
Owners(l) ==
  {t \in Threads : \/ l \in held[t]
                   \/ arg[t] = l /\ pc[t] \in {"hold", "up"}}

\* lock_acquire excludes: no two threads own a lock, and a lock someone owns
\* cannot be acquired.
MutualExclusion ==
  \A l \in Locks : value[l] + Cardinality(Owners(l)) = 1

\* The assertions of lock_acquire, lock_release, cond_wait and cond_signal on
\* lock_held_by_current_thread never fail: the holder field names exactly the
\* thread that has acquired the lock, although it is written with interrupts
\* on and outside the semaphore's protection.
HolderAccurate ==
  \A l \in Locks, t \in Threads : l \in held[t] <=> holder[l] = t

\* Thread w is in cond_wait and its semaphore_elem is on its stack.
InWait(w) == \/ pc[w] = "up" /\ ret[w] = "wait"
             \/ pc[w] = "down" /\ arg[w] = w

\* Who can still reach w's semaphore_elem: a condition's queue, or a thread
\* that has popped it and is about to call sema_up.
Reaching(w) ==
  {c \in Conds : w \in Elems(cond_waiters[c])}
    \cup {u \in Threads : pc[u] = "up" /\ arg[u] = w}

\* A semaphore_elem is never touched after its thread has returned from
\* cond_wait, and a thread in cond_wait is never forgotten: exactly one of a
\* queue, a signaller or an undelivered unit keeps its wakeup.
SignalAccounting ==
  \A w \in Threads :
    Cardinality(Reaching(w)) + value[w] = IF InWait(w) THEN 1 ELSE 0

\* The run queue is first in, first out and every switch takes from it, so a
\* ready thread runs whatever the others do.
RoundRobin ==
  \A t \in Threads : status[t] = "READY" ~> status[t] = "RUNNING"

\* A unit that sema_up left while threads sleep on the semaphore is taken, or
\* all of the sleepers are woken.
WakeupDelivered ==
  \A s \in SemaIds :
    (value[s] > 0 /\ waiters[s] # <<>>) ~> (value[s] = 0 \/ waiters[s] = <<>>)

\* The lists of the scheduler and of the semaphores, and the holders of the
\* locks, together with the types.
SynchConsistent == TypeOK /\ ElemOnOneList /\ MutualExclusion /\ HolderAccurate
=============================================================================
