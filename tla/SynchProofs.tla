---------------------------- MODULE SynchProofs ----------------------------
(***************************************************************************)
(* Proofs about Synch, for any number of threads, semaphores, locks and    *)
(* conditions: the lists of the scheduler and of the semaphores, mutual    *)
(* exclusion, the wakeups of semaphores and the signals of conditions.     *)
(***************************************************************************)
EXTENDS Synch, TLAPS

\* What each step inside a primitive works on.
Fit(t) ==
  /\ pc[t] = "down" => arg[t] \in Semas \cup Locks \cup {t}
  /\ pc[t] = "hold" => arg[t] \in Locks
  /\ pc[t] = "up" => arg[t] \in Locks \cup Threads
  /\ pc[t] = "up" /\ ret[t] = "wait" => arg[t] = CondLock[cond[t]]
  /\ pc[t] = "up" => arg[t] \notin held[t]
  /\ pc[t] = "create" => arg[t] \in Threads

ArgsFit == \A t \in Threads : Fit(t)

\* A page that holds no thread, and a thread that thread_create still fills in,
\* are outside every primitive; a thread has one creator.
Dormant(t) == pc[t] = "user" /\ held[t] = {}

DormantOutside ==
  /\ \A t \in Threads : status[t] \in {"FREE", "DYING"} => Dormant(t)
  /\ \A t \in Threads : pc[t] = "create" => Dormant(arg[t])
  /\ \A t, u \in Threads : pc[t] = "create" /\ pc[u] = "create" /\ arg[t] = arg[u] => t = u

\* A thread on a semaphore's list sleeps in sema_down on that semaphore.
SleepersDown ==
  \A s \in SemaIds : \A t \in Elems(waiters[s]) : pc[t] = "down" /\ arg[t] = s

\* One list for an elem, given that sleepers sleep on one semaphore.
ListsSound ==
  /\ \A t \in AllThreads : status[t] = "RUNNING" <=> t = running
  /\ Injective(ready_list)
  /\ \A t \in Threads : status[t] = "READY" <=> t \in Elems(ready_list)
  /\ \A s \in SemaIds : Injective(waiters[s])
  /\ \A t \in Threads : status[t] = "BLOCKED" <=>
        (BeingCreated(t) \/ \E s \in SemaIds : t \in Elems(waiters[s]))

\* Thread t has the lock's unit: it is past sema_down and not past sema_up.
Owns(t, l) == l \in held[t] \/ (arg[t] = l /\ pc[t] \in {"hold", "up"})

\* A lock's unit is in its semaphore or with one thread.
LockUnits ==
  \A l \in Locks :
    /\ value[l] \in {0, 1}
    /\ value[l] = 1 => \A t \in Threads : ~Owns(t, l)
    /\ value[l] = 0 => \E t \in Threads : Owns(t, l)
    /\ \A t, u \in Threads : Owns(t, l) /\ Owns(u, l) => t = u

\* Thread u has taken w off its condition's queue and is about to wake it.
Signals(u, w) == pc[u] = "up" /\ arg[u] = w

Queued(w) == \E c \in Conds : w \in Elems(cond_waiters[c])

\* The wakeup of a thread in cond_wait is in one place, and no other thread has
\* one coming.
WakeupKept ==
  /\ \A c \in Conds : Injective(cond_waiters[c])
  /\ \A w \in Threads, c, d \in Conds :
       w \in Elems(cond_waiters[c]) /\ w \in Elems(cond_waiters[d]) => c = d
  /\ \A w, u, v \in Threads : Signals(u, w) /\ Signals(v, w) => u = v
  /\ \A w, u \in Threads : Signals(u, w) => ~Queued(w)
  /\ \A w \in Threads :
       /\ value[w] \in {0, 1}
       /\ Queued(w) \/ (\E u \in Threads : Signals(u, w)) => value[w] = 0 /\ InWait(w)
       /\ value[w] = 1 => InWait(w)
       /\ InWait(w) => Queued(w) \/ (\E u \in Threads : Signals(u, w)) \/ value[w] = 1

\* The inductive invariant.
Inv ==
  /\ TypeOK
  /\ ArgsFit
  /\ DormantOutside
  /\ SleepersDown
  /\ ListsSound
  /\ LockUnits
  /\ HolderAccurate
  /\ WakeupKept
  /\ NoLostWakeup

-----------------------------------------------------------------------------
(* The parts of the invariant *)

\* The types of the state.
LEMMA Inv_TypeOK == Inv => TypeOK
BY Zenon DEF Inv

\* What each step inside a primitive works on.
LEMMA Inv_ArgsFit == Inv => ArgsFit
BY Zenon DEF Inv

\* Threads outside every primitive.
LEMMA Inv_DormantOutside == Inv => DormantOutside
BY Zenon DEF Inv

\* Where sleepers sleep.
LEMMA Inv_SleepersDown == Inv => SleepersDown
BY Zenon DEF Inv

\* One list for an elem.
LEMMA Inv_ListsSound == Inv => ListsSound
BY Zenon DEF Inv

\* One unit for a lock.
LEMMA Inv_LockUnits == Inv => LockUnits
BY Zenon DEF Inv

\* The holder that a lock records.
LEMMA Inv_HolderAccurate == Inv => HolderAccurate
BY Zenon DEF Inv

\* One wakeup for a thread in cond_wait.
LEMMA Inv_WakeupKept == Inv => WakeupKept
BY Zenon DEF Inv

\* Enough wakeups for the waiters of a semaphore.
LEMMA Inv_NoLostWakeup == Inv => NoLostWakeup
BY Zenon DEF Inv

-----------------------------------------------------------------------------
(* Lists *)

\* list_push_back.
LEMMA ElemsAppend ==
  ASSUME NEW S, NEW seq \in Seq(S), NEW x \in S
  PROVE  /\ Append(seq, x) \in Seq(S)
         /\ Append(seq, x) # <<>>
         /\ Elems(Append(seq, x)) = Elems(seq) \cup {x}
         /\ Injective(seq) /\ x \notin Elems(seq) => Injective(Append(seq, x))
BY SMTT(30) DEF Elems, Injective

\* list_pop_front.
LEMMA ElemsTail ==
  ASSUME NEW S, NEW seq \in Seq(S), seq # <<>>, Injective(seq)
  PROVE  /\ Tail(seq) \in Seq(S)
         /\ Head(seq) \in S
         /\ Head(seq) \in Elems(seq)
         /\ Elems(Tail(seq)) = Elems(seq) \ {Head(seq)}
         /\ Injective(Tail(seq))
<1>1. /\ Tail(seq) \in Seq(S) /\ Len(seq) \in Nat \ {0} /\ Len(Tail(seq)) = Len(seq) - 1
      /\ \A i \in 1 .. Len(Tail(seq)) : Tail(seq)[i] = seq[i + 1]
      /\ Head(seq) = seq[1] /\ seq[1] \in S
  OBVIOUS
<1>2. Injective(Tail(seq))
  BY <1>1 DEF Injective
<1>3. Head(seq) \in Elems(seq)
  BY <1>1 DEF Elems
<1>4. \A x \in Elems(Tail(seq)) : x \in Elems(seq) /\ x # Head(seq)
  BY <1>1 DEF Elems, Injective
<1>5. \A x \in Elems(seq) : x # Head(seq) => x \in Elems(Tail(seq))
  <2> SUFFICES ASSUME NEW i \in 1 .. Len(seq), seq[i] # Head(seq)
               PROVE  seq[i] \in Elems(Tail(seq))
    BY Zenon DEF Elems
  <2>1. i - 1 \in 1 .. Len(Tail(seq)) /\ Tail(seq)[i - 1] = seq[i]
    BY <1>1
  <2>2. QED
    BY Zenon, <2>1 DEF Elems
<1>6. QED
  BY Zenon, <1>1, <1>2, <1>3, <1>4, <1>5

\* What a list can hold; only the empty one holds nothing.
LEMMA ElemsEmpty ==
  ASSUME NEW S, NEW seq \in Seq(S)
  PROVE  Elems(seq) \subseteq S /\ (seq = <<>> <=> Elems(seq) = {})
BY DEF Elems

\* Only threads wait for a semaphore.
LEMMA WaitersIn == Inv => \A s \in SemaIds : Elems(waiters[s]) \subseteq Threads
BY Zenon, ElemsEmpty, Inv_TypeOK DEF TypeOK

\* The empty list holds nothing.
LEMMA ElemsNil == Elems(<<>>) = {} /\ Injective(<<>>)
BY DEF Elems, Injective

-----------------------------------------------------------------------------
\* The initial thread runs outside every primitive, and nobody waits.
LEMMA InitInv == Init => Inv
<1> SUFFICES ASSUME Init PROVE Inv
  BY Zenon
<1> USE SynchAssumption, ThreadAssumption DEF Init, ThreadInit, SemaIds, AllThreads
<1>1. (CHOOSE c \in Conds : TRUE) \in Conds
  BY Zenon
<1>2. TypeOK
  <2>1. ThreadTypeOK
    BY DEF ThreadTypeOK, ThreadStatus
  <2>2. QED
    BY <1>1, <2>1 DEF TypeOK, Pcs, Rets
<1>3. \A s \in SemaIds : Elems(waiters[s]) = {} /\ Injective(waiters[s])
  BY Zenon, ElemsNil
<1>4. \A c \in Conds : Elems(cond_waiters[c]) = {} /\ Injective(cond_waiters[c])
  BY Zenon, ElemsNil
<1>5. Elems(ready_list) = {} /\ Injective(ready_list)
  BY Zenon, ElemsNil
<1>6. ArgsFit /\ DormantOutside /\ SleepersDown
  BY Zenon, <1>3 DEF ArgsFit, Fit, DormantOutside, Dormant, SleepersDown
<1>7. ListsSound
  BY Zenon, <1>3, <1>5 DEF ListsSound, BeingCreated
<1>8. LockUnits /\ HolderAccurate
  BY DEF LockUnits, Owns, HolderAccurate
<1>9. WakeupKept
  BY <1>4 DEF WakeupKept, Queued, Signals, InWait
<1>10. NoLostWakeup
  BY Zenon DEF NoLostWakeup
<1>11. QED
  BY Zenon, <1>2, <1>6, <1>7, <1>8, <1>9, <1>10 DEF Inv

\* What the proofs use of counting threads; it is proved at the end, where the
\* theorems on finite sets are at hand.
Counting ==
  \A S \in SUBSET Threads :
    /\ Cardinality(S) \in Nat
    /\ \A T \in SUBSET S : Cardinality(T) <= Cardinality(S)
    /\ \A x \in S : Cardinality(S \ {x}) = Cardinality(S) - 1
    /\ \A x \in Threads \ S : Cardinality(S \cup {x}) = Cardinality(S) + 1

\* The threads about to test a semaphore are threads.
LEMMA TestingIn ==
  ASSUME NEW s
  PROVE  Testing(s) \in SUBSET Threads /\ Testing(s)' \in SUBSET Threads
BY Zenon DEF Testing

\* They can be counted.
LEMMA TestingCount ==
  ASSUME Counting, NEW s
  PROVE  Cardinality(Testing(s)) \in Nat /\ Cardinality(Testing(s)') \in Nat
BY Zenon, TestingIn DEF Counting

\* A step after which no fewer threads will test each semaphore, and that adds
\* neither units nor sleepers where none slept, loses no wakeup.
LEMMA TestingGrows ==
  ASSUME Counting, NoLostWakeup,
         \A s \in SemaIds : /\ Testing(s) \subseteq Testing(s)'
                            /\ value'[s] \in Nat /\ value[s] \in Nat
                            /\ value'[s] <= value[s]
                            /\ waiters'[s] # <<>> => waiters[s] # <<>>
  PROVE  NoLostWakeup'
<1> SUFFICES ASSUME NEW s \in SemaIds, waiters'[s] # <<>>
             PROVE  Cardinality(Testing(s)') >= value'[s]
  BY Zenon DEF NoLostWakeup
<1>1. Cardinality(Testing(s)) <= Cardinality(Testing(s)')
  BY Zenon, TestingIn DEF Counting
<1>2. Cardinality(Testing(s)) >= value[s]
  BY Zenon DEF NoLostWakeup
<1>3. QED
  BY <1>1, <1>2, TestingCount

\* Steps that leave the semaphores alone.
LEMMA TestingStays ==
  ASSUME Counting, Inv, UNCHANGED <<value, waiters>>,
         \A s \in SemaIds : Testing(s) \subseteq Testing(s)'
  PROVE  NoLostWakeup'
<1>1. \A s \in SemaIds : value[s] \in Nat
  BY Zenon, Inv_TypeOK DEF TypeOK
<1>2. \A s \in SemaIds : value[s] <= value[s]
  BY <1>1
<1>3. QED
  BY Zenon, <1>1, <1>2, TestingGrows, Inv_NoLostWakeup

-----------------------------------------------------------------------------
(* Steps of a running thread that leave the scheduler alone. *)

\* Such a step keeps the lists: the running thread is on none of them, and no
\* thread_create fills it in.
LEMMA QuietLists ==
  ASSUME Inv, NEW t \in Threads, running = t, UNCHANGED <<schedVars, waiters>>,
         pc[t] # "create", pc' \in [Threads -> Pcs], pc'[t] # "create",
         \A u \in Threads \ {t} :
           pc'[u] = pc[u] /\ arg'[u] = arg[u] /\ held'[u] = held[u]
  PROVE  DormantOutside' /\ SleepersDown' /\ ListsSound'
<1> USE DEF schedVars, SemaIds
<1>1. status[t] = "RUNNING" /\ \A s \in SemaIds : t \notin Elems(waiters[s])
  BY Zenon, Inv_ListsSound DEF ListsSound, AllThreads
<1>2. \A u \in Threads : BeingCreated(u)' <=> BeingCreated(u)
  BY Zenon DEF BeingCreated
<1>3. ~BeingCreated(t)
  BY Zenon, <1>1, Inv_ListsSound DEF ListsSound
<1>4. DormantOutside'
  BY <1>1, <1>3, Inv_ArgsFit, Inv_DormantOutside DEF DormantOutside, Dormant, BeingCreated, ArgsFit, Fit
<1>5. SleepersDown'
  BY <1>1, ElemsEmpty, Inv_TypeOK, Inv_SleepersDown DEF SleepersDown, TypeOK
<1>6. ListsSound'
  BY Zenon, <1>2, Inv_ListsSound DEF ListsSound
<1>7. QED
  BY Zenon, <1>4, <1>5, <1>6

\* Every thread but t is where it was, on the same argument.
OthersSame(t) ==
  \A u \in Threads \ {t} : /\ pc'[u] = pc[u] /\ arg'[u] = arg[u] /\ ret'[u] = ret[u]
                           /\ cond'[u] = cond[u] /\ held'[u] = held[u]

\* It takes no thread off the way to a test of a semaphore either.
LEMMA QuietStep ==
  ASSUME Counting, Inv, NEW t \in Threads, running = t, UNCHANGED <<schedVars, waiters>>,
         TypeOK', OthersSame(t), pc[t] \notin {"create", "down"}, pc'[t] # "create",
         \A s \in SemaIds : value'[s] <= value[s]
  PROVE  DormantOutside' /\ SleepersDown' /\ ListsSound' /\ NoLostWakeup'
<1>1. DormantOutside' /\ SleepersDown' /\ ListsSound'
  BY Zenon, QuietLists DEF TypeOK, OthersSame
<1>2. \A s \in SemaIds : Testing(s) \subseteq Testing(s)'
  BY Zenon DEF Testing, OthersSame, schedVars
<1>3. \A s \in SemaIds : value[s] \in Nat /\ value'[s] \in Nat
  BY Zenon, Inv_TypeOK DEF TypeOK
<1>4. NoLostWakeup'
  BY Zenon, <1>2, <1>3, Inv_NoLostWakeup, TestingGrows
<1>5. QED
  BY Zenon, <1>1, <1>4

\* A thread's own argument is all that a step of it can spoil.
LEMMA ArgsSame ==
  ASSUME ArgsFit, NEW t \in Threads, OthersSame(t), Fit(t)'
  PROVE  ArgsFit'
<1> SUFFICES ASSUME NEW u \in Threads, u # t PROVE Fit(u)'
  BY Zenon DEF ArgsFit
<1>1. /\ pc'[u] = pc[u] /\ arg'[u] = arg[u] /\ ret'[u] = ret[u]
      /\ cond'[u] = cond[u] /\ held'[u] = held[u]
  BY Zenon DEF OthersSame
<1>2. Fit(u)
  BY Zenon DEF ArgsFit
<1>3. QED
  BY Zenon, <1>1, <1>2 DEF Fit

\* A step that moves no lock's unit.
LEMMA LocksSame ==
  ASSUME LockUnits, \A l \in Locks : value'[l] = value[l],
         \A u \in Threads, l \in Locks : Owns(u, l)' <=> Owns(u, l)
  PROVE  LockUnits'
BY Zenon DEF LockUnits

\* A thread's step that moves no lock's unit.
LEMMA UnitsSame ==
  ASSUME LockUnits, NEW t \in Threads, OthersSame(t), \A l \in Locks : value'[l] = value[l],
         \A l \in Locks : Owns(t, l)' <=> Owns(t, l)
  PROVE  LockUnits'
<1>1. \A u \in Threads, l \in Locks : Owns(u, l)' <=> Owns(u, l)
  BY ZenonT(30) DEF OthersSame, Owns
<1>2. QED
  BY Zenon, <1>1, LocksSame

\* A step that moves nobody's wakeup from cond_wait.
LEMMA WakeupsSame ==
  ASSUME WakeupKept, UNCHANGED cond_waiters, \A w \in Threads : value'[w] = value[w],
         \A w \in Threads : InWait(w)' <=> InWait(w),
         \A u, w \in Threads : Signals(u, w)' <=> Signals(u, w)
  PROVE  WakeupKept'
<1>1. \A w \in Threads : Queued(w)' <=> Queued(w)
  BY Zenon DEF Queued
<1>2. QED
  BY Zenon, <1>1 DEF WakeupKept

\* A thread's step that moves nobody's wakeup from cond_wait.
LEMMA WakeupsStay ==
  ASSUME WakeupKept, NEW t \in Threads, OthersSame(t), UNCHANGED cond_waiters,
         \A w \in Threads : value'[w] = value[w],
         ~InWait(t), ~InWait(t)', pc[t] # "up", pc'[t] = "up" => arg'[t] \notin Threads
  PROVE  WakeupKept'
<1>1. \A w \in Threads : InWait(w)' <=> InWait(w)
  BY Zenon DEF OthersSame, InWait
<1>2. \A u, w \in Threads : Signals(u, w)' <=> Signals(u, w)
  BY Zenon DEF OthersSame, Signals
<1>3. QED
  BY Zenon, <1>1, <1>2, WakeupsSame

\* The call of sema_down that begins it and lock_acquire.
LEMMA Keeps_Call_sema_down ==
  ASSUME Counting, Inv, NEW t \in Threads, NEW s \in Semas \cup Locks, At(t, "user"),
         Call_sema_down(t, s),
         UNCHANGED <<schedVars, value, waiters, holder, cond_waiters, cond, ret, held>>
  PROVE  Inv'
<1>1. running = t /\ pc[t] = "user" /\ pc' = [pc EXCEPT ![t] = "down"] /\ arg' = [arg EXCEPT ![t] = s]
  BY Zenon DEF At, Goto, Call_sema_down
<1>2. pc' \in [Threads -> Pcs] /\ arg' \in [Threads -> SemaIds]
  BY Zenon, <1>1, Inv_TypeOK DEF TypeOK, Pcs, SemaIds
<1>3. TypeOK'
  BY Zenon, <1>2, Inv_TypeOK DEF TypeOK, ThreadTypeOK, schedVars
<1>4. pc'[t] = "down" /\ arg'[t] = s /\ OthersSame(t)
  BY Zenon, <1>1, Inv_TypeOK DEF TypeOK, OthersSame
<1>5. \A r \in SemaIds : value'[r] <= value[r]
  <2>1. \A r \in SemaIds : value[r] \in Nat
    BY Zenon, Inv_TypeOK DEF TypeOK
  <2>2. QED
    BY <2>1
<1>6. DormantOutside' /\ SleepersDown' /\ ListsSound' /\ NoLostWakeup'
  BY Zenon, <1>1, <1>3, <1>4, <1>5, QuietStep
<1>7. ArgsFit'
  BY Zenon, <1>4, Inv_ArgsFit, ArgsSame DEF Fit
<1>8. LockUnits' /\ HolderAccurate'
  BY Zenon, <1>1, <1>4, Inv_LockUnits, Inv_HolderAccurate, UnitsSame DEF Owns, HolderAccurate
<1>9. WakeupKept'
  <2>1. s \notin Threads
    BY Zenon, SynchAssumption
  <2>2. QED
    BY Zenon, <1>1, <1>4, <2>1, Inv_WakeupKept, WakeupsStay DEF InWait
<1>10. QED
  BY Zenon, <1>3, <1>6, <1>7, <1>8, <1>9 DEF Inv

\* sema_down begins.
LEMMA Keeps_user_sema_down ==
  ASSUME Counting, Inv, NEW t \in Threads, NEW s \in Semas, user_sema_down(t, s)
  PROVE  Inv'
BY Zenon, Keeps_Call_sema_down DEF user_sema_down

\* lock_acquire begins.
LEMMA Keeps_lock_acquire ==
  ASSUME Counting, Inv, NEW t \in Threads, NEW l \in Locks, lock_acquire(t, l)
  PROVE  Inv'
BY Zenon, Keeps_Call_sema_down DEF lock_acquire

\* A unit is taken: by sema_down of a semaphore, by lock_acquire, by cond_wait.
LEMMA Keeps_sema_down_take ==
  ASSUME Counting, Inv, NEW t \in Threads, sema_down_take(t)
  PROVE  Inv'
<1> USE SynchAssumption DEF sema_down_take, At, Goto, Call_sema_down, SemaIds
<1> DEFINE a == arg[t]
<1>0. /\ value' = [value EXCEPT ![a] = @ - 1] /\ value[a] > 0
      /\ a \in Semas \cup Locks \cup {t}
      /\ arg' = [arg EXCEPT ![t] = IF a = t THEN CondLock[cond[t]] ELSE a]
      /\ pc' = [pc EXCEPT ![t] = IF a = t THEN "down" ELSE IF a \in Locks THEN "hold" ELSE "user"]
      /\ CondLock[cond[t]] \in Locks
  BY SMTT(30), Inv_TypeOK, Inv_ArgsFit DEF TypeOK, ArgsFit, Fit
<1>9. \A u \in Threads \ {t} : pc'[u] = pc[u] /\ arg'[u] = arg[u]
  BY Zenon, <1>0, Inv_TypeOK DEF TypeOK
<1>1. TypeOK'
  <2>1. value' \in [SemaIds -> Nat] /\ pc' \in [Threads -> Pcs]
    BY SMTT(30), <1>0 DEF Inv, TypeOK, Pcs
  <2>2. arg' \in [Threads -> SemaIds]
    BY Zenon, <1>0, Inv_TypeOK DEF TypeOK
  <2>3. QED
    BY Zenon, <2>1, <2>2, Inv_TypeOK DEF TypeOK, ThreadTypeOK, schedVars
<1>2. ArgsFit'
  BY SMTT(30), <1>0, Inv_TypeOK, Inv_ArgsFit DEF TypeOK, ArgsFit, Fit
<1>3. DormantOutside' /\ SleepersDown' /\ ListsSound'
  BY SMTT(30), <1>0, <1>1, QuietLists, Inv_TypeOK DEF TypeOK
<1>4. LockUnits'
  <2>a. held' = held /\ pc[t] = "down"
    BY Zenon
  <2>b. /\ pc'[t] = (IF a = t THEN "down" ELSE IF a \in Locks THEN "hold" ELSE "user")
        /\ a # t => arg'[t] = a
    BY Zenon, <1>0, Inv_TypeOK DEF TypeOK
  <2> HIDE DEF sema_down_take, At, Goto, Call_sema_down, SemaIds
  <2>c. \A m \in Locks : m # a => (Owns(t, m)' <=> Owns(t, m))
    BY Zenon, <2>a, <2>b DEF Owns
  <2>1. \A u \in Threads, m \in Locks : u # t \/ m # a => (Owns(u, m)' <=> Owns(u, m))
    BY Zenon, <1>9, <2>a, <2>c DEF Owns
  <2> USE DEF sema_down_take, At, Goto, Call_sema_down, SemaIds
  <2>2. \A m \in Locks : m = a => Owns(t, m)' /\ value[m] = 1 /\ value'[m] = 0
    BY SMTT(30), <1>0, Inv_TypeOK, Inv_LockUnits DEF Owns, TypeOK, LockUnits
  <2>3. \A m \in Locks : m # a => value'[m] = value[m]
    BY Zenon, <1>0, Inv_TypeOK DEF TypeOK
  <2>4. QED
    BY Zenon, <2>1, <2>2, <2>3, Inv_LockUnits DEF LockUnits
<1>5. HolderAccurate'
  BY ZenonT(90), Inv_TypeOK, Inv_ArgsFit, Inv_LockUnits, Inv_HolderAccurate DEF TypeOK, ArgsFit, Fit, LockUnits, Owns, HolderAccurate
<1>6. WakeupKept'
  <2>1. \A w \in Threads : w # a => (InWait(w)' <=> InWait(w)) /\ value'[w] = value[w]
    BY SMTT(30), <1>0, Inv_TypeOK DEF InWait, TypeOK
  <2>2. \A u, w \in Threads : Signals(u, w)' <=> Signals(u, w)
    BY <1>0, Inv_TypeOK DEF Signals, TypeOK
  <2>3. a \in Threads => value[t] = 1 /\ value'[t] = 0 /\ ~InWait(t)' /\ a = t
    <3>1. value[a] \in Nat /\ value[a] > 0
      BY Zenon, <1>0, Inv_TypeOK DEF TypeOK
    <3>2. a \in Threads => value[a] = 1 /\ a = t
      BY <1>0, <3>1, Inv_WakeupKept DEF WakeupKept
    <3>3. pc'[t] # "up" /\ (a = t => arg'[t] # t)
      BY <1>0, Inv_TypeOK DEF TypeOK
    <3>4. a = t => value'[t] = value[t] - 1
      BY Zenon, <1>0, Inv_TypeOK DEF TypeOK
    <3>5. a = t => ~InWait(t)'
      BY Zenon, <3>3 DEF InWait
    <3>6. QED
      BY <3>2, <3>4, <3>5
  <2>4. \A w \in Threads : Queued(w)' <=> Queued(w)
    BY Zenon DEF Queued
  <2>5. a \in Threads => ~Queued(a) /\ \A u \in Threads : ~Signals(u, a)
    BY <2>3, Inv_WakeupKept DEF WakeupKept
  <2>6. \A w \in Threads :
          /\ value'[w] \in {0, 1}
          /\ Queued(w)' \/ (\E u \in Threads : Signals(u, w)') => value'[w] = 0 /\ InWait(w)'
          /\ value'[w] = 1 => InWait(w)'
          /\ InWait(w)' => Queued(w)' \/ (\E u \in Threads : Signals(u, w)') \/ value'[w] = 1
    <3> SUFFICES ASSUME NEW w \in Threads
                 PROVE  /\ value'[w] \in {0, 1}
                        /\ Queued(w) \/ (\E u \in Threads : Signals(u, w)) =>
                             value'[w] = 0 /\ InWait(w)'
                        /\ value'[w] = 1 => InWait(w)'
                        /\ InWait(w)' =>
                             Queued(w) \/ (\E u \in Threads : Signals(u, w)) \/ value'[w] = 1
      BY Zenon, <2>2, <2>4
    <3>1. CASE w = a
      BY <2>3, <2>5, <3>1
    <3>2. CASE w # a
      BY Zenon, <2>1, <3>2, Inv_WakeupKept DEF WakeupKept
    <3>3. QED
      BY Zenon, <3>1, <3>2
  <2>7. QED
    BY Zenon, <2>2, <2>4, <2>6, Inv_WakeupKept DEF WakeupKept
<1>7. NoLostWakeup'
  <2> SUFFICES ASSUME NEW s \in SemaIds, waiters[s] # <<>>
               PROVE  Cardinality(Testing(s)') >= value'[s]
    BY Zenon DEF NoLostWakeup
  <2>1. Cardinality(Testing(s)) >= value[s] /\ value[s] \in Nat
    BY Zenon, Inv_TypeOK, Inv_NoLostWakeup DEF NoLostWakeup, TypeOK
  <2>2. CASE s = a
    <3>1. t \in Testing(s)
      BY Zenon, <2>2, Inv_ListsSound DEF Testing, ListsSound, AllThreads
    <3>2. Testing(s) \ {t} \subseteq Testing(s)'
      BY Zenon, <1>9 DEF Testing, schedVars
    <3>3. Cardinality(Testing(s) \ {t}) = Cardinality(Testing(s)) - 1
      BY Zenon, <3>1, TestingIn DEF Counting
    <3>4. Cardinality(Testing(s) \ {t}) <= Cardinality(Testing(s)')
      BY Zenon, <3>2, TestingIn DEF Counting
    <3>5. QED
      BY SMTT(30), <1>0, <2>1, <2>2, <3>3, <3>4, TestingCount, Inv_TypeOK DEF TypeOK
  <2>3. CASE s # a
    <3>1. Testing(s) \subseteq Testing(s)'
      BY Zenon, <1>9, <2>3 DEF Testing, schedVars
    <3>2. Cardinality(Testing(s)) <= Cardinality(Testing(s)')
      BY Zenon, <3>1, TestingIn DEF Counting
    <3>3. QED
      BY SMTT(30), <1>0, <2>1, <2>3, <3>2, TestingCount, Inv_TypeOK DEF TypeOK
  <2>4. QED
    BY Zenon, <2>2, <2>3
<1>8. QED
  BY Zenon, <1>1, <1>2, <1>3, <1>4, <1>5, <1>6, <1>7 DEF Inv

\* A unit is taken without waiting.
LEMMA Keeps_sema_try_down ==
  ASSUME Counting, Inv, NEW t \in Threads, NEW s \in Semas, sema_try_down(t, s)
  PROVE  Inv'
<1>1. /\ running = t /\ pc[t] = "user" /\ value[s] > 0 /\ value' = [value EXCEPT ![s] = @ - 1]
      /\ UNCHANGED <<schedVars, waiters, holder, cond_waiters, pc, arg, cond, ret, held>>
  BY Zenon DEF sema_try_down, At
<1>2. value \in [SemaIds -> Nat] /\ s \in SemaIds
  BY Zenon, Inv_TypeOK DEF TypeOK, SemaIds
<1>3. /\ value' \in [SemaIds -> Nat] /\ \A r \in SemaIds : value'[r] <= value[r]
      /\ \A r \in SemaIds : r # s => value'[r] = value[r]
  BY <1>1, <1>2
<1>4. TypeOK'
  BY Zenon, <1>1, <1>3, Inv_TypeOK DEF TypeOK, ThreadTypeOK, schedVars
<1>5. OthersSame(t)
  BY Zenon, <1>1 DEF OthersSame
<1>6. DormantOutside' /\ SleepersDown' /\ ListsSound' /\ NoLostWakeup'
  BY Zenon, <1>1, <1>3, <1>4, <1>5, QuietStep
<1>7. ArgsFit' /\ HolderAccurate'
  BY Zenon, <1>1, Inv_ArgsFit, Inv_HolderAccurate DEF ArgsFit, Fit, HolderAccurate
<1>8. \A r \in Locks \cup Threads : value'[r] = value[r]
  BY Zenon, <1>3, SynchAssumption DEF SemaIds
<1>9. LockUnits' /\ WakeupKept'
  BY Zenon, <1>1, <1>8, Inv_LockUnits, Inv_WakeupKept, LocksSame, WakeupsSame
    DEF Owns, InWait, Signals
<1>10. QED
  BY Zenon, <1>4, <1>6, <1>7, <1>9 DEF Inv

\* lock_try_acquire has the unit.
LEMMA Keeps_lock_try_acquire ==
  ASSUME Counting, Inv, NEW t \in Threads, NEW l \in Locks, lock_try_acquire(t, l)
  PROVE  Inv'
<1>1. /\ running = t /\ pc[t] = "user" /\ value[l] > 0 /\ value' = [value EXCEPT ![l] = @ - 1]
      /\ pc' = [pc EXCEPT ![t] = "hold"] /\ arg' = [arg EXCEPT ![t] = l]
      /\ UNCHANGED <<schedVars, waiters, holder, cond_waiters, cond, ret, held>>
  BY Zenon DEF lock_try_acquire, At, Goto
<1>2. value \in [SemaIds -> Nat] /\ l \in SemaIds
  BY Zenon, Inv_TypeOK DEF TypeOK, SemaIds
<1>3. /\ value' \in [SemaIds -> Nat] /\ \A r \in SemaIds : value'[r] <= value[r]
      /\ \A r \in SemaIds : r # l => value'[r] = value[r]
      /\ value'[l] = value[l] - 1
  BY <1>1, <1>2
<1>a. pc' \in [Threads -> Pcs] /\ arg' \in [Threads -> SemaIds]
  BY Zenon, <1>1, <1>2, Inv_TypeOK DEF TypeOK, Pcs
<1>4. TypeOK'
  BY Zenon, <1>1, <1>3, <1>a, Inv_TypeOK DEF TypeOK, ThreadTypeOK, schedVars
<1>5. pc'[t] = "hold" /\ arg'[t] = l /\ OthersSame(t)
  BY Zenon, <1>1, Inv_TypeOK DEF TypeOK, OthersSame
<1>6. DormantOutside' /\ SleepersDown' /\ ListsSound' /\ NoLostWakeup'
  BY Zenon, <1>1, <1>3, <1>4, <1>5, QuietStep
<1>7. ArgsFit' /\ HolderAccurate'
  BY ZenonT(90), <1>1, <1>5, Inv_ArgsFit, Inv_HolderAccurate, ArgsSame DEF Fit, HolderAccurate
<1>8. LockUnits'
  <2>1. \A u \in Threads, m \in Locks : u # t \/ m # l => (Owns(u, m)' <=> Owns(u, m))
    BY Zenon, <1>1, <1>5 DEF Owns, OthersSame
  <2>2. value[l] = 1
    BY <1>1, <1>2, Inv_LockUnits DEF LockUnits
  <2>3. value'[l] = 0
    BY <1>3, <2>2
  <2>4. Owns(t, l)' /\ \A u \in Threads : ~Owns(u, l)
    BY Zenon, <1>5, <2>2, Inv_LockUnits DEF LockUnits, Owns
  <2>5. \A m \in Locks : m # l => value'[m] = value[m]
    BY Zenon, <1>3 DEF SemaIds
  <2> SUFFICES ASSUME NEW m \in Locks
               PROVE  /\ value'[m] \in {0, 1}
                      /\ value'[m] = 1 => \A u \in Threads : ~Owns(u, m)'
                      /\ value'[m] = 0 => \E u \in Threads : Owns(u, m)'
                      /\ \A u, v \in Threads : Owns(u, m)' /\ Owns(v, m)' => u = v
    BY Zenon DEF LockUnits
  <2>6. CASE m = l
    <3>1. \A u \in Threads : Owns(u, l)' => u = t
      BY Zenon, <2>1, <2>4
    <3>2. value'[l] \in {0, 1} /\ value'[l] # 1
      BY <2>3
    <3>3. QED
      BY Zenon, <2>4, <2>6, <3>1, <3>2
  <2>7. CASE m # l
    BY Zenon, <2>1, <2>5, <2>7, Inv_LockUnits DEF LockUnits
  <2>8. QED
    BY Zenon, <2>6, <2>7
<1>9. WakeupKept'
  <2>1. \A w \in Threads : value'[w] = value[w]
    BY Zenon, <1>3, SynchAssumption DEF SemaIds
  <2>2. QED
    BY Zenon, <1>1, <1>5, <2>1, Inv_WakeupKept, WakeupsStay DEF InWait
<1>10. QED
  BY Zenon, <1>4, <1>6, <1>7, <1>8, <1>9 DEF Inv

\* The holder is written.
LEMMA Keeps_lock_set_holder ==
  ASSUME Counting, Inv, NEW t \in Threads, lock_set_holder(t)
  PROVE  Inv'
<1> DEFINE l == arg[t]
<1>1. /\ running = t /\ pc[t] = "hold" /\ pc' = [pc EXCEPT ![t] = "user"]
      /\ holder' = [holder EXCEPT ![l] = t] /\ held' = [held EXCEPT ![t] = @ \cup {l}]
      /\ UNCHANGED <<schedVars, value, waiters, cond_waiters, arg, cond, ret>>
  BY Zenon DEF lock_set_holder, At, Goto
<1>2. l \in Locks
  BY Zenon, <1>1, Inv_ArgsFit DEF ArgsFit, Fit
<1>3. TypeOK'
  <2>1. held' \in [Threads -> SUBSET Locks]
    BY Zenon, <1>1, <1>2, Inv_TypeOK DEF TypeOK
  <2>2. pc' \in [Threads -> Pcs] /\ holder' \in [Locks -> Threads \cup {NULL}]
    BY Zenon, <1>1, <1>2, Inv_TypeOK DEF TypeOK, Pcs
  <2>3. QED
    BY Zenon, <1>1, <2>1, <2>2, Inv_TypeOK DEF TypeOK, ThreadTypeOK, schedVars
<1>4. pc'[t] = "user" /\ held'[t] = held[t] \cup {l} /\ OthersSame(t)
  BY Zenon, <1>1, Inv_TypeOK DEF TypeOK, OthersSame
<1>5. \A r \in SemaIds : value'[r] <= value[r]
  <2>1. \A r \in SemaIds : value[r] \in Nat
    BY Zenon, Inv_TypeOK DEF TypeOK
  <2>2. QED
    BY <1>1, <2>1
<1>6. DormantOutside' /\ SleepersDown' /\ ListsSound' /\ NoLostWakeup'
  BY Zenon, <1>1, <1>3, <1>4, <1>5, QuietStep
<1>7. ArgsFit'
  BY Zenon, <1>4, Inv_ArgsFit, ArgsSame DEF Fit
<1>8. LockUnits'
  <2>1. \A m \in Locks : Owns(t, m)' <=> Owns(t, m)
    BY Zenon, <1>1, <1>4 DEF Owns
  <2>2. QED
    BY Zenon, <1>1, <1>4, <2>1, Inv_LockUnits, UnitsSame
<1>9. HolderAccurate'
  <2>1. holder'[l] = t /\ \A m \in Locks : m # l => holder'[m] = holder[m]
    BY Zenon, <1>1, <1>2, Inv_TypeOK DEF TypeOK
  <2>2. Owns(t, l)
    BY Zenon, <1>1 DEF Owns
  <2>3. \A u \in Threads \ {t} : l \notin held[u]
    BY Zenon, <1>2, <2>2, Inv_LockUnits DEF LockUnits, Owns
  <2>4. \A u \in Threads \ {t} : held'[u] = held[u]
    BY Zenon, <1>4 DEF OthersSame
  <2> SUFFICES ASSUME NEW m \in Locks, NEW u \in Threads PROVE m \in held'[u] <=> holder'[m] = u
    BY Zenon DEF HolderAccurate
  <2>5. CASE m = l
    BY ZenonT(30), <1>4, <2>1, <2>3, <2>4, <2>5
  <2>6. CASE m # l
    <3>1. m \in held'[u] <=> m \in held[u]
      BY Zenon, <1>4, <2>4, <2>6
    <3>2. m \in held[u] <=> holder[m] = u
      BY ZenonT(30), Inv_HolderAccurate DEF HolderAccurate
    <3>3. QED
      BY Zenon, <2>1, <2>6, <3>1, <3>2
  <2>7. QED
    BY Zenon, <2>5, <2>6
<1>10. WakeupKept'
  BY Zenon, <1>1, <1>4, Inv_WakeupKept, WakeupsStay DEF InWait
<1>11. QED
  BY Zenon, <1>3, <1>6, <1>7, <1>8, <1>9, <1>10 DEF Inv

\* What the first half of a release does to the lock.
LEMMA Releases ==
  ASSUME Inv, NEW t \in Threads, NEW l \in Locks, l \in held[t], pc[t] = "user",
         OthersSame(t), pc'[t] = "up", arg'[t] = l, held'[t] = held[t] \ {l},
         holder' = [holder EXCEPT ![l] = NULL], \A m \in Locks : value'[m] = value[m]
  PROVE  LockUnits' /\ HolderAccurate'
<1>1. \A m \in Locks : Owns(t, m)' <=> Owns(t, m)
  BY Zenon DEF Owns
<1>2. LockUnits'
  BY Zenon, <1>1, Inv_LockUnits, UnitsSame
<1>3. holder'[l] = NULL /\ \A m \in Locks : m # l => holder'[m] = holder[m]
  BY Zenon, Inv_TypeOK DEF TypeOK
<1>4. /\ holder[l] = t /\ \A u \in Threads : u # t => l \notin held[u]
      /\ \A u \in Threads : u # t => held'[u] = held[u]
  <2>1. holder[l] = t
    BY Zenon, Inv_HolderAccurate DEF HolderAccurate
  <2>2. \A u \in Threads : u # t => l \notin held[u]
    BY ZenonT(30), <2>1, Inv_HolderAccurate DEF HolderAccurate
  <2>3. QED
    BY Zenon, <2>1, <2>2 DEF OthersSame
<1>5. \A u \in Threads : u # NULL
  BY Zenon, SynchAssumption DEF AllThreads
<1>6. HolderAccurate'
  <2> SUFFICES ASSUME NEW m \in Locks, NEW u \in Threads PROVE m \in held'[u] <=> holder'[m] = u
    BY Zenon DEF HolderAccurate
  <2>1. CASE m = l
    <3>1. l \notin held'[u]
      BY Zenon, <1>4
    <3>2. QED
      BY ZenonT(90), <1>3, <1>5, <2>1, <3>1
  <2>2. CASE m # l
    <3>1. m \in held'[u] <=> m \in held[u]
      BY Zenon, <1>4, <2>2
    <3>2. m \in held[u] <=> holder[m] = u
      BY Zenon, Inv_HolderAccurate DEF HolderAccurate
    <3>3. holder'[m] = holder[m]
      BY Zenon, <1>3, <2>2
    <3>4. QED
      BY Zenon, <3>1, <3>2, <3>3
  <2>3. QED
    BY Zenon, <2>1, <2>2
<1>7. QED
  BY Zenon, <1>2, <1>6

\* The types after the first half of a release.
LEMMA ReleaseTypes ==
  ASSUME Inv, NEW t \in Threads, NEW l \in Locks, NEW r \in Rets, Begin_release(t, l, r),
         value' \in [SemaIds -> Nat], waiters' \in [SemaIds -> Seq(Threads)],
         cond_waiters' \in [Conds -> Seq(Threads)], cond' \in [Threads -> Conds],
         UNCHANGED schedVars
  PROVE  /\ TypeOK'
         /\ pc'[t] = "up" /\ arg'[t] = l /\ ret'[t] = r /\ held'[t] = held[t] \ {l}
         /\ \A u \in Threads \ {t} : /\ pc'[u] = pc[u] /\ arg'[u] = arg[u]
                                     /\ ret'[u] = ret[u] /\ held'[u] = held[u]
<1>1. /\ holder' = [holder EXCEPT ![l] = NULL] /\ held' = [held EXCEPT ![t] = @ \ {l}]
      /\ pc' = [pc EXCEPT ![t] = "up"] /\ arg' = [arg EXCEPT ![t] = l]
      /\ ret' = [ret EXCEPT ![t] = r]
  BY Zenon DEF Begin_release, Goto
<1>2. held' \in [Threads -> SUBSET Locks]
  <2>1. held \in [Threads -> SUBSET Locks] /\ held[t] \ {l} \in SUBSET Locks
    BY Zenon, Inv_TypeOK DEF TypeOK
  <2>2. QED
    BY Zenon, <1>1, <2>1
<1>3. pc' \in [Threads -> Pcs] /\ holder' \in [Locks -> Threads \cup {NULL}]
  BY Zenon, <1>1, Inv_TypeOK DEF TypeOK, Pcs
<1>4. arg' \in [Threads -> SemaIds] /\ ret' \in [Threads -> Rets]
  BY Zenon, <1>1, Inv_TypeOK DEF TypeOK, SemaIds
<1>5. TypeOK'
  BY Zenon, <1>2, <1>3, <1>4, Inv_TypeOK DEF TypeOK, ThreadTypeOK, schedVars
<1>6. QED
  BY ZenonT(30), <1>1, <1>5, Inv_TypeOK DEF TypeOK

\* The holder is cleared before the unit is given back.
LEMMA Keeps_lock_release ==
  ASSUME Counting, Inv, NEW t \in Threads, NEW l \in Locks, lock_release(t, l)
  PROVE  Inv'
<1>1. /\ running = t /\ pc[t] = "user" /\ l \in held[t] /\ Begin_release(t, l, "user")
      /\ holder' = [holder EXCEPT ![l] = NULL]
      /\ UNCHANGED <<schedVars, value, waiters, cond_waiters, cond>>
  BY Zenon DEF lock_release, At, Begin_release
<1>2. /\ TypeOK' /\ OthersSame(t)
      /\ pc'[t] = "up" /\ arg'[t] = l /\ ret'[t] = "user" /\ held'[t] = held[t] \ {l}
  BY Zenon, <1>1, Inv_TypeOK, ReleaseTypes DEF TypeOK, OthersSame, Rets
<1>3. \A r \in SemaIds : value'[r] <= value[r]
  <2>1. \A r \in SemaIds : value[r] \in Nat
    BY Zenon, Inv_TypeOK DEF TypeOK
  <2>2. QED
    BY <1>1, <2>1
<1>4. DormantOutside' /\ SleepersDown' /\ ListsSound' /\ NoLostWakeup'
  BY Zenon, <1>1, <1>2, <1>3, QuietStep
<1>5. ArgsFit'
  BY Zenon, <1>2, Inv_ArgsFit, ArgsSame DEF Fit
<1>6. LockUnits' /\ HolderAccurate'
  BY Zenon, <1>1, <1>2, Releases
<1>7. l \notin Threads
  BY Zenon, SynchAssumption
<1>8. WakeupKept'
  BY Zenon, <1>1, <1>2, <1>7, Inv_WakeupKept, WakeupsStay DEF InWait
<1>9. QED
  BY Zenon, <1>2, <1>4, <1>5, <1>6, <1>8 DEF Inv

\* A thread queues up on a condition and releases its lock.
LEMMA Keeps_cond_wait ==
  ASSUME Counting, Inv, NEW t \in Threads, NEW c \in Conds, cond_wait(t, c)
  PROVE  Inv'
<1> DEFINE k == CondLock[c]
<1>1. /\ running = t /\ pc[t] = "user" /\ k \in held[t] /\ Begin_release(t, k, "wait")
      /\ value' = [value EXCEPT ![t] = 0] /\ waiters' = [waiters EXCEPT ![t] = <<>>]
      /\ cond_waiters' = [cond_waiters EXCEPT ![c] = Append(@, t)]
      /\ cond' = [cond EXCEPT ![t] = c] /\ UNCHANGED schedVars
      /\ holder' = [holder EXCEPT ![k] = NULL]
  BY Zenon DEF cond_wait, At, Begin_release
<1>2. k \in Locks /\ k \notin Threads /\ t \in SemaIds
  BY Zenon, SynchAssumption DEF SemaIds
<1>3. ~InWait(t) /\ value[t] = 0
  <2>1. ~InWait(t)
    BY Zenon, <1>1 DEF InWait
  <2>2. QED
    BY Zenon, <2>1, Inv_WakeupKept DEF WakeupKept
<1>4. waiters[t] = <<>>
  <2>1. waiters[t] \in Seq(Threads)
    BY Zenon, <1>2, Inv_TypeOK DEF TypeOK
  <2>2. ASSUME NEW u \in Elems(waiters[t]) PROVE FALSE
    <3>1. u \in Threads /\ pc[u] = "down" /\ arg[u] = t
      BY Zenon, <1>2, <2>1, <2>2, ElemsEmpty, Inv_SleepersDown DEF SleepersDown
    <3>2. u = t
      BY Zenon, <3>1, Inv_ArgsFit, SynchAssumption DEF ArgsFit, Fit
    <3>3. QED
      BY Zenon, <1>1, <3>1, <3>2
  <2>3. QED
    BY Zenon, <2>1, <2>2, ElemsEmpty
<1>5. value' = value /\ waiters' = waiters
  BY Zenon, <1>1, <1>3, <1>4, Inv_TypeOK DEF TypeOK
<1>6. cond_waiters' \in [Conds -> Seq(Threads)] /\ cond' \in [Threads -> Conds]
  BY Zenon, <1>1, ElemsAppend, Inv_TypeOK DEF TypeOK
<1>7. /\ TypeOK' /\ OthersSame(t)
      /\ pc'[t] = "up" /\ arg'[t] = k /\ ret'[t] = "wait" /\ held'[t] = held[t] \ {k}
      /\ cond'[t] = c
  <2>1. cond'[t] = c /\ \A u \in Threads \ {t} : cond'[u] = cond[u]
    BY Zenon, <1>1, Inv_TypeOK DEF TypeOK
  <2>2. value' \in [SemaIds -> Nat] /\ waiters' \in [SemaIds -> Seq(Threads)] /\ "wait" \in Rets
    BY Zenon, <1>5, Inv_TypeOK DEF TypeOK, Rets
  <2>3. /\ TypeOK' /\ pc'[t] = "up" /\ arg'[t] = k /\ ret'[t] = "wait" /\ held'[t] = held[t] \ {k}
        /\ \A u \in Threads \ {t} : /\ pc'[u] = pc[u] /\ arg'[u] = arg[u]
                                    /\ ret'[u] = ret[u] /\ held'[u] = held[u]
    BY Zenon, <1>1, <1>2, <1>6, <2>2, ReleaseTypes
  <2>4. QED
    BY Zenon, <2>1, <2>3 DEF OthersSame
<1>8. \A r \in SemaIds : value'[r] <= value[r]
  <2>1. \A r \in SemaIds : value[r] \in Nat
    BY Zenon, Inv_TypeOK DEF TypeOK
  <2>2. QED
    BY <1>5, <2>1
<1>9. DormantOutside' /\ SleepersDown' /\ ListsSound' /\ NoLostWakeup'
  BY Zenon, <1>1, <1>5, <1>7, <1>8, QuietStep
<1>10. ArgsFit'
  BY Zenon, <1>2, <1>7, Inv_ArgsFit, ArgsSame DEF Fit
<1>11. LockUnits' /\ HolderAccurate'
  BY Zenon, <1>1, <1>2, <1>5, <1>7, Releases
<1>12. WakeupKept'
  <2>1. InWait(t)' /\ \A w \in Threads : w # t => (InWait(w)' <=> InWait(w))
    BY Zenon, <1>7 DEF InWait, OthersSame
  <2>2. \A u, w \in Threads : Signals(u, w)' <=> Signals(u, w)
    BY ZenonT(30), <1>1, <1>2, <1>7 DEF Signals, OthersSame
  <2>3. ~Queued(t) /\ \A u \in Threads : ~Signals(u, t)
    BY Zenon, <1>3, Inv_WakeupKept DEF WakeupKept
  <2>4. /\ Elems(cond_waiters'[c]) = Elems(cond_waiters[c]) \cup {t}
        /\ Injective(cond_waiters'[c])
        /\ \A d \in Conds : d # c => cond_waiters'[d] = cond_waiters[d]
    <3>1. cond_waiters'[c] = Append(cond_waiters[c], t) /\ cond_waiters[c] \in Seq(Threads)
      BY Zenon, <1>1, Inv_TypeOK DEF TypeOK
    <3>2. Injective(cond_waiters[c]) /\ t \notin Elems(cond_waiters[c])
      BY Zenon, <2>3, Inv_WakeupKept DEF WakeupKept, Queued
    <3>3. \A d \in Conds : d # c => cond_waiters'[d] = cond_waiters[d]
      BY Zenon, <1>1, Inv_TypeOK DEF TypeOK
    <3>4. /\ Elems(Append(cond_waiters[c], t)) = Elems(cond_waiters[c]) \cup {t}
          /\ Injective(Append(cond_waiters[c], t))
      BY <3>1, <3>2, ElemsAppend
    <3>5. QED
      BY Zenon, <3>1, <3>3, <3>4
  <2>5. Queued(t)' /\ \A w \in Threads : w # t => (Queued(w)' <=> Queued(w))
    BY Zenon, <2>4 DEF Queued
  <2>6. \A w \in Threads, d \in Conds : w # t =>
          (w \in Elems(cond_waiters'[d]) <=> w \in Elems(cond_waiters[d]))
    BY Zenon, <2>4
  <2>7. \A d \in Conds : t \in Elems(cond_waiters'[d]) => d = c
    BY Zenon, <2>3, <2>4 DEF Queued
  <2>8. /\ \A d \in Conds : Injective(cond_waiters'[d])
        /\ \A w \in Threads, d, e \in Conds :
             w \in Elems(cond_waiters'[d]) /\ w \in Elems(cond_waiters'[e]) => d = e
    <3>1. \A d \in Conds : Injective(cond_waiters'[d])
      BY Zenon, <2>4, Inv_WakeupKept DEF WakeupKept
    <3>2. ASSUME NEW w \in Threads, NEW d \in Conds, NEW e \in Conds,
                 w \in Elems(cond_waiters'[d]), w \in Elems(cond_waiters'[e])
          PROVE  d = e
      <4>1. CASE w = t
        BY Zenon, <2>7, <3>2, <4>1
      <4>2. CASE w # t
        BY Zenon, <2>6, <3>2, <4>2, Inv_WakeupKept DEF WakeupKept
      <4>3. QED
        BY Zenon, <4>1, <4>2
    <3>3. QED
      BY Zenon, <3>1, <3>2
  <2>9. /\ \A w, u, v \in Threads : Signals(u, w)' /\ Signals(v, w)' => u = v
        /\ \A w, u \in Threads : Signals(u, w)' => ~Queued(w)'
    <3>1. \A w, u, v \in Threads : Signals(u, w)' /\ Signals(v, w)' => u = v
      BY Zenon, <2>2, Inv_WakeupKept DEF WakeupKept
    <3>2. ASSUME NEW w \in Threads, NEW u \in Threads, Signals(u, w)' PROVE ~Queued(w)'
      <4>1. Signals(u, w) /\ w # t
        BY Zenon, <2>2, <2>3, <3>2
      <4>2. ~Queued(w)
        BY Zenon, <4>1, Inv_WakeupKept DEF WakeupKept
      <4>3. QED
        BY Zenon, <2>5, <4>1, <4>2
    <3>3. QED
      BY Zenon, <3>1, <3>2
  <2>10. ASSUME NEW w \in Threads
         PROVE  /\ value'[w] \in {0, 1}
                /\ Queued(w)' \/ (\E u \in Threads : Signals(u, w)') => value'[w] = 0 /\ InWait(w)'
                /\ value'[w] = 1 => InWait(w)'
                /\ InWait(w)' => Queued(w)' \/ (\E u \in Threads : Signals(u, w)') \/ value'[w] = 1
    <3>1. CASE w = t
      BY Zenon, <1>3, <1>5, <2>1, <2>5, <3>1
    <3>2. CASE w # t
      BY Zenon, <1>5, <2>1, <2>2, <2>5, <3>2, Inv_WakeupKept DEF WakeupKept
    <3>3. QED
      BY Zenon, <3>1, <3>2
  <2>11. QED
    BY Zenon, <2>8, <2>9, <2>10 DEF WakeupKept
<1>13. QED
  BY Zenon, <1>7, <1>9, <1>10, <1>11, <1>12 DEF Inv

\* cond_broadcast begins.
LEMMA Keeps_cond_broadcast ==
  ASSUME Counting, Inv, NEW t \in Threads, NEW c \in Conds, cond_broadcast(t, c)
  PROVE  Inv'
<1>1. /\ running = t /\ pc[t] = "user" /\ pc' = [pc EXCEPT ![t] = "bcast"]
      /\ cond' = [cond EXCEPT ![t] = c]
      /\ UNCHANGED <<schedVars, value, waiters, holder, cond_waiters, arg, ret, held>>
  BY Zenon DEF cond_broadcast, At, Goto
<1>2. pc' \in [Threads -> Pcs] /\ cond' \in [Threads -> Conds]
  BY Zenon, <1>1, Inv_TypeOK DEF TypeOK, Pcs
<1>3. TypeOK'
  BY Zenon, <1>1, <1>2, Inv_TypeOK DEF TypeOK, ThreadTypeOK, schedVars
<1>4. pc'[t] = "bcast" /\ OthersSame(t)
  BY Zenon, <1>1, Inv_TypeOK DEF TypeOK, OthersSame
<1>5. \A r \in SemaIds : value'[r] <= value[r]
  <2>1. \A r \in SemaIds : value[r] \in Nat
    BY Zenon, Inv_TypeOK DEF TypeOK
  <2>2. QED
    BY <1>1, <2>1
<1>6. DormantOutside' /\ SleepersDown' /\ ListsSound' /\ NoLostWakeup'
  BY Zenon, <1>1, <1>3, <1>4, <1>5, QuietStep
<1>7. ArgsFit'
  BY Zenon, <1>4, Inv_ArgsFit, ArgsSame DEF Fit
<1>8. LockUnits' /\ HolderAccurate'
  BY Zenon, <1>1, <1>4, Inv_LockUnits, Inv_HolderAccurate, UnitsSame DEF Owns, HolderAccurate
<1>9. WakeupKept'
  BY Zenon, <1>1, <1>4, Inv_WakeupKept, WakeupsStay DEF InWait
<1>10. QED
  BY Zenon, <1>3, <1>6, <1>7, <1>8, <1>9 DEF Inv

\* A waiter leaves its queue for the thread that will wake it.
LEMMA Keeps_Pop_waiter ==
  ASSUME Counting, Inv, NEW t \in Threads, NEW c \in Conds, NEW r \in {"user", "bcast"},
         running = t, pc[t] \in {"user", "bcast"}, Pop_waiter(t, c, r),
         UNCHANGED <<schedVars, value, waiters, holder, cond, held>>
  PROVE  Inv'
<1> USE SynchAssumption DEF Pop_waiter, Goto, SemaIds
<1> DEFINE h == Head(cond_waiters[c])
<1>0. /\ h \in Threads /\ h \in Elems(cond_waiters[c])
      /\ Tail(cond_waiters[c]) \in Seq(Threads)
      /\ Elems(Tail(cond_waiters[c])) = Elems(cond_waiters[c]) \ {h}
      /\ Injective(Tail(cond_waiters[c]))
  BY ZenonT(30), ElemsTail, Inv_TypeOK, Inv_WakeupKept DEF TypeOK, WakeupKept
<1>1. TypeOK'
  <2>1. cond_waiters' \in [Conds -> Seq(Threads)]
    BY Zenon, <1>0, Inv_TypeOK DEF TypeOK
  <2>2. pc' \in [Threads -> Pcs] /\ arg' \in [Threads -> SemaIds] /\ ret' \in [Threads -> Rets]
    BY Zenon, <1>0, Inv_TypeOK DEF TypeOK, Pcs, Rets
  <2>3. QED
    BY Zenon, <2>1, <2>2, Inv_TypeOK DEF TypeOK, ThreadTypeOK, schedVars
<1>a. /\ pc'[t] = "up" /\ arg'[t] = h /\ ret'[t] = r
      /\ \A u \in Threads \ {t} : pc'[u] = pc[u] /\ arg'[u] = arg[u] /\ ret'[u] = ret[u]
  BY ZenonT(30), <1>0, Inv_TypeOK DEF TypeOK
<1>2. ArgsFit'
  <2>1. h \notin Locks /\ held[t] \subseteq Locks
    BY Zenon, <1>0, Inv_TypeOK DEF TypeOK
  <2>2. QED
    BY <1>0, <1>a, <2>1, Inv_ArgsFit DEF ArgsFit, Fit
<1>3. DormantOutside' /\ SleepersDown' /\ ListsSound'
  BY Zenon, <1>1, <1>a, QuietLists DEF TypeOK
<1>4. LockUnits'
  <2>1. \A u \in Threads, m \in Locks : Owns(u, m)' <=> Owns(u, m)
    BY <1>0, <1>a DEF Owns
  <2>2. QED
    BY Zenon, <2>1, LocksSame DEF Inv
<1>5. HolderAccurate'
  BY ZenonT(30), Inv_HolderAccurate DEF HolderAccurate
<1>6. WakeupKept'
  <2>1. \A w \in Threads : InWait(w)' <=> InWait(w)
    BY Zenon, <1>a DEF InWait
  <2>2. /\ Queued(h) /\ InWait(h) /\ value[h] = 0 /\ \A u \in Threads : ~Signals(u, h)
        /\ \A d \in Conds : h \in Elems(cond_waiters[d]) => d = c
    BY Zenon, <1>0, Inv_WakeupKept DEF WakeupKept, Queued
  <2>3. \A u, w \in Threads : Signals(u, w)' <=> (Signals(u, w) \/ (u = t /\ w = h))
    BY Zenon, <1>0, <1>a DEF Signals
  <2>4. /\ \A d \in Conds : Injective(cond_waiters'[d])
        /\ \A w \in Threads, d \in Conds :
             w \in Elems(cond_waiters'[d]) <=> w \in Elems(cond_waiters[d]) /\ w # h
    <3>1. /\ cond_waiters'[c] = Tail(cond_waiters[c])
          /\ \A d \in Conds : d # c => cond_waiters'[d] = cond_waiters[d]
      BY Zenon, Inv_TypeOK DEF TypeOK
    <3>2. \A d \in Conds : Injective(cond_waiters[d])
      BY Zenon, Inv_WakeupKept DEF WakeupKept
    <3>3. QED
      BY Zenon, <1>0, <2>2, <3>1, <3>2
  <2>5. \A w \in Threads : Queued(w)' <=> Queued(w) /\ w # h
    BY Zenon, <2>4 DEF Queued
  <2>6. QED
    BY SMTT(30), <2>1, <2>2, <2>3, <2>4, <2>5, Inv_WakeupKept DEF WakeupKept
<1>7. NoLostWakeup'
  <2>1. \A s \in SemaIds : Testing(s) \subseteq Testing(s)'
    BY Zenon, <1>a DEF Testing, schedVars
  <2>2. \A s \in SemaIds : value[s] \in Nat
    BY Zenon, Inv_TypeOK DEF TypeOK
  <2>3. QED
    BY <2>1, <2>2, TestingGrows DEF Inv
<1>8. QED
  BY Zenon, <1>1, <1>2, <1>3, <1>4, <1>5, <1>6, <1>7 DEF Inv

\* cond_signal takes the oldest waiter.
LEMMA Keeps_cond_signal ==
  ASSUME Counting, Inv, NEW t \in Threads, NEW c \in Conds, cond_signal(t, c)
  PROVE  Inv'
BY Zenon, Keeps_Pop_waiter DEF cond_signal, At

\* Another waiter leaves its queue, or there is none left.
LEMMA Keeps_cond_broadcast_loop ==
  ASSUME Counting, Inv, NEW t \in Threads, cond_broadcast_loop(t)
  PROVE  Inv'
<1>1. CASE Pop_waiter(t, cond[t], "bcast")
  BY Zenon, <1>1, Keeps_Pop_waiter, Inv_TypeOK DEF cond_broadcast_loop, At, TypeOK
<1>2. CASE Goto(t, "user") /\ UNCHANGED <<cond_waiters, arg, ret>>
  <2> USE <1>2, SynchAssumption DEF cond_broadcast_loop, At, Goto, SemaIds
  <2>0. UNCHANGED <<schedVars, value, waiters, holder, cond_waiters, arg, cond, ret, held>>
    BY Zenon
  <2>1. TypeOK'
    BY ZenonT(30), <2>0, Inv_TypeOK DEF TypeOK, ThreadTypeOK, schedVars, Pcs
  <2>a. pc[t] = "bcast" /\ pc'[t] = "user" /\ \A u \in Threads \ {t} : pc'[u] = pc[u]
    BY Zenon, Inv_TypeOK DEF TypeOK
  <2>2. ArgsFit'
    BY <2>0, <2>a, Inv_ArgsFit DEF ArgsFit, Fit
  <2>3. DormantOutside' /\ SleepersDown' /\ ListsSound'
    BY Zenon, <2>0, <2>1, <2>a, QuietLists DEF TypeOK
  <2>4. LockUnits'
    BY Zenon, <2>0, <2>a, LocksSame, Inv_LockUnits DEF Owns
  <2>5. HolderAccurate'
    BY Zenon, <2>0, Inv_HolderAccurate DEF HolderAccurate
  <2>6. WakeupKept'
    BY Zenon, <2>0, <2>a, WakeupsSame, Inv_WakeupKept DEF InWait, Signals
  <2>7. NoLostWakeup'
    <3>1. \A s \in SemaIds : Testing(s) \subseteq Testing(s)'
      BY Zenon, <2>0, <2>a DEF Testing, schedVars
    <3>2. QED
      BY <2>0, <3>1, TestingGrows, Inv_TypeOK, Inv_NoLostWakeup DEF TypeOK
  <2>8. QED
    BY Zenon, <2>1, <2>2, <2>3, <2>4, <2>5, <2>6, <2>7 DEF Inv
<1>3. QED
  BY Zenon, <1>1, <1>2 DEF cond_broadcast_loop

-----------------------------------------------------------------------------
(* sema_up *)

\* Whom a sema_up wakes: the oldest sleeper, if there is one.
Woken(s) == IF waiters[s] = <<>> THEN {} ELSE {Head(waiters[s])}

\* sema_up moves the oldest sleeper from the semaphore's list to the run queue.
LEMMA Wakes ==
  ASSUME Inv, NEW s \in SemaIds, sema_up(s)
  PROVE  /\ running' = running /\ ThreadTypeOK'
         /\ value' \in [SemaIds -> Nat] /\ waiters' \in [SemaIds -> Seq(Threads)]
         /\ value'[s] = value[s] + 1
         /\ \A r \in SemaIds : r # s => value'[r] = value[r] /\ waiters'[r] = waiters[r]
         /\ waiters[s] = <<>> => waiters'[s] = <<>>
         /\ \A r \in SemaIds :
              /\ Injective(waiters'[r])
              /\ Elems(waiters'[r]) = Elems(waiters[r]) \ Woken(s)
         /\ Injective(ready_list') /\ Elems(ready_list') = Elems(ready_list) \cup Woken(s)
         /\ \A u \in AllThreads : status'[u] = IF u \in Woken(s) THEN "READY" ELSE status[u]
         /\ \A u \in Woken(s) : /\ u \in Threads /\ u \in Elems(waiters[s])
                                /\ status[u] = "BLOCKED" /\ pc[u] = "down" /\ arg[u] = s
<1> USE SynchAssumption, ThreadAssumption DEF sema_up, AllThreads
<1>1. /\ value' \in [SemaIds -> Nat] /\ value'[s] = value[s] + 1
      /\ \A r \in SemaIds : r # s => value'[r] = value[r]
  BY SMTT(30), Inv_TypeOK DEF TypeOK
<1>2. CASE waiters[s] = <<>>
  BY SMTT(30), <1>1, <1>2, Inv_TypeOK, Inv_ListsSound DEF Woken, schedVars, TypeOK, ThreadTypeOK, ListsSound
<1>3. CASE waiters[s] # <<>>
  <2> DEFINE h == Head(waiters[s])
  <2>1. /\ h \in Threads /\ h \in Elems(waiters[s])
        /\ Tail(waiters[s]) \in Seq(Threads) /\ Injective(Tail(waiters[s]))
        /\ Elems(Tail(waiters[s])) = Elems(waiters[s]) \ {h}
    BY Zenon, <1>3, ElemsTail DEF Inv, TypeOK, ListsSound
  <2>2. status[h] = "BLOCKED" /\ pc[h] = "down" /\ arg[h] = s
    BY Zenon, <2>1, Inv_SleepersDown, Inv_ListsSound DEF ListsSound, SleepersDown
  <2>3. h \notin Elems(ready_list)
    BY Zenon, <2>1, <2>2, Inv_ListsSound DEF ListsSound
  <2>4. /\ ready_list' \in Seq(Threads) /\ Injective(ready_list')
        /\ Elems(ready_list') = Elems(ready_list) \cup {h}
    <3>1. ready_list' = Append(ready_list, h) /\ ready_list \in Seq(Threads)
      BY Zenon, <1>3, Inv_TypeOK DEF thread_unblock, TypeOK, ThreadTypeOK
    <3>2. Injective(ready_list)
      BY Zenon, Inv_ListsSound DEF ListsSound
    <3>3. QED
      BY <2>1, <2>3, <3>1, <3>2, ElemsAppend
  <2>5. /\ waiters' = [waiters EXCEPT ![s] = Tail(waiters[s])]
        /\ status' = [status EXCEPT ![h] = "READY"] /\ UNCHANGED <<running, thread_ticks>>
    BY Zenon, <1>3 DEF thread_unblock
  <2>6. \A r \in SemaIds : r # s => h \notin Elems(waiters[r])
    BY Zenon, <2>1, <2>2, Inv_SleepersDown DEF SleepersDown
  <2>7. /\ waiters' \in [SemaIds -> Seq(Threads)] /\ waiters'[s] = Tail(waiters[s])
        /\ \A r \in SemaIds : r # s => waiters'[r] = waiters[r]
    BY Zenon, <2>1, <2>5, Inv_TypeOK DEF TypeOK
  <2>8. \A r \in SemaIds : /\ Injective(waiters'[r])
                           /\ Elems(waiters'[r]) = Elems(waiters[r]) \ {h}
    <3> TAKE r \in SemaIds
    <3>1. CASE r = s
      BY Zenon, <2>1, <2>7, <3>1
    <3>2. CASE r # s
      BY <2>6, <2>7, <3>2, Inv_ListsSound DEF ListsSound
    <3>3. QED
      BY Zenon, <3>1, <3>2
  <2>9. /\ status' \in [AllThreads -> ThreadStatus]
        /\ \A u \in AllThreads : status'[u] = IF u \in {h} THEN "READY" ELSE status[u]
    BY Zenon, <2>1, <2>5, Inv_TypeOK DEF TypeOK, ThreadTypeOK, ThreadStatus
  <2>10. ThreadTypeOK'
    BY Zenon, <2>4, <2>5, <2>9, Inv_TypeOK DEF TypeOK, ThreadTypeOK
  <2>11. Woken(s) = {h}
    BY Zenon, <1>3 DEF Woken
  <2>12. QED
    BY ZenonT(30), <1>1, <1>3, <2>1, <2>2, <2>4, <2>5, <2>7, <2>8, <2>9, <2>10, <2>11
<1>4. QED
  BY Zenon, <1>2, <1>3

\* What of it the other semaphores and the lists see.
LEMMA WakesLists ==
  ASSUME Inv, NEW s \in SemaIds, sema_up(s)
  PROVE  /\ \A r \in SemaIds : Elems(waiters'[r]) = Elems(waiters[r]) \ Woken(s)
         /\ \A r \in SemaIds : waiters'[r] # <<>> => waiters[r] # <<>>
         /\ \A u \in Threads : status'[u] = IF u \in Woken(s) THEN "READY" ELSE status[u]
<1>1. \A r \in SemaIds : Elems(waiters'[r]) = Elems(waiters[r]) \ Woken(s)
  BY ZenonT(30), Wakes
<1>2. \A r \in SemaIds : r # s => waiters'[r] = waiters[r]
  BY Wakes
<1>3. waiters[s] = <<>> => waiters'[s] = <<>>
  BY Zenon, Wakes
<1>4. \A u \in AllThreads : status'[u] = IF u \in Woken(s) THEN "READY" ELSE status[u]
  BY Zenon, Wakes
<1>5. QED
  BY Zenon, <1>1, <1>2, <1>3, <1>4 DEF AllThreads

\* A sema_up keeps the lists and loses no wakeup, also when the running thread
\* goes on to another place outside sema_down in the same step.
LEMMA SemaUpLists ==
  ASSUME Counting, Inv, NEW s \in SemaIds, sema_up(s),
         \A u \in Threads :
           \/ pc'[u] = pc[u] /\ arg'[u] = arg[u] /\ held'[u] = held[u]
           \/ u = running /\ pc[u] \notin {"create", "down"} /\ pc'[u] # "create"
  PROVE  DormantOutside' /\ SleepersDown' /\ ListsSound' /\ NoLostWakeup'
<1>1. \A u \in Threads : u = running =>
        status[u] = "RUNNING" /\ ~BeingCreated(u) /\ \A r \in SemaIds : u \notin Elems(waiters[r])
  BY Zenon, Inv_ListsSound DEF ListsSound, AllThreads
<1>2. \A u \in Threads : BeingCreated(u)' <=> BeingCreated(u)
  BY Zenon DEF BeingCreated
<1>a. \A u \in Threads : status'[u] = IF u \in Woken(s) THEN "READY" ELSE status[u]
  BY Zenon, WakesLists
<1>b. \A u \in Woken(s) : /\ u \in Threads /\ u \in Elems(waiters[s]) /\ status[u] = "BLOCKED"
                          /\ pc[u] = "down" /\ arg[u] = s
  BY Zenon, Wakes
<1>3. DormantOutside'
  <2>1. \A u \in Threads : status'[u] \in {"FREE", "DYING"} => u # running /\ Dormant(u)
    BY Zenon, <1>1, <1>a, Inv_DormantOutside DEF DormantOutside
  <2>2. \A u \in Threads : pc'[u] = "create" =>
          pc[u] = "create" /\ arg'[u] = arg[u] /\ arg[u] \in Threads /\ arg[u] # running
    BY ZenonT(30), <1>1 DEF BeingCreated, Inv, ArgsFit, Fit
  <2>3. QED
    BY <2>1, <2>2, Inv_DormantOutside DEF DormantOutside, Dormant
<1>4. SleepersDown'
  <2>1. \A r \in SemaIds : Elems(waiters'[r]) \subseteq Elems(waiters[r])
    <3>1. \A r \in SemaIds : Elems(waiters'[r]) = Elems(waiters[r]) \ Woken(s)
      BY Zenon, WakesLists
    <3>2. QED
      BY Zenon, <3>1
  <2>2. \A r \in SemaIds : Elems(waiters[r]) \subseteq Threads
    BY Zenon, WaitersIn
  <2>3. QED
    BY <1>1, <2>1, <2>2, Inv_SleepersDown DEF SleepersDown
<1>5. ListsSound'
  <2>1. \A u \in AllThreads : status'[u] = "RUNNING" <=> u = running'
    <3>1. \A u \in AllThreads : status'[u] = (IF u \in Woken(s) THEN "READY" ELSE status[u])
      BY Zenon, Wakes
    <3>2. running' = running
      BY Zenon, Wakes
    <3>3. QED
      BY Zenon, <1>b, <3>1, <3>2, Inv_ListsSound DEF ListsSound
  <2>2. \A u \in Threads : status'[u] = "READY" <=> u \in Elems(ready_list')
    <3>1. Elems(ready_list') = Elems(ready_list) \cup Woken(s)
      BY Zenon, Wakes
    <3>2. QED
      BY Zenon, <1>a, <1>b, <3>1, Inv_ListsSound DEF ListsSound
  <2>3. \A u \in Threads : u \in Woken(s) => ~BeingCreated(u)
    BY Zenon, <1>b, Inv_DormantOutside DEF BeingCreated, DormantOutside, Dormant
  <2>4. \A u \in Threads : (\E r \in SemaIds : u \in Elems(waiters'[r])) <=>
          u \notin Woken(s) /\ \E r \in SemaIds : u \in Elems(waiters[r])
    <3>1. \A r \in SemaIds : Elems(waiters'[r]) = Elems(waiters[r]) \ Woken(s)
      BY Zenon, WakesLists
    <3>2. QED
      BY Zenon, <3>1
  <2>5. \A u \in Threads : status'[u] = "BLOCKED" <=>
          BeingCreated(u)' \/ \E r \in SemaIds : u \in Elems(waiters'[r])
    BY Zenon, <1>2, <1>a, <2>3, <2>4, Inv_ListsSound DEF ListsSound
  <2>6. QED
    BY Zenon, <2>1, <2>2, <2>5, Wakes DEF ListsSound
<1>6. NoLostWakeup'
  <2> SUFFICES ASSUME NEW r \in SemaIds, waiters'[r] # <<>>
               PROVE  Cardinality(Testing(r)') >= value'[r]
    BY Zenon DEF NoLostWakeup
  <2>1. waiters[r] # <<>> /\ Cardinality(Testing(r)) >= value[r] /\ value[r] \in Nat
    <3>1. waiters[r] # <<>>
      BY Zenon, WakesLists
    <3>2. QED
      BY Zenon, <3>1, Inv_TypeOK, Inv_NoLostWakeup DEF NoLostWakeup, TypeOK
  <2>2. Testing(r) \subseteq Testing(r)'
    BY ZenonT(30), <1>1, <1>a DEF Testing
  <2>3. CASE r # s
    <3>1. Cardinality(Testing(r)) <= Cardinality(Testing(r)')
      BY ZenonT(30), <2>2, TestingIn DEF Counting
    <3>2. QED
      BY SMTT(30), <2>1, <2>3, <3>1, TestingCount, Wakes
  <2>4. CASE r = s
    <3>1. PICK h \in Woken(s) : TRUE
      BY Zenon, <2>1, <2>4 DEF Woken
    <3>2. h \notin Testing(r) /\ h \in Testing(r)'
      BY Zenon, <1>1, <1>a, <1>b, <2>4, <3>1 DEF Testing
    <3>3. Cardinality(Testing(r) \cup {h}) = Cardinality(Testing(r)) + 1
      BY Zenon, <3>2, TestingIn DEF Counting
    <3>4. Cardinality(Testing(r) \cup {h}) <= Cardinality(Testing(r)')
      BY Zenon, <2>2, <3>2, TestingIn DEF Counting
    <3>5. QED
      BY SMTT(30), <2>1, <2>4, <3>3, <3>4, TestingCount, Wakes
  <2>5. QED
    BY Zenon, <2>3, <2>4
<1>7. QED
  BY Zenon, <1>3, <1>4, <1>5, <1>6

\* sema_up by a thread or by an interrupt handler, on a semaphore of its own.
LEMMA Keeps_sema_up ==
  ASSUME Counting, Inv, NEW s \in Semas, sema_up(s),
         UNCHANGED <<holder, cond_waiters, pc, arg, cond, ret, held>>
  PROVE  Inv'
<1> USE SynchAssumption DEF SemaIds
<1>1. TypeOK'
  BY Zenon, Wakes, Inv_TypeOK DEF TypeOK
<1>2. ArgsFit' /\ HolderAccurate'
  BY ZenonT(30), Inv_ArgsFit, Inv_HolderAccurate DEF ArgsFit, Fit, HolderAccurate
<1>3. DormantOutside' /\ SleepersDown' /\ ListsSound' /\ NoLostWakeup'
  BY Zenon, SemaUpLists
<1>a. (\A l \in Locks : value'[l] = value[l]) /\ \A u \in Threads : value'[u] = value[u]
  <2>1. \A r \in SemaIds : r # s => value'[r] = value[r]
    BY Wakes
  <2>2. s \notin Locks /\ s \notin Threads
    BY Zenon DEF AllThreads
  <2>3. QED
    BY Zenon, <2>1, <2>2
<1>4. LockUnits'
  BY Zenon, <1>a, Inv_LockUnits, LocksSame DEF Owns
<1>5. WakeupKept'
  BY Zenon, <1>a, Inv_WakeupKept, WakeupsSame DEF InWait, Signals
<1>6. QED
  BY Zenon, <1>1, <1>2, <1>3, <1>4, <1>5 DEF Inv

\* sema_up at the end of lock_release and of cond_signal: the lock's unit, or
\* the waiter's wakeup, goes from the thread to the semaphore.
LEMMA Keeps_call_sema_up ==
  ASSUME Counting, Inv, NEW t \in Threads, call_sema_up(t)
  PROVE  Inv'
<1> USE SynchAssumption DEF SemaIds
<1> DEFINE a == arg[t]
<1>0. /\ running = t /\ pc[t] = "up" /\ sema_up(a) /\ a \in Locks \cup Threads
      /\ UNCHANGED <<holder, cond_waiters, cond, ret, held>>
  BY Zenon, Inv_ArgsFit DEF call_sema_up, At, ArgsFit, Fit
<1>1. /\ pc' = [pc EXCEPT ![t] = IF ret[t] = "wait" THEN "down" ELSE ret[t]]
      /\ arg' = [arg EXCEPT ![t] = IF ret[t] = "wait" THEN t ELSE @]
  BY SMTT(30), Inv_TypeOK DEF call_sema_up, Goto, Call_sema_down, TypeOK
<1>2. /\ pc'[t] = (IF ret[t] = "wait" THEN "down" ELSE ret[t])
      /\ arg'[t] = (IF ret[t] = "wait" THEN t ELSE a)
      /\ \A u \in Threads \ {t} : pc'[u] = pc[u] /\ arg'[u] = arg[u]
      /\ ret[t] \in {"user", "wait", "bcast"}
  BY ZenonT(30), <1>1, Inv_TypeOK DEF TypeOK, Rets
<1>3. TypeOK'
  <2>1. pc' \in [Threads -> Pcs] /\ arg' \in [Threads -> SemaIds]
    BY ZenonT(30), <1>1, <1>2, Inv_TypeOK DEF TypeOK, Pcs
  <2>2. QED
    BY Zenon, <1>0, <2>1, Wakes, Inv_TypeOK DEF TypeOK
<1>4. ArgsFit' /\ HolderAccurate'
  BY SMTT(30), <1>0, <1>2, Inv_ArgsFit, Inv_HolderAccurate DEF ArgsFit, Fit, HolderAccurate
<1>5. DormantOutside' /\ SleepersDown' /\ ListsSound' /\ NoLostWakeup'
  <2>1. \A u \in Threads :
          \/ pc'[u] = pc[u] /\ arg'[u] = arg[u] /\ held'[u] = held[u]
          \/ u = running /\ pc[u] \notin {"create", "down"} /\ pc'[u] # "create"
    BY Zenon, <1>0, <1>2
  <2>2. QED
    BY Zenon, <1>0, <2>1, SemaUpLists
<1>6. /\ value'[a] = value[a] + 1 /\ \A s \in SemaIds : s # a => value'[s] = value[s]
      /\ a \notin held[t] /\ (ret[t] = "wait" => a \in Locks)
  <2>1. a \notin held[t] /\ (ret[t] = "wait" => a \in Locks)
    BY ZenonT(30), <1>0, Inv_TypeOK, Inv_ArgsFit DEF ArgsFit, Fit, TypeOK
  <2>2. QED
    BY SMTT(30), <1>0, <2>1, Wakes
<1>7. LockUnits'
  <2>1. \A u \in Threads, l \in Locks : u # t \/ l # a => (Owns(u, l)' <=> Owns(u, l))
    BY Zenon, <1>0, <1>2 DEF Owns
  <2>2. \A l \in Locks : l = a => Owns(t, l) /\ ~Owns(t, l)' /\ value[l] = 0 /\ value'[l] = 1
    <3> SUFFICES ASSUME NEW l \in Locks, l = a
                 PROVE  Owns(t, l) /\ ~Owns(t, l)' /\ value[l] = 0 /\ value'[l] = 1
      BY Zenon
    <3>1. Owns(t, l) /\ ~Owns(t, l)'
      BY ZenonT(30), <1>0, <1>2, <1>6 DEF Owns
    <3>2. value[l] = 0
      BY ZenonT(30), <3>1, <1>0, Inv_LockUnits DEF LockUnits
    <3>3. value'[l] = value[l] + 1
      BY ZenonT(90), <1>6
    <3> QED
      BY <3>1, <3>2, <3>3
  <2>3. QED
    BY SMTT(30), <1>6, <2>1, <2>2, Inv_LockUnits DEF LockUnits
<1>8. WakeupKept'
  <2>1. \A w \in Threads : InWait(w)' <=> InWait(w)
    BY ZenonT(30), <1>0, <1>2, <1>6 DEF InWait
  <2>2. \A u, w \in Threads : Signals(u, w)' <=> Signals(u, w) /\ u # t
    BY Zenon, <1>0, <1>2 DEF Signals
  <2>3. \A w \in Threads : Queued(w)' <=> Queued(w)
    BY ZenonT(90), <1>0 DEF Queued
  <2>4. \A w \in Threads : w = a =>
          /\ Signals(t, w) /\ value[w] = 0 /\ value'[w] = 1 /\ InWait(w) /\ ~Queued(w)
          /\ \A u \in Threads : u # t => ~Signals(u, w)
    BY SMTT(30), <1>0, <1>6, Inv_WakeupKept DEF Signals, WakeupKept
  <2>5. \A w \in Threads : w # a => value'[w] = value[w] /\ ~Signals(t, w)
    BY Zenon, <1>6 DEF Signals
  <2>6. QED
    BY SMTT(30), <1>0, <2>1, <2>2, <2>3, <2>4, <2>5, Inv_WakeupKept DEF WakeupKept
<1>9. QED
  BY Zenon, <1>3, <1>4, <1>5, <1>7, <1>8 DEF Inv

-----------------------------------------------------------------------------
(* Thread switches *)

\* schedule() runs the thread at the front of the run queue, or idle.
LEMMA Switches ==
  ASSUME TypeOK, NEW st \in {"READY", "BLOCKED", "DYING"}, NEW list \in Seq(Threads),
         Injective(list), schedule(st, list)
  PROVE  /\ ThreadTypeOK' /\ running' \in Elems(list) \cup {idle_thread}
         /\ Injective(ready_list') /\ Elems(ready_list') = Elems(list) \ {running'}
         /\ \A u \in AllThreads :
              status'[u] = IF u = running' THEN "RUNNING"
                           ELSE IF u # running THEN status[u]
                           ELSE IF st = "DYING" /\ u # initial_thread THEN "FREE" ELSE st
<1> USE ThreadAssumption DEF AllThreads
<1>1. running' = next_thread_to_run(list) /\ ready_list' = Popped(list) /\ thread_ticks' = 0
  BY Zenon DEF schedule
<1>2. /\ running' \in Elems(list) \cup {idle_thread} /\ ready_list' \in Seq(Threads)
      /\ Injective(ready_list') /\ Elems(ready_list') = Elems(list) \ {running'}
  <2>1. CASE list = <<>>
    BY Zenon, <1>1, <2>1, ElemsNil DEF next_thread_to_run, Popped
  <2>2. CASE list # <<>>
    <3>1. running' = Head(list) /\ ready_list' = Tail(list)
      BY Zenon, <1>1, <2>2 DEF next_thread_to_run, Popped
    <3>2. QED
      BY Zenon, <2>2, <3>1, ElemsTail
  <2>3. QED
    BY Zenon, <2>1, <2>2
<1>3. running' \in AllThreads
  BY Zenon, <1>2, ElemsEmpty
<1>4. status' = thread_schedule_tail([status EXCEPT ![running] = st], running, running')
  BY Zenon, <1>1 DEF schedule
<1>5. \A u \in AllThreads :
        status'[u] = IF u = running' THEN "RUNNING"
                     ELSE IF u # running THEN status[u]
                     ELSE IF st = "DYING" /\ u # initial_thread THEN "FREE" ELSE st
  BY Zenon, <1>4 DEF thread_schedule_tail, TypeOK, ThreadTypeOK
<1>6. status' \in [AllThreads -> ThreadStatus]
  BY Zenon, <1>4 DEF thread_schedule_tail, TypeOK, ThreadTypeOK, ThreadStatus
<1>7. QED
  BY <1>1, <1>2, <1>3, <1>5, <1>6 DEF ThreadTypeOK

\* A switch keeps the lists: the thread that leaves the CPU goes to the run queue
\* when it yields, to a semaphore's list when it blocks, and to none when it dies.
LEMMA SwitchLists ==
  ASSUME Inv, NEW st \in {"READY", "BLOCKED", "DYING"}, NEW list \in Seq(Threads),
         Injective(list), schedule(st, list), UNCHANGED <<pc, arg, held>>,
         \A u \in Threads : u \in Elems(list) <=>
           u \in Elems(ready_list) \/ (u = running /\ st = "READY"),
         \A s \in SemaIds : Injective(waiters'[s]),
         \A u \in Threads : (\E s \in SemaIds : u \in Elems(waiters'[s])) <=>
           (\E s \in SemaIds : u \in Elems(waiters[s])) \/ (u = running /\ st = "BLOCKED"),
         \A u \in Threads : u = running /\ st = "DYING" => Dormant(u)
  PROVE  /\ ThreadTypeOK' /\ DormantOutside' /\ ListsSound'
         /\ \A u \in Threads : status'[u] = "BLOCKED" =>
              status[u] = "BLOCKED" \/ (u = running /\ st = "BLOCKED")
<1>0. TypeOK
  BY Zenon DEF Inv
<1> DEFINE next == running'
<1>1. /\ \A u \in Threads : u \in Elems(list) =>
           status[u] = "READY" \/ (u = running /\ st = "READY")
      /\ Elems(list) \subseteq Threads
  BY Zenon, ElemsEmpty, Inv_ListsSound DEF ListsSound
<1>2. \A u \in Threads : BeingCreated(u)' <=> BeingCreated(u)
  BY Zenon DEF BeingCreated
<1>3. \A u \in Threads : u = running => status[u] = "RUNNING" /\ ~BeingCreated(u)
  BY Zenon, Inv_ListsSound DEF ListsSound, AllThreads
<1>4. \A u \in Threads :
        status'[u] = IF u = next THEN "RUNNING"
                     ELSE IF u # running THEN status[u]
                     ELSE IF st = "DYING" /\ u # initial_thread THEN "FREE" ELSE st
  BY Zenon, <1>0, Switches DEF AllThreads
<1>5. \A u \in Threads : u = next =>
        u \in Elems(list) /\ (status[u] = "READY" \/ (u = running /\ st = "READY"))
  BY SMTT(30), <1>0, <1>1, Switches, ThreadAssumption
<1>6. DormantOutside'
  BY Zenon, <1>4, Inv_DormantOutside DEF DormantOutside, Dormant
<1>7. ListsSound'
  <2>1. \A u \in AllThreads : status'[u] = "RUNNING" <=> u = running'
    <3>1. \A u \in AllThreads :
            status'[u] = IF u = running' THEN "RUNNING"
                         ELSE IF u # running THEN status[u]
                         ELSE IF st = "DYING" /\ u # initial_thread THEN "FREE" ELSE st
      BY Zenon, <1>0, Switches
    <3>2. \A u \in AllThreads : status[u] = "RUNNING" => u = running
      BY ZenonT(30), Inv_ListsSound DEF ListsSound
    <3>3. QED
      BY Zenon, <3>1, <3>2
  <2>2. \A u \in Threads : status'[u] = "READY" <=> u \in Elems(ready_list')
    BY SMTT(30), <1>0, <1>3, <1>4, <1>5, Switches, Inv_ListsSound DEF ListsSound
  <2>3. \A u \in Threads : status'[u] = "BLOCKED" <=>
          BeingCreated(u)' \/ \E s \in SemaIds : u \in Elems(waiters'[s])
    BY ZenonT(30), <1>2, <1>3, <1>4, <1>5, Inv_ListsSound DEF ListsSound
  <2>4. QED
    BY Zenon, <1>0, <2>1, <2>2, <2>3, Switches DEF ListsSound
<1>8. QED
  BY Zenon, <1>0, <1>4, <1>6, <1>7, Switches

\* sema_down finds no unit: the thread goes to the semaphore's list.
LEMMA Keeps_sema_down_wait ==
  ASSUME Counting, Inv, NEW t \in Threads, sema_down_wait(t)
  PROVE  Inv'
<1> DEFINE a == arg[t]
<1>1. /\ running = t /\ pc[t] = "down" /\ value[a] = 0 /\ schedule("BLOCKED", ready_list)
      /\ waiters' = [waiters EXCEPT ![a] = Append(@, t)]
      /\ UNCHANGED <<value, holder, cond_waiters, pc, arg, cond, ret, held>>
      /\ a \in SemaIds /\ ready_list \in Seq(Threads) /\ Injective(ready_list)
  BY Zenon, Inv_TypeOK, Inv_ListsSound DEF sema_down_wait, thread_block, At, TypeOK, ThreadTypeOK, ListsSound
<1>2. \A s \in SemaIds : t \notin Elems(waiters[s])
  BY Zenon, <1>1, Inv_ListsSound DEF ListsSound, AllThreads
<1>3. /\ waiters' \in [SemaIds -> Seq(Threads)]
      /\ \A s \in SemaIds :
           /\ Injective(waiters'[s])
           /\ Elems(waiters'[s]) = Elems(waiters[s]) \cup (IF s = a THEN {t} ELSE {})
           /\ s # a => waiters'[s] = waiters[s]
  <2>1. /\ Append(waiters[a], t) \in Seq(Threads) /\ Injective(Append(waiters[a], t))
        /\ Elems(Append(waiters[a], t)) = Elems(waiters[a]) \cup {t}
    BY SMTT(30), <1>1, <1>2, ElemsAppend, Inv_TypeOK, Inv_ListsSound DEF TypeOK, ListsSound
  <2>2. /\ waiters'[a] = Append(waiters[a], t)
        /\ \A s \in SemaIds : s # a => waiters'[s] = waiters[s]
    BY Zenon, <1>1, Inv_TypeOK DEF TypeOK
  <2>3. waiters' \in [SemaIds -> Seq(Threads)]
    BY Zenon, <1>1, <2>1, Inv_TypeOK DEF TypeOK
  <2>4. \A s \in SemaIds : Injective(waiters[s])
    BY Zenon, Inv_ListsSound DEF ListsSound
  <2>5. QED
    BY ZenonT(90), <2>1, <2>2, <2>3, <2>4
<1>4. \A u \in Threads : (\E s \in SemaIds : u \in Elems(waiters'[s])) <=>
        (\E s \in SemaIds : u \in Elems(waiters[s])) \/ u = t
  <2>1. \A u \in Threads, s \in SemaIds :
          u \in Elems(waiters'[s]) <=> u \in Elems(waiters[s]) \/ (s = a /\ u = t)
    BY Zenon, <1>3
  <2>2. QED
    BY Zenon, <1>1, <2>1
<1>5. /\ ThreadTypeOK' /\ DormantOutside' /\ ListsSound'
      /\ \A u \in Threads : status'[u] = "BLOCKED" => status[u] = "BLOCKED" \/ u = t
  BY Zenon, <1>1, <1>3, <1>4, SwitchLists
<1>6. TypeOK'
  BY Zenon, <1>1, <1>3, <1>5, Inv_TypeOK DEF TypeOK
<1>7. ArgsFit' /\ HolderAccurate'
  BY ZenonT(30), <1>1, Inv_ArgsFit, Inv_HolderAccurate DEF ArgsFit, Fit, HolderAccurate
<1>8. SleepersDown'
  BY SMTT(30), <1>1, <1>3, Inv_SleepersDown DEF SleepersDown
<1>9. LockUnits' /\ WakeupKept'
  BY Zenon, <1>1, LocksSame, WakeupsSame, Inv_LockUnits, Inv_WakeupKept DEF Owns, InWait, Signals
<1>10. NoLostWakeup'
  <2> SUFFICES ASSUME NEW s \in SemaIds, waiters'[s] # <<>>
               PROVE  Cardinality(Testing(s)') >= value'[s]
    BY Zenon DEF NoLostWakeup
  <2>1. CASE s = a
    BY SMTT(30), <1>1, <2>1, TestingCount
  <2>2. CASE s # a
    <3>1. Testing(s) \subseteq Testing(s)'
      BY Zenon, <1>1, <1>5, <2>2 DEF Testing
    <3>2. Cardinality(Testing(s)) >= value[s] /\ value[s] \in Nat
      BY Zenon, <1>3, <2>2, Inv_TypeOK, Inv_NoLostWakeup DEF NoLostWakeup, TypeOK
    <3>3. QED
      <4>1. Cardinality(Testing(s)) <= Cardinality(Testing(s)')
        BY Zenon, <3>1, TestingIn DEF Counting
      <4>2. QED
        BY SMTT(30), <1>1, <3>2, <4>1, TestingCount
  <2>3. QED
    BY Zenon, <2>1, <2>2
<1>11. QED
  BY Zenon, <1>5, <1>6, <1>7, <1>8, <1>9, <1>10 DEF Inv

\* A step of the scheduler alone, after which no more threads sleep.
LEMMA SchedulerKeeps ==
  ASSUME Counting, Inv, UNCHANGED synchVars, ThreadTypeOK', DormantOutside', ListsSound',
         \A u \in Threads : status'[u] = "BLOCKED" => status[u] = "BLOCKED"
  PROVE  Inv'
<1> USE DEF synchVars
<1>1. TypeOK'
  BY Zenon, Inv_TypeOK DEF TypeOK
<1>2. ArgsFit' /\ HolderAccurate' /\ SleepersDown'
  BY ZenonT(30), Inv_ArgsFit, Inv_SleepersDown, Inv_HolderAccurate DEF ArgsFit, Fit, HolderAccurate, SleepersDown
<1>3. LockUnits' /\ WakeupKept'
  BY Zenon, LocksSame, WakeupsSame, Inv_LockUnits, Inv_WakeupKept DEF Owns, InWait, Signals
<1>4. NoLostWakeup'
  <2>1. \A s \in SemaIds : Testing(s) \subseteq Testing(s)'
    BY Zenon DEF Testing
  <2>2. QED
    BY Zenon, <2>1, TestingStays
<1>5. QED
  BY Zenon, <1>1, <1>2, <1>3, <1>4 DEF Inv

\* thread_yield: the running thread goes to the end of the run queue.
LEMMA Keeps_thread_yield ==
  ASSUME Counting, Inv, thread_yield, UNCHANGED synchVars
  PROVE  Inv'
<1> DEFINE list == IF running = idle_thread THEN ready_list ELSE Append(ready_list, running)
<1>1. /\ ready_list \in Seq(Threads) /\ Injective(ready_list) /\ running \in AllThreads
      /\ schedule("READY", list)
  BY Zenon, Inv_TypeOK, Inv_ListsSound DEF thread_yield, TypeOK, ThreadTypeOK, ListsSound
<1>2. running \in Threads => running \notin Elems(ready_list) /\ running # idle_thread
  BY Zenon, ThreadAssumption, Inv_ListsSound DEF ListsSound, AllThreads
<1>3. list \in Seq(Threads) /\ Injective(list)
  BY Zenon, <1>1, <1>2, ElemsAppend DEF AllThreads
<1>4. \A u \in Threads : u \in Elems(list) <=> u \in Elems(ready_list) \/ u = running
  BY <1>1, <1>2, ElemsAppend DEF AllThreads
<1>5. /\ ThreadTypeOK' /\ DormantOutside' /\ ListsSound'
      /\ \A u \in Threads : status'[u] = "BLOCKED" => status[u] = "BLOCKED"
  <2>1. UNCHANGED <<pc, arg, held, waiters>> /\ \A s \in SemaIds : Injective(waiters[s])
    BY Zenon, Inv_ListsSound DEF synchVars, ListsSound
  <2> HIDE DEF list
  <2>2. QED
    BY Zenon, <1>1, <1>3, <1>4, <2>1, SwitchLists
<1>6. QED
  BY Zenon, <1>5, SchedulerKeeps

\* thread_exit: the page of a thread that holds no lock may be used again.
LEMMA Keeps_user_exit ==
  ASSUME Counting, Inv, NEW t \in Threads, user_exit(t)
  PROVE  Inv'
<1>1. /\ ready_list \in Seq(Threads) /\ Injective(ready_list) /\ running = t /\ Dormant(t)
      /\ schedule("DYING", ready_list) /\ UNCHANGED synchVars
  BY Zenon, Inv_TypeOK, Inv_ListsSound DEF user_exit, thread_exit, At, Dormant, TypeOK, ThreadTypeOK, ListsSound
<1>2. UNCHANGED <<pc, arg, held, waiters>> /\ \A s \in SemaIds : Injective(waiters[s])
  BY Zenon, <1>1, Inv_ListsSound DEF synchVars, ListsSound
<1>3. /\ ThreadTypeOK' /\ DormantOutside' /\ ListsSound'
      /\ \A u \in Threads : status'[u] = "BLOCKED" => status[u] = "BLOCKED"
  BY Zenon, <1>1, <1>2, SwitchLists
<1>4. QED
  BY Zenon, <1>1, <1>3, SchedulerKeeps

\* idle blocks itself on no list.
LEMMA Keeps_idle_loop ==
  ASSUME Counting, Inv, idle_loop
  PROVE  Inv'
<1>1. /\ ready_list \in Seq(Threads) /\ Injective(ready_list) /\ running \notin Threads
      /\ schedule("BLOCKED", ready_list) /\ UNCHANGED synchVars
  BY Zenon, ThreadAssumption, Inv_TypeOK, Inv_ListsSound DEF idle_loop, idle, thread_block, TypeOK, ThreadTypeOK, ListsSound
<1>2. UNCHANGED <<pc, arg, held, waiters>> /\ \A s \in SemaIds : Injective(waiters[s])
  BY Zenon, <1>1, Inv_ListsSound DEF synchVars, ListsSound
<1>3. /\ ThreadTypeOK' /\ DormantOutside' /\ ListsSound'
      /\ \A u \in Threads : status'[u] = "BLOCKED" => status[u] = "BLOCKED"
  BY Zenon, <1>1, <1>2, SwitchLists
<1>4. QED
  BY Zenon, <1>1, <1>3, SchedulerKeeps

\* The timer only counts, or preempts.
LEMMA Keeps_timer_interrupt ==
  ASSUME Counting, Inv, timer_interrupt
  PROVE  Inv'
<1>1. CASE thread_yield
  BY Zenon, <1>1, Keeps_thread_yield DEF timer_interrupt
<1>2. CASE thread_ticks + 1 < TIME_SLICE /\ thread_ticks' = thread_ticks + 1
           /\ UNCHANGED <<status, ready_list, running>>
  <2>1. UNCHANGED <<pc, arg, held, waiters>>
    BY Zenon DEF timer_interrupt, synchVars
  <2>2. ThreadTypeOK'
    BY SMTT(30), <1>2, ThreadAssumption, Inv_TypeOK DEF TypeOK, ThreadTypeOK
  <2>3. DormantOutside' /\ ListsSound'
    BY SMTT(30), <1>2, <2>1, Inv_DormantOutside, Inv_ListsSound DEF DormantOutside, Dormant, ListsSound, BeingCreated
  <2>4. QED
    BY Zenon, <1>2, <2>2, <2>3, SchedulerKeeps DEF timer_interrupt
<1>3. thread_ticks \in Nat /\ TIME_SLICE \in Nat
  BY ThreadAssumption, Inv_TypeOK DEF TypeOK, ThreadTypeOK
<1>4. QED
  BY <1>1, <1>2, <1>3 DEF timer_interrupt, thread_tick

\* init_thread fills in a free page, which is on no list.
LEMMA Keeps_thread_create ==
  ASSUME Counting, Inv, NEW t \in Threads, NEW v \in Threads, thread_create(t, v)
  PROVE  Inv'
<1> USE SynchAssumption DEF SemaIds
<1>1. /\ running = t /\ pc[t] = "user" /\ status[v] = "FREE"
      /\ status' = [status EXCEPT ![v] = "BLOCKED"]
      /\ pc' = [pc EXCEPT ![t] = "create"] /\ arg' = [arg EXCEPT ![t] = v]
      /\ UNCHANGED <<ready_list, running, thread_ticks, value, waiters, holder, cond_waiters,
                     cond, ret, held>>
  BY Zenon DEF thread_create, init_thread, At, Goto
<1>2. /\ pc'[t] = "create" /\ arg'[t] = v /\ status'[v] = "BLOCKED" /\ status[t] = "RUNNING"
      /\ \A u \in Threads \ {t} : pc'[u] = pc[u] /\ arg'[u] = arg[u]
      /\ \A u \in AllThreads \ {v} : status'[u] = status[u]
  BY SMTT(30), <1>1, Inv_TypeOK, Inv_ListsSound DEF TypeOK, ThreadTypeOK, ListsSound, AllThreads
<1>3. TypeOK'
  <2>1. ThreadTypeOK'
    BY Zenon, <1>1, Inv_TypeOK DEF TypeOK, ThreadTypeOK, ThreadStatus, AllThreads
  <2>2. pc' \in [Threads -> Pcs] /\ arg' \in [Threads -> SemaIds]
    BY Zenon, <1>1, Inv_TypeOK DEF TypeOK, Pcs
  <2>3. QED
    BY Zenon, <1>1, <2>1, <2>2, Inv_TypeOK DEF TypeOK
<1>4. ArgsFit' /\ HolderAccurate'
  BY SMTT(30), <1>1, <1>2, Inv_ArgsFit, Inv_HolderAccurate DEF ArgsFit, Fit, HolderAccurate
<1>5. \A u \in Threads : BeingCreated(u)' <=> BeingCreated(u) \/ u = v
  BY ZenonT(30), <1>1, <1>2 DEF BeingCreated
<1>6. \A u \in Threads : status[u] = "RUNNING" \/ status[u] = "FREE" =>
        ~BeingCreated(u) /\ \A s \in SemaIds : u \notin Elems(waiters[s])
  BY Zenon, Inv_ListsSound DEF ListsSound
<1>7. DormantOutside'
  <2>1. \A u \in Threads : pc[u] = "create" => arg[u] # v /\ arg[u] # t /\ arg[u] \in Threads
    BY SMTT(30), <1>1, <1>2, <1>6, Inv_ArgsFit DEF BeingCreated, ArgsFit, Fit
  <2>2. v # t /\ Dormant(v)
    BY Zenon, <1>1, <1>2, Inv_DormantOutside DEF DormantOutside
  <2>3. \A u \in Threads : pc'[u] = "create" => Dormant(arg'[u]) /\ arg'[u] \in Threads \ {t}
    BY Zenon, <1>2, <2>1, <2>2, Inv_DormantOutside DEF DormantOutside
  <2>4. \A u \in Threads : u # t /\ Dormant(u) => Dormant(u)'
    BY ZenonT(30), <1>1, <1>2 DEF Dormant
  <2>5. \A u \in Threads : pc'[u] = "create" => Dormant(arg[u])'
    BY SMTT(30), <1>1, <1>2, <2>3 DEF Dormant
  <2>6. \A u \in Threads : status'[u] \in {"FREE", "DYING"} => Dormant(u)'
    BY Zenon, <1>2, <2>4, Inv_DormantOutside DEF DormantOutside, AllThreads
  <2>7. ASSUME NEW u \in Threads, NEW w \in Threads,
               pc'[u] = "create", pc'[w] = "create", arg'[u] = arg'[w]
        PROVE  u = w
    <3>1. CASE u = t \/ w = t
      BY ZenonT(30), <1>2, <2>1, <2>7, <3>1
    <3>2. CASE u # t /\ w # t
      BY ZenonT(90), <1>2, <2>7, <3>2, Inv_DormantOutside DEF DormantOutside
    <3> QED
      BY Zenon, <3>1, <3>2
  <2>8. QED
    BY Zenon, <2>5, <2>6, <2>7 DEF DormantOutside
<1>8. SleepersDown'
  <2>1. \A s \in SemaIds : Elems(waiters[s]) \subseteq Threads
    BY Zenon, WaitersIn
  <2>2. QED
    BY SMTT(30), <1>1, <1>2, <1>6, <2>1, Inv_SleepersDown DEF SleepersDown
<1>9. ListsSound'
  BY SMTT(30), <1>1, <1>2, <1>5, <1>6, Inv_ListsSound DEF ListsSound, AllThreads
<1>10. LockUnits'
  BY ZenonT(30), <1>1, <1>2, LocksSame, Inv_LockUnits DEF Owns
<1>11. WakeupKept'
  BY ZenonT(30), <1>1, <1>2, WakeupsSame, Inv_WakeupKept DEF InWait, Signals
<1>12. NoLostWakeup'
  <2>1. pc[v] # "down"
    BY Zenon, <1>1, Inv_DormantOutside DEF DormantOutside, Dormant
  <2>2. \A s \in SemaIds : Testing(s) \subseteq Testing(s)'
    BY ZenonT(30), <1>1, <1>2, <2>1 DEF Testing, AllThreads
  <2>3. QED
    BY Zenon, <1>1, <2>2, TestingStays
<1>13. QED
  BY ZenonT(30), <1>3, <1>4, <1>7, <1>8, <1>9, <1>10, <1>11, <1>12 DEF Inv

\* The new thread goes to the run queue.
LEMMA Keeps_thread_create_unblock ==
  ASSUME Counting, Inv, NEW t \in Threads, thread_create_unblock(t)
  PROVE  Inv'
<1> USE SynchAssumption DEF SemaIds
<1> DEFINE v == arg[t]
<1>1. /\ running = t /\ pc[t] = "create" /\ v \in Threads
      /\ status' = [status EXCEPT ![v] = "READY"]
      /\ ready_list' = Append(ready_list, v)
      /\ pc' = [pc EXCEPT ![t] = "user"]
      /\ UNCHANGED <<running, thread_ticks, value, waiters, holder, cond_waiters,
                     arg, cond, ret, held>>
  BY Zenon, Inv_ArgsFit DEF thread_create_unblock, thread_unblock, At, Goto, ArgsFit, Fit
<1>2. /\ BeingCreated(v) /\ status[v] = "BLOCKED" /\ status[t] = "RUNNING" /\ v # t
      /\ v \notin Elems(ready_list)
      /\ \A u \in Threads : pc[u] = "create" /\ arg[u] = v => u = t
  BY Zenon, <1>1, Inv_DormantOutside, Inv_ListsSound DEF BeingCreated, ListsSound, DormantOutside, AllThreads
<1>3. /\ pc'[t] = "user" /\ status'[v] = "READY"
      /\ \A u \in Threads \ {t} : pc'[u] = pc[u]
      /\ \A u \in AllThreads \ {v} : status'[u] = status[u]
  BY ZenonT(30), <1>1, Inv_TypeOK DEF TypeOK, ThreadTypeOK, AllThreads
<1>4. /\ ready_list' \in Seq(Threads) /\ Injective(ready_list')
      /\ Elems(ready_list') = Elems(ready_list) \cup {v}
  <2>1. ready_list \in Seq(Threads) /\ Injective(ready_list)
    BY Zenon, Inv_TypeOK, Inv_ListsSound DEF TypeOK, ThreadTypeOK, ListsSound
  <2>2. QED
    BY SMTT(30), <1>1, <1>2, <2>1, ElemsAppend
<1>5. TypeOK'
  <2>1. ThreadTypeOK'
    BY Zenon, <1>1, <1>4, Inv_TypeOK DEF TypeOK, ThreadTypeOK, ThreadStatus, AllThreads
  <2>2. pc' \in [Threads -> Pcs]
    BY Zenon, <1>1, Inv_TypeOK DEF TypeOK, Pcs
  <2>3. QED
    BY Zenon, <1>1, <2>1, <2>2, Inv_TypeOK DEF TypeOK
<1>6. ArgsFit' /\ HolderAccurate'
  BY SMTT(30), <1>1, <1>3, Inv_ArgsFit, Inv_HolderAccurate DEF ArgsFit, Fit, HolderAccurate
<1>7. \A u \in Threads : BeingCreated(u)' <=> BeingCreated(u) /\ u # v
  BY ZenonT(30), <1>1, <1>2, <1>3 DEF BeingCreated
<1>8. \A s \in SemaIds : v \notin Elems(waiters[s])
  BY ZenonT(90), <1>1, Inv_DormantOutside, Inv_SleepersDown DEF SleepersDown, DormantOutside, Dormant
<1>9. DormantOutside'
  <2>1. \A u \in Threads : pc'[u] = "create" => pc[u] = "create" /\ u # t
    BY Zenon, <1>3
  <2>2. \A u \in Threads : Dormant(u) => Dormant(u)'
    BY Zenon, <1>1, <1>3 DEF Dormant
  <2>3. QED
    BY SMTT(30), <1>1, <1>3, <2>1, <2>2, Inv_ArgsFit, Inv_DormantOutside DEF DormantOutside, ArgsFit, Fit, AllThreads
<1>10. SleepersDown'
  <2>1. \A s \in SemaIds : Elems(waiters[s]) \subseteq Threads
    BY Zenon, WaitersIn
  <2>2. QED
    BY SMTT(30), <1>1, <1>3, <2>1, Inv_SleepersDown DEF SleepersDown
<1>11. ListsSound'
  <2>1. \A u \in AllThreads : status'[u] = "RUNNING" <=> u = running
    <3>1. \A u \in AllThreads : status[u] = "RUNNING" <=> u = running
      BY Zenon, Inv_ListsSound DEF ListsSound
    <3>2. v # running
      BY Zenon, <1>1, <1>2
    <3>3. QED
      BY Zenon, <1>3, <3>1, <3>2
  <2>2. \A u \in Threads : status'[u] = "READY" <=> u \in Elems(ready_list')
    BY Zenon, <1>3, <1>4, Inv_ListsSound DEF ListsSound, AllThreads
  <2>3. \A u \in Threads : status'[u] = "BLOCKED" <=>
          BeingCreated(u)' \/ \E s \in SemaIds : u \in Elems(waiters[s])
    <3>1. \A u \in Threads : status[u] = "BLOCKED" <=>
            BeingCreated(u) \/ \E s \in SemaIds : u \in Elems(waiters[s])
      BY Zenon, Inv_ListsSound DEF ListsSound
    <3>2. \A u \in Threads : u # v => status'[u] = status[u]
      BY Zenon, <1>3 DEF AllThreads
    <3>3. \A w \in Threads : w = v => ~BeingCreated(w)' /\ status'[w] # "BLOCKED"
      BY Zenon, <1>3, <1>7
    <3> SUFFICES ASSUME NEW u \in Threads
                 PROVE  status'[u] = "BLOCKED" <=>
                          BeingCreated(u)' \/ \E s \in SemaIds : u \in Elems(waiters[s])
      BY Zenon
    <3>4. CASE u = v
      BY Zenon, <1>8, <3>3, <3>4
    <3>5. CASE u # v
      BY Zenon, <1>7, <3>1, <3>2, <3>5
    <3>6. QED
      BY Zenon, <3>4, <3>5
  <2>4. QED
    BY Zenon, <1>1, <1>4, <2>1, <2>2, <2>3, Inv_ListsSound DEF ListsSound
<1>12. LockUnits'
  BY Zenon, <1>1, <1>3, LocksSame, Inv_LockUnits DEF Owns
<1>13. WakeupKept'
  BY Zenon, <1>1, <1>3, WakeupsSame, Inv_WakeupKept DEF InWait, Signals
<1>14. NoLostWakeup'
  <2>1. \A s \in SemaIds : Testing(s) \subseteq Testing(s)'
    BY Zenon, <1>1, <1>3 DEF Testing, AllThreads
  <2>2. QED
    BY Zenon, <1>1, <2>1, TestingStays
<1>15. QED
  BY Zenon, <1>5, <1>6, <1>9, <1>10, <1>11, <1>12, <1>13, <1>14 DEF Inv

-----------------------------------------------------------------------------
(* The invariant and what it implies. *)

\* Every step keeps the invariant.
LEMMA NextInv == ASSUME Counting PROVE Inv /\ [Next]_vars => Inv'
<1> SUFFICES ASSUME Inv, [Next]_vars PROVE Inv'
  BY Zenon
<1>1. CASE UNCHANGED vars
  <2>1. ThreadTypeOK' /\ DormantOutside' /\ ListsSound' /\ UNCHANGED <<status, synchVars>>
    BY SMTT(30), <1>1, Inv_TypeOK, Inv_DormantOutside, Inv_ListsSound DEF vars, schedVars, synchVars, TypeOK, ThreadTypeOK, DormantOutside, Dormant, ListsSound, BeingCreated
  <2>2. QED
    BY Zenon, <2>1, SchedulerKeeps
<1>2. ASSUME NEW t \in Threads, Primitive(t) PROVE Inv'
  BY Zenon, <1>2, Keeps_sema_down_wait, Keeps_sema_down_take, Keeps_lock_set_holder, Keeps_call_sema_up,
     Keeps_cond_broadcast_loop, Keeps_thread_create_unblock DEF Primitive
<1>3. ASSUME NEW t \in Threads, Call(t) PROVE Inv'
  <2>1. CASE \E s \in Semas : user_sema_down(t, s) \/ user_sema_up(t, s) \/ sema_try_down(t, s)
    BY Zenon, <2>1, Keeps_user_sema_down, Keeps_sema_up, Keeps_sema_try_down DEF user_sema_up
  <2>2. CASE \E l \in Locks : lock_acquire(t, l) \/ lock_try_acquire(t, l) \/ lock_release(t, l)
    BY Zenon, <2>2, Keeps_lock_acquire, Keeps_lock_try_acquire, Keeps_lock_release
  <2>3. CASE \E c \in Conds : cond_wait(t, c) \/ cond_signal(t, c) \/ cond_broadcast(t, c)
    BY Zenon, <2>3, Keeps_cond_wait, Keeps_cond_signal, Keeps_cond_broadcast
  <2>4. CASE \E u \in Threads : thread_create(t, u)
    BY Zenon, <2>4, Keeps_thread_create
  <2>5. CASE user_yield(t) \/ user_exit(t)
    BY Zenon, <2>5, Keeps_thread_yield, Keeps_user_exit DEF user_yield
  <2>6. QED
    BY Zenon, <1>3, <2>1, <2>2, <2>3, <2>4, <2>5 DEF Call
<1>4. ASSUME NEW s \in Semas, interrupt_sema_up(s) PROVE Inv'
  BY Zenon, <1>4, Keeps_sema_up DEF interrupt_sema_up
<1>5. QED
  BY Zenon, <1>1, <1>2, <1>3, <1>4, Keeps_timer_interrupt, Keeps_idle_loop DEF Next

-----------------------------------------------------------------------------
INSTANCE FiniteSetTheorems

\* Threads are finitely many.
LEMMA ThreadsCount == Counting
<1> SUFFICES ASSUME NEW S \in SUBSET Threads
             PROVE  /\ Cardinality(S) \in Nat
                    /\ \A T \in SUBSET S : Cardinality(T) <= Cardinality(S)
                    /\ \A x \in S : Cardinality(S \ {x}) = Cardinality(S) - 1
                    /\ \A x \in Threads \ S : Cardinality(S \cup {x}) = Cardinality(S) + 1
  BY Zenon DEF Counting
<1>1. IsFiniteSet(S)
  BY Zenon, ThreadAssumption, FS_Subset
<1>2. QED
  BY ZenonT(30), <1>1, FS_CardinalityType, FS_Subset, FS_RemoveElement, FS_AddElement

\* What the theorems below are read off.
THEOREM Invariance == Spec => []Inv
BY InitInv, NextInv, ThreadsCount, PTL DEF Spec

\* A lock's unit counted as MutualExclusion counts it.
LEMMA UnitsExclude == Inv => MutualExclusion
<1> SUFFICES ASSUME Inv, NEW l \in Locks PROVE value[l] + Cardinality(Owners(l)) = 1
  BY Zenon DEF MutualExclusion
<1>1. \A t \in Threads : t \in Owners(l) <=> Owns(t, l)
  BY Zenon DEF Owners, Owns
<1>2. Owners(l) \subseteq Threads
  BY Zenon DEF Owners
<1>3. CASE value[l] = 1
  <2>1. Owners(l) = {}
    BY ZenonT(30), <1>1, <1>2, <1>3, Inv_LockUnits DEF LockUnits
  <2>2. QED
    BY SMTT(30), <1>3, <2>1, FS_EmptySet
<1>4. CASE value[l] = 0
  <2>1. PICK t \in Threads : Owns(t, l)
    BY ZenonT(30), <1>4, Inv_LockUnits DEF LockUnits
  <2>2. Owners(l) = {t}
    BY ZenonT(30), <1>1, <1>2, <2>1, Inv_LockUnits DEF LockUnits
  <2>3. Cardinality(Owners(l)) = 1
    BY ZenonT(30), <2>2, FS_Singleton
  <2>4. QED
    BY <1>4, <2>3
<1>5. QED
  BY ZenonT(30), <1>3, <1>4, Inv_LockUnits DEF LockUnits

\* A wakeup counted as SignalAccounting counts it.
LEMMA WakeupsCount == Inv => SignalAccounting
<1> SUFFICES ASSUME Inv, NEW w \in Threads
             PROVE  Cardinality(Reaching(w)) + value[w] = IF InWait(w) THEN 1 ELSE 0
  BY Zenon DEF SignalAccounting
<1>1. \A x : x \in Reaching(w) <=>
        (x \in Conds /\ w \in Elems(cond_waiters[x])) \/ (x \in Threads /\ Signals(x, w))
  BY Zenon DEF Reaching, Signals
<1>2. CASE \E c \in Conds : w \in Elems(cond_waiters[c])
  <2>1. PICK c \in Conds : w \in Elems(cond_waiters[c])
    BY Zenon, <1>2
  <2>2. Queued(w) /\ value[w] = 0 /\ InWait(w)
    BY ZenonT(30), <2>1, Inv_WakeupKept DEF Queued, WakeupKept
  <2>3. Reaching(w) = {c}
    BY ZenonT(30), <1>1, <2>1, <2>2, Inv_WakeupKept DEF WakeupKept
  <2>4. Cardinality(Reaching(w)) = 1
    BY ZenonT(30), <2>3, FS_Singleton
  <2>5. QED
    BY SMTT(30), <2>2, <2>4
<1>3. CASE \E u \in Threads : Signals(u, w)
  <2>1. PICK u \in Threads : Signals(u, w)
    BY Zenon, <1>3
  <2>2. ~Queued(w) /\ value[w] = 0 /\ InWait(w)
    BY Zenon, <2>1, Inv_WakeupKept DEF WakeupKept
  <2>3. Reaching(w) = {u}
    BY ZenonT(30), <1>1, <2>1, <2>2, Inv_WakeupKept DEF Queued, WakeupKept
  <2>4. Cardinality(Reaching(w)) = 1
    BY Zenon, <2>3, FS_Singleton
  <2>5. QED
    BY <2>2, <2>4
<1>4. CASE ~Queued(w) /\ \A u \in Threads : ~Signals(u, w)
  <2>1. Reaching(w) = {}
    BY ZenonT(30), <1>1, <1>4 DEF Queued
  <2>2. value[w] = IF InWait(w) THEN 1 ELSE 0
    BY ZenonT(30), <1>4, Inv_WakeupKept DEF WakeupKept
  <2>3. QED
    BY SMTT(30), <2>1, <2>2, FS_EmptySet
<1>5. QED
  BY ZenonT(30), <1>2, <1>3, <1>4 DEF Queued

\* The lists of the scheduler and of the semaphores share struct thread's elem
\* soundly, a lock has at most one owner and its holder field names it: the
\* assertions of thread.c and synch.c hold whatever the interrupts do.
THEOREM SynchStaysConsistent == Spec => []SynchConsistent
<1>1. Inv => ElemOnOneList
  <2> SUFFICES ASSUME Inv PROVE ElemOnOneList
    BY Zenon
  <2>1. \A s, r \in SemaIds : s # r => Elems(waiters[s]) \cap Elems(waiters[r]) = {}
    <3>1. \A s \in SemaIds : \A u \in Elems(waiters[s]) : arg[u] = s
      BY Zenon, Inv_SleepersDown DEF SleepersDown
    <3>2. QED
      BY <3>1
  <2>2. QED
    BY ZenonT(30), <2>1, Inv_ListsSound DEF ListsSound, ElemOnOneList
<1>2. Inv => SynchConsistent
  BY ZenonT(30), <1>1, UnitsExclude DEF Inv, SynchConsistent
<1>3. QED
  BY <1>2, Invariance, PTL

\* sema_up wakes one thread and any thread may take its unit, yet no semaphore
\* has units left for sleepers that nobody will wake.
THEOREM WakeupsNeverLost == Spec => []NoLostWakeup
<1>1. Inv => NoLostWakeup
  BY Zenon DEF Inv
<1>2. QED
  BY <1>1, Invariance, PTL

\* cond_wait, cond_signal and cond_broadcast neither lose a signal nor touch the
\* stack of a thread that has left cond_wait.
THEOREM SignalsAccounted == Spec => []SignalAccounting
BY WakeupsCount, Invariance, PTL

=============================================================================
