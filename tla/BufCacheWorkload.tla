-------------------------- MODULE BufCacheWorkload --------------------------
(***************************************************************************)
(* The buffer cache under a finite workload: each thread makes at most     *)
(* MaxCalls calls.  A lock of synch.c may be taken by a newcomer before    *)
(* the thread it was released for, so a thread can lose the race for       *)
(* cache_lock as long as others keep calling; what can be asked is that    *)
(* every call returns once they stop.  The disk is a new one, all zeros.   *)
(***************************************************************************)
EXTENDS BufCache

CONSTANT MaxCalls

ASSUME WorkloadAssumption == MaxCalls \in Nat

VARIABLE budget     \* calls each thread may still make

WorkloadInit ==
  /\ Init
  /\ disk = [s \in Sectors |-> Abstract!Zeros]
  /\ budget = [t \in Threads |-> MaxCalls]

WorkloadCall(t) ==
  /\ budget[t] > 0
  /\ budget' = [budget EXCEPT ![t] = @ - 1]
  /\ \E r \in Abstract!Requests : Call(t, r)

WorkloadStep(t) == Step(t) /\ UNCHANGED budget

WorkloadNext == \E t \in Threads : WorkloadCall(t) \/ WorkloadStep(t)

\* The scheduler is round-robin, so a thread that can take a step at any time
\* takes it; a device transfer ends.
WorkloadSpec ==
  /\ WorkloadInit
  /\ [][WorkloadNext]_<<vars, budget>>
  /\ \A t \in Threads : WF_<<vars, budget>>(WorkloadStep(t))

\* Every bufcache_read and bufcache_write returns: no thread is left waiting
\* for cache_lock, for an entry in transfer or for any entry at all, and the
\* retries of bufcache_access end.
EveryCallReturns ==
  \A t \in Threads : pc[t] # "idle" ~> pc[t] = "idle"
=============================================================================
