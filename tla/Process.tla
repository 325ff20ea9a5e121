------------------------------- MODULE Process -------------------------------
(***************************************************************************)
(* Processes: process_execute, start_process, process_wait, process_exit   *)
(* (userprog/process.c), the exec, wait and exit system calls on top of    *)
(* them (userprog/syscall.c), and the process_share that a parent and its  *)
(* child have in common (threads/thread.c).                                *)
(*                                                                         *)
(* A step is one access to state that two processes share; the timer may   *)
(* switch threads between any two.  The semaphores and locks are those of  *)
(* Synch.  Memory and files are left out: they belong to one process.      *)
(***************************************************************************)
EXTENDS Integers, Sequences, FiniteSets

CONSTANTS
  MaxTid,           \* bound on the number of threads ever created
  Codes,            \* exit statuses user programs pass to exit
  Uninit            \* what p->rvalue holds before the child has set it

Tids == 1 .. MaxTid
main == 1           \* allocate_tid gives the initial thread the first tid

ASSUME ProcessAssumption ==
  /\ MaxTid \in Nat \ {0}
  /\ Codes \subseteq Int

VARIABLES
  next_tid,
  all_list,         \* tids of the threads that exist
  thread,           \* [tid -> struct thread and the thread's control state]
  child_share,      \* each thread's list of shares; a share has its child's tid
  share,            \* [tid -> process_share]
  parent,           \* the thread that created each thread
  reaped,           \* tids for which a process_wait has succeeded
  panicked          \* the kernel has used a freed struct thread

vars == <<next_tid, all_list, thread, child_share, share, parent, reaped, panicked>>

Pcs == {"none", "user", "dead",
        "lookup", "setup", "link", "exec_wait", "load", "announce",
        "wait_sig", "wait_lock", "wait_release", "wait_free",
        "exit", "share_lock", "share_sig", "share_release", "share_free", "die"}

\* arg is the tid or the share a thread works on, success what load() returned
\* in it, result what its last exec or wait returned.
ThreadRecords ==
  [pc : Pcs, arg : Tids, setup : 0 .. 1, rvalue : Codes \cup {-1},
   success : BOOLEAN, result : Codes \cup Tids \cup {-1, Uninit}]

\* lock is the tid of the holder, or 0.
ShareRecords ==
  [state : {"none", "live", "freed"}, refcount : 0 .. 2, lock : Tids \cup {0},
   sig : 0 .. 1, successload : 0 .. 1, loaded : BOOLEAN,
   rvalue : Codes \cup {-1, Uninit}]

TypeOK ==
  /\ next_tid \in 1 .. MaxTid + 1
  /\ all_list \in SUBSET Tids
  /\ thread \in [Tids -> ThreadRecords]
  /\ child_share \in [Tids -> Seq(Tids)]
  /\ share \in [Tids -> ShareRecords]
  /\ parent \in [Tids -> Tids]
  /\ reaped \in SUBSET Tids
  /\ panicked \in BOOLEAN

NoThread == [pc |-> "none", arg |-> main, setup |-> 0, rvalue |-> -1,
             success |-> FALSE, result |-> -1]

NoShare == [state |-> "none", refcount |-> 0, lock |-> 0, sig |-> 0,
            successload |-> 0, loaded |-> FALSE, rvalue |-> Uninit]

Init ==
  /\ next_tid = 2
  /\ all_list = {main}
  /\ thread = [t \in Tids |-> IF t = main THEN [NoThread EXCEPT !.pc = "user"]
                              ELSE NoThread]
  /\ child_share = [t \in Tids |-> <<>>]
  /\ share = [t \in Tids |-> NoShare]
  /\ parent = [t \in Tids |-> main]
  /\ reaped = {}
  /\ panicked = FALSE

At(t, p) == ~panicked /\ thread[t].pc = p

Goto(t, p) == thread' = [thread EXCEPT ![t].pc = p]

-----------------------------------------------------------------------------
(* Starting a process. *)

\* What thread_create makes of a new thread and its share.
thread_create(t, tid) ==
  /\ next_tid' = tid + 1
  /\ all_list' = all_list \cup {tid}
  /\ thread' = [thread EXCEPT
                  ![tid] = [NoThread EXCEPT !.pc = "load", !.setup = 1],
                  ![t].pc = "lookup", ![t].arg = tid]
  /\ share' = [share EXCEPT ![tid] = [NoShare EXCEPT !.state = "live",
                                                     !.refcount = 2,
                                                     !.loaded = TRUE]]
  /\ parent' = [parent EXCEPT ![tid] = t]

\* process_execute up to the return of thread_create: the child is on the run
\* queue and may run, and exit, before its parent takes another step.
process_execute(t) ==
  /\ At(t, "user")
  /\ next_tid \in Tids
  /\ thread_create(t, next_tid)
  /\ UNCHANGED <<child_share, reaped, panicked>>

\* get_thread(tid) finds the child; otherwise the parent yields and looks again.
get_thread(t) ==
  /\ At(t, "lookup")
  /\ thread[t].arg \in all_list
  /\ Goto(t, "setup")
  /\ UNCHANGED <<next_tid, all_list, child_share, share, parent, reaped, panicked>>

\* sema_down(&t->setup).
execute_setup(t) ==
  /\ At(t, "setup")
  /\ thread[t].arg \in all_list
  /\ thread[thread[t].arg].setup > 0
  /\ thread' = [thread EXCEPT ![thread[t].arg].setup = @ - 1, ![t].pc = "link"]
  /\ UNCHANGED <<next_tid, all_list, child_share, share, parent, reaped, panicked>>

\* Append t->parent_share to the caller's children.  main() goes on at once;
\* the exec system call first waits for the child's load.
execute_link(t) ==
  /\ At(t, "link")
  /\ thread[t].arg \in all_list
  /\ child_share' = [child_share EXCEPT ![t] = Append(@, thread[t].arg)]
  /\ \/ /\ t = main
        /\ thread' = [thread EXCEPT ![t].pc = "user", ![t].result = thread[t].arg]
     \/ t # main /\ Goto(t, "exec_wait")
  /\ UNCHANGED <<next_tid, all_list, share, parent, reaped, panicked>>

\* The child has exited and its page is free: what the parent reads there can
\* be anything, and the model stops.
execute_freed(t) ==
  /\ At(t, "setup") \/ At(t, "link")
  /\ thread[t].arg \notin all_list
  /\ panicked' = TRUE
  /\ UNCHANGED <<next_tid, all_list, thread, child_share, share, parent, reaped>>

\* The end of syscall_exec: sema_down(&p->successload), then p->loaded.
exec_return(t) ==
  LET p == thread[t].arg
  IN  /\ At(t, "exec_wait")
      /\ share[p].successload > 0
      /\ share' = [share EXCEPT ![p].successload = @ - 1]
      /\ thread' = [thread EXCEPT ![t].pc = "user",
                      ![t].result = IF share[p].loaded THEN p ELSE -1]
      /\ UNCHANGED <<next_tid, all_list, child_share, parent, reaped, panicked>>

\* Fault: the failure of load() is not recorded.
start_process_unrecorded(t) ==
  /\ At(t, "load")
  /\ \E ok \in BOOLEAN :
       thread' = [thread EXCEPT ![t].success = ok, ![t].pc = "announce"]
  /\ UNCHANGED <<next_tid, all_list, child_share, share, parent, reaped, panicked>>

\* start_process: load() succeeds, or fails and that is recorded.
start_process(t) ==
  /\ At(t, "load")
  /\ \E ok \in BOOLEAN :
       /\ thread' = [thread EXCEPT ![t].success = ok, ![t].pc = "announce"]
       /\ share' = [share EXCEPT ![t].loaded = IF ok THEN @ ELSE FALSE]
  /\ UNCHANGED <<next_tid, all_list, child_share, parent, reaped, panicked>>

\* sema_up(&parent_share->successload); a process that is not loaded exits.
start_process_up(t) ==
  /\ At(t, "announce")
  /\ share' = [share EXCEPT ![t].successload = @ + 1]
  /\ Goto(t, IF thread[t].success THEN "user" ELSE "exit")
  /\ UNCHANGED <<next_tid, all_list, child_share, parent, reaped, panicked>>

-----------------------------------------------------------------------------
(* Waiting for a process. *)

Elems(seq) == {seq[i] : i \in 1 .. Len(seq)}

\* process_wait(p) for a p that is not, or no longer, among the children.
process_wait_invalid(t, p) ==
  /\ At(t, "user")
  /\ p \notin Elems(child_share[t])
  /\ thread' = [thread EXCEPT ![t].result = -1]
  /\ UNCHANGED <<next_tid, all_list, child_share, share, parent, reaped, panicked>>

\* list_remove of the i-th element.
Without(seq, i) == [j \in 1 .. Len(seq) - 1 |-> IF j < i THEN seq[j] ELSE seq[j + 1]]

\* process_wait(p) takes the first share of child p off the list.
process_wait(t, p) ==
  /\ At(t, "user")
  /\ \E i \in 1 .. Len(child_share[t]) :
       /\ child_share[t][i] = p
       /\ \A j \in 1 .. i - 1 : child_share[t][j] # p
       /\ child_share' = [child_share EXCEPT ![t] = Without(@, i)]
  /\ thread' = [thread EXCEPT ![t].pc = "wait_sig", ![t].arg = p]
  /\ UNCHANGED <<next_tid, all_list, share, parent, reaped, panicked>>

\* Fault: sema_down does not wait.
wait_sema_down_unchecked(t) ==
  /\ At(t, "wait_sig")
  /\ share' = [share EXCEPT ![thread[t].arg].sig = @ - 1]
  /\ Goto(t, "wait_lock")
  /\ UNCHANGED <<next_tid, all_list, child_share, parent, reaped, panicked>>

\* sema_down(&p->sig).
wait_sema_down(t) ==
  /\ At(t, "wait_sig")
  /\ share[thread[t].arg].sig > 0
  /\ share' = [share EXCEPT ![thread[t].arg].sig = @ - 1]
  /\ Goto(t, "wait_lock")
  /\ UNCHANGED <<next_tid, all_list, child_share, parent, reaped, panicked>>

\* lock_acquire(&p->lock); p->refcount--.
Drop_reference(t, p) ==
  /\ share[p].lock = 0
  /\ share' = [share EXCEPT ![p].lock = t, ![p].refcount = @ - 1]

wait_lock(t) ==
  LET p == thread[t].arg
  IN  /\ At(t, "wait_lock")
      /\ Drop_reference(t, p)
      /\ thread' = [thread EXCEPT ![t].pc = "wait_release",
                                  ![t].result = share[p].rvalue]
      /\ reaped' = reaped \cup {p}
      /\ UNCHANGED <<next_tid, all_list, child_share, parent, panicked>>

\* Faults: free(p) whatever the count; never.
Release_share_always_free(t, freeing, after) ==
  /\ share' = [share EXCEPT ![thread[t].arg].lock = 0]
  /\ Goto(t, freeing)
  /\ UNCHANGED <<next_tid, all_list, child_share, parent, reaped, panicked>>

Release_share_never_free(t, freeing, after) ==
  /\ share' = [share EXCEPT ![thread[t].arg].lock = 0]
  /\ Goto(t, after)
  /\ UNCHANGED <<next_tid, all_list, child_share, parent, reaped, panicked>>

\* lock_release(&p->lock), and free(p) next if that was the last reference.
Release_share(t, freeing, after) ==
  LET p == thread[t].arg
  IN  /\ share' = [share EXCEPT ![p].lock = 0]
      /\ Goto(t, IF share[p].refcount = 0 THEN freeing ELSE after)
      /\ UNCHANGED <<next_tid, all_list, child_share, parent, reaped, panicked>>

Free_share(t, after) ==
  /\ share' = [share EXCEPT ![thread[t].arg].state = "freed"]
  /\ Goto(t, after)
  /\ UNCHANGED <<next_tid, all_list, child_share, parent, reaped, panicked>>

wait_release(t) == At(t, "wait_release") /\ Release_share(t, "wait_free", "user")

wait_free(t) == At(t, "wait_free") /\ Free_share(t, "user")

-----------------------------------------------------------------------------
(* Exiting. *)

\* The exit system call; a process killed by an exception keeps the -1.
system_exit(t) ==
  /\ At(t, "user")
  /\ \E code \in Codes \cup {-1} :
       thread' = [thread EXCEPT ![t].pc = "exit", ![t].rvalue = code]
  /\ UNCHANGED <<next_tid, all_list, child_share, share, parent, reaped, panicked>>

\* process_exit lets go of the shares with the children one by one, then of
\* the share with the parent, which main does not have.
process_exit(t) ==
  /\ At(t, "exit")
  /\ \/ /\ child_share[t] # <<>>
        /\ child_share' = [child_share EXCEPT ![t] = Tail(@)]
        /\ thread' = [thread EXCEPT ![t].pc = "share_lock",
                                    ![t].arg = Head(child_share[t])]
     \/ /\ child_share[t] = <<>>
        /\ t # main
        /\ thread' = [thread EXCEPT ![t].pc = "share_lock", ![t].arg = t]
        /\ UNCHANGED child_share
     \/ /\ child_share[t] = <<>>
        /\ t = main
        /\ Goto(t, "die")
        /\ UNCHANGED child_share
  /\ UNCHANGED <<next_tid, all_list, share, parent, reaped, panicked>>

\* exit_share; only the child's own call has need_rvalue set.
exit_share(t) ==
  LET p == thread[t].arg
  IN  /\ At(t, "share_lock")
      /\ Drop_reference(t, p)
      /\ Goto(t, IF p = t /\ share[p].refcount - 1 # 0 THEN "share_sig"
                 ELSE "share_release")
      /\ UNCHANGED <<next_tid, all_list, child_share, parent, reaped, panicked>>

\* Faults: rvalue is not set; sig is not upped.
exit_share_sig_no_rvalue(t) ==
  /\ At(t, "share_sig")
  /\ share' = [share EXCEPT ![t].sig = @ + 1]
  /\ Goto(t, "share_release")
  /\ UNCHANGED <<next_tid, all_list, child_share, parent, reaped, panicked>>

exit_share_sig_silent(t) ==
  /\ At(t, "share_sig")
  /\ share' = [share EXCEPT ![t].rvalue = thread[t].rvalue]
  /\ Goto(t, "share_release")
  /\ UNCHANGED <<next_tid, all_list, child_share, parent, reaped, panicked>>

\* p->rvalue = rvalue; sema_up(&p->sig).
exit_share_sig(t) ==
  /\ At(t, "share_sig")
  /\ share' = [share EXCEPT ![t].rvalue = thread[t].rvalue, ![t].sig = @ + 1]
  /\ Goto(t, "share_release")
  /\ UNCHANGED <<next_tid, all_list, child_share, parent, reaped, panicked>>

\* The share with the parent is the last one.
AfterShare(t) == IF thread[t].arg = t THEN "die" ELSE "exit"

exit_share_release(t) ==
  At(t, "share_release") /\ Release_share(t, "share_free", AfterShare(t))

exit_share_free(t) == At(t, "share_free") /\ Free_share(t, AfterShare(t))

\* The end of thread_exit: off all_list, and the page is freed.
thread_exit(t) ==
  /\ At(t, "die")
  /\ all_list' = all_list \ {t}
  /\ Goto(t, "dead")
  /\ UNCHANGED <<next_tid, child_share, share, parent, reaped, panicked>>

-----------------------------------------------------------------------------
\* The steps of a system call in progress and of start_process.
Kernel(t) ==
  \/ get_thread(t) \/ execute_setup(t) \/ execute_link(t) \/ execute_freed(t)
  \/ exec_return(t)
  \/ start_process(t) \/ start_process_up(t)
  \/ wait_sema_down(t) \/ wait_lock(t) \/ wait_release(t) \/ wait_free(t)
  \/ process_exit(t)
  \/ exit_share(t) \/ exit_share_sig(t) \/ exit_share_release(t) \/ exit_share_free(t)
  \/ thread_exit(t)

\* The calls a user program, or main, may make.
User(t) ==
  \/ process_execute(t)
  \/ \E p \in Tids : process_wait(t, p) \/ process_wait_invalid(t, p)
  \/ system_exit(t)

Next == \E t \in Tids : Kernel(t) \/ User(t)

Spec == Init /\ [][Next]_vars

\* The scheduler is round-robin, so a thread that can take a step takes it.
\* Nothing makes a user program call exit.
FairSpec == Spec /\ \A t \in Tids : WF_vars(Kernel(t))

-----------------------------------------------------------------------------
(* Properties. *)

\* The shares a thread can still access: those of its list, the one it works
\* on, and its own as long as it has not let go of it.
Accessible(t) ==
  Elems(child_share[t])
    \cup (IF thread[t].pc \in {"exec_wait", "wait_sig", "wait_lock", "wait_release",
                               "wait_free", "share_lock", "share_sig",
                               "share_release", "share_free"}
          THEN {thread[t].arg} ELSE {})
    \cup (IF t # main /\ thread[t].pc \notin {"none", "die", "dead"} THEN {t} ELSE {})

\* Parent and child drop their references in any order, each under p->lock but
\* freeing p after its release, and neither touches a share that was freed.
NoUseAfterFree ==
  \A t \in Tids : \A p \in Accessible(t) : share[p].state = "live"

\* The share of two threads that are both gone was freed by one of them.
NoShareLeak ==
  \A t \in Tids :
    thread[t].pc = "dead" /\ thread[parent[t]].pc = "dead" /\ t # main
      => share[t].state = "freed"

\* The two on wait_status, with the types of the variables.
SharesConsistent == TypeOK /\ NoUseAfterFree /\ NoShareLeak

\* process_wait returns the status the child exited with, never the
\* uninitialised rvalue of the share, and never twice for the same child.
WaitReturnsStatus ==
  \A t \in Tids :
    /\ thread[t].pc = "wait_release" => thread[t].result = thread[thread[t].arg].rvalue
    /\ thread[t].pc \in {"wait_sig", "wait_lock"} => thread[t].arg \notin reaped

\* exec does not return before the child's load is over, and reports it: the
\* child's tid if it was loaded and -1 if not.
ExecReportsLoad ==
  [][\A t \in Tids : exec_return(t) =>
       LET p == thread[t].arg
       IN  /\ thread[p].pc \notin {"load", "announce"}
           /\ thread[t].result' = IF thread[p].success THEN p ELSE -1]_vars

\* A thread waiting in process_wait for a child that exits gets the status.
WaitReturns ==
  \A t \in Tids :
    thread[t].pc = "wait_sig" /\ thread[thread[t].arg].pc \in {"exit", "dead"}
      ~> panicked \/ thread[t].pc = "user"

-----------------------------------------------------------------------------
(* What process_execute is documented to do. *)

\* The comment on process_execute says that the new thread may even exit
\* before process_execute() returns; it does return then.
ExecuteReturns ==
  \A t \in Tids :
    thread[t].pc = "lookup" ~> panicked \/ thread[t].pc \in {"user", "exec_wait"}

\* ... and it does not use the new thread once that has exited.
ExecuteUsesLiveThread == ~panicked
=============================================================================
