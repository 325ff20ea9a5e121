--------------------------- MODULE ProcessProofs ---------------------------
(***************************************************************************)
(* Proofs about Process, for any number of processes and exit statuses:    *)
(* the shares of parents and children, what process_wait returns, and what *)
(* exec reports.                                                           *)
(***************************************************************************)
EXTENDS Process, TLAPS

\* The processes created so far, main aside: those with a share.
Created == {p \in Tids : p # main /\ p < next_tid}

Injective(seq) == \A i, j \in 1 .. Len(seq) : seq[i] = seq[j] => i = j

\* Where a thread works on the share of one of its children, and where on a
\* child's or its own.
OnChild == {"lookup", "setup", "link", "wait_sig", "wait_lock", "wait_release", "wait_free"}
OnShare == {"share_lock", "share_release", "share_free"}

\* The parent's reference to p: p is on its list, or it has yet to put p there,
\* or it has taken p off and not counted down yet.
ByParent(p) ==
  \/ p \in Elems(child_share[parent[p]])
  \/ /\ thread[parent[p]].arg = p
     /\ thread[parent[p]].pc \in {"lookup", "setup", "link", "wait_sig", "wait_lock",
                                  "share_lock"}

\* The child's reference: it has not counted down its own share.
ByChild(p) ==
  /\ thread[p].pc \notin {"none", "die", "dead"}
  /\ ~(thread[p].arg = p /\ thread[p].pc \in {"share_sig", "share_release", "share_free"})

LockedBy(t, p) ==
  thread[t].arg = p /\ thread[t].pc \in {"wait_release", "share_sig", "share_release"}

FreedBy(t, p) == thread[t].arg = p /\ thread[t].pc \in {"wait_free", "share_free"}

\* The child has set its status and upped sig, if it had to.
Exited(p) ==
  \/ thread[p].pc \in {"die", "dead"}
  \/ thread[p].arg = p /\ thread[p].pc \in {"share_release", "share_free"}

Count(b) == IF b THEN 1 ELSE 0

\* A thread's list and what it works on.
ThreadOK(t) ==
  /\ t \in Created \cup {main} <=> thread[t].pc # "none"
  /\ t \notin Created \cup {main} => child_share[t] = <<>>
  /\ Injective(child_share[t])
  /\ \A p \in Elems(child_share[t]) : p \in Created /\ parent[p] = t
  /\ thread[t].pc \in OnChild =>
       /\ thread[t].arg \in Created
       /\ parent[thread[t].arg] = t
       /\ thread[t].arg \notin Elems(child_share[t])
  /\ thread[t].pc = "exec_wait" => thread[t].arg \in Elems(child_share[t])
  /\ thread[t].pc \in OnShare /\ thread[t].arg # t =>
       /\ thread[t].arg \in Created
       /\ parent[thread[t].arg] = t
       /\ thread[t].arg \notin Elems(child_share[t])
  /\ thread[t].pc \in OnShare /\ thread[t].arg = t => t # main
  /\ thread[t].pc = "share_sig" => thread[t].arg = t /\ t # main
  /\ thread[t].pc \in {"load", "announce"} => t # main
  /\ thread[t].pc \in {"die", "dead"} => child_share[t] = <<>>
  /\ thread[t].pc \in OnShare \cup {"share_sig"} /\ thread[t].arg = t => child_share[t] = <<>>

\* References, lock and storage of a share.
ShareOK(p) ==
  /\ parent[p] # p
  /\ share[p].refcount = Count(ByParent(p)) + Count(ByChild(p))
  /\ \A t \in Tids : share[p].lock = t <=> LockedBy(t, p)
  /\ \A t, u \in Tids : FreedBy(t, p) /\ FreedBy(u, p) => t = u
  /\ \A t \in Tids : FreedBy(t, p) => share[p].refcount = 0 /\ share[p].lock = 0
  /\ share[p].state = "live" <=>
       share[p].refcount # 0 \/ share[p].lock # 0 \/ \E t \in Tids : FreedBy(t, p)
  /\ share[p].state # "none"

\* The wait status: it is set before sig is upped, and reaped once.
StatusOK(p) ==
  /\ p \in reaped => ~ByParent(p)
  /\ share[p].sig = 1 => Exited(p) /\ share[p].rvalue = thread[p].rvalue
  /\ \A t \in Tids : thread[t].pc = "wait_lock" /\ thread[t].arg = p =>
       Exited(p) /\ share[p].rvalue = thread[p].rvalue
  /\ \A t \in Tids : thread[t].pc = "wait_release" /\ thread[t].arg = p =>
       Exited(p) /\ thread[t].result = thread[p].rvalue

\* The load: announced once, with what load() returned.
LoadOK(p) ==
  /\ thread[p].pc \in {"load", "announce"} => share[p].successload = 0
  /\ thread[p].pc = "load" => share[p].loaded
  /\ thread[p].pc # "load" => share[p].loaded = thread[p].success

\* The inductive invariant.
Inv ==
  /\ TypeOK
  /\ next_tid >= 2 /\ reaped \subseteq Created
  /\ \A t \in Tids : ThreadOK(t)
  /\ \A p \in Created : ShareOK(p)
  /\ \A p \in Created : StatusOK(p)
  /\ \A p \in Created : LoadOK(p)

-----------------------------------------------------------------------------
(* Lists *)

\* list_push_back.
LEMMA ElemsAppend ==
  ASSUME NEW seq \in Seq(Tids), NEW x \in Tids
  PROVE  /\ Append(seq, x) \in Seq(Tids)
         /\ Elems(Append(seq, x)) = Elems(seq) \cup {x}
         /\ Injective(seq) /\ x \notin Elems(seq) => Injective(Append(seq, x))
BY SMTT(30) DEF Elems, Injective

\* list_pop_front.
LEMMA ElemsTail ==
  ASSUME NEW seq \in Seq(Tids), seq # <<>>, Injective(seq)
  PROVE  /\ Tail(seq) \in Seq(Tids)
         /\ Head(seq) \in Tids
         /\ Head(seq) \in Elems(seq)
         /\ Elems(Tail(seq)) = Elems(seq) \ {Head(seq)}
         /\ Injective(Tail(seq))
<1>1. /\ Tail(seq) \in Seq(Tids) /\ Len(seq) \in Nat \ {0}
      /\ Len(Tail(seq)) = Len(seq) - 1
      /\ \A i \in 1 .. Len(Tail(seq)) : Tail(seq)[i] = seq[i + 1]
      /\ Head(seq) = seq[1] /\ seq[1] \in Tids
  OBVIOUS
<1>2. Injective(Tail(seq))
  BY <1>1 DEF Injective
<1>3. Head(seq) \in Elems(seq)
  BY <1>1 DEF Elems
<1>4. \A x \in Elems(Tail(seq)) : x \in Elems(seq) /\ x # Head(seq)
  BY <1>1 DEF Elems, Injective
<1>5. ASSUME NEW i \in 1 .. Len(seq), seq[i] # Head(seq)
      PROVE  seq[i] \in Elems(Tail(seq))
  <2>1. i - 1 \in 1 .. Len(Tail(seq)) /\ Tail(seq)[i - 1] = seq[i]
    BY <1>1, <1>5
  <2>2. QED
    BY Zenon, <2>1 DEF Elems
<1>6. \A x \in Elems(seq) : x # Head(seq) => x \in Elems(Tail(seq))
  BY Zenon, <1>5 DEF Elems
<1>7. QED
  BY Zenon, <1>1, <1>2, <1>3, <1>4, <1>6

\* list_remove.
LEMMA ElemsWithout ==
  ASSUME NEW seq \in Seq(Tids), NEW i \in 1 .. Len(seq), Injective(seq)
  PROVE  /\ Without(seq, i) \in Seq(Tids)
         /\ Elems(Without(seq, i)) = Elems(seq) \ {seq[i]}
         /\ Injective(Without(seq, i))
<1> DEFINE w == Without(seq, i)
<1>1. /\ w \in Seq(Tids) /\ Len(seq) \in Nat \ {0} /\ Len(w) = Len(seq) - 1
      /\ \A j \in 1 .. Len(w) : w[j] = IF j < i THEN seq[j] ELSE seq[j + 1]
  <2>1. Len(seq) \in Nat /\ Len(seq) - 1 \in Nat
    OBVIOUS
  <2>2. \A j \in 1 .. Len(seq) - 1 : j \in 1 .. Len(seq) /\ j + 1 \in 1 .. Len(seq)
    BY <2>1
  <2>3. \A j \in 1 .. Len(seq) : seq[j] \in Tids
    OBVIOUS
  <2>4. w \in [1 .. Len(seq) - 1 -> Tids]
    BY Zenon, <2>2, <2>3 DEF Without
  <2>5. w \in Seq(Tids) /\ Len(w) = Len(seq) - 1
    BY <2>1, <2>4
  <2>6. QED
    BY <2>1, <2>5 DEF Without
<1>2. Injective(w)
  BY SMTT(30), <1>1 DEF Injective
<1>3. \A x \in Elems(w) : x \in Elems(seq) /\ x # seq[i]
  BY <1>1 DEF Elems, Injective
<1>4. ASSUME NEW j \in 1 .. Len(seq), seq[j] # seq[i]
      PROVE  seq[j] \in Elems(w)
  <2>1. CASE j < i
    <3>1. j \in 1 .. Len(w) /\ w[j] = seq[j]
      BY <1>1, <2>1
    <3>2. QED
      BY Zenon, <3>1 DEF Elems
  <2>2. CASE j > i
    <3>1. j - 1 \in 1 .. Len(w) /\ w[j - 1] = seq[j]
      BY <1>1, <2>2
    <3>2. QED
      BY Zenon, <3>1 DEF Elems
  <2>3. QED
    BY <1>4, <2>1, <2>2
<1>5. \A x \in Elems(seq) : x # seq[i] => x \in Elems(w)
  BY Zenon, <1>4 DEF Elems
<1>6. QED
  BY Zenon, <1>1, <1>2, <1>3, <1>5

\* The empty list holds nothing.
LEMMA ElemsNil == Elems(<<>>) = {} /\ Injective(<<>>)
BY DEF Elems, Injective

-----------------------------------------------------------------------------
(* Steps are local: a step of thread t that works on the share of p leaves *)
(* the other threads and shares as they are.                               *)

Busy == OnChild \cup OnShare \cup {"share_sig"}

Local(t, p) ==
  /\ next_tid' = next_tid
  /\ parent' = parent
  /\ \A q \in Tids : q # p =>
       /\ share'[q] = share[q]
       /\ q \in reaped' <=> q \in reaped
       /\ q \in Elems(child_share'[t]) <=> q \in Elems(child_share[t])
  /\ \A u \in Tids : u # t =>
       /\ child_share'[u] = child_share[u]
       /\ thread'[u].pc = thread[u].pc
       /\ thread'[u].arg = thread[u].arg
       /\ thread'[u].rvalue = thread[u].rvalue
       /\ thread'[u].success = thread[u].success
       /\ thread'[u].result = thread[u].result
  /\ thread[t].pc \in Busy => thread[t].arg = p
  /\ thread'[t].pc \in Busy => thread'[t].arg = p
  /\ t # p =>
       /\ thread[t].pc \notin {"none", "load", "announce", "die", "dead"}
       /\ thread'[t].pc \notin {"none", "load", "announce", "die", "dead"}
       /\ thread'[t].success = thread[t].success

\* The predicates of the other shares do not change.
LEMMA Views ==
  ASSUME Inv, NEW t \in Tids, NEW p \in Tids, Local(t, p), NEW q \in Created, q # p
  PROVE  /\ ByParent(q)' <=> ByParent(q)
         /\ ByChild(q)' <=> ByChild(q)
         /\ Exited(q)' <=> Exited(q)
         /\ \A u \in Tids : LockedBy(u, q)' <=> LockedBy(u, q)
         /\ \A u \in Tids : FreedBy(u, q)' <=> FreedBy(u, q)
<1> USE DEF Local, Busy, OnChild, OnShare
<1>1. q \in Tids /\ parent[q] \in Tids /\ parent'[q] = parent[q]
  BY Zenon DEF Inv, TypeOK, Created
<1>2. ByParent(q)' <=> ByParent(q)
  BY ZenonT(90), <1>1 DEF ByParent
<1>3. ByChild(q)' <=> ByChild(q)
  BY <1>1 DEF ByChild
<1>4. Exited(q)' <=> Exited(q)
  BY <1>1 DEF Exited
<1>5. \A u \in Tids : LockedBy(u, q)' <=> LockedBy(u, q)
  BY DEF LockedBy
<1>6. \A u \in Tids : FreedBy(u, q)' <=> FreedBy(u, q)
  BY DEF FreedBy
<1>7. QED
  BY Zenon, <1>2, <1>3, <1>4, <1>5, <1>6

\* The other shares and threads stay as the invariant has them.
LEMMA Elsewhere ==
  ASSUME Inv, NEW t \in Tids, NEW p \in Tids, Local(t, p)
  PROVE  /\ Created' = Created /\ next_tid' >= 2
         /\ \A q \in Created : q # p => ShareOK(q)' /\ StatusOK(q)' /\ LoadOK(q)'
         /\ \A u \in Tids : u # t => ThreadOK(u)'
<1>1. Created' = Created /\ next_tid' >= 2
  BY Zenon DEF Local, Created, Inv
<1>2. ASSUME NEW q \in Created, q # p
      PROVE  ShareOK(q)'
  <2>1. q \in Tids /\ share'[q] = share[q] /\ parent'[q] = parent[q]
    BY Zenon, <1>2 DEF Local, Created
  <2>2. ShareOK(q)
    BY Zenon DEF Inv
  <2>3. QED
    BY <1>2, <2>1, <2>2, Views DEF ShareOK, Count
<1>3. ASSUME NEW q \in Created, q # p
      PROVE  StatusOK(q)'
  <2>1. q \in Tids /\ share'[q] = share[q] /\ (q \in reaped' <=> q \in reaped)
    BY Zenon, <1>3 DEF Local, Created
  <2>2. StatusOK(q)
    BY Zenon DEF Inv
  <2>3. Exited(q) => thread'[q].rvalue = thread[q].rvalue
    BY <1>3, <2>1 DEF Local, Exited, Busy, OnChild, OnShare
  <2>4. \A u \in Tids : thread'[u].pc \in {"wait_lock", "wait_release"} /\ thread'[u].arg = q =>
          /\ thread[u].pc = thread'[u].pc /\ thread[u].arg = q
          /\ thread'[u].result = thread[u].result
    BY Zenon, <1>3 DEF Local, Busy, OnChild
  <2>5. QED
    BY <1>3, <2>1, <2>2, <2>3, <2>4, Views DEF StatusOK
<1>4. ASSUME NEW q \in Created, q # p
      PROVE  LoadOK(q)'
  <2>1. q \in Tids /\ share'[q] = share[q]
    BY Zenon, <1>4 DEF Local, Created
  <2>2. LoadOK(q)
    BY Zenon DEF Inv
  <2>3. QED
    BY <1>4, <2>1, <2>2 DEF LoadOK, Local
<1>5. ASSUME NEW u \in Tids, u # t
      PROVE  ThreadOK(u)'
  <2>1. ThreadOK(u)
    BY Zenon DEF Inv
  <2>2. /\ parent' = parent /\ child_share'[u] = child_share[u]
        /\ thread'[u].pc = thread[u].pc /\ thread'[u].arg = thread[u].arg
    BY Zenon, <1>5 DEF Local
  <2>3. QED
    BY Zenon, <1>1, <2>1, <2>2 DEF ThreadOK
<1>6. QED
  BY Zenon, <1>1, <1>2, <1>3, <1>4, <1>5

\* What is left to show of a step.
LEMMA LocalStep ==
  ASSUME Inv, NEW t \in Tids, NEW p \in Tids, Local(t, p), TypeOK',
         p \in Created => ShareOK(p)' /\ StatusOK(p)' /\ LoadOK(p)',
         ThreadOK(t)', p \in reaped' => p \in Created
  PROVE  Inv'
<1>1. reaped' \subseteq Created
  BY ZenonT(30) DEF Inv, Local, TypeOK
<1>2. QED
  BY <1>1, Elsewhere DEF Inv

\* 0, a lock nobody holds, is no thread.
LEMMA TidsPositive == \A t \in Tids : t # 0
BY ProcessAssumption DEF Tids

\* What is left to show of the references, the lock and the storage.
LEMMA ShareStep ==
  ASSUME NEW t \in Tids, NEW p \in Tids, Local(t, p), ShareOK(p),
         share'[p].refcount = Count(ByParent(p)') + Count(ByChild(p)'),
         share'[p].lock = t <=> LockedBy(t, p)',
         \/ share'[p].lock = share[p].lock
         \/ share[p].lock \in {0, t} /\ share'[p].lock \in {0, t},
         share[p].refcount = 0 /\ share[p].lock = 0 =>
           share'[p].refcount = 0 /\ share'[p].lock = 0,
         FreedBy(t, p)' =>
           /\ FreedBy(t, p) \/ share[p].lock = t
           /\ share'[p].refcount = 0 /\ share'[p].lock = 0,
         \/ /\ share'[p].state = share[p].state
            /\ (share[p].refcount # 0 \/ share[p].lock # 0 \/ FreedBy(t, p)) <=>
               (share'[p].refcount # 0 \/ share'[p].lock # 0 \/ FreedBy(t, p)')
         \/ /\ FreedBy(t, p) /\ ~FreedBy(t, p)'
            /\ share'[p].refcount = 0 /\ share'[p].lock = 0 /\ share'[p].state = "freed"
  PROVE  ShareOK(p)'
<1>1. /\ parent'[p] = parent[p] /\ t # 0 /\ 0 \notin Tids
      /\ \A u \in Tids : u # t => LockedBy(u, p)' <=> LockedBy(u, p)
      /\ \A u \in Tids : u # t => FreedBy(u, p)' <=> FreedBy(u, p)
  BY ProcessAssumption DEF Local, LockedBy, FreedBy, Tids
<1>2. \A u \in Tids : share'[p].lock = u <=> LockedBy(u, p)'
  BY ZenonT(30), <1>1 DEF ShareOK
<1>3. \A u \in Tids : FreedBy(u, p)' => share'[p].refcount = 0 /\ share'[p].lock = 0
  BY Zenon, <1>1 DEF ShareOK
<1>4. \A u, v \in Tids : FreedBy(u, p)' /\ FreedBy(v, p)' => u = v
  BY ZenonT(30), <1>1 DEF ShareOK
<1>5. /\ share'[p].state = "live" <=>
           share'[p].refcount # 0 \/ share'[p].lock # 0 \/ \E u \in Tids : FreedBy(u, p)'
      /\ share'[p].state # "none"
  BY Zenon, <1>1 DEF ShareOK
<1>6. QED
  BY Zenon, <1>1, <1>2, <1>3, <1>4, <1>5 DEF ShareOK

\* What is left to show of the wait status.
LEMMA StatusStep ==
  ASSUME NEW t \in Tids, NEW p \in Tids, Local(t, p), StatusOK(p),
         p \in reaped' => ~ByParent(p)',
         Exited(p) => Exited(p)' /\ thread'[p].rvalue = thread[p].rvalue
                                 /\ share'[p].rvalue = share[p].rvalue,
         share'[p].sig = 1 => Exited(p)' /\ share'[p].rvalue = thread'[p].rvalue,
         thread'[t].pc = "wait_lock" =>
           Exited(p)' /\ share'[p].rvalue = thread'[p].rvalue,
         thread'[t].pc = "wait_release" =>
           Exited(p)' /\ thread'[t].result = thread'[p].rvalue
  PROVE  StatusOK(p)'
<1>1. ASSUME NEW u \in Tids, thread'[u].arg = p, thread'[u].pc = "wait_lock"
      PROVE  Exited(p)' /\ share'[p].rvalue = thread'[p].rvalue
  BY ZenonT(30), <1>1 DEF Local, StatusOK
<1>2. ASSUME NEW u \in Tids, thread'[u].arg = p, thread'[u].pc = "wait_release"
      PROVE  Exited(p)' /\ thread'[u].result = thread'[p].rvalue
  BY <1>2 DEF Local, StatusOK
<1>3. QED
  BY Zenon, <1>1, <1>2 DEF StatusOK

-----------------------------------------------------------------------------
(* The steps *)

\* Only main runs, without children.
LEMMA InitInv == Init => Inv
<1> SUFFICES ASSUME Init PROVE Inv
  BY Zenon
<1> USE ProcessAssumption DEF Init
<1>1. main \in Tids /\ Created = {} /\ next_tid = 2
  BY DEF main, Tids, Created
<1>2. NoThread \in ThreadRecords /\ [NoThread EXCEPT !.pc = "user"] \in ThreadRecords
  <2>1. "none" \in Pcs /\ "user" \in Pcs /\ 0 \in 0 .. 1 /\ FALSE \in BOOLEAN
    BY DEF Pcs
  <2>2. -1 \in Codes \cup {-1} /\ -1 \in Codes \cup Tids \cup {-1, Uninit}
    BY Zenon
  <2>3. QED
    BY Zenon, <1>1, <2>1, <2>2 DEF NoThread, ThreadRecords
<1>3. NoShare \in ShareRecords
  BY DEF NoShare, ShareRecords
<1>4. TypeOK
  <2>1. thread \in [Tids -> ThreadRecords]
    BY Zenon, <1>2
  <2>2. share \in [Tids -> ShareRecords]
    BY Zenon, <1>3
  <2>3. next_tid \in 1 .. MaxTid + 1
    OBVIOUS
  <2>4. child_share \in [Tids -> Seq(Tids)] /\ parent \in [Tids -> Tids]
    BY <1>1
  <2>5. QED
    BY Zenon, <1>1, <2>1, <2>2, <2>3, <2>4 DEF TypeOK
<1>5. ASSUME NEW t \in Tids
      PROVE  ThreadOK(t)
  <2>1. child_share[t] = <<>>
    BY Zenon
  <2>2. thread[t].pc = IF t = main THEN "user" ELSE "none"
    BY Zenon DEF NoThread
  <2>3. QED
    BY <1>1, <2>1, <2>2, ElemsNil DEF ThreadOK, OnChild, OnShare
<1>6. QED
  BY <1>1, <1>4, <1>5 DEF Inv

\* A struct thread is written.
LEMMA ThreadWrite ==
  ASSUME TypeOK, NEW t \in Tids, NEW r \in ThreadRecords,
         thread' = [thread EXCEPT ![t] = r]
  PROVE  /\ thread' \in [Tids -> ThreadRecords]
         /\ thread'[t] = r
         /\ \A u \in Tids : u # t => thread'[u] = thread[u]
BY Zenon DEF TypeOK

\* A process_share is written.
LEMMA ShareWrite ==
  ASSUME TypeOK, NEW p \in Tids, NEW s \in ShareRecords,
         share' = [share EXCEPT ![p] = s]
  PROVE  /\ share' \in [Tids -> ShareRecords]
         /\ share'[p] = s
         /\ \A q \in Tids : q # p => share'[q] = share[q]
BY Zenon DEF TypeOK

\* The child is found.
LEMMA GetThreadInv ==
  ASSUME Inv, NEW t \in Tids, get_thread(t)
  PROVE  Inv'
<1>1. TypeOK /\ ThreadOK(t) /\ thread[t] \in ThreadRecords /\ thread[t].pc = "lookup"
  BY ZenonT(30) DEF Inv, TypeOK, At, ThreadOK, get_thread
<1>2. PICK p \in Created : p = thread[t].arg /\ parent[p] = t /\ p \notin Elems(child_share[t])
  BY Zenon, <1>1 DEF ThreadOK, OnChild
<1>3. /\ p \in Tids /\ share[p] \in ShareRecords /\ parent[p] \in Tids
      /\ ShareOK(p) /\ StatusOK(p) /\ LoadOK(p) /\ parent[p] # p
  BY ZenonT(90), <1>1, <1>2 DEF Inv, TypeOK, Created, ShareOK
<1> DEFINE r == [thread[t] EXCEPT !.pc = "setup"]
<1>4. r \in ThreadRecords
  <2>1. "setup" \in Pcs
    BY Zenon, <1>1, <1>3 DEF Pcs, ThreadRecords, ShareRecords
  <2>2. QED
    BY Zenon, <1>1, <1>3, <2>1 DEF ThreadRecords
<1>5. /\ thread' = [thread EXCEPT ![t] = r]
      /\ UNCHANGED <<next_tid, all_list, child_share, share, parent, reaped, panicked>>
  BY Zenon, <1>1, <1>2 DEF get_thread, Goto, TypeOK
<1>6. /\ r.pc = "setup" /\ r.arg = thread[t].arg /\ r.rvalue = thread[t].rvalue
      /\ r.success = thread[t].success /\ r.result = thread[t].result
  BY Zenon, <1>1, <1>3 DEF ThreadRecords
<1> HIDE DEF r
<1>7. /\ thread' \in [Tids -> ThreadRecords] /\ thread'[t] = r
      /\ \A u \in Tids : u # t => thread'[u] = thread[u]
  BY Zenon, <1>1, <1>4, <1>5, ThreadWrite
<1>8. TypeOK'
  BY Zenon, <1>1, <1>3, <1>5, <1>7 DEF TypeOK
<1>9. /\ p \in Tids /\ parent[p] # p /\ thread[t].pc = "lookup"
      /\ p = thread[t].arg /\ parent[p] = t /\ p \notin Elems(child_share[t])
      /\ thread'[t].pc = "setup" /\ thread'[t].arg = thread[t].arg
      /\ thread'[t].rvalue = thread[t].rvalue /\ thread'[t].success = thread[t].success
      /\ thread'[t].result = thread[t].result
      /\ \A u \in Tids : u # t => thread'[u] = thread[u]
      /\ next_tid' = next_tid /\ child_share' = child_share /\ share' = share /\ parent' = parent /\ reaped' = reaped
  BY Zenon, <1>1, <1>2, <1>3, <1>5, <1>6, <1>7
<1>10. Local(t, p)
  BY Zenon, <1>9 DEF Local, Busy, OnChild, OnShare
<1>11. ThreadOK(t)'
  BY Zenon, <1>1, <1>9 DEF ThreadOK, Created, OnChild, OnShare
<1>12. (ByParent(p)' <=> ByParent(p)) /\ (ByChild(p)' <=> ByChild(p)) /\ (Exited(p)' <=> Exited(p))
  BY Zenon, <1>3, <1>9 DEF ByParent, ByChild, Exited
<1>13. (LockedBy(t, p)' <=> LockedBy(t, p)) /\ (FreedBy(t, p)' <=> FreedBy(t, p))
  BY Zenon, <1>9 DEF LockedBy, FreedBy
<1>14. ShareOK(p)'
  <2>1. /\ share[p].refcount = Count(ByParent(p)) + Count(ByChild(p))
        /\ share[p].lock = t <=> LockedBy(t, p)
        /\ FreedBy(t, p) => share[p].refcount = 0 /\ share[p].lock = 0
    BY Zenon, <1>3 DEF ShareOK
  <2>2. share'[p].refcount = Count(ByParent(p)') + Count(ByChild(p)')
    BY Zenon, <1>9, <1>12, <2>1 DEF Count
  <2>3. /\ share'[p].lock = t <=> LockedBy(t, p)'
        /\ \/ share'[p].lock = share[p].lock
           \/ share[p].lock \in {0, t} /\ share'[p].lock \in {0, t}
        /\ share[p].refcount = 0 /\ share[p].lock = 0 =>
             share'[p].refcount = 0 /\ share'[p].lock = 0
        /\ FreedBy(t, p)' =>
             /\ FreedBy(t, p) \/ share[p].lock = t
             /\ share'[p].refcount = 0 /\ share'[p].lock = 0
        /\ \/ /\ share'[p].state = share[p].state
              /\ (share[p].refcount # 0 \/ share[p].lock # 0 \/ FreedBy(t, p)) <=>
                 (share'[p].refcount # 0 \/ share'[p].lock # 0 \/ FreedBy(t, p)')
           \/ /\ FreedBy(t, p) /\ ~FreedBy(t, p)'
              /\ share'[p].refcount = 0 /\ share'[p].lock = 0 /\ share'[p].state = "freed"
    BY Zenon, <1>9, <1>13, <2>1
  <2>4. QED
    BY Zenon, <1>3, <1>10, <2>2, <2>3, ShareStep
<1>15. StatusOK(p)' /\ LoadOK(p)'
  <2>1. /\ p \in reaped => ~ByParent(p)
        /\ share[p].sig = 1 => Exited(p) /\ share[p].rvalue = thread[p].rvalue
        /\ thread[t].pc = "wait_lock" /\ thread[t].arg = p =>
             Exited(p) /\ share[p].rvalue = thread[p].rvalue
    BY Zenon, <1>3 DEF StatusOK
  <2>2. /\ p \in reaped' => ~ByParent(p)'
        /\ Exited(p) => /\ Exited(p)' /\ thread'[p].rvalue = thread[p].rvalue
                        /\ share'[p].rvalue = share[p].rvalue
        /\ share'[p].sig = 1 => Exited(p)' /\ share'[p].rvalue = thread'[p].rvalue
        /\ thread'[t].pc = "wait_lock" => Exited(p)' /\ share'[p].rvalue = thread'[p].rvalue
        /\ thread'[t].pc = "wait_release" => Exited(p)' /\ thread'[t].result = thread'[p].rvalue
    BY Zenon, <1>9, <1>12, <2>1
  <2>3. StatusOK(p)'
    BY Zenon, <1>3, <1>10, <2>2, StatusStep
  <2>4. LoadOK(p)'
    BY Zenon, <1>3, <1>9 DEF LoadOK
  <2>5. QED
    BY Zenon, <2>3, <2>4
<1>16. QED
  BY Zenon, <1>3, <1>8, <1>10, <1>11, <1>14, <1>15, LocalStep

\* The child has upped sig.
LEMMA WaitSemaDownInv ==
  ASSUME Inv, NEW t \in Tids, wait_sema_down(t)
  PROVE  Inv'
<1>1. TypeOK /\ ThreadOK(t) /\ thread[t] \in ThreadRecords /\ thread[t].pc = "wait_sig"
  BY ZenonT(30) DEF Inv, TypeOK, At, ThreadOK, wait_sema_down
<1>2. PICK p \in Created : p = thread[t].arg /\ parent[p] = t /\ p \notin Elems(child_share[t])
  BY Zenon, <1>1 DEF ThreadOK, OnChild
<1>3. /\ p \in Tids /\ share[p] \in ShareRecords /\ parent[p] \in Tids
      /\ ShareOK(p) /\ StatusOK(p) /\ LoadOK(p) /\ parent[p] # p
  BY ZenonT(30), <1>1, <1>2 DEF Inv, TypeOK, Created, ShareOK
<1>4. share[p].sig = 1
  BY <1>1, <1>2, <1>3 DEF wait_sema_down, ShareRecords
<1> DEFINE r == [thread[t] EXCEPT !.pc = "wait_lock"]
<1> DEFINE s == [share[p] EXCEPT !.sig = @ - 1]
<1>5. r \in ThreadRecords /\ s \in ShareRecords
  <2>1. "wait_lock" \in Pcs /\ share[p].sig - 1 \in 0 .. 1
    BY <1>1, <1>3, <1>4 DEF Pcs, ThreadRecords, ShareRecords
  <2>2. QED
    BY Zenon, <1>1, <1>3, <2>1 DEF ThreadRecords, ShareRecords
<1>6. /\ thread' = [thread EXCEPT ![t] = r]
      /\ share' = [share EXCEPT ![p] = s]
      /\ UNCHANGED <<next_tid, all_list, child_share, parent, reaped, panicked>>
  BY Zenon, <1>1, <1>2, <1>4 DEF wait_sema_down, Goto, TypeOK
<1>7. /\ r.pc = "wait_lock" /\ r.arg = thread[t].arg /\ r.rvalue = thread[t].rvalue
      /\ r.success = thread[t].success /\ r.result = thread[t].result
      /\ s.state = share[p].state /\ s.refcount = share[p].refcount /\ s.lock = share[p].lock
      /\ s.sig = share[p].sig - 1 /\ s.successload = share[p].successload
      /\ s.loaded = share[p].loaded /\ s.rvalue = share[p].rvalue
  BY Zenon, <1>1, <1>3 DEF ThreadRecords, ShareRecords
<1> HIDE DEF r, s
<1>8. /\ thread' \in [Tids -> ThreadRecords] /\ thread'[t] = r
      /\ \A u \in Tids : u # t => thread'[u] = thread[u]
      /\ share' \in [Tids -> ShareRecords] /\ share'[p] = s
      /\ \A q \in Tids : q # p => share'[q] = share[q]
  BY ZenonT(30), <1>1, <1>3, <1>5, <1>6, ThreadWrite, ShareWrite
<1>9. TypeOK'
  BY Zenon, <1>1, <1>3, <1>6, <1>8 DEF TypeOK
<1>10. /\ p \in Tids /\ parent[p] # p /\ thread[t].pc = "wait_sig"
       /\ p = thread[t].arg /\ parent[p] = t /\ p \notin Elems(child_share[t])
       /\ thread'[t].pc = "wait_lock" /\ thread'[t].arg = thread[t].arg
       /\ thread'[t].rvalue = thread[t].rvalue /\ thread'[t].success = thread[t].success
       /\ thread'[t].result = thread[t].result
       /\ \A u \in Tids : u # t => thread'[u] = thread[u]
       /\ share'[p].state = share[p].state /\ share'[p].refcount = share[p].refcount
       /\ share'[p].lock = share[p].lock /\ share'[p].sig = share[p].sig - 1
       /\ share'[p].successload = share[p].successload /\ share'[p].loaded = share[p].loaded
       /\ share'[p].rvalue = share[p].rvalue
       /\ \A q \in Tids : q # p => share'[q] = share[q]
       /\ next_tid' = next_tid /\ child_share' = child_share /\ parent' = parent /\ reaped' = reaped
  BY ZenonT(30), <1>1, <1>2, <1>3, <1>6, <1>7, <1>8
<1>11. Local(t, p)
  BY Zenon, <1>10 DEF Local, Busy, OnChild, OnShare
<1>12. ThreadOK(t)'
  BY ZenonT(30), <1>1, <1>10, <1>4 DEF ThreadOK, Created, OnChild, OnShare
<1>13. (ByParent(p)' <=> ByParent(p)) /\ (ByChild(p)' <=> ByChild(p)) /\ (Exited(p)' <=> Exited(p))
  BY ZenonT(30), <1>3, <1>10 DEF ByParent, ByChild, Exited
<1>14. (LockedBy(t, p)' <=> LockedBy(t, p)) /\ (FreedBy(t, p)' <=> FreedBy(t, p))
  BY Zenon, <1>10, <1>4 DEF LockedBy, FreedBy
<1>15. ShareOK(p)'
  <2>1. /\ share[p].refcount = Count(ByParent(p)) + Count(ByChild(p))
        /\ share[p].lock = t <=> LockedBy(t, p)
        /\ FreedBy(t, p) => share[p].refcount = 0 /\ share[p].lock = 0
    BY Zenon, <1>3 DEF ShareOK
  <2>2. share'[p].refcount = Count(ByParent(p)') + Count(ByChild(p)')
    BY Zenon, <1>10, <1>13, <1>4, <2>1 DEF Count
  <2>3. /\ share'[p].lock = t <=> LockedBy(t, p)'
        /\ \/ share'[p].lock = share[p].lock
           \/ share[p].lock \in {0, t} /\ share'[p].lock \in {0, t}
        /\ share[p].refcount = 0 /\ share[p].lock = 0 =>
             share'[p].refcount = 0 /\ share'[p].lock = 0
        /\ FreedBy(t, p)' =>
             /\ FreedBy(t, p) \/ share[p].lock = t
             /\ share'[p].refcount = 0 /\ share'[p].lock = 0
        /\ \/ /\ share'[p].state = share[p].state
              /\ (share[p].refcount # 0 \/ share[p].lock # 0 \/ FreedBy(t, p)) <=>
                 (share'[p].refcount # 0 \/ share'[p].lock # 0 \/ FreedBy(t, p)')
           \/ /\ FreedBy(t, p) /\ ~FreedBy(t, p)'
              /\ share'[p].refcount = 0 /\ share'[p].lock = 0 /\ share'[p].state = "freed"
    BY ZenonT(30), <1>10, <1>14, <1>4, <2>1
  <2>4. QED
    BY Zenon, <1>3, <1>11, <2>2, <2>3, ShareStep
<1>16. StatusOK(p)' /\ LoadOK(p)'
  <2>1. /\ p \in reaped => ~ByParent(p)
        /\ share[p].sig = 1 => Exited(p) /\ share[p].rvalue = thread[p].rvalue
        /\ thread[t].pc = "wait_lock" /\ thread[t].arg = p =>
             Exited(p) /\ share[p].rvalue = thread[p].rvalue
    BY Zenon, <1>3 DEF StatusOK
  <2>2. /\ p \in reaped' => ~ByParent(p)'
        /\ Exited(p) => /\ Exited(p)' /\ thread'[p].rvalue = thread[p].rvalue
                        /\ share'[p].rvalue = share[p].rvalue
        /\ share'[p].sig = 1 => Exited(p)' /\ share'[p].rvalue = thread'[p].rvalue
        /\ thread'[t].pc = "wait_lock" => Exited(p)' /\ share'[p].rvalue = thread'[p].rvalue
        /\ thread'[t].pc = "wait_release" => Exited(p)' /\ thread'[t].result = thread'[p].rvalue
    BY Zenon, <1>10, <1>13, <1>4, <2>1
  <2>3. StatusOK(p)'
    BY Zenon, <1>3, <1>11, <2>2, StatusStep
  <2>4. LoadOK(p)'
    BY ZenonT(30), <1>3, <1>10, <1>4 DEF LoadOK
  <2>5. QED
    BY Zenon, <2>3, <2>4
<1>17. QED
  BY Zenon, <1>3, <1>9, <1>11, <1>12, <1>15, <1>16, LocalStep

\* The waiting parent counts down and has the child's status.
LEMMA WaitLockInv ==
  ASSUME Inv, NEW t \in Tids, wait_lock(t)
  PROVE  Inv'
<1>1. TypeOK /\ ThreadOK(t) /\ thread[t] \in ThreadRecords /\ thread[t].pc = "wait_lock"
  BY ZenonT(30) DEF Inv, TypeOK, At, ThreadOK, wait_lock
<1>2. PICK p \in Created : p = thread[t].arg /\ parent[p] = t /\ p \notin Elems(child_share[t])
  BY Zenon, <1>1 DEF ThreadOK, OnChild
<1>3. /\ p \in Tids /\ share[p] \in ShareRecords /\ parent[p] \in Tids
      /\ ShareOK(p) /\ StatusOK(p) /\ LoadOK(p) /\ parent[p] # p
  BY ZenonT(30), <1>1, <1>2 DEF Inv, TypeOK, Created, ShareOK
<1>4. ByParent(p) /\ share[p].refcount \in 1 .. 2 /\ share[p].lock = 0
  BY SMTT(30), <1>1, <1>2, <1>3 DEF ByParent, ShareOK, Count, wait_lock, Drop_reference
<1> DEFINE r == [thread[t] EXCEPT !.pc = "wait_release", !.result = share[p].rvalue]
<1> DEFINE s == [share[p] EXCEPT !.lock = t, !.refcount = @ - 1]
<1>5. r \in ThreadRecords /\ s \in ShareRecords
  <2>1. "wait_release" \in Pcs /\ share[p].rvalue \in Codes \cup Tids \cup {-1, Uninit} /\ share[p].refcount - 1 \in 0 .. 2 /\ t \in Tids \cup {0}
    BY <1>1, <1>3, <1>4 DEF Pcs, ThreadRecords, ShareRecords
  <2>2. QED
    BY Zenon, <1>1, <1>3, <2>1 DEF ThreadRecords, ShareRecords
<1>6. /\ thread' = [thread EXCEPT ![t] = r]
      /\ share' = [share EXCEPT ![p] = s]
      /\ UNCHANGED <<next_tid, all_list, child_share, parent, panicked>>
      /\ reaped' = reaped \cup {p}
  BY Zenon, <1>1, <1>2, <1>4 DEF wait_lock, Goto, TypeOK, Drop_reference
<1>7. /\ r.pc = "wait_release" /\ r.arg = thread[t].arg /\ r.rvalue = thread[t].rvalue
      /\ r.success = thread[t].success /\ r.result = share[p].rvalue
      /\ s.state = share[p].state /\ s.refcount = share[p].refcount - 1 /\ s.lock = t
      /\ s.sig = share[p].sig /\ s.successload = share[p].successload
      /\ s.loaded = share[p].loaded /\ s.rvalue = share[p].rvalue
  BY Zenon, <1>1, <1>3 DEF ThreadRecords, ShareRecords
<1> HIDE DEF r, s
<1>8. /\ thread' \in [Tids -> ThreadRecords] /\ thread'[t] = r
      /\ \A u \in Tids : u # t => thread'[u] = thread[u]
      /\ share' \in [Tids -> ShareRecords] /\ share'[p] = s
      /\ \A q \in Tids : q # p => share'[q] = share[q]
  BY ZenonT(30), <1>1, <1>3, <1>5, <1>6, ThreadWrite, ShareWrite
<1>9. TypeOK'
  BY Zenon, <1>1, <1>3, <1>6, <1>8 DEF TypeOK
<1>10. /\ p \in Tids /\ parent[p] # p /\ thread[t].pc = "wait_lock"
       /\ p = thread[t].arg /\ parent[p] = t /\ p \notin Elems(child_share[t])
       /\ thread'[t].pc = "wait_release" /\ thread'[t].arg = thread[t].arg
       /\ thread'[t].rvalue = thread[t].rvalue /\ thread'[t].success = thread[t].success
       /\ thread'[t].result = share[p].rvalue
       /\ \A u \in Tids : u # t => thread'[u] = thread[u]
       /\ share'[p].state = share[p].state /\ share'[p].refcount = share[p].refcount - 1
       /\ share'[p].lock = t /\ share'[p].sig = share[p].sig
       /\ share'[p].successload = share[p].successload /\ share'[p].loaded = share[p].loaded
       /\ share'[p].rvalue = share[p].rvalue
       /\ \A q \in Tids : q # p => share'[q] = share[q]
       /\ next_tid' = next_tid /\ child_share' = child_share /\ parent' = parent
       /\ reaped' = reaped \cup {p}
  BY ZenonT(30), <1>1, <1>2, <1>3, <1>6, <1>7, <1>8
<1>11. Local(t, p)
  BY Zenon, <1>10 DEF Local, Busy, OnChild, OnShare
<1>12. ThreadOK(t)'
  BY ZenonT(30), <1>1, <1>10, <1>4 DEF ThreadOK, Created, OnChild, OnShare
<1>13. (ByParent(p)' <=> FALSE) /\ (ByChild(p)' <=> ByChild(p)) /\ (Exited(p)' <=> Exited(p))
  BY ZenonT(30), <1>3, <1>10, <1>4 DEF ByParent, ByChild, Exited
<1>14. (LockedBy(t, p)' <=> TRUE) /\ (FreedBy(t, p)' <=> FreedBy(t, p))
  BY Zenon, <1>10, <1>4 DEF LockedBy, FreedBy
<1>15. share[p].refcount # 0 /\ share[p].lock = 0 /\ t # 0
  BY <1>4, TidsPositive
<1>16. ShareOK(p)'
  <2>1. /\ share[p].refcount = Count(ByParent(p)) + Count(ByChild(p))
        /\ share[p].lock = t <=> LockedBy(t, p)
        /\ FreedBy(t, p) => share[p].refcount = 0 /\ share[p].lock = 0
    BY ZenonT(30), <1>3 DEF ShareOK
  <2>2. share'[p].refcount = Count(ByParent(p)') + Count(ByChild(p)')
    BY SMTT(30), <1>10, <1>13, <1>4, <2>1 DEF Count
  <2>3. /\ share'[p].lock = t <=> LockedBy(t, p)'
        /\ \/ share'[p].lock = share[p].lock
           \/ share[p].lock \in {0, t} /\ share'[p].lock \in {0, t}
        /\ share[p].refcount = 0 /\ share[p].lock = 0 =>
             share'[p].refcount = 0 /\ share'[p].lock = 0
        /\ FreedBy(t, p)' =>
             /\ FreedBy(t, p) \/ share[p].lock = t
             /\ share'[p].refcount = 0 /\ share'[p].lock = 0
        /\ \/ /\ share'[p].state = share[p].state
              /\ (share[p].refcount # 0 \/ share[p].lock # 0 \/ FreedBy(t, p)) <=>
                 (share'[p].refcount # 0 \/ share'[p].lock # 0 \/ FreedBy(t, p)')
           \/ /\ FreedBy(t, p) /\ ~FreedBy(t, p)'
              /\ share'[p].refcount = 0 /\ share'[p].lock = 0 /\ share'[p].state = "freed"
    BY Zenon, <1>10, <1>14, <1>15, <2>1
  <2>4. QED
    BY Zenon, <1>3, <1>11, <2>2, <2>3, ShareStep
<1>17. StatusOK(p)' /\ LoadOK(p)'
  <2>1. /\ p \in reaped => ~ByParent(p)
        /\ share[p].sig = 1 => Exited(p) /\ share[p].rvalue = thread[p].rvalue
        /\ thread[t].pc = "wait_lock" /\ thread[t].arg = p =>
             Exited(p) /\ share[p].rvalue = thread[p].rvalue
    BY Zenon, <1>3 DEF StatusOK
  <2>2. /\ p \in reaped' => ~ByParent(p)'
        /\ Exited(p) => /\ Exited(p)' /\ thread'[p].rvalue = thread[p].rvalue
                        /\ share'[p].rvalue = share[p].rvalue
        /\ share'[p].sig = 1 => Exited(p)' /\ share'[p].rvalue = thread'[p].rvalue
        /\ thread'[t].pc = "wait_lock" => Exited(p)' /\ share'[p].rvalue = thread'[p].rvalue
        /\ thread'[t].pc = "wait_release" => Exited(p)' /\ thread'[t].result = thread'[p].rvalue
    BY ZenonT(30), <1>10, <1>13, <1>4, <2>1
  <2>3. StatusOK(p)'
    BY Zenon, <1>3, <1>11, <2>2, StatusStep
  <2>4. LoadOK(p)'
    BY ZenonT(30), <1>3, <1>10, <1>4 DEF LoadOK
  <2>5. QED
    BY Zenon, <2>3, <2>4
<1>18. QED
  BY Zenon, <1>3, <1>9, <1>11, <1>12, <1>16, <1>17, LocalStep

\* The status is set before the thread starts to exit.
LEMMA SystemExitInv ==
  ASSUME Inv, NEW t \in Tids, system_exit(t)
  PROVE  Inv'
<1>1. TypeOK /\ ThreadOK(t) /\ thread[t] \in ThreadRecords /\ thread[t].pc = "user"
  BY ZenonT(30) DEF Inv, TypeOK, At, ThreadOK, system_exit
<1>2. PICK p \in Tids : p = t
  BY Zenon
<1>3. /\ p \in Tids /\ share[p] \in ShareRecords /\ parent[p] \in Tids
      /\ (p \in Created => ShareOK(p) /\ StatusOK(p) /\ LoadOK(p) /\ parent[p] # p)
  BY Zenon, <1>1, <1>2 DEF Inv, TypeOK, Created, ShareOK
<1>4. PICK code \in Codes \cup {-1} : thread' = [thread EXCEPT ![t].pc = "exit", ![t].rvalue = code]
  BY Zenon, <1>2 DEF system_exit
<1> DEFINE r == [thread[t] EXCEPT !.pc = "exit", !.rvalue = code]
<1>5. r \in ThreadRecords
  <2>1. "exit" \in Pcs /\ code \in Codes \cup {-1}
    BY Zenon, <1>1, <1>3, <1>4 DEF Pcs, ThreadRecords, ShareRecords
  <2>2. QED
    BY Zenon, <1>1, <1>3, <2>1 DEF ThreadRecords
<1>6. /\ thread' = [thread EXCEPT ![t] = r]
      /\ UNCHANGED <<next_tid, all_list, child_share, share, parent, reaped, panicked>>
  BY Zenon, <1>1, <1>2, <1>4 DEF system_exit, Goto, TypeOK
<1>7. /\ r.pc = "exit" /\ r.arg = thread[t].arg /\ r.rvalue = code
      /\ r.success = thread[t].success /\ r.result = thread[t].result
  BY Zenon, <1>1, <1>3 DEF ThreadRecords
<1> HIDE DEF r
<1>8. /\ thread' \in [Tids -> ThreadRecords] /\ thread'[t] = r
      /\ \A u \in Tids : u # t => thread'[u] = thread[u]
  BY Zenon, <1>1, <1>5, <1>6, ThreadWrite
<1>9. TypeOK'
  BY Zenon, <1>1, <1>3, <1>6, <1>8 DEF TypeOK
<1>10. /\ p \in Tids /\ thread[t].pc = "user"
       /\ p = t
       /\ thread'[t].pc = "exit" /\ thread'[t].arg = thread[t].arg
       /\ thread'[t].rvalue = code /\ thread'[t].success = thread[t].success
       /\ thread'[t].result = thread[t].result
       /\ \A u \in Tids : u # t => thread'[u] = thread[u]
       /\ next_tid' = next_tid /\ child_share' = child_share /\ share' = share /\ parent' = parent /\ reaped' = reaped
  BY Zenon, <1>1, <1>2, <1>3, <1>6, <1>7, <1>8
<1>11. Local(t, p)
  BY Zenon, <1>10 DEF Local, Busy, OnChild, OnShare
<1>12. ThreadOK(t)'
  BY Zenon, <1>1, <1>10 DEF ThreadOK, Created, OnChild, OnShare
<1> SUFFICES ASSUME p \in Created
             PROVE  ShareOK(p)' /\ StatusOK(p)' /\ LoadOK(p)'
  <2>1. p \in reaped' => p \in Created
    BY Zenon, <1>10 DEF Inv
  <2>2. QED
    BY Zenon, <1>3, <1>9, <1>11, <1>12, <2>1, LocalStep
<1>13. (ByParent(p)' <=> ByParent(p)) /\ (ByChild(p)' <=> ByChild(p)) /\ (Exited(p)' <=> Exited(p))
  BY Zenon, <1>3, <1>10 DEF ByParent, ByChild, Exited
<1>14. (LockedBy(t, p)' <=> LockedBy(t, p)) /\ (FreedBy(t, p)' <=> FreedBy(t, p))
  BY Zenon, <1>10 DEF LockedBy, FreedBy
<1>15. ShareOK(p)'
  <2>1. /\ share[p].refcount = Count(ByParent(p)) + Count(ByChild(p))
        /\ share[p].lock = t <=> LockedBy(t, p)
        /\ FreedBy(t, p) => share[p].refcount = 0 /\ share[p].lock = 0
    BY Zenon, <1>3 DEF ShareOK
  <2>2. share'[p].refcount = Count(ByParent(p)') + Count(ByChild(p)')
    BY Zenon, <1>10, <1>13, <2>1 DEF Count
  <2>3. /\ share'[p].lock = t <=> LockedBy(t, p)'
        /\ \/ share'[p].lock = share[p].lock
           \/ share[p].lock \in {0, t} /\ share'[p].lock \in {0, t}
        /\ share[p].refcount = 0 /\ share[p].lock = 0 =>
             share'[p].refcount = 0 /\ share'[p].lock = 0
        /\ FreedBy(t, p)' =>
             /\ FreedBy(t, p) \/ share[p].lock = t
             /\ share'[p].refcount = 0 /\ share'[p].lock = 0
        /\ \/ /\ share'[p].state = share[p].state
              /\ (share[p].refcount # 0 \/ share[p].lock # 0 \/ FreedBy(t, p)) <=>
                 (share'[p].refcount # 0 \/ share'[p].lock # 0 \/ FreedBy(t, p)')
           \/ /\ FreedBy(t, p) /\ ~FreedBy(t, p)'
              /\ share'[p].refcount = 0 /\ share'[p].lock = 0 /\ share'[p].state = "freed"
    BY Zenon, <1>10, <1>14, <2>1
  <2>4. QED
    BY Zenon, <1>3, <1>11, <2>2, <2>3, ShareStep
<1>16. StatusOK(p)' /\ LoadOK(p)'
  <2>1. /\ p \in reaped => ~ByParent(p)
        /\ share[p].sig = 1 => Exited(p) /\ share[p].rvalue = thread[p].rvalue
        /\ thread[t].pc = "wait_lock" /\ thread[t].arg = p =>
             Exited(p) /\ share[p].rvalue = thread[p].rvalue
    BY Zenon, <1>3 DEF StatusOK
  <2>2. /\ p \in reaped' => ~ByParent(p)'
        /\ Exited(p) => /\ Exited(p)' /\ thread'[p].rvalue = thread[p].rvalue
                        /\ share'[p].rvalue = share[p].rvalue
        /\ share'[p].sig = 1 => Exited(p)' /\ share'[p].rvalue = thread'[p].rvalue
        /\ thread'[t].pc = "wait_lock" => Exited(p)' /\ share'[p].rvalue = thread'[p].rvalue
        /\ thread'[t].pc = "wait_release" => Exited(p)' /\ thread'[t].result = thread'[p].rvalue
    BY Zenon, <1>10, <1>13, <2>1 DEF Exited
  <2>3. StatusOK(p)'
    BY Zenon, <1>3, <1>11, <2>2, StatusStep
  <2>4. LoadOK(p)'
    BY Zenon, <1>3, <1>10 DEF LoadOK
  <2>5. QED
    BY Zenon, <2>3, <2>4
<1>17. QED
  BY Zenon, <1>15, <1>16

\* main has its child on the list.
LEMMA ExecuteLinkMainInv ==
  ASSUME Inv, NEW t \in Tids, execute_link(t), t = main
  PROVE  Inv'
<1>1. TypeOK /\ ThreadOK(t) /\ thread[t] \in ThreadRecords /\ thread[t].pc = "link"
  BY ZenonT(30) DEF Inv, TypeOK, At, ThreadOK, execute_link
<1>2. PICK p \in Created : p = thread[t].arg /\ parent[p] = t /\ p \notin Elems(child_share[t])
  BY Zenon, <1>1 DEF ThreadOK, OnChild
<1>3. /\ p \in Tids /\ share[p] \in ShareRecords /\ parent[p] \in Tids
      /\ ShareOK(p) /\ StatusOK(p) /\ LoadOK(p) /\ parent[p] # p
  BY ZenonT(30), <1>1, <1>2 DEF Inv, TypeOK, Created, ShareOK
<1> DEFINE r == [thread[t] EXCEPT !.pc = "user", !.result = p]
<1>4. r \in ThreadRecords
  <2>1. "user" \in Pcs /\ p \in Codes \cup Tids \cup {-1, Uninit}
    BY Zenon, <1>1, <1>3 DEF Pcs, ThreadRecords, ShareRecords
  <2>2. QED
    BY Zenon, <1>1, <1>3, <2>1 DEF ThreadRecords
<1>5. /\ thread' = [thread EXCEPT ![t] = r]
      /\ UNCHANGED <<next_tid, all_list, share, parent, reaped, panicked>>
  BY Zenon, <1>1, <1>2 DEF execute_link, Goto, TypeOK
<1>6. /\ child_share' \in [Tids -> Seq(Tids)]
      /\ Elems(child_share'[t]) = Elems(child_share[t]) \cup {p} /\ Injective(child_share'[t])
      /\ \A u \in Tids : u # t => child_share'[u] = child_share[u]
  <2>1. child_share[t] \in Seq(Tids) /\ Injective(child_share[t])
    BY Zenon, <1>1 DEF TypeOK, ThreadOK
  <2>2. QED
    BY ZenonT(30), <1>1, <1>2, <1>3, <2>1, ElemsAppend DEF execute_link, TypeOK
<1>7. /\ r.pc = "user" /\ r.arg = thread[t].arg /\ r.rvalue = thread[t].rvalue
      /\ r.success = thread[t].success /\ r.result = p
  BY Zenon, <1>1, <1>3 DEF ThreadRecords
<1> HIDE DEF r
<1>8. /\ thread' \in [Tids -> ThreadRecords] /\ thread'[t] = r
      /\ \A u \in Tids : u # t => thread'[u] = thread[u]
  BY Zenon, <1>1, <1>4, <1>5, ThreadWrite
<1>9. TypeOK'
  BY Zenon, <1>1, <1>3, <1>5, <1>8, <1>6 DEF TypeOK
<1>10. /\ p \in Tids /\ parent[p] # p /\ thread[t].pc = "link"
       /\ p = thread[t].arg /\ parent[p] = t /\ p \notin Elems(child_share[t])
       /\ thread'[t].pc = "user" /\ thread'[t].arg = thread[t].arg
       /\ thread'[t].rvalue = thread[t].rvalue /\ thread'[t].success = thread[t].success
       /\ thread'[t].result = p
       /\ \A u \in Tids : u # t => thread'[u] = thread[u]
       /\ next_tid' = next_tid /\ share' = share /\ parent' = parent /\ reaped' = reaped
  BY Zenon, <1>1, <1>2, <1>3, <1>5, <1>7, <1>8
<1>11. Local(t, p)
  BY Zenon, <1>10, <1>6 DEF Local, Busy, OnChild, OnShare
<1>12. ThreadOK(t)'
  BY ZenonT(30), <1>1, <1>10, <1>6 DEF ThreadOK, Created, OnChild, OnShare
<1>13. (ByParent(p)' <=> ByParent(p)) /\ (ByChild(p)' <=> ByChild(p)) /\ (Exited(p)' <=> Exited(p))
  BY Zenon, <1>3, <1>10, <1>6 DEF ByParent, ByChild, Exited
<1>14. (LockedBy(t, p)' <=> LockedBy(t, p)) /\ (FreedBy(t, p)' <=> FreedBy(t, p))
  BY Zenon, <1>10 DEF LockedBy, FreedBy
<1>15. ShareOK(p)'
  <2>1. /\ share[p].refcount = Count(ByParent(p)) + Count(ByChild(p))
        /\ share[p].lock = t <=> LockedBy(t, p)
        /\ FreedBy(t, p) => share[p].refcount = 0 /\ share[p].lock = 0
    BY Zenon, <1>3 DEF ShareOK
  <2>2. share'[p].refcount = Count(ByParent(p)') + Count(ByChild(p)')
    BY Zenon, <1>10, <1>13, <2>1 DEF Count
  <2>3. /\ share'[p].lock = t <=> LockedBy(t, p)'
        /\ \/ share'[p].lock = share[p].lock
           \/ share[p].lock \in {0, t} /\ share'[p].lock \in {0, t}
        /\ share[p].refcount = 0 /\ share[p].lock = 0 =>
             share'[p].refcount = 0 /\ share'[p].lock = 0
        /\ FreedBy(t, p)' =>
             /\ FreedBy(t, p) \/ share[p].lock = t
             /\ share'[p].refcount = 0 /\ share'[p].lock = 0
        /\ \/ /\ share'[p].state = share[p].state
              /\ (share[p].refcount # 0 \/ share[p].lock # 0 \/ FreedBy(t, p)) <=>
                 (share'[p].refcount # 0 \/ share'[p].lock # 0 \/ FreedBy(t, p)')
           \/ /\ FreedBy(t, p) /\ ~FreedBy(t, p)'
              /\ share'[p].refcount = 0 /\ share'[p].lock = 0 /\ share'[p].state = "freed"
    BY Zenon, <1>10, <1>14, <2>1
  <2>4. QED
    BY ZenonT(30), <1>3, <1>11, <2>2, <2>3, ShareStep
<1>16. StatusOK(p)' /\ LoadOK(p)'
  <2>1. /\ p \in reaped => ~ByParent(p)
        /\ share[p].sig = 1 => Exited(p) /\ share[p].rvalue = thread[p].rvalue
        /\ thread[t].pc = "wait_lock" /\ thread[t].arg = p =>
             Exited(p) /\ share[p].rvalue = thread[p].rvalue
    BY Zenon, <1>3 DEF StatusOK
  <2>2. /\ p \in reaped' => ~ByParent(p)'
        /\ Exited(p) => /\ Exited(p)' /\ thread'[p].rvalue = thread[p].rvalue
                        /\ share'[p].rvalue = share[p].rvalue
        /\ share'[p].sig = 1 => Exited(p)' /\ share'[p].rvalue = thread'[p].rvalue
        /\ thread'[t].pc = "wait_lock" => Exited(p)' /\ share'[p].rvalue = thread'[p].rvalue
        /\ thread'[t].pc = "wait_release" => Exited(p)' /\ thread'[t].result = thread'[p].rvalue
    BY Zenon, <1>10, <1>13, <2>1
  <2>3. StatusOK(p)'
    BY Zenon, <1>3, <1>11, <2>2, StatusStep
  <2>4. LoadOK(p)'
    BY Zenon, <1>3, <1>10 DEF LoadOK
  <2>5. QED
    BY Zenon, <2>3, <2>4
<1>17. QED
  BY Zenon, <1>3, <1>9, <1>11, <1>12, <1>15, <1>16, LocalStep

\* exec has its child on the list, and waits for the load.
LEMMA ExecuteLinkExecInv ==
  ASSUME Inv, NEW t \in Tids, execute_link(t), t # main
  PROVE  Inv'
<1>1. TypeOK /\ ThreadOK(t) /\ thread[t] \in ThreadRecords /\ thread[t].pc = "link"
  BY ZenonT(30) DEF Inv, TypeOK, At, ThreadOK, execute_link
<1>2. PICK p \in Created : p = thread[t].arg /\ parent[p] = t /\ p \notin Elems(child_share[t])
  BY Zenon, <1>1 DEF ThreadOK, OnChild
<1>3. /\ p \in Tids /\ share[p] \in ShareRecords /\ parent[p] \in Tids
      /\ ShareOK(p) /\ StatusOK(p) /\ LoadOK(p) /\ parent[p] # p
  BY ZenonT(90), <1>1, <1>2 DEF Inv, TypeOK, Created, ShareOK
<1> DEFINE r == [thread[t] EXCEPT !.pc = "exec_wait"]
<1>4. r \in ThreadRecords
  <2>1. "exec_wait" \in Pcs
    BY Zenon, <1>1, <1>3 DEF Pcs, ThreadRecords, ShareRecords
  <2>2. QED
    BY Zenon, <1>1, <1>3, <2>1 DEF ThreadRecords
<1>5. /\ thread' = [thread EXCEPT ![t] = r]
      /\ UNCHANGED <<next_tid, all_list, share, parent, reaped, panicked>>
  BY Zenon, <1>1, <1>2 DEF execute_link, Goto, TypeOK
<1>6. /\ child_share' \in [Tids -> Seq(Tids)]
      /\ Elems(child_share'[t]) = Elems(child_share[t]) \cup {p} /\ Injective(child_share'[t])
      /\ \A u \in Tids : u # t => child_share'[u] = child_share[u]
  <2>1. child_share[t] \in Seq(Tids) /\ Injective(child_share[t])
    BY Zenon, <1>1 DEF TypeOK, ThreadOK
  <2>2. QED
    BY Zenon, <1>1, <1>2, <1>3, <2>1, ElemsAppend DEF execute_link, TypeOK
<1>7. /\ r.pc = "exec_wait" /\ r.arg = thread[t].arg /\ r.rvalue = thread[t].rvalue
      /\ r.success = thread[t].success /\ r.result = thread[t].result
  BY Zenon, <1>1, <1>3 DEF ThreadRecords
<1> HIDE DEF r
<1>8. /\ thread' \in [Tids -> ThreadRecords] /\ thread'[t] = r
      /\ \A u \in Tids : u # t => thread'[u] = thread[u]
  BY Zenon, <1>1, <1>4, <1>5, ThreadWrite
<1>9. TypeOK'
  BY Zenon, <1>1, <1>3, <1>5, <1>8, <1>6 DEF TypeOK
<1>10. /\ p \in Tids /\ parent[p] # p /\ thread[t].pc = "link"
       /\ p = thread[t].arg /\ parent[p] = t /\ p \notin Elems(child_share[t])
       /\ thread'[t].pc = "exec_wait" /\ thread'[t].arg = thread[t].arg
       /\ thread'[t].rvalue = thread[t].rvalue /\ thread'[t].success = thread[t].success
       /\ thread'[t].result = thread[t].result
       /\ \A u \in Tids : u # t => thread'[u] = thread[u]
       /\ next_tid' = next_tid /\ share' = share /\ parent' = parent /\ reaped' = reaped
  BY Zenon, <1>1, <1>2, <1>3, <1>5, <1>7, <1>8
<1>11. Local(t, p)
  BY Zenon, <1>10, <1>6 DEF Local, Busy, OnChild, OnShare
<1>12. ThreadOK(t)'
  BY ZenonT(30), <1>1, <1>10, <1>6 DEF ThreadOK, Created, OnChild, OnShare
<1>13. (ByParent(p)' <=> ByParent(p)) /\ (ByChild(p)' <=> ByChild(p)) /\ (Exited(p)' <=> Exited(p))
  BY ZenonT(30), <1>3, <1>10, <1>6 DEF ByParent, ByChild, Exited
<1>14. (LockedBy(t, p)' <=> LockedBy(t, p)) /\ (FreedBy(t, p)' <=> FreedBy(t, p))
  BY Zenon, <1>10 DEF LockedBy, FreedBy
<1>15. ShareOK(p)'
  <2>1. /\ share[p].refcount = Count(ByParent(p)) + Count(ByChild(p))
        /\ share[p].lock = t <=> LockedBy(t, p)
        /\ FreedBy(t, p) => share[p].refcount = 0 /\ share[p].lock = 0
    BY Zenon, <1>3 DEF ShareOK
  <2>2. share'[p].refcount = Count(ByParent(p)') + Count(ByChild(p)')
    BY Zenon, <1>10, <1>13, <2>1 DEF Count
  <2>3. /\ share'[p].lock = t <=> LockedBy(t, p)'
        /\ \/ share'[p].lock = share[p].lock
           \/ share[p].lock \in {0, t} /\ share'[p].lock \in {0, t}
        /\ share[p].refcount = 0 /\ share[p].lock = 0 =>
             share'[p].refcount = 0 /\ share'[p].lock = 0
        /\ FreedBy(t, p)' =>
             /\ FreedBy(t, p) \/ share[p].lock = t
             /\ share'[p].refcount = 0 /\ share'[p].lock = 0
        /\ \/ /\ share'[p].state = share[p].state
              /\ (share[p].refcount # 0 \/ share[p].lock # 0 \/ FreedBy(t, p)) <=>
                 (share'[p].refcount # 0 \/ share'[p].lock # 0 \/ FreedBy(t, p)')
           \/ /\ FreedBy(t, p) /\ ~FreedBy(t, p)'
              /\ share'[p].refcount = 0 /\ share'[p].lock = 0 /\ share'[p].state = "freed"
    BY Zenon, <1>10, <1>14, <2>1
  <2>4. QED
    BY Zenon, <1>3, <1>11, <2>2, <2>3, ShareStep
<1>16. StatusOK(p)' /\ LoadOK(p)'
  <2>1. /\ p \in reaped => ~ByParent(p)
        /\ share[p].sig = 1 => Exited(p) /\ share[p].rvalue = thread[p].rvalue
        /\ thread[t].pc = "wait_lock" /\ thread[t].arg = p =>
             Exited(p) /\ share[p].rvalue = thread[p].rvalue
    BY Zenon, <1>3 DEF StatusOK
  <2>2. /\ p \in reaped' => ~ByParent(p)'
        /\ Exited(p) => /\ Exited(p)' /\ thread'[p].rvalue = thread[p].rvalue
                        /\ share'[p].rvalue = share[p].rvalue
        /\ share'[p].sig = 1 => Exited(p)' /\ share'[p].rvalue = thread'[p].rvalue
        /\ thread'[t].pc = "wait_lock" => Exited(p)' /\ share'[p].rvalue = thread'[p].rvalue
        /\ thread'[t].pc = "wait_release" => Exited(p)' /\ thread'[t].result = thread'[p].rvalue
    BY Zenon, <1>10, <1>13, <2>1
  <2>3. StatusOK(p)'
    BY Zenon, <1>3, <1>11, <2>2, StatusStep
  <2>4. LoadOK(p)'
    BY Zenon, <1>3, <1>10 DEF LoadOK
  <2>5. QED
    BY Zenon, <2>3, <2>4
<1>17. QED
  BY Zenon, <1>3, <1>9, <1>11, <1>12, <1>15, <1>16, LocalStep

\* The child has announced its load.
LEMMA ExecReturnInv ==
  ASSUME Inv, NEW t \in Tids, exec_return(t)
  PROVE  Inv'
<1>1. TypeOK /\ ThreadOK(t) /\ thread[t] \in ThreadRecords /\ thread[t].pc = "exec_wait"
  BY ZenonT(30) DEF Inv, TypeOK, At, ThreadOK, exec_return
<1>2. PICK p \in Created : p = thread[t].arg /\ parent[p] = t /\ p \in Elems(child_share[t])
  BY Zenon, <1>1 DEF ThreadOK
<1>3. /\ p \in Tids /\ share[p] \in ShareRecords /\ parent[p] \in Tids
      /\ ShareOK(p) /\ StatusOK(p) /\ LoadOK(p) /\ parent[p] # p
  BY ZenonT(30), <1>1, <1>2 DEF Inv, TypeOK, Created, ShareOK
<1>4. PICK y \in Codes \cup Tids \cup {-1, Uninit} : y = (IF share[p].loaded THEN p ELSE -1)
  BY Zenon, <1>2 DEF Created
<1>5. share[p].successload = 1
  BY SMTT(30), <1>1, <1>2, <1>3 DEF exec_return, ShareRecords
<1> DEFINE r == [thread[t] EXCEPT !.pc = "user", !.result = y]
<1> DEFINE s == [share[p] EXCEPT !.successload = @ - 1]
<1>6. r \in ThreadRecords /\ s \in ShareRecords
  <2>1. "user" \in Pcs /\ y \in Codes \cup Tids \cup {-1, Uninit} /\ share[p].successload - 1 \in 0 .. 1
    BY SMTT(30), <1>1, <1>3, <1>4, <1>5 DEF Pcs, ThreadRecords, ShareRecords
  <2>2. QED
    BY ZenonT(30), <1>1, <1>3, <2>1 DEF ThreadRecords, ShareRecords
<1>7. /\ thread' = [thread EXCEPT ![t] = r]
      /\ share' = [share EXCEPT ![p] = s]
      /\ UNCHANGED <<next_tid, all_list, child_share, parent, reaped, panicked>>
  BY Zenon, <1>1, <1>2, <1>4, <1>5 DEF exec_return, Goto, TypeOK, Created
<1>8. /\ r.pc = "user" /\ r.arg = thread[t].arg /\ r.rvalue = thread[t].rvalue
      /\ r.success = thread[t].success /\ r.result = y
      /\ s.state = share[p].state /\ s.refcount = share[p].refcount /\ s.lock = share[p].lock
      /\ s.sig = share[p].sig /\ s.successload = share[p].successload - 1
      /\ s.loaded = share[p].loaded /\ s.rvalue = share[p].rvalue
  BY Zenon, <1>1, <1>3 DEF ThreadRecords, ShareRecords
<1> HIDE DEF r, s
<1>9. /\ thread' \in [Tids -> ThreadRecords] /\ thread'[t] = r
      /\ \A u \in Tids : u # t => thread'[u] = thread[u]
      /\ share' \in [Tids -> ShareRecords] /\ share'[p] = s
      /\ \A q \in Tids : q # p => share'[q] = share[q]
  BY ZenonT(30), <1>1, <1>3, <1>6, <1>7, ThreadWrite, ShareWrite
<1>10. TypeOK'
  BY Zenon, <1>1, <1>3, <1>7, <1>9 DEF TypeOK
<1>11. /\ p \in Tids /\ parent[p] # p /\ thread[t].pc = "exec_wait"
       /\ p = thread[t].arg /\ parent[p] = t /\ p \in Elems(child_share[t])
       /\ thread'[t].pc = "user" /\ thread'[t].arg = thread[t].arg
       /\ thread'[t].rvalue = thread[t].rvalue /\ thread'[t].success = thread[t].success
       /\ thread'[t].result = y
       /\ \A u \in Tids : u # t => thread'[u] = thread[u]
       /\ share'[p].state = share[p].state /\ share'[p].refcount = share[p].refcount
       /\ share'[p].lock = share[p].lock /\ share'[p].sig = share[p].sig
       /\ share'[p].successload = share[p].successload - 1 /\ share'[p].loaded = share[p].loaded
       /\ share'[p].rvalue = share[p].rvalue
       /\ \A q \in Tids : q # p => share'[q] = share[q]
       /\ next_tid' = next_tid /\ child_share' = child_share /\ parent' = parent /\ reaped' = reaped
  BY ZenonT(30), <1>1, <1>2, <1>3, <1>7, <1>8, <1>9
<1>12. Local(t, p)
  BY Zenon, <1>11 DEF Local, Busy, OnChild, OnShare
<1>13. ThreadOK(t)'
  BY ZenonT(30), <1>1, <1>11, <1>5 DEF ThreadOK, Created, OnChild, OnShare
<1>14. (ByParent(p)' <=> ByParent(p)) /\ (ByChild(p)' <=> ByChild(p)) /\ (Exited(p)' <=> Exited(p))
  BY ZenonT(30), <1>3, <1>11 DEF ByParent, ByChild, Exited
<1>15. (LockedBy(t, p)' <=> LockedBy(t, p)) /\ (FreedBy(t, p)' <=> FreedBy(t, p))
  BY Zenon, <1>11, <1>5 DEF LockedBy, FreedBy
<1>16. ShareOK(p)'
  <2>1. /\ share[p].refcount = Count(ByParent(p)) + Count(ByChild(p))
        /\ share[p].lock = t <=> LockedBy(t, p)
        /\ FreedBy(t, p) => share[p].refcount = 0 /\ share[p].lock = 0
    BY Zenon, <1>3 DEF ShareOK
  <2>2. share'[p].refcount = Count(ByParent(p)') + Count(ByChild(p)')
    BY Zenon, <1>11, <1>14, <1>5, <2>1 DEF Count
  <2>3. /\ share'[p].lock = t <=> LockedBy(t, p)'
        /\ \/ share'[p].lock = share[p].lock
           \/ share[p].lock \in {0, t} /\ share'[p].lock \in {0, t}
        /\ share[p].refcount = 0 /\ share[p].lock = 0 =>
             share'[p].refcount = 0 /\ share'[p].lock = 0
        /\ FreedBy(t, p)' =>
             /\ FreedBy(t, p) \/ share[p].lock = t
             /\ share'[p].refcount = 0 /\ share'[p].lock = 0
        /\ \/ /\ share'[p].state = share[p].state
              /\ (share[p].refcount # 0 \/ share[p].lock # 0 \/ FreedBy(t, p)) <=>
                 (share'[p].refcount # 0 \/ share'[p].lock # 0 \/ FreedBy(t, p)')
           \/ /\ FreedBy(t, p) /\ ~FreedBy(t, p)'
              /\ share'[p].refcount = 0 /\ share'[p].lock = 0 /\ share'[p].state = "freed"
    BY ZenonT(30), <1>11, <1>15, <1>5, <2>1
  <2>4. QED
    BY Zenon, <1>3, <1>12, <2>2, <2>3, ShareStep
<1>17. StatusOK(p)' /\ LoadOK(p)'
  <2>1. /\ p \in reaped => ~ByParent(p)
        /\ share[p].sig = 1 => Exited(p) /\ share[p].rvalue = thread[p].rvalue
        /\ thread[t].pc = "wait_lock" /\ thread[t].arg = p =>
             Exited(p) /\ share[p].rvalue = thread[p].rvalue
    BY Zenon, <1>3 DEF StatusOK
  <2>2. /\ p \in reaped' => ~ByParent(p)'
        /\ Exited(p) => /\ Exited(p)' /\ thread'[p].rvalue = thread[p].rvalue
                        /\ share'[p].rvalue = share[p].rvalue
        /\ share'[p].sig = 1 => Exited(p)' /\ share'[p].rvalue = thread'[p].rvalue
        /\ thread'[t].pc = "wait_lock" => Exited(p)' /\ share'[p].rvalue = thread'[p].rvalue
        /\ thread'[t].pc = "wait_release" => Exited(p)' /\ thread'[t].result = thread'[p].rvalue
    BY ZenonT(30), <1>11, <1>14, <1>5, <2>1
  <2>3. StatusOK(p)'
    BY ZenonT(30), <1>3, <1>12, <2>2, StatusStep
  <2>4. LoadOK(p)'
    BY SMTT(30), <1>3, <1>11, <1>5 DEF LoadOK
  <2>5. QED
    BY Zenon, <2>3, <2>4
<1>18. QED
  BY ZenonT(30), <1>3, <1>10, <1>12, <1>13, <1>16, <1>17, LocalStep

\* load() has returned.
LEMMA StartProcessInv ==
  ASSUME Inv, NEW t \in Tids, start_process(t)
  PROVE  Inv'
<1>1. TypeOK /\ ThreadOK(t) /\ thread[t] \in ThreadRecords /\ thread[t].pc = "load"
  BY ZenonT(30) DEF Inv, TypeOK, At, ThreadOK, start_process
<1>2. PICK p \in Created : p = t
  BY Zenon, <1>1 DEF ThreadOK
<1>3. /\ p \in Tids /\ share[p] \in ShareRecords /\ parent[p] \in Tids
      /\ ShareOK(p) /\ StatusOK(p) /\ LoadOK(p) /\ parent[p] # p
  BY Zenon, <1>1, <1>2 DEF Inv, TypeOK, Created, ShareOK
<1>4. PICK ok \in BOOLEAN : /\ thread' = [thread EXCEPT ![t].success = ok, ![t].pc = "announce"]
                            /\ share' = [share EXCEPT ![t].loaded = IF ok THEN @ ELSE FALSE]
  BY Zenon, <1>2 DEF start_process
<1>5. share[p].loaded = TRUE /\ (IF ok THEN share[p].loaded ELSE FALSE) = ok
  <2>1. share[p].loaded = TRUE
    BY Zenon, <1>1, <1>2, <1>3 DEF LoadOK, ShareRecords
  <2>2. QED
    BY Zenon, <1>4, <2>1
<1> DEFINE r == [thread[t] EXCEPT !.success = ok, !.pc = "announce"]
<1> DEFINE s == [share[p] EXCEPT !.loaded = ok]
<1>6. r \in ThreadRecords /\ s \in ShareRecords
  <2>1. "announce" \in Pcs /\ ok \in BOOLEAN
    BY Zenon, <1>1, <1>3, <1>4, <1>5 DEF Pcs, ThreadRecords, ShareRecords
  <2>2. QED
    BY Zenon, <1>1, <1>3, <2>1 DEF ThreadRecords, ShareRecords
<1>7. /\ thread' = [thread EXCEPT ![t] = r]
      /\ share' = [share EXCEPT ![p] = s]
      /\ UNCHANGED <<next_tid, all_list, child_share, parent, reaped, panicked>>
  BY ZenonT(30), <1>1, <1>2, <1>4, <1>5 DEF start_process, Goto, TypeOK
<1>8. /\ r.pc = "announce" /\ r.arg = thread[t].arg /\ r.rvalue = thread[t].rvalue
      /\ r.success = ok /\ r.result = thread[t].result
      /\ s.state = share[p].state /\ s.refcount = share[p].refcount /\ s.lock = share[p].lock
      /\ s.sig = share[p].sig /\ s.successload = share[p].successload
      /\ s.loaded = ok /\ s.rvalue = share[p].rvalue
  BY Zenon, <1>1, <1>3 DEF ThreadRecords, ShareRecords
<1> HIDE DEF r, s
<1>9. /\ thread' \in [Tids -> ThreadRecords] /\ thread'[t] = r
      /\ \A u \in Tids : u # t => thread'[u] = thread[u]
      /\ share' \in [Tids -> ShareRecords] /\ share'[p] = s
      /\ \A q \in Tids : q # p => share'[q] = share[q]
  BY ZenonT(30), <1>1, <1>3, <1>6, <1>7, ThreadWrite, ShareWrite
<1>10. TypeOK'
  BY Zenon, <1>1, <1>3, <1>7, <1>9 DEF TypeOK
<1>11. /\ p \in Tids /\ parent[p] # p /\ thread[t].pc = "load"
       /\ p = t
       /\ thread'[t].pc = "announce" /\ thread'[t].arg = thread[t].arg
       /\ thread'[t].rvalue = thread[t].rvalue /\ thread'[t].success = ok
       /\ thread'[t].result = thread[t].result
       /\ \A u \in Tids : u # t => thread'[u] = thread[u]
       /\ share'[p].state = share[p].state /\ share'[p].refcount = share[p].refcount
       /\ share'[p].lock = share[p].lock /\ share'[p].sig = share[p].sig
       /\ share'[p].successload = share[p].successload /\ share'[p].loaded = ok
       /\ share'[p].rvalue = share[p].rvalue
       /\ \A q \in Tids : q # p => share'[q] = share[q]
       /\ next_tid' = next_tid /\ child_share' = child_share /\ parent' = parent /\ reaped' = reaped
  BY ZenonT(30), <1>1, <1>2, <1>3, <1>7, <1>8, <1>9
<1>12. Local(t, p)
  BY Zenon, <1>11 DEF Local, Busy, OnChild, OnShare
<1>13. ThreadOK(t)'
  BY ZenonT(30), <1>1, <1>11, <1>5 DEF ThreadOK, Created, OnChild, OnShare
<1>14. (ByParent(p)' <=> ByParent(p)) /\ (ByChild(p)' <=> ByChild(p)) /\ (Exited(p)' <=> Exited(p))
  <2>1. ByParent(p)' <=> ByParent(p)
    BY ZenonT(30), <1>3, <1>11 DEF ByParent, ByChild, Exited
  <2>2. ByChild(p)' <=> ByChild(p)
    BY Zenon, <1>3, <1>11 DEF ByParent, ByChild, Exited
  <2>3. Exited(p)' <=> Exited(p)
    BY Zenon, <1>3, <1>11 DEF ByParent, ByChild, Exited
  <2>4. QED
    BY Zenon, <2>1, <2>2, <2>3
<1>15. (LockedBy(t, p)' <=> LockedBy(t, p)) /\ (FreedBy(t, p)' <=> FreedBy(t, p))
  BY Zenon, <1>11, <1>5 DEF LockedBy, FreedBy
<1>16. ShareOK(p)'
  <2>1. /\ share[p].refcount = Count(ByParent(p)) + Count(ByChild(p))
        /\ share[p].lock = t <=> LockedBy(t, p)
        /\ FreedBy(t, p) => share[p].refcount = 0 /\ share[p].lock = 0
    BY Zenon, <1>3 DEF ShareOK
  <2>2. share'[p].refcount = Count(ByParent(p)') + Count(ByChild(p)')
    BY Zenon, <1>11, <1>14, <1>5, <2>1 DEF Count
  <2>3. /\ share'[p].lock = t <=> LockedBy(t, p)'
        /\ \/ share'[p].lock = share[p].lock
           \/ share[p].lock \in {0, t} /\ share'[p].lock \in {0, t}
        /\ share[p].refcount = 0 /\ share[p].lock = 0 =>
             share'[p].refcount = 0 /\ share'[p].lock = 0
        /\ FreedBy(t, p)' =>
             /\ FreedBy(t, p) \/ share[p].lock = t
             /\ share'[p].refcount = 0 /\ share'[p].lock = 0
        /\ \/ /\ share'[p].state = share[p].state
              /\ (share[p].refcount # 0 \/ share[p].lock # 0 \/ FreedBy(t, p)) <=>
                 (share'[p].refcount # 0 \/ share'[p].lock # 0 \/ FreedBy(t, p)')
           \/ /\ FreedBy(t, p) /\ ~FreedBy(t, p)'
              /\ share'[p].refcount = 0 /\ share'[p].lock = 0 /\ share'[p].state = "freed"
    BY ZenonT(30), <1>11, <1>15, <1>5, <2>1
  <2>4. QED
    BY Zenon, <1>3, <1>12, <2>2, <2>3, ShareStep
<1>17. StatusOK(p)' /\ LoadOK(p)'
  <2>1. /\ p \in reaped => ~ByParent(p)
        /\ share[p].sig = 1 => Exited(p) /\ share[p].rvalue = thread[p].rvalue
        /\ thread[t].pc = "wait_lock" /\ thread[t].arg = p =>
             Exited(p) /\ share[p].rvalue = thread[p].rvalue
    BY Zenon, <1>3 DEF StatusOK
  <2>2. /\ p \in reaped' => ~ByParent(p)'
        /\ Exited(p) => /\ Exited(p)' /\ thread'[p].rvalue = thread[p].rvalue
                        /\ share'[p].rvalue = share[p].rvalue
        /\ share'[p].sig = 1 => Exited(p)' /\ share'[p].rvalue = thread'[p].rvalue
        /\ thread'[t].pc = "wait_lock" => Exited(p)' /\ share'[p].rvalue = thread'[p].rvalue
        /\ thread'[t].pc = "wait_release" => Exited(p)' /\ thread'[t].result = thread'[p].rvalue
    BY Zenon, <1>11, <1>14, <1>5, <2>1 DEF Exited
  <2>3. StatusOK(p)'
    BY ZenonT(30), <1>3, <1>12, <2>2, StatusStep
  <2>4. LoadOK(p)'
    BY ZenonT(30), <1>3, <1>11, <1>5 DEF LoadOK
  <2>5. QED
    BY Zenon, <2>3, <2>4
<1>18. QED
  BY ZenonT(30), <1>3, <1>10, <1>12, <1>13, <1>16, <1>17, LocalStep

\* The load is announced, once.
LEMMA StartProcessUpInv ==
  ASSUME Inv, NEW t \in Tids, start_process_up(t)
  PROVE  Inv'
<1>1. TypeOK /\ ThreadOK(t) /\ thread[t] \in ThreadRecords /\ thread[t].pc = "announce"
  BY ZenonT(30) DEF Inv, TypeOK, At, ThreadOK, start_process_up
<1>2. PICK p \in Created : p = t
  BY Zenon, <1>1 DEF ThreadOK
<1>3. /\ p \in Tids /\ share[p] \in ShareRecords /\ parent[p] \in Tids
      /\ ShareOK(p) /\ StatusOK(p) /\ LoadOK(p) /\ parent[p] # p
  BY ZenonT(30), <1>1, <1>2 DEF Inv, TypeOK, Created, ShareOK
<1>4. PICK x \in {"user", "exit"} : thread' = [thread EXCEPT ![t].pc = x]
  BY Zenon, <1>2 DEF start_process_up, Goto
<1>5. share[p].successload = 0
  BY Zenon, <1>1, <1>2, <1>3 DEF LoadOK
<1> DEFINE r == [thread[t] EXCEPT !.pc = x]
<1> DEFINE s == [share[p] EXCEPT !.successload = @ + 1]
<1>6. r \in ThreadRecords /\ s \in ShareRecords
  <2>1. x \in Pcs /\ share[p].successload + 1 \in 0 .. 1
    BY <1>1, <1>3, <1>4, <1>5 DEF Pcs, ThreadRecords, ShareRecords
  <2>2. QED
    BY Zenon, <1>1, <1>3, <2>1 DEF ThreadRecords, ShareRecords
<1>7. /\ thread' = [thread EXCEPT ![t] = r]
      /\ share' = [share EXCEPT ![p] = s]
      /\ UNCHANGED <<next_tid, all_list, child_share, parent, reaped, panicked>>
  BY Zenon, <1>1, <1>2, <1>4, <1>5 DEF start_process_up, Goto, TypeOK
<1>8. /\ r.pc = x /\ r.arg = thread[t].arg /\ r.rvalue = thread[t].rvalue
      /\ r.success = thread[t].success /\ r.result = thread[t].result
      /\ s.state = share[p].state /\ s.refcount = share[p].refcount /\ s.lock = share[p].lock
      /\ s.sig = share[p].sig /\ s.successload = share[p].successload + 1
      /\ s.loaded = share[p].loaded /\ s.rvalue = share[p].rvalue
  BY Zenon, <1>1, <1>3 DEF ThreadRecords, ShareRecords
<1> HIDE DEF r, s
<1>9. /\ thread' \in [Tids -> ThreadRecords] /\ thread'[t] = r
      /\ \A u \in Tids : u # t => thread'[u] = thread[u]
      /\ share' \in [Tids -> ShareRecords] /\ share'[p] = s
      /\ \A q \in Tids : q # p => share'[q] = share[q]
  BY ZenonT(30), <1>1, <1>3, <1>6, <1>7, ThreadWrite, ShareWrite
<1>10. TypeOK'
  BY Zenon, <1>1, <1>3, <1>7, <1>9 DEF TypeOK
<1>11. /\ p \in Tids /\ parent[p] # p /\ thread[t].pc = "announce"
       /\ p = t
       /\ thread'[t].pc = x /\ thread'[t].arg = thread[t].arg
       /\ thread'[t].rvalue = thread[t].rvalue /\ thread'[t].success = thread[t].success
       /\ thread'[t].result = thread[t].result
       /\ \A u \in Tids : u # t => thread'[u] = thread[u]
       /\ share'[p].state = share[p].state /\ share'[p].refcount = share[p].refcount
       /\ share'[p].lock = share[p].lock /\ share'[p].sig = share[p].sig
       /\ share'[p].successload = share[p].successload + 1 /\ share'[p].loaded = share[p].loaded
       /\ share'[p].rvalue = share[p].rvalue
       /\ \A q \in Tids : q # p => share'[q] = share[q]
       /\ next_tid' = next_tid /\ child_share' = child_share /\ parent' = parent /\ reaped' = reaped
  BY ZenonT(30), <1>1, <1>2, <1>3, <1>7, <1>8, <1>9
<1>12. Local(t, p)
  BY Zenon, <1>11 DEF Local, Busy, OnChild, OnShare
<1>13. ThreadOK(t)'
  BY ZenonT(30), <1>1, <1>11, <1>5 DEF ThreadOK, Created, OnChild, OnShare
<1>14. (ByParent(p)' <=> ByParent(p)) /\ (ByChild(p)' <=> ByChild(p)) /\ (Exited(p)' <=> Exited(p))
  BY ZenonT(30), <1>3, <1>11 DEF ByParent, ByChild, Exited
<1>15. (LockedBy(t, p)' <=> LockedBy(t, p)) /\ (FreedBy(t, p)' <=> FreedBy(t, p))
  BY Zenon, <1>11, <1>5 DEF LockedBy, FreedBy
<1>16. ShareOK(p)'
  <2>1. /\ share[p].refcount = Count(ByParent(p)) + Count(ByChild(p))
        /\ share[p].lock = t <=> LockedBy(t, p)
        /\ FreedBy(t, p) => share[p].refcount = 0 /\ share[p].lock = 0
    BY Zenon, <1>3 DEF ShareOK
  <2>2. share'[p].refcount = Count(ByParent(p)') + Count(ByChild(p)')
    BY Zenon, <1>11, <1>14, <1>5, <2>1 DEF Count
  <2>3. /\ share'[p].lock = t <=> LockedBy(t, p)'
        /\ \/ share'[p].lock = share[p].lock
           \/ share[p].lock \in {0, t} /\ share'[p].lock \in {0, t}
        /\ share[p].refcount = 0 /\ share[p].lock = 0 =>
             share'[p].refcount = 0 /\ share'[p].lock = 0
        /\ FreedBy(t, p)' =>
             /\ FreedBy(t, p) \/ share[p].lock = t
             /\ share'[p].refcount = 0 /\ share'[p].lock = 0
        /\ \/ /\ share'[p].state = share[p].state
              /\ (share[p].refcount # 0 \/ share[p].lock # 0 \/ FreedBy(t, p)) <=>
                 (share'[p].refcount # 0 \/ share'[p].lock # 0 \/ FreedBy(t, p)')
           \/ /\ FreedBy(t, p) /\ ~FreedBy(t, p)'
              /\ share'[p].refcount = 0 /\ share'[p].lock = 0 /\ share'[p].state = "freed"
    BY ZenonT(30), <1>11, <1>15, <1>5, <2>1
  <2>4. QED
    BY Zenon, <1>3, <1>12, <2>2, <2>3, ShareStep
<1>17. StatusOK(p)' /\ LoadOK(p)'
  <2>1. /\ p \in reaped => ~ByParent(p)
        /\ share[p].sig = 1 => Exited(p) /\ share[p].rvalue = thread[p].rvalue
        /\ thread[t].pc = "wait_lock" /\ thread[t].arg = p =>
             Exited(p) /\ share[p].rvalue = thread[p].rvalue
    BY Zenon, <1>3 DEF StatusOK
  <2>2. /\ p \in reaped' => ~ByParent(p)'
        /\ Exited(p) => /\ Exited(p)' /\ thread'[p].rvalue = thread[p].rvalue
                        /\ share'[p].rvalue = share[p].rvalue
        /\ share'[p].sig = 1 => Exited(p)' /\ share'[p].rvalue = thread'[p].rvalue
        /\ thread'[t].pc = "wait_lock" => Exited(p)' /\ share'[p].rvalue = thread'[p].rvalue
        /\ thread'[t].pc = "wait_release" => Exited(p)' /\ thread'[t].result = thread'[p].rvalue
    BY ZenonT(30), <1>11, <1>14, <1>5, <2>1 DEF Exited
  <2>3. StatusOK(p)'
    BY ZenonT(30), <1>3, <1>12, <2>2, StatusStep
  <2>4. LoadOK(p)'
    BY ZenonT(30), <1>3, <1>11, <1>5 DEF LoadOK
  <2>5. QED
    BY Zenon, <2>3, <2>4
<1>18. QED
  BY ZenonT(30), <1>3, <1>10, <1>12, <1>13, <1>16, <1>17, LocalStep

\* Nothing to wait for.
LEMMA ProcessWaitInvalidInv ==
  ASSUME Inv, NEW t \in Tids, NEW q \in Tids, process_wait_invalid(t, q)
  PROVE  Inv'
<1>1. TypeOK /\ ThreadOK(t) /\ thread[t] \in ThreadRecords /\ thread[t].pc = "user"
  BY ZenonT(30) DEF Inv, TypeOK, At, ThreadOK, process_wait_invalid
<1>2. PICK p \in Tids : p = t
  BY Zenon
<1>3. /\ p \in Tids /\ share[p] \in ShareRecords /\ parent[p] \in Tids
      /\ (p \in Created => ShareOK(p) /\ StatusOK(p) /\ LoadOK(p) /\ parent[p] # p)
  BY Zenon, <1>1, <1>2 DEF Inv, TypeOK, Created, ShareOK
<1> DEFINE r == [thread[t] EXCEPT !.result = -1]
<1>4. r \in ThreadRecords
  <2>1. -1 \in Codes \cup Tids \cup {-1, Uninit}
    BY Zenon, <1>1, <1>3 DEF Pcs, ThreadRecords, ShareRecords
  <2>2. QED
    BY Zenon, <1>1, <1>3, <2>1 DEF ThreadRecords
<1>5. /\ thread' = [thread EXCEPT ![t] = r]
      /\ UNCHANGED <<next_tid, all_list, child_share, share, parent, reaped, panicked>>
  BY Zenon, <1>1, <1>2 DEF process_wait_invalid, Goto, TypeOK
<1>6. /\ r.pc = thread[t].pc /\ r.arg = thread[t].arg /\ r.rvalue = thread[t].rvalue
      /\ r.success = thread[t].success /\ r.result = -1
  BY Zenon, <1>1, <1>3 DEF ThreadRecords
<1> HIDE DEF r
<1>7. /\ thread' \in [Tids -> ThreadRecords] /\ thread'[t] = r
      /\ \A u \in Tids : u # t => thread'[u] = thread[u]
  BY Zenon, <1>1, <1>4, <1>5, ThreadWrite
<1>8. TypeOK'
  BY Zenon, <1>1, <1>3, <1>5, <1>7 DEF TypeOK
<1>9. /\ p \in Tids /\ thread[t].pc = "user"
      /\ p = t
      /\ thread'[t].pc = thread[t].pc /\ thread'[t].arg = thread[t].arg
      /\ thread'[t].rvalue = thread[t].rvalue /\ thread'[t].success = thread[t].success
      /\ thread'[t].result = -1
      /\ \A u \in Tids : u # t => thread'[u] = thread[u]
      /\ next_tid' = next_tid /\ child_share' = child_share /\ share' = share /\ parent' = parent /\ reaped' = reaped
  BY Zenon, <1>1, <1>2, <1>3, <1>5, <1>6, <1>7
<1>10. Local(t, p)
  BY Zenon, <1>9 DEF Local, Busy, OnChild, OnShare
<1>11. ThreadOK(t)'
  BY Zenon, <1>1, <1>9 DEF ThreadOK, Created, OnChild, OnShare
<1> SUFFICES ASSUME p \in Created
             PROVE  ShareOK(p)' /\ StatusOK(p)' /\ LoadOK(p)'
  <2>1. p \in reaped' => p \in Created
    BY Zenon, <1>9 DEF Inv
  <2>2. QED
    BY Zenon, <1>3, <1>8, <1>10, <1>11, <2>1, LocalStep
<1>12. (ByParent(p)' <=> ByParent(p)) /\ (ByChild(p)' <=> ByChild(p)) /\ (Exited(p)' <=> Exited(p))
  BY Zenon, <1>3, <1>9 DEF ByParent, ByChild, Exited
<1>13. (LockedBy(t, p)' <=> LockedBy(t, p)) /\ (FreedBy(t, p)' <=> FreedBy(t, p))
  BY Zenon, <1>9 DEF LockedBy, FreedBy
<1>14. ShareOK(p)'
  <2>1. /\ share[p].refcount = Count(ByParent(p)) + Count(ByChild(p))
        /\ share[p].lock = t <=> LockedBy(t, p)
        /\ FreedBy(t, p) => share[p].refcount = 0 /\ share[p].lock = 0
    BY Zenon, <1>3 DEF ShareOK
  <2>2. share'[p].refcount = Count(ByParent(p)') + Count(ByChild(p)')
    BY Zenon, <1>9, <1>12, <2>1 DEF Count
  <2>3. /\ share'[p].lock = t <=> LockedBy(t, p)'
        /\ \/ share'[p].lock = share[p].lock
           \/ share[p].lock \in {0, t} /\ share'[p].lock \in {0, t}
        /\ share[p].refcount = 0 /\ share[p].lock = 0 =>
             share'[p].refcount = 0 /\ share'[p].lock = 0
        /\ FreedBy(t, p)' =>
             /\ FreedBy(t, p) \/ share[p].lock = t
             /\ share'[p].refcount = 0 /\ share'[p].lock = 0
        /\ \/ /\ share'[p].state = share[p].state
              /\ (share[p].refcount # 0 \/ share[p].lock # 0 \/ FreedBy(t, p)) <=>
                 (share'[p].refcount # 0 \/ share'[p].lock # 0 \/ FreedBy(t, p)')
           \/ /\ FreedBy(t, p) /\ ~FreedBy(t, p)'
              /\ share'[p].refcount = 0 /\ share'[p].lock = 0 /\ share'[p].state = "freed"
    BY Zenon, <1>9, <1>13, <2>1
  <2>4. QED
    BY Zenon, <1>3, <1>10, <2>2, <2>3, ShareStep
<1>15. StatusOK(p)' /\ LoadOK(p)'
  <2>1. /\ p \in reaped => ~ByParent(p)
        /\ share[p].sig = 1 => Exited(p) /\ share[p].rvalue = thread[p].rvalue
        /\ thread[t].pc = "wait_lock" /\ thread[t].arg = p =>
             Exited(p) /\ share[p].rvalue = thread[p].rvalue
    BY Zenon, <1>3 DEF StatusOK
  <2>2. /\ p \in reaped' => ~ByParent(p)'
        /\ Exited(p) => /\ Exited(p)' /\ thread'[p].rvalue = thread[p].rvalue
                        /\ share'[p].rvalue = share[p].rvalue
        /\ share'[p].sig = 1 => Exited(p)' /\ share'[p].rvalue = thread'[p].rvalue
        /\ thread'[t].pc = "wait_lock" => Exited(p)' /\ share'[p].rvalue = thread'[p].rvalue
        /\ thread'[t].pc = "wait_release" => Exited(p)' /\ thread'[t].result = thread'[p].rvalue
    BY Zenon, <1>9, <1>12, <2>1 DEF Exited
  <2>3. StatusOK(p)'
    BY Zenon, <1>3, <1>10, <2>2, StatusStep
  <2>4. LoadOK(p)'
    BY Zenon, <1>3, <1>9 DEF LoadOK
  <2>5. QED
    BY Zenon, <2>3, <2>4
<1>16. QED
  BY Zenon, <1>14, <1>15

\* The child's share is taken off the list: it can be waited for once.
LEMMA ProcessWaitInv ==
  ASSUME Inv, NEW t \in Tids, NEW q \in Tids, process_wait(t, q)
  PROVE  Inv'
<1>1. TypeOK /\ ThreadOK(t) /\ thread[t] \in ThreadRecords /\ thread[t].pc = "user"
  BY ZenonT(30) DEF Inv, TypeOK, At, ThreadOK, process_wait
<1>2. PICK i \in 1 .. Len(child_share[t]) :
        /\ child_share[t][i] = q /\ q \in Elems(child_share[t])
        /\ child_share' = [child_share EXCEPT ![t] = Without(@, i)]
  BY Zenon DEF process_wait, Elems
<1>3. PICK p \in Created : p = q /\ parent[p] = t /\ p \in Elems(child_share[t])
  BY Zenon, <1>1, <1>2 DEF ThreadOK
<1>4. /\ p \in Tids /\ share[p] \in ShareRecords /\ parent[p] \in Tids
      /\ ShareOK(p) /\ StatusOK(p) /\ LoadOK(p) /\ parent[p] # p
  BY ZenonT(30), <1>1, <1>3 DEF Inv, TypeOK, Created, ShareOK
<1> DEFINE r == [thread[t] EXCEPT !.pc = "wait_sig", !.arg = p]
<1>5. r \in ThreadRecords
  <2>1. "wait_sig" \in Pcs /\ p \in Tids
    BY Zenon, <1>1, <1>4 DEF Pcs, ThreadRecords, ShareRecords
  <2>2. QED
    BY Zenon, <1>1, <1>4, <2>1 DEF ThreadRecords
<1>6. /\ thread' = [thread EXCEPT ![t] = r]
      /\ UNCHANGED <<next_tid, all_list, share, parent, reaped, panicked>>
  BY Zenon, <1>1, <1>3 DEF process_wait, Goto, TypeOK
<1>7. /\ child_share' \in [Tids -> Seq(Tids)]
      /\ Elems(child_share'[t]) = Elems(child_share[t]) \ {p} /\ Injective(child_share'[t])
      /\ \A u \in Tids : u # t => child_share'[u] = child_share[u]
  <2>1. child_share[t] \in Seq(Tids) /\ Injective(child_share[t])
    BY Zenon, <1>1 DEF TypeOK, ThreadOK
  <2>2. QED
    BY SMTT(30), <1>1, <1>3, <1>4, <2>1, <1>2, ElemsWithout DEF process_wait, TypeOK
<1>8. /\ r.pc = "wait_sig" /\ r.arg = p /\ r.rvalue = thread[t].rvalue
      /\ r.success = thread[t].success /\ r.result = thread[t].result
  BY Zenon, <1>1, <1>4 DEF ThreadRecords
<1> HIDE DEF r
<1>9. /\ thread' \in [Tids -> ThreadRecords] /\ thread'[t] = r
      /\ \A u \in Tids : u # t => thread'[u] = thread[u]
  BY Zenon, <1>1, <1>5, <1>6, ThreadWrite
<1>10. TypeOK'
  BY Zenon, <1>1, <1>4, <1>6, <1>9, <1>7 DEF TypeOK
<1>11. /\ p \in Tids /\ parent[p] # p /\ thread[t].pc = "user"
       /\ p = q /\ parent[p] = t /\ p \in Elems(child_share[t])
       /\ thread'[t].pc = "wait_sig" /\ thread'[t].arg = p
       /\ thread'[t].rvalue = thread[t].rvalue /\ thread'[t].success = thread[t].success
       /\ thread'[t].result = thread[t].result
       /\ \A u \in Tids : u # t => thread'[u] = thread[u]
       /\ next_tid' = next_tid /\ share' = share /\ parent' = parent /\ reaped' = reaped
  BY ZenonT(30), <1>1, <1>3, <1>4, <1>6, <1>8, <1>9
<1>12. Local(t, p)
  BY ZenonT(30), <1>11, <1>7 DEF Local, Busy, OnChild, OnShare
<1>13. ThreadOK(t)'
  BY ZenonT(90), <1>1, <1>11, <1>7 DEF ThreadOK, Created, OnChild, OnShare
<1>14. (ByParent(p)' <=> ByParent(p)) /\ (ByChild(p)' <=> ByChild(p)) /\ (Exited(p)' <=> Exited(p))
  BY ZenonT(30), <1>4, <1>11, <1>7 DEF ByParent, ByChild, Exited
<1>15. (LockedBy(t, p)' <=> LockedBy(t, p)) /\ (FreedBy(t, p)' <=> FreedBy(t, p))
  BY Zenon, <1>11 DEF LockedBy, FreedBy
<1>16. ShareOK(p)'
  <2>1. /\ share[p].refcount = Count(ByParent(p)) + Count(ByChild(p))
        /\ share[p].lock = t <=> LockedBy(t, p)
        /\ FreedBy(t, p) => share[p].refcount = 0 /\ share[p].lock = 0
    BY Zenon, <1>4 DEF ShareOK
  <2>2. share'[p].refcount = Count(ByParent(p)') + Count(ByChild(p)')
    BY Zenon, <1>11, <1>14, <2>1 DEF Count
  <2>3. /\ share'[p].lock = t <=> LockedBy(t, p)'
        /\ \/ share'[p].lock = share[p].lock
           \/ share[p].lock \in {0, t} /\ share'[p].lock \in {0, t}
        /\ share[p].refcount = 0 /\ share[p].lock = 0 =>
             share'[p].refcount = 0 /\ share'[p].lock = 0
        /\ FreedBy(t, p)' =>
             /\ FreedBy(t, p) \/ share[p].lock = t
             /\ share'[p].refcount = 0 /\ share'[p].lock = 0
        /\ \/ /\ share'[p].state = share[p].state
              /\ (share[p].refcount # 0 \/ share[p].lock # 0 \/ FreedBy(t, p)) <=>
                 (share'[p].refcount # 0 \/ share'[p].lock # 0 \/ FreedBy(t, p)')
           \/ /\ FreedBy(t, p) /\ ~FreedBy(t, p)'
              /\ share'[p].refcount = 0 /\ share'[p].lock = 0 /\ share'[p].state = "freed"
    BY Zenon, <1>11, <1>15, <2>1
  <2>4. QED
    BY Zenon, <1>4, <1>12, <2>2, <2>3, ShareStep
<1>17. StatusOK(p)' /\ LoadOK(p)'
  <2>1. /\ p \in reaped => ~ByParent(p)
        /\ share[p].sig = 1 => Exited(p) /\ share[p].rvalue = thread[p].rvalue
        /\ thread[t].pc = "wait_lock" /\ thread[t].arg = p =>
             Exited(p) /\ share[p].rvalue = thread[p].rvalue
    BY Zenon, <1>4 DEF StatusOK
  <2>2. /\ p \in reaped' => ~ByParent(p)'
        /\ Exited(p) => /\ Exited(p)' /\ thread'[p].rvalue = thread[p].rvalue
                        /\ share'[p].rvalue = share[p].rvalue
        /\ share'[p].sig = 1 => Exited(p)' /\ share'[p].rvalue = thread'[p].rvalue
        /\ thread'[t].pc = "wait_lock" => Exited(p)' /\ share'[p].rvalue = thread'[p].rvalue
        /\ thread'[t].pc = "wait_release" => Exited(p)' /\ thread'[t].result = thread'[p].rvalue
    BY ZenonT(30), <1>11, <1>14, <2>1
  <2>3. StatusOK(p)'
    BY Zenon, <1>4, <1>12, <2>2, StatusStep
  <2>4. LoadOK(p)'
    BY ZenonT(30), <1>4, <1>11 DEF LoadOK
  <2>5. QED
    BY Zenon, <2>3, <2>4
<1>18. QED
  BY Zenon, <1>4, <1>10, <1>12, <1>13, <1>16, <1>17, LocalStep

\* The parent lets go of the lock, and frees the share if the child had gone.
LEMMA WaitReleaseInv ==
  ASSUME Inv, NEW t \in Tids, wait_release(t)
  PROVE  Inv'
<1>1. TypeOK /\ ThreadOK(t) /\ thread[t] \in ThreadRecords /\ thread[t].pc = "wait_release"
  BY ZenonT(30) DEF Inv, TypeOK, At, ThreadOK, wait_release
<1>2. PICK p \in Created : p = thread[t].arg /\ parent[p] = t /\ p \notin Elems(child_share[t])
  BY Zenon, <1>1 DEF ThreadOK, OnChild
<1>3. /\ p \in Tids /\ share[p] \in ShareRecords /\ parent[p] \in Tids
      /\ ShareOK(p) /\ StatusOK(p) /\ LoadOK(p) /\ parent[p] # p
  BY ZenonT(30), <1>1, <1>2 DEF Inv, TypeOK, Created, ShareOK
<1>4. PICK x \in Pcs : x = (IF share[p].refcount = 0 THEN "wait_free" ELSE "user")
  BY Zenon, <1>2 DEF Pcs
<1>5. LockedBy(t, p) /\ share[p].lock = t
  BY Zenon, <1>1, <1>2, <1>3 DEF LockedBy, ShareOK
<1> DEFINE r == [thread[t] EXCEPT !.pc = x]
<1> DEFINE s == [share[p] EXCEPT !.lock = 0]
<1>6. r \in ThreadRecords /\ s \in ShareRecords
  <2>1. x \in Pcs /\ 0 \in Tids \cup {0}
    BY Zenon, <1>1, <1>3, <1>4, <1>5 DEF Pcs, ThreadRecords, ShareRecords
  <2>2. QED
    BY ZenonT(30), <1>1, <1>3, <2>1 DEF ThreadRecords, ShareRecords
<1>7. /\ thread' = [thread EXCEPT ![t] = r]
      /\ share' = [share EXCEPT ![p] = s]
      /\ UNCHANGED <<next_tid, all_list, child_share, parent, reaped, panicked>>
  BY Zenon, <1>1, <1>2, <1>4, <1>5 DEF wait_release, Goto, TypeOK, Release_share, AfterShare
<1>8. /\ r.pc = x /\ r.arg = thread[t].arg /\ r.rvalue = thread[t].rvalue
      /\ r.success = thread[t].success /\ r.result = thread[t].result
      /\ s.state = share[p].state /\ s.refcount = share[p].refcount /\ s.lock = 0
      /\ s.sig = share[p].sig /\ s.successload = share[p].successload
      /\ s.loaded = share[p].loaded /\ s.rvalue = share[p].rvalue
  BY Zenon, <1>1, <1>3 DEF ThreadRecords, ShareRecords
<1> HIDE DEF r, s
<1>9. /\ thread' \in [Tids -> ThreadRecords] /\ thread'[t] = r
      /\ \A u \in Tids : u # t => thread'[u] = thread[u]
      /\ share' \in [Tids -> ShareRecords] /\ share'[p] = s
      /\ \A q \in Tids : q # p => share'[q] = share[q]
  BY ZenonT(30), <1>1, <1>3, <1>6, <1>7, ThreadWrite, ShareWrite
<1>10. TypeOK'
  BY Zenon, <1>1, <1>3, <1>7, <1>9 DEF TypeOK
<1>11. /\ p \in Tids /\ parent[p] # p /\ thread[t].pc = "wait_release"
       /\ p = thread[t].arg /\ parent[p] = t /\ p \notin Elems(child_share[t])
       /\ thread'[t].pc = x /\ thread'[t].arg = thread[t].arg
       /\ thread'[t].rvalue = thread[t].rvalue /\ thread'[t].success = thread[t].success
       /\ thread'[t].result = thread[t].result
       /\ \A u \in Tids : u # t => thread'[u] = thread[u]
       /\ share'[p].state = share[p].state /\ share'[p].refcount = share[p].refcount
       /\ share'[p].lock = 0 /\ share'[p].sig = share[p].sig
       /\ share'[p].successload = share[p].successload /\ share'[p].loaded = share[p].loaded
       /\ share'[p].rvalue = share[p].rvalue
       /\ \A q \in Tids : q # p => share'[q] = share[q]
       /\ next_tid' = next_tid /\ child_share' = child_share /\ parent' = parent /\ reaped' = reaped
  BY ZenonT(30), <1>1, <1>2, <1>3, <1>7, <1>8, <1>9
<1>12. Local(t, p)
  BY ZenonT(30), <1>11, <1>4 DEF Local, Busy, OnChild, OnShare
<1>13. ThreadOK(t)'
  BY ZenonT(30), <1>1, <1>11, <1>4, <1>5 DEF ThreadOK, Created, OnChild, OnShare
<1>14. (ByParent(p)' <=> ByParent(p)) /\ (ByChild(p)' <=> ByChild(p)) /\ (Exited(p)' <=> Exited(p))
  BY ZenonT(90), <1>3, <1>11, <1>4, <1>5 DEF ByParent, ByChild, Exited
<1>15. (LockedBy(t, p)' <=> FALSE) /\ (FreedBy(t, p)' <=> share[p].refcount = 0)
  BY Zenon, <1>11, <1>4, <1>5 DEF LockedBy, FreedBy
<1>16. ShareOK(p)'
  <2>1. /\ share[p].refcount = Count(ByParent(p)) + Count(ByChild(p))
        /\ share[p].lock = t <=> LockedBy(t, p)
        /\ FreedBy(t, p) => share[p].refcount = 0 /\ share[p].lock = 0
    BY Zenon, <1>3 DEF ShareOK
  <2>2. share'[p].refcount = Count(ByParent(p)') + Count(ByChild(p)')
    BY ZenonT(30), <1>11, <1>14, <1>4, <1>5, <2>1 DEF Count
  <2>3. /\ share'[p].lock = t <=> LockedBy(t, p)'
        /\ \/ share'[p].lock = share[p].lock
           \/ share[p].lock \in {0, t} /\ share'[p].lock \in {0, t}
        /\ share[p].refcount = 0 /\ share[p].lock = 0 =>
             share'[p].refcount = 0 /\ share'[p].lock = 0
        /\ FreedBy(t, p)' =>
             /\ FreedBy(t, p) \/ share[p].lock = t
             /\ share'[p].refcount = 0 /\ share'[p].lock = 0
        /\ \/ /\ share'[p].state = share[p].state
              /\ (share[p].refcount # 0 \/ share[p].lock # 0 \/ FreedBy(t, p)) <=>
                 (share'[p].refcount # 0 \/ share'[p].lock # 0 \/ FreedBy(t, p)')
           \/ /\ FreedBy(t, p) /\ ~FreedBy(t, p)'
              /\ share'[p].refcount = 0 /\ share'[p].lock = 0 /\ share'[p].state = "freed"
    BY ZenonT(30), <1>11, <1>15, <1>4, <1>5, <2>1, TidsPositive
  <2>4. QED
    BY Zenon, <1>3, <1>12, <2>2, <2>3, ShareStep
<1>17. StatusOK(p)' /\ LoadOK(p)'
  <2>1. /\ p \in reaped => ~ByParent(p)
        /\ share[p].sig = 1 => Exited(p) /\ share[p].rvalue = thread[p].rvalue
        /\ thread[t].pc = "wait_lock" /\ thread[t].arg = p =>
             Exited(p) /\ share[p].rvalue = thread[p].rvalue
    BY Zenon, <1>3 DEF StatusOK
  <2>2. /\ p \in reaped' => ~ByParent(p)'
        /\ Exited(p) => /\ Exited(p)' /\ thread'[p].rvalue = thread[p].rvalue
                        /\ share'[p].rvalue = share[p].rvalue
        /\ share'[p].sig = 1 => Exited(p)' /\ share'[p].rvalue = thread'[p].rvalue
        /\ thread'[t].pc = "wait_lock" => Exited(p)' /\ share'[p].rvalue = thread'[p].rvalue
        /\ thread'[t].pc = "wait_release" => Exited(p)' /\ thread'[t].result = thread'[p].rvalue
    BY ZenonT(30), <1>11, <1>14, <1>4, <1>5, <2>1
  <2>3. StatusOK(p)'
    BY ZenonT(30), <1>3, <1>12, <2>2, StatusStep
  <2>4. LoadOK(p)'
    BY ZenonT(30), <1>3, <1>11, <1>4, <1>5 DEF LoadOK
  <2>5. QED
    BY Zenon, <2>3, <2>4
<1>18. QED
  BY ZenonT(30), <1>3, <1>10, <1>12, <1>13, <1>16, <1>17, LocalStep

\* The exiting thread lets go of the lock, and frees the share if it was the last.
LEMMA ExitShareReleaseInv ==
  ASSUME Inv, NEW t \in Tids, exit_share_release(t)
  PROVE  Inv'
<1>1. TypeOK /\ ThreadOK(t) /\ thread[t] \in ThreadRecords /\ thread[t].pc = "share_release"
  BY ZenonT(30) DEF Inv, TypeOK, At, ThreadOK, exit_share_release
<1>2. PICK p \in Created : /\ p = thread[t].arg
                           /\ p # t => parent[p] = t /\ p \notin Elems(child_share[t])
                           /\ p = t => child_share[t] = <<>>
  BY Zenon, <1>1 DEF ThreadOK, OnShare, Created
<1>3. /\ p \in Tids /\ share[p] \in ShareRecords /\ parent[p] \in Tids
      /\ ShareOK(p) /\ StatusOK(p) /\ LoadOK(p) /\ parent[p] # p
  BY ZenonT(30), <1>1, <1>2 DEF Inv, TypeOK, Created, ShareOK
<1>4. PICK x \in Pcs : x = (IF share[p].refcount = 0 THEN "share_free" ELSE (IF p = t THEN "die" ELSE "exit"))
  BY Zenon, <1>2 DEF Pcs
<1>5. LockedBy(t, p) /\ share[p].lock = t
  BY Zenon, <1>1, <1>2, <1>3 DEF LockedBy, ShareOK
<1> DEFINE r == [thread[t] EXCEPT !.pc = x]
<1> DEFINE s == [share[p] EXCEPT !.lock = 0]
<1>6. r \in ThreadRecords /\ s \in ShareRecords
  <2>1. x \in Pcs /\ 0 \in Tids \cup {0}
    BY Zenon, <1>1, <1>3, <1>4, <1>5 DEF Pcs, ThreadRecords, ShareRecords
  <2>2. QED
    BY Zenon, <1>1, <1>3, <2>1 DEF ThreadRecords, ShareRecords
<1>7. /\ thread' = [thread EXCEPT ![t] = r]
      /\ share' = [share EXCEPT ![p] = s]
      /\ UNCHANGED <<next_tid, all_list, child_share, parent, reaped, panicked>>
  BY Zenon, <1>1, <1>2, <1>4, <1>5 DEF exit_share_release, Goto, TypeOK, Release_share, AfterShare
<1>8. /\ r.pc = x /\ r.arg = thread[t].arg /\ r.rvalue = thread[t].rvalue
      /\ r.success = thread[t].success /\ r.result = thread[t].result
      /\ s.state = share[p].state /\ s.refcount = share[p].refcount /\ s.lock = 0
      /\ s.sig = share[p].sig /\ s.successload = share[p].successload
      /\ s.loaded = share[p].loaded /\ s.rvalue = share[p].rvalue
  BY Zenon, <1>1, <1>3 DEF ThreadRecords, ShareRecords
<1> HIDE DEF r, s
<1>9. /\ thread' \in [Tids -> ThreadRecords] /\ thread'[t] = r
      /\ \A u \in Tids : u # t => thread'[u] = thread[u]
      /\ share' \in [Tids -> ShareRecords] /\ share'[p] = s
      /\ \A q \in Tids : q # p => share'[q] = share[q]
  BY ZenonT(30), <1>1, <1>3, <1>6, <1>7, ThreadWrite, ShareWrite
<1>10. TypeOK'
  BY Zenon, <1>1, <1>3, <1>7, <1>9 DEF TypeOK
<1>11. /\ p \in Tids /\ parent[p] # p /\ thread[t].pc = "share_release"
       /\ p = thread[t].arg
       /\ p # t => parent[p] = t /\ p \notin Elems(child_share[t])
       /\ p = t => child_share[t] = <<>>
       /\ thread'[t].pc = x /\ thread'[t].arg = thread[t].arg
       /\ thread'[t].rvalue = thread[t].rvalue /\ thread'[t].success = thread[t].success
       /\ thread'[t].result = thread[t].result
       /\ \A u \in Tids : u # t => thread'[u] = thread[u]
       /\ share'[p].state = share[p].state /\ share'[p].refcount = share[p].refcount
       /\ share'[p].lock = 0 /\ share'[p].sig = share[p].sig
       /\ share'[p].successload = share[p].successload /\ share'[p].loaded = share[p].loaded
       /\ share'[p].rvalue = share[p].rvalue
       /\ \A q \in Tids : q # p => share'[q] = share[q]
       /\ next_tid' = next_tid /\ child_share' = child_share /\ parent' = parent /\ reaped' = reaped
  BY ZenonT(30), <1>1, <1>2, <1>3, <1>7, <1>8, <1>9
<1>12. Local(t, p)
  BY ZenonT(30), <1>11, <1>4 DEF Local, Busy, OnChild, OnShare
<1>13. ThreadOK(t)'
  BY ZenonT(30), <1>1, <1>11, <1>4, <1>5 DEF ThreadOK, Created, OnChild, OnShare
<1>14. (ByParent(p)' <=> ByParent(p)) /\ (ByChild(p)' <=> ByChild(p)) /\ (Exited(p)' <=> Exited(p))
  <2>1. CASE p = t
    <3>1. ByParent(p)' <=> ByParent(p)
      BY ZenonT(30), <1>3, <1>11, <2>1 DEF ByParent
    <3>2. ByChild(p)' <=> ByChild(p)
      BY ZenonT(30), <1>11, <1>4, <1>5, <2>1 DEF ByChild
    <3>3. Exited(p)' <=> Exited(p)
      BY ZenonT(30), <1>11, <1>4, <1>5, <2>1 DEF Exited
    <3> QED
      BY Zenon, <3>1, <3>2, <3>3
  <2>2. CASE p # t
    <3>1. ByParent(p)' <=> ByParent(p)
      BY ZenonT(90), <1>11, <1>4, <1>5, <2>2 DEF ByParent
    <3>2. (ByChild(p)' <=> ByChild(p)) /\ (Exited(p)' <=> Exited(p))
      BY ZenonT(30), <1>11, <2>2 DEF ByChild, Exited
    <3> QED
      BY Zenon, <3>1, <3>2
  <2> QED
    BY Zenon, <2>1, <2>2
<1>15. (LockedBy(t, p)' <=> FALSE) /\ (FreedBy(t, p)' <=> share[p].refcount = 0)
  BY Zenon, <1>11, <1>4, <1>5 DEF LockedBy, FreedBy
<1>16. ShareOK(p)'
  <2>1. /\ share[p].refcount = Count(ByParent(p)) + Count(ByChild(p))
        /\ share[p].lock = t <=> LockedBy(t, p)
        /\ FreedBy(t, p) => share[p].refcount = 0 /\ share[p].lock = 0
    BY Zenon, <1>3 DEF ShareOK
  <2>2. share'[p].refcount = Count(ByParent(p)') + Count(ByChild(p)')
    BY Zenon, <1>11, <1>14, <1>4, <1>5, <2>1 DEF Count
  <2>3. /\ share'[p].lock = t <=> LockedBy(t, p)'
        /\ \/ share'[p].lock = share[p].lock
           \/ share[p].lock \in {0, t} /\ share'[p].lock \in {0, t}
        /\ share[p].refcount = 0 /\ share[p].lock = 0 =>
             share'[p].refcount = 0 /\ share'[p].lock = 0
        /\ FreedBy(t, p)' =>
             /\ FreedBy(t, p) \/ share[p].lock = t
             /\ share'[p].refcount = 0 /\ share'[p].lock = 0
        /\ \/ /\ share'[p].state = share[p].state
              /\ (share[p].refcount # 0 \/ share[p].lock # 0 \/ FreedBy(t, p)) <=>
                 (share'[p].refcount # 0 \/ share'[p].lock # 0 \/ FreedBy(t, p)')
           \/ /\ FreedBy(t, p) /\ ~FreedBy(t, p)'
              /\ share'[p].refcount = 0 /\ share'[p].lock = 0 /\ share'[p].state = "freed"
    BY ZenonT(90), <1>11, <1>15, <1>4, <1>5, <2>1, TidsPositive
  <2>4. QED
    BY Zenon, <1>3, <1>12, <2>2, <2>3, ShareStep
<1>17. StatusOK(p)' /\ LoadOK(p)'
  <2>1. /\ p \in reaped => ~ByParent(p)
        /\ share[p].sig = 1 => Exited(p) /\ share[p].rvalue = thread[p].rvalue
        /\ thread[t].pc = "wait_lock" /\ thread[t].arg = p =>
             Exited(p) /\ share[p].rvalue = thread[p].rvalue
    BY Zenon, <1>3 DEF StatusOK
  <2>2. /\ p \in reaped' => ~ByParent(p)'
        /\ Exited(p) => /\ Exited(p)' /\ thread'[p].rvalue = thread[p].rvalue
                        /\ share'[p].rvalue = share[p].rvalue
        /\ share'[p].sig = 1 => Exited(p)' /\ share'[p].rvalue = thread'[p].rvalue
        /\ thread'[t].pc = "wait_lock" => Exited(p)' /\ share'[p].rvalue = thread'[p].rvalue
        /\ thread'[t].pc = "wait_release" => Exited(p)' /\ thread'[t].result = thread'[p].rvalue
    BY SMTT(30), <1>11, <1>14, <1>4, <1>5, <2>1
  <2>3. StatusOK(p)'
    BY ZenonT(30), <1>3, <1>12, <2>2, StatusStep
  <2>4. LoadOK(p)'
    BY SMTT(30), <1>3, <1>11, <1>4, <1>5 DEF LoadOK
  <2>5. QED
    BY Zenon, <2>3, <2>4
<1>18. QED
  BY ZenonT(30), <1>3, <1>10, <1>12, <1>13, <1>16, <1>17, LocalStep

\* The parent frees the share.
LEMMA WaitFreeInv ==
  ASSUME Inv, NEW t \in Tids, wait_free(t)
  PROVE  Inv'
<1>1. TypeOK /\ ThreadOK(t) /\ thread[t] \in ThreadRecords /\ thread[t].pc = "wait_free"
  BY ZenonT(30) DEF Inv, TypeOK, At, ThreadOK, wait_free
<1>2. PICK p \in Created : p = thread[t].arg /\ parent[p] = t /\ p \notin Elems(child_share[t])
  BY Zenon, <1>1 DEF ThreadOK, OnChild
<1>3. /\ p \in Tids /\ share[p] \in ShareRecords /\ parent[p] \in Tids
      /\ ShareOK(p) /\ StatusOK(p) /\ LoadOK(p) /\ parent[p] # p
  BY ZenonT(30), <1>1, <1>2 DEF Inv, TypeOK, Created, ShareOK
<1>4. PICK x \in Pcs : x = "user"
  BY Zenon, <1>2 DEF Pcs
<1>5. FreedBy(t, p) /\ \A u \in Tids : FreedBy(u, p) => u = t
  BY Zenon, <1>1, <1>2, <1>3 DEF FreedBy, ShareOK
<1> DEFINE r == [thread[t] EXCEPT !.pc = x]
<1> DEFINE s == [share[p] EXCEPT !.state = "freed"]
<1>6. r \in ThreadRecords /\ s \in ShareRecords
  <2>1. x \in Pcs /\ "freed" \in {"none", "live", "freed"}
    BY Zenon, <1>1, <1>3, <1>4, <1>5 DEF Pcs, ThreadRecords, ShareRecords
  <2>2. QED
    BY Zenon, <1>1, <1>3, <2>1 DEF ThreadRecords, ShareRecords
<1>7. /\ thread' = [thread EXCEPT ![t] = r]
      /\ share' = [share EXCEPT ![p] = s]
      /\ UNCHANGED <<next_tid, all_list, child_share, parent, reaped, panicked>>
  BY Zenon, <1>1, <1>2, <1>4, <1>5 DEF wait_free, Goto, TypeOK, Free_share, AfterShare
<1>8. /\ r.pc = x /\ r.arg = thread[t].arg /\ r.rvalue = thread[t].rvalue
      /\ r.success = thread[t].success /\ r.result = thread[t].result
      /\ s.state = "freed" /\ s.refcount = share[p].refcount /\ s.lock = share[p].lock
      /\ s.sig = share[p].sig /\ s.successload = share[p].successload
      /\ s.loaded = share[p].loaded /\ s.rvalue = share[p].rvalue
  BY Zenon, <1>1, <1>3 DEF ThreadRecords, ShareRecords
<1> HIDE DEF r, s
<1>9. /\ thread' \in [Tids -> ThreadRecords] /\ thread'[t] = r
      /\ \A u \in Tids : u # t => thread'[u] = thread[u]
      /\ share' \in [Tids -> ShareRecords] /\ share'[p] = s
      /\ \A q \in Tids : q # p => share'[q] = share[q]
  BY ZenonT(30), <1>1, <1>3, <1>6, <1>7, ThreadWrite, ShareWrite
<1>10. TypeOK'
  BY Zenon, <1>1, <1>3, <1>7, <1>9 DEF TypeOK
<1>11. /\ p \in Tids /\ parent[p] # p /\ thread[t].pc = "wait_free"
       /\ p = thread[t].arg /\ parent[p] = t /\ p \notin Elems(child_share[t])
       /\ thread'[t].pc = x /\ thread'[t].arg = thread[t].arg
       /\ thread'[t].rvalue = thread[t].rvalue /\ thread'[t].success = thread[t].success
       /\ thread'[t].result = thread[t].result
       /\ \A u \in Tids : u # t => thread'[u] = thread[u]
       /\ share'[p].state = "freed" /\ share'[p].refcount = share[p].refcount
       /\ share'[p].lock = share[p].lock /\ share'[p].sig = share[p].sig
       /\ share'[p].successload = share[p].successload /\ share'[p].loaded = share[p].loaded
       /\ share'[p].rvalue = share[p].rvalue
       /\ \A q \in Tids : q # p => share'[q] = share[q]
       /\ next_tid' = next_tid /\ child_share' = child_share /\ parent' = parent /\ reaped' = reaped
  BY ZenonT(30), <1>1, <1>2, <1>3, <1>7, <1>8, <1>9
<1>12. Local(t, p)
  BY Zenon, <1>11, <1>4 DEF Local, Busy, OnChild, OnShare
<1>13. ThreadOK(t)'
  BY ZenonT(30), <1>1, <1>11, <1>4, <1>5 DEF ThreadOK, Created, OnChild, OnShare
<1>14. (ByParent(p)' <=> ByParent(p)) /\ (ByChild(p)' <=> ByChild(p)) /\ (Exited(p)' <=> Exited(p))
  BY ZenonT(30), <1>3, <1>11, <1>4, <1>5 DEF ByParent, ByChild, Exited
<1>15. (LockedBy(t, p)' <=> LockedBy(t, p)) /\ (FreedBy(t, p)' <=> FALSE)
  BY Zenon, <1>11, <1>4, <1>5 DEF LockedBy, FreedBy
<1>16. ShareOK(p)'
  <2>1. /\ share[p].refcount = Count(ByParent(p)) + Count(ByChild(p))
        /\ share[p].lock = t <=> LockedBy(t, p)
        /\ FreedBy(t, p) => share[p].refcount = 0 /\ share[p].lock = 0
    BY Zenon, <1>3 DEF ShareOK
  <2>2. share'[p].refcount = Count(ByParent(p)') + Count(ByChild(p)')
    BY Zenon, <1>11, <1>14, <1>4, <1>5, <2>1 DEF Count
  <2>3. /\ share'[p].lock = t <=> LockedBy(t, p)'
        /\ \/ share'[p].lock = share[p].lock
           \/ share[p].lock \in {0, t} /\ share'[p].lock \in {0, t}
        /\ share[p].refcount = 0 /\ share[p].lock = 0 =>
             share'[p].refcount = 0 /\ share'[p].lock = 0
        /\ FreedBy(t, p)' =>
             /\ FreedBy(t, p) \/ share[p].lock = t
             /\ share'[p].refcount = 0 /\ share'[p].lock = 0
        /\ \/ /\ share'[p].state = share[p].state
              /\ (share[p].refcount # 0 \/ share[p].lock # 0 \/ FreedBy(t, p)) <=>
                 (share'[p].refcount # 0 \/ share'[p].lock # 0 \/ FreedBy(t, p)')
           \/ /\ FreedBy(t, p) /\ ~FreedBy(t, p)'
              /\ share'[p].refcount = 0 /\ share'[p].lock = 0 /\ share'[p].state = "freed"
    BY ZenonT(30), <1>11, <1>15, <1>4, <1>5, <2>1
  <2>4. QED
    BY Zenon, <1>3, <1>12, <2>2, <2>3, ShareStep
<1>17. StatusOK(p)' /\ LoadOK(p)'
  <2>1. /\ p \in reaped => ~ByParent(p)
        /\ share[p].sig = 1 => Exited(p) /\ share[p].rvalue = thread[p].rvalue
        /\ thread[t].pc = "wait_lock" /\ thread[t].arg = p =>
             Exited(p) /\ share[p].rvalue = thread[p].rvalue
    BY Zenon, <1>3 DEF StatusOK
  <2>2. /\ p \in reaped' => ~ByParent(p)'
        /\ Exited(p) => /\ Exited(p)' /\ thread'[p].rvalue = thread[p].rvalue
                        /\ share'[p].rvalue = share[p].rvalue
        /\ share'[p].sig = 1 => Exited(p)' /\ share'[p].rvalue = thread'[p].rvalue
        /\ thread'[t].pc = "wait_lock" => Exited(p)' /\ share'[p].rvalue = thread'[p].rvalue
        /\ thread'[t].pc = "wait_release" => Exited(p)' /\ thread'[t].result = thread'[p].rvalue
    BY ZenonT(30), <1>11, <1>14, <1>4, <1>5, <2>1
  <2>3. StatusOK(p)'
    BY ZenonT(30), <1>3, <1>12, <2>2, StatusStep
  <2>4. LoadOK(p)'
    BY ZenonT(30), <1>3, <1>11, <1>4, <1>5 DEF LoadOK
  <2>5. QED
    BY Zenon, <2>3, <2>4
<1>18. QED
  BY ZenonT(30), <1>3, <1>10, <1>12, <1>13, <1>16, <1>17, LocalStep

\* The exiting thread frees the share.
LEMMA ExitShareFreeInv ==
  ASSUME Inv, NEW t \in Tids, exit_share_free(t)
  PROVE  Inv'
<1>1. TypeOK /\ ThreadOK(t) /\ thread[t] \in ThreadRecords /\ thread[t].pc = "share_free"
  BY ZenonT(30) DEF Inv, TypeOK, At, ThreadOK, exit_share_free
<1>2. PICK p \in Created : /\ p = thread[t].arg
                           /\ p # t => parent[p] = t /\ p \notin Elems(child_share[t])
                           /\ p = t => child_share[t] = <<>>
  BY Zenon, <1>1 DEF ThreadOK, OnShare, Created
<1>3. /\ p \in Tids /\ share[p] \in ShareRecords /\ parent[p] \in Tids
      /\ ShareOK(p) /\ StatusOK(p) /\ LoadOK(p) /\ parent[p] # p
  BY ZenonT(30), <1>1, <1>2 DEF Inv, TypeOK, Created, ShareOK
<1>4. PICK x \in Pcs : x = (IF p = t THEN "die" ELSE "exit")
  BY Zenon, <1>2 DEF Pcs
<1>5. FreedBy(t, p) /\ \A u \in Tids : FreedBy(u, p) => u = t
  BY Zenon, <1>1, <1>2, <1>3 DEF FreedBy, ShareOK
<1> DEFINE r == [thread[t] EXCEPT !.pc = x]
<1> DEFINE s == [share[p] EXCEPT !.state = "freed"]
<1>6. r \in ThreadRecords /\ s \in ShareRecords
  <2>1. x \in Pcs /\ "freed" \in {"none", "live", "freed"}
    BY Zenon, <1>1, <1>3, <1>4, <1>5 DEF Pcs, ThreadRecords, ShareRecords
  <2>2. QED
    BY Zenon, <1>1, <1>3, <2>1 DEF ThreadRecords, ShareRecords
<1>7. /\ thread' = [thread EXCEPT ![t] = r]
      /\ share' = [share EXCEPT ![p] = s]
      /\ UNCHANGED <<next_tid, all_list, child_share, parent, reaped, panicked>>
  BY Zenon, <1>1, <1>2, <1>4, <1>5 DEF exit_share_free, Goto, TypeOK, Free_share, AfterShare
<1>8. /\ r.pc = x /\ r.arg = thread[t].arg /\ r.rvalue = thread[t].rvalue
      /\ r.success = thread[t].success /\ r.result = thread[t].result
      /\ s.state = "freed" /\ s.refcount = share[p].refcount /\ s.lock = share[p].lock
      /\ s.sig = share[p].sig /\ s.successload = share[p].successload
      /\ s.loaded = share[p].loaded /\ s.rvalue = share[p].rvalue
  BY Zenon, <1>1, <1>3 DEF ThreadRecords, ShareRecords
<1> HIDE DEF r, s
<1>9. /\ thread' \in [Tids -> ThreadRecords] /\ thread'[t] = r
      /\ \A u \in Tids : u # t => thread'[u] = thread[u]
      /\ share' \in [Tids -> ShareRecords] /\ share'[p] = s
      /\ \A q \in Tids : q # p => share'[q] = share[q]
  BY ZenonT(30), <1>1, <1>3, <1>6, <1>7, ThreadWrite, ShareWrite
<1>10. TypeOK'
  BY Zenon, <1>1, <1>3, <1>7, <1>9 DEF TypeOK
<1>11. /\ p \in Tids /\ parent[p] # p /\ thread[t].pc = "share_free"
       /\ p = thread[t].arg
       /\ p # t => parent[p] = t /\ p \notin Elems(child_share[t])
       /\ p = t => child_share[t] = <<>>
       /\ thread'[t].pc = x /\ thread'[t].arg = thread[t].arg
       /\ thread'[t].rvalue = thread[t].rvalue /\ thread'[t].success = thread[t].success
       /\ thread'[t].result = thread[t].result
       /\ \A u \in Tids : u # t => thread'[u] = thread[u]
       /\ share'[p].state = "freed" /\ share'[p].refcount = share[p].refcount
       /\ share'[p].lock = share[p].lock /\ share'[p].sig = share[p].sig
       /\ share'[p].successload = share[p].successload /\ share'[p].loaded = share[p].loaded
       /\ share'[p].rvalue = share[p].rvalue
       /\ \A q \in Tids : q # p => share'[q] = share[q]
       /\ next_tid' = next_tid /\ child_share' = child_share /\ parent' = parent /\ reaped' = reaped
  BY ZenonT(30), <1>1, <1>2, <1>3, <1>7, <1>8, <1>9
<1>12. Local(t, p)
  BY Zenon, <1>11, <1>4 DEF Local, Busy, OnChild, OnShare
<1>13. ThreadOK(t)'
  BY ZenonT(30), <1>1, <1>11, <1>4, <1>5 DEF ThreadOK, Created, OnChild, OnShare
<1>14. (ByParent(p)' <=> ByParent(p)) /\ (ByChild(p)' <=> ByChild(p)) /\ (Exited(p)' <=> Exited(p))
  <2>1. CASE p = t
    <3>1. ByParent(p)' <=> ByParent(p)
      BY ZenonT(30), <1>3, <1>11, <2>1 DEF ByParent
    <3>2. ByChild(p)' <=> ByChild(p)
      BY ZenonT(30), <1>11, <1>4, <1>5, <2>1 DEF ByChild
    <3>3. Exited(p)' <=> Exited(p)
      BY ZenonT(30), <1>11, <1>4, <1>5, <2>1 DEF Exited
    <3> QED
      BY Zenon, <3>1, <3>2, <3>3
  <2>2. CASE p # t
    <3>1. ByParent(p)' <=> ByParent(p)
      BY ZenonT(90), <1>11, <1>4, <1>5, <2>2 DEF ByParent
    <3>2. (ByChild(p)' <=> ByChild(p)) /\ (Exited(p)' <=> Exited(p))
      BY ZenonT(30), <1>11, <2>2 DEF ByChild, Exited
    <3> QED
      BY Zenon, <3>1, <3>2
  <2> QED
    BY Zenon, <2>1, <2>2
<1>15. (LockedBy(t, p)' <=> LockedBy(t, p)) /\ (FreedBy(t, p)' <=> FALSE)
  BY Zenon, <1>11, <1>4, <1>5 DEF LockedBy, FreedBy
<1>16. ShareOK(p)'
  <2>1. /\ share[p].refcount = Count(ByParent(p)) + Count(ByChild(p))
        /\ share[p].lock = t <=> LockedBy(t, p)
        /\ FreedBy(t, p) => share[p].refcount = 0 /\ share[p].lock = 0
    BY Zenon, <1>3 DEF ShareOK
  <2>2. share'[p].refcount = Count(ByParent(p)') + Count(ByChild(p)')
    BY Zenon, <1>11, <1>14, <1>4, <1>5, <2>1 DEF Count
  <2>3. /\ share'[p].lock = t <=> LockedBy(t, p)'
        /\ \/ share'[p].lock = share[p].lock
           \/ share[p].lock \in {0, t} /\ share'[p].lock \in {0, t}
        /\ share[p].refcount = 0 /\ share[p].lock = 0 =>
             share'[p].refcount = 0 /\ share'[p].lock = 0
        /\ FreedBy(t, p)' =>
             /\ FreedBy(t, p) \/ share[p].lock = t
             /\ share'[p].refcount = 0 /\ share'[p].lock = 0
        /\ \/ /\ share'[p].state = share[p].state
              /\ (share[p].refcount # 0 \/ share[p].lock # 0 \/ FreedBy(t, p)) <=>
                 (share'[p].refcount # 0 \/ share'[p].lock # 0 \/ FreedBy(t, p)')
           \/ /\ FreedBy(t, p) /\ ~FreedBy(t, p)'
              /\ share'[p].refcount = 0 /\ share'[p].lock = 0 /\ share'[p].state = "freed"
    BY ZenonT(30), <1>11, <1>15, <1>4, <1>5, <2>1
  <2>4. QED
    BY Zenon, <1>3, <1>12, <2>2, <2>3, ShareStep
<1>17. StatusOK(p)' /\ LoadOK(p)'
  <2>1. /\ p \in reaped => ~ByParent(p)
        /\ share[p].sig = 1 => Exited(p) /\ share[p].rvalue = thread[p].rvalue
        /\ thread[t].pc = "wait_lock" /\ thread[t].arg = p =>
             Exited(p) /\ share[p].rvalue = thread[p].rvalue
    BY Zenon, <1>3 DEF StatusOK
  <2>2. /\ p \in reaped' => ~ByParent(p)'
        /\ Exited(p) => /\ Exited(p)' /\ thread'[p].rvalue = thread[p].rvalue
                        /\ share'[p].rvalue = share[p].rvalue
        /\ share'[p].sig = 1 => Exited(p)' /\ share'[p].rvalue = thread'[p].rvalue
        /\ thread'[t].pc = "wait_lock" => Exited(p)' /\ share'[p].rvalue = thread'[p].rvalue
        /\ thread'[t].pc = "wait_release" => Exited(p)' /\ thread'[t].result = thread'[p].rvalue
    BY SMTT(30), <1>11, <1>14, <1>4, <1>5, <2>1
  <2>3. StatusOK(p)'
    BY ZenonT(30), <1>3, <1>12, <2>2, StatusStep
  <2>4. LoadOK(p)'
    BY SMTT(30), <1>3, <1>11, <1>4, <1>5 DEF LoadOK
  <2>5. QED
    BY Zenon, <2>3, <2>4
<1>18. QED
  BY ZenonT(30), <1>3, <1>10, <1>12, <1>13, <1>16, <1>17, LocalStep

\* The exiting thread counts down.
LEMMA ExitShareInv ==
  ASSUME Inv, NEW t \in Tids, exit_share(t)
  PROVE  Inv'
<1>1. TypeOK /\ ThreadOK(t) /\ thread[t] \in ThreadRecords /\ thread[t].pc = "share_lock"
  BY ZenonT(30) DEF Inv, TypeOK, At, ThreadOK, exit_share
<1>2. PICK p \in Created : /\ p = thread[t].arg
                           /\ p # t => parent[p] = t /\ p \notin Elems(child_share[t])
                           /\ p = t => child_share[t] = <<>>
  BY Zenon, <1>1 DEF ThreadOK, OnShare, Created
<1>3. /\ p \in Tids /\ share[p] \in ShareRecords /\ parent[p] \in Tids
      /\ ShareOK(p) /\ StatusOK(p) /\ LoadOK(p) /\ parent[p] # p
  BY ZenonT(30), <1>1, <1>2 DEF Inv, TypeOK, Created, ShareOK
<1>4. PICK x \in Pcs : x = (IF p = t /\ share[p].refcount - 1 # 0 THEN "share_sig" ELSE "share_release")
  BY Zenon, <1>2 DEF Pcs
<1>5. /\ share[p].refcount \in 1 .. 2 /\ share[p].lock = 0
      /\ p = t => ByChild(p) /\ ~Exited(p)
      /\ p # t => ByParent(p)
  <2>1. p = t => ByChild(p) /\ ~Exited(p)
    BY Zenon, <1>1, <1>2 DEF ByChild, Exited
  <2>2. p # t => ByParent(p)
    BY Zenon, <1>1, <1>2 DEF ByParent
  <2>3. share[p].lock = 0
    BY Zenon, <1>2 DEF exit_share, Drop_reference
  <2>4. QED
    BY <1>3, <2>1, <2>2, <2>3 DEF ShareOK, Count
<1> DEFINE r == [thread[t] EXCEPT !.pc = x]
<1> DEFINE s == [share[p] EXCEPT !.lock = t, !.refcount = @ - 1]
<1>6. r \in ThreadRecords /\ s \in ShareRecords
  <2>1. x \in Pcs /\ share[p].refcount - 1 \in 0 .. 2 /\ t \in Tids \cup {0}
    BY SMTT(30), <1>1, <1>3, <1>4, <1>5 DEF Pcs, ThreadRecords, ShareRecords
  <2>2. QED
    BY Zenon, <1>1, <1>3, <2>1 DEF ThreadRecords, ShareRecords
<1>7. /\ thread' = [thread EXCEPT ![t] = r]
      /\ share' = [share EXCEPT ![p] = s]
      /\ UNCHANGED <<next_tid, all_list, child_share, parent, reaped, panicked>>
  BY Zenon, <1>1, <1>2, <1>4, <1>5 DEF exit_share, Goto, TypeOK, Drop_reference
<1>8. /\ r.pc = x /\ r.arg = thread[t].arg /\ r.rvalue = thread[t].rvalue
      /\ r.success = thread[t].success /\ r.result = thread[t].result
      /\ s.state = share[p].state /\ s.refcount = share[p].refcount - 1 /\ s.lock = t
      /\ s.sig = share[p].sig /\ s.successload = share[p].successload
      /\ s.loaded = share[p].loaded /\ s.rvalue = share[p].rvalue
  BY Zenon, <1>1, <1>3 DEF ThreadRecords, ShareRecords
<1> HIDE DEF r, s
<1>9. /\ thread' \in [Tids -> ThreadRecords] /\ thread'[t] = r
      /\ \A u \in Tids : u # t => thread'[u] = thread[u]
      /\ share' \in [Tids -> ShareRecords] /\ share'[p] = s
      /\ \A q \in Tids : q # p => share'[q] = share[q]
  BY ZenonT(30), <1>1, <1>3, <1>6, <1>7, ThreadWrite, ShareWrite
<1>10. TypeOK'
  BY Zenon, <1>1, <1>3, <1>7, <1>9 DEF TypeOK
<1>11. /\ p \in Tids /\ parent[p] # p /\ thread[t].pc = "share_lock"
       /\ p = thread[t].arg
       /\ p # t => parent[p] = t /\ p \notin Elems(child_share[t])
       /\ p = t => child_share[t] = <<>>
       /\ thread'[t].pc = x /\ thread'[t].arg = thread[t].arg
       /\ thread'[t].rvalue = thread[t].rvalue /\ thread'[t].success = thread[t].success
       /\ thread'[t].result = thread[t].result
       /\ \A u \in Tids : u # t => thread'[u] = thread[u]
       /\ share'[p].state = share[p].state /\ share'[p].refcount = share[p].refcount - 1
       /\ share'[p].lock = t /\ share'[p].sig = share[p].sig
       /\ share'[p].successload = share[p].successload /\ share'[p].loaded = share[p].loaded
       /\ share'[p].rvalue = share[p].rvalue
       /\ \A q \in Tids : q # p => share'[q] = share[q]
       /\ next_tid' = next_tid /\ child_share' = child_share /\ parent' = parent /\ reaped' = reaped
  BY ZenonT(30), <1>1, <1>2, <1>3, <1>7, <1>8, <1>9
<1>12. Local(t, p)
  BY ZenonT(30), <1>11, <1>4 DEF Local, Busy, OnChild, OnShare
<1>13. ThreadOK(t)'
  BY ZenonT(30), <1>1, <1>11, <1>4, <1>5 DEF ThreadOK, Created, OnChild, OnShare
<1>14. (ByParent(p)' <=> ByParent(p) /\ p = t) /\ (ByChild(p)' <=> ByChild(p) /\ p # t) /\ (Exited(p)' <=> Exited(p) \/ (p = t /\ x = "share_release"))
  <2>1. ByParent(p)' <=> ByParent(p) /\ p = t
    BY ZenonT(30), <1>3, <1>11, <1>4, <1>5 DEF ByParent, ByChild, Exited
  <2>2. ByChild(p)' <=> ByChild(p) /\ p # t
    BY ZenonT(30), <1>3, <1>11, <1>4, <1>5 DEF ByParent, ByChild, Exited
  <2>3. Exited(p)' <=> Exited(p) \/ (p = t /\ x = "share_release")
    <3>1. CASE p = t
      BY ZenonT(30), <1>11, <1>4, <1>5, <3>1 DEF Exited
    <3>2. CASE p # t
      BY ZenonT(30), <1>11, <3>2 DEF Exited
    <3> QED
      BY Zenon, <3>1, <3>2
  <2>4. QED
    BY Zenon, <2>1, <2>2, <2>3
<1>15. (LockedBy(t, p)' <=> TRUE) /\ (FreedBy(t, p)' <=> FreedBy(t, p))
  BY ZenonT(30), <1>11, <1>4, <1>5 DEF LockedBy, FreedBy
<1>16. ShareOK(p)'
  <2>1. /\ share[p].refcount = Count(ByParent(p)) + Count(ByChild(p))
        /\ share[p].lock = t <=> LockedBy(t, p)
        /\ FreedBy(t, p) => share[p].refcount = 0 /\ share[p].lock = 0
    BY Zenon, <1>3 DEF ShareOK
  <2>2. share'[p].refcount = Count(ByParent(p)') + Count(ByChild(p)')
    <3>1. share'[p].refcount = share[p].refcount - 1
      BY Zenon, <1>11
    <3>2. /\ p = t => Count(ByParent(p)') = Count(ByParent(p))
          /\ p = t => Count(ByChild(p)') = 0 /\ Count(ByChild(p)) = 1
      BY ZenonT(30), <1>5, <1>14 DEF Count
    <3>3. /\ p # t => Count(ByParent(p)') = 0 /\ Count(ByParent(p)) = 1
          /\ p # t => Count(ByChild(p)') = Count(ByChild(p))
      BY ZenonT(30), <1>5, <1>14 DEF Count
    <3>4. Count(ByParent(p)) \in {0, 1} /\ Count(ByChild(p)) \in {0, 1}
      BY Zenon DEF Count
    <3> QED
      BY SMTT(30), <2>1, <3>1, <3>2, <3>3, <3>4
  <2>3. /\ share'[p].lock = t <=> LockedBy(t, p)'
        /\ \/ share'[p].lock = share[p].lock
           \/ share[p].lock \in {0, t} /\ share'[p].lock \in {0, t}
        /\ share[p].refcount = 0 /\ share[p].lock = 0 =>
             share'[p].refcount = 0 /\ share'[p].lock = 0
        /\ FreedBy(t, p)' =>
             /\ FreedBy(t, p) \/ share[p].lock = t
             /\ share'[p].refcount = 0 /\ share'[p].lock = 0
        /\ \/ /\ share'[p].state = share[p].state
              /\ (share[p].refcount # 0 \/ share[p].lock # 0 \/ FreedBy(t, p)) <=>
                 (share'[p].refcount # 0 \/ share'[p].lock # 0 \/ FreedBy(t, p)')
           \/ /\ FreedBy(t, p) /\ ~FreedBy(t, p)'
              /\ share'[p].refcount = 0 /\ share'[p].lock = 0 /\ share'[p].state = "freed"
    BY SMTT(30), <1>11, <1>15, <1>4, <1>5, <2>1, TidsPositive
  <2>4. QED
    BY Zenon, <1>3, <1>12, <2>2, <2>3, ShareStep
<1>17. StatusOK(p)' /\ LoadOK(p)'
  <2>1. /\ p \in reaped => ~ByParent(p)
        /\ share[p].sig = 1 => Exited(p) /\ share[p].rvalue = thread[p].rvalue
        /\ thread[t].pc = "wait_lock" /\ thread[t].arg = p =>
             Exited(p) /\ share[p].rvalue = thread[p].rvalue
    BY Zenon, <1>3 DEF StatusOK
  <2>2. /\ p \in reaped' => ~ByParent(p)'
        /\ Exited(p) => /\ Exited(p)' /\ thread'[p].rvalue = thread[p].rvalue
                        /\ share'[p].rvalue = share[p].rvalue
        /\ share'[p].sig = 1 => Exited(p)' /\ share'[p].rvalue = thread'[p].rvalue
        /\ thread'[t].pc = "wait_lock" => Exited(p)' /\ share'[p].rvalue = thread'[p].rvalue
        /\ thread'[t].pc = "wait_release" => Exited(p)' /\ thread'[t].result = thread'[p].rvalue
    BY ZenonT(90), <1>11, <1>14, <1>4, <1>5, <2>1
  <2>3. StatusOK(p)'
    BY ZenonT(30), <1>3, <1>12, <2>2, StatusStep
  <2>4. LoadOK(p)'
    BY SMTT(30), <1>3, <1>11, <1>4, <1>5 DEF LoadOK
  <2>5. QED
    BY Zenon, <2>3, <2>4
<1>18. QED
  BY ZenonT(30), <1>3, <1>10, <1>12, <1>13, <1>16, <1>17, LocalStep

\* The status is set, and sig upped.
LEMMA ExitShareSigInv ==
  ASSUME Inv, NEW t \in Tids, exit_share_sig(t)
  PROVE  Inv'
<1>1. TypeOK /\ ThreadOK(t) /\ thread[t] \in ThreadRecords /\ thread[t].pc = "share_sig" /\ thread[t].arg = t /\ t # main
  BY ZenonT(30) DEF Inv, TypeOK, At, ThreadOK, exit_share_sig
<1>2. PICK p \in Created : p = t
  BY Zenon, <1>1 DEF ThreadOK
<1>3. /\ p \in Tids /\ share[p] \in ShareRecords /\ parent[p] \in Tids
      /\ ShareOK(p) /\ StatusOK(p) /\ LoadOK(p) /\ parent[p] # p
  BY ZenonT(30), <1>1, <1>2 DEF Inv, TypeOK, Created, ShareOK
<1>4. ~Exited(p) /\ share[p].sig = 0
  BY SMTT(30), <1>1, <1>2, <1>3 DEF Exited, StatusOK, ShareRecords
<1> DEFINE r == [thread[t] EXCEPT !.pc = "share_release"]
<1> DEFINE s == [share[p] EXCEPT !.rvalue = thread[t].rvalue, !.sig = @ + 1]
<1>5. r \in ThreadRecords /\ s \in ShareRecords
  <2>1. "share_release" \in Pcs /\ share[p].sig + 1 \in 0 .. 1 /\ thread[t].rvalue \in Codes \cup {-1, Uninit}
    BY <1>1, <1>3, <1>4 DEF Pcs, ThreadRecords, ShareRecords
  <2>2. QED
    BY Zenon, <1>1, <1>3, <2>1 DEF ThreadRecords, ShareRecords
<1>6. /\ thread' = [thread EXCEPT ![t] = r]
      /\ share' = [share EXCEPT ![p] = s]
      /\ UNCHANGED <<next_tid, all_list, child_share, parent, reaped, panicked>>
  BY Zenon, <1>1, <1>2, <1>4 DEF exit_share_sig, Goto, TypeOK
<1>7. /\ r.pc = "share_release" /\ r.arg = thread[t].arg /\ r.rvalue = thread[t].rvalue
      /\ r.success = thread[t].success /\ r.result = thread[t].result
      /\ s.state = share[p].state /\ s.refcount = share[p].refcount /\ s.lock = share[p].lock
      /\ s.sig = share[p].sig + 1 /\ s.successload = share[p].successload
      /\ s.loaded = share[p].loaded /\ s.rvalue = thread[t].rvalue
  BY Zenon, <1>1, <1>3 DEF ThreadRecords, ShareRecords
<1> HIDE DEF r, s
<1>8. /\ thread' \in [Tids -> ThreadRecords] /\ thread'[t] = r
      /\ \A u \in Tids : u # t => thread'[u] = thread[u]
      /\ share' \in [Tids -> ShareRecords] /\ share'[p] = s
      /\ \A q \in Tids : q # p => share'[q] = share[q]
  BY ZenonT(30), <1>1, <1>3, <1>5, <1>6, ThreadWrite, ShareWrite
<1>9. TypeOK'
  BY Zenon, <1>1, <1>3, <1>6, <1>8 DEF TypeOK
<1>10. /\ p \in Tids /\ parent[p] # p /\ thread[t].pc = "share_sig" /\ thread[t].arg = t /\ t # main
       /\ p = t
       /\ thread'[t].pc = "share_release" /\ thread'[t].arg = thread[t].arg
       /\ thread'[t].rvalue = thread[t].rvalue /\ thread'[t].success = thread[t].success
       /\ thread'[t].result = thread[t].result
       /\ \A u \in Tids : u # t => thread'[u] = thread[u]
       /\ share'[p].state = share[p].state /\ share'[p].refcount = share[p].refcount
       /\ share'[p].lock = share[p].lock /\ share'[p].sig = share[p].sig + 1
       /\ share'[p].successload = share[p].successload /\ share'[p].loaded = share[p].loaded
       /\ share'[p].rvalue = thread[t].rvalue
       /\ \A q \in Tids : q # p => share'[q] = share[q]
       /\ next_tid' = next_tid /\ child_share' = child_share /\ parent' = parent /\ reaped' = reaped
  BY ZenonT(30), <1>1, <1>2, <1>3, <1>6, <1>7, <1>8
<1>11. Local(t, p)
  BY Zenon, <1>10 DEF Local, Busy, OnChild, OnShare
<1>12. ThreadOK(t)'
  BY ZenonT(30), <1>1, <1>10, <1>4 DEF ThreadOK, Created, OnChild, OnShare
<1>13. (ByParent(p)' <=> ByParent(p)) /\ (ByChild(p)' <=> ByChild(p)) /\ (Exited(p)' <=> TRUE)
  BY ZenonT(30), <1>3, <1>10, <1>4 DEF ByParent, ByChild, Exited
<1>14. (LockedBy(t, p)' <=> LockedBy(t, p)) /\ (FreedBy(t, p)' <=> FreedBy(t, p))
  BY Zenon, <1>10, <1>4 DEF LockedBy, FreedBy
<1>15. ShareOK(p)'
  <2>1. /\ share[p].refcount = Count(ByParent(p)) + Count(ByChild(p))
        /\ share[p].lock = t <=> LockedBy(t, p)
        /\ FreedBy(t, p) => share[p].refcount = 0 /\ share[p].lock = 0
    BY Zenon, <1>3 DEF ShareOK
  <2>2. share'[p].refcount = Count(ByParent(p)') + Count(ByChild(p)')
    BY Zenon, <1>10, <1>13, <1>4, <2>1 DEF Count
  <2>3. /\ share'[p].lock = t <=> LockedBy(t, p)'
        /\ \/ share'[p].lock = share[p].lock
           \/ share[p].lock \in {0, t} /\ share'[p].lock \in {0, t}
        /\ share[p].refcount = 0 /\ share[p].lock = 0 =>
             share'[p].refcount = 0 /\ share'[p].lock = 0
        /\ FreedBy(t, p)' =>
             /\ FreedBy(t, p) \/ share[p].lock = t
             /\ share'[p].refcount = 0 /\ share'[p].lock = 0
        /\ \/ /\ share'[p].state = share[p].state
              /\ (share[p].refcount # 0 \/ share[p].lock # 0 \/ FreedBy(t, p)) <=>
                 (share'[p].refcount # 0 \/ share'[p].lock # 0 \/ FreedBy(t, p)')
           \/ /\ FreedBy(t, p) /\ ~FreedBy(t, p)'
              /\ share'[p].refcount = 0 /\ share'[p].lock = 0 /\ share'[p].state = "freed"
    BY ZenonT(30), <1>10, <1>14, <1>4, <2>1
  <2>4. QED
    BY Zenon, <1>3, <1>11, <2>2, <2>3, ShareStep
<1>16. StatusOK(p)' /\ LoadOK(p)'
  <2>1. /\ p \in reaped => ~ByParent(p)
        /\ share[p].sig = 1 => Exited(p) /\ share[p].rvalue = thread[p].rvalue
        /\ thread[t].pc = "wait_lock" /\ thread[t].arg = p =>
             Exited(p) /\ share[p].rvalue = thread[p].rvalue
    BY Zenon, <1>3 DEF StatusOK
  <2>2. /\ p \in reaped' => ~ByParent(p)'
        /\ Exited(p) => /\ Exited(p)' /\ thread'[p].rvalue = thread[p].rvalue
                        /\ share'[p].rvalue = share[p].rvalue
        /\ share'[p].sig = 1 => Exited(p)' /\ share'[p].rvalue = thread'[p].rvalue
        /\ thread'[t].pc = "wait_lock" => Exited(p)' /\ share'[p].rvalue = thread'[p].rvalue
        /\ thread'[t].pc = "wait_release" => Exited(p)' /\ thread'[t].result = thread'[p].rvalue
    BY ZenonT(30), <1>10, <1>13, <1>4, <2>1
  <2>3. StatusOK(p)'
    BY Zenon, <1>3, <1>11, <2>2, StatusStep
  <2>4. LoadOK(p)'
    BY Zenon, <1>3, <1>10, <1>4 DEF LoadOK
  <2>5. QED
    BY Zenon, <2>3, <2>4
<1>17. QED
  BY Zenon, <1>3, <1>9, <1>11, <1>12, <1>15, <1>16, LocalStep

\* The exiting thread takes its next child off the list.
LEMMA ProcessExitChildInv ==
  ASSUME Inv, NEW t \in Tids, process_exit(t), child_share[t] # <<>>
  PROVE  Inv'
<1>1. TypeOK /\ ThreadOK(t) /\ thread[t] \in ThreadRecords /\ thread[t].pc = "exit"
  BY ZenonT(30) DEF Inv, TypeOK, At, ThreadOK, process_exit
<1>2. /\ Head(child_share[t]) \in Elems(child_share[t])
      /\ child_share' = [child_share EXCEPT ![t] = Tail(@)]
  BY Zenon, <1>1, ElemsTail DEF TypeOK, ThreadOK, process_exit
<1>3. PICK p \in Created : p = Head(child_share[t]) /\ parent[p] = t /\ p \in Elems(child_share[t])
  BY Zenon, <1>1, <1>2 DEF ThreadOK
<1>4. /\ p \in Tids /\ share[p] \in ShareRecords /\ parent[p] \in Tids
      /\ ShareOK(p) /\ StatusOK(p) /\ LoadOK(p) /\ parent[p] # p
  BY ZenonT(30), <1>1, <1>3 DEF Inv, TypeOK, Created, ShareOK
<1> DEFINE r == [thread[t] EXCEPT !.pc = "share_lock", !.arg = p]
<1>5. r \in ThreadRecords
  <2>1. "share_lock" \in Pcs /\ p \in Tids
    BY Zenon, <1>1, <1>4 DEF Pcs, ThreadRecords, ShareRecords
  <2>2. QED
    BY Zenon, <1>1, <1>4, <2>1 DEF ThreadRecords
<1>6. /\ thread' = [thread EXCEPT ![t] = r]
      /\ UNCHANGED <<next_tid, all_list, share, parent, reaped, panicked>>
  BY Zenon, <1>1, <1>3 DEF process_exit, Goto, TypeOK
<1>7. /\ child_share' \in [Tids -> Seq(Tids)]
      /\ Elems(child_share'[t]) = Elems(child_share[t]) \ {p} /\ Injective(child_share'[t])
      /\ \A u \in Tids : u # t => child_share'[u] = child_share[u]
  <2>1. child_share[t] \in Seq(Tids) /\ Injective(child_share[t])
    BY Zenon, <1>1 DEF TypeOK, ThreadOK
  <2>2. QED
    BY Zenon, <1>1, <1>3, <1>4, <2>1, <1>2, ElemsTail DEF process_exit, TypeOK
<1>8. /\ r.pc = "share_lock" /\ r.arg = p /\ r.rvalue = thread[t].rvalue
      /\ r.success = thread[t].success /\ r.result = thread[t].result
  BY Zenon, <1>1, <1>4 DEF ThreadRecords
<1> HIDE DEF r
<1>9. /\ thread' \in [Tids -> ThreadRecords] /\ thread'[t] = r
      /\ \A u \in Tids : u # t => thread'[u] = thread[u]
  BY Zenon, <1>1, <1>5, <1>6, ThreadWrite
<1>10. TypeOK'
  BY Zenon, <1>1, <1>4, <1>6, <1>9, <1>7 DEF TypeOK
<1>11. /\ p \in Tids /\ parent[p] # p /\ thread[t].pc = "exit"
       /\ parent[p] = t /\ p \in Elems(child_share[t])
       /\ thread'[t].pc = "share_lock" /\ thread'[t].arg = p
       /\ thread'[t].rvalue = thread[t].rvalue /\ thread'[t].success = thread[t].success
       /\ thread'[t].result = thread[t].result
       /\ \A u \in Tids : u # t => thread'[u] = thread[u]
       /\ next_tid' = next_tid /\ share' = share /\ parent' = parent /\ reaped' = reaped
  BY Zenon, <1>1, <1>3, <1>4, <1>6, <1>8, <1>9
<1>12. Local(t, p)
  BY Zenon, <1>11, <1>7 DEF Local, Busy, OnChild, OnShare
<1>13. ThreadOK(t)'
  BY ZenonT(30), <1>1, <1>11, <1>7 DEF ThreadOK, Created, OnChild, OnShare
<1>14. (ByParent(p)' <=> ByParent(p)) /\ (ByChild(p)' <=> ByChild(p)) /\ (Exited(p)' <=> Exited(p))
  BY Zenon, <1>4, <1>11, <1>7 DEF ByParent, ByChild, Exited
<1>15. (LockedBy(t, p)' <=> LockedBy(t, p)) /\ (FreedBy(t, p)' <=> FreedBy(t, p))
  BY Zenon, <1>11 DEF LockedBy, FreedBy
<1>16. ShareOK(p)'
  <2>1. /\ share[p].refcount = Count(ByParent(p)) + Count(ByChild(p))
        /\ share[p].lock = t <=> LockedBy(t, p)
        /\ FreedBy(t, p) => share[p].refcount = 0 /\ share[p].lock = 0
    BY Zenon, <1>4 DEF ShareOK
  <2>2. share'[p].refcount = Count(ByParent(p)') + Count(ByChild(p)')
    BY Zenon, <1>11, <1>14, <2>1 DEF Count
  <2>3. /\ share'[p].lock = t <=> LockedBy(t, p)'
        /\ \/ share'[p].lock = share[p].lock
           \/ share[p].lock \in {0, t} /\ share'[p].lock \in {0, t}
        /\ share[p].refcount = 0 /\ share[p].lock = 0 =>
             share'[p].refcount = 0 /\ share'[p].lock = 0
        /\ FreedBy(t, p)' =>
             /\ FreedBy(t, p) \/ share[p].lock = t
             /\ share'[p].refcount = 0 /\ share'[p].lock = 0
        /\ \/ /\ share'[p].state = share[p].state
              /\ (share[p].refcount # 0 \/ share[p].lock # 0 \/ FreedBy(t, p)) <=>
                 (share'[p].refcount # 0 \/ share'[p].lock # 0 \/ FreedBy(t, p)')
           \/ /\ FreedBy(t, p) /\ ~FreedBy(t, p)'
              /\ share'[p].refcount = 0 /\ share'[p].lock = 0 /\ share'[p].state = "freed"
    BY Zenon, <1>11, <1>15, <2>1
  <2>4. QED
    BY Zenon, <1>4, <1>12, <2>2, <2>3, ShareStep
<1>17. StatusOK(p)' /\ LoadOK(p)'
  <2>1. /\ p \in reaped => ~ByParent(p)
        /\ share[p].sig = 1 => Exited(p) /\ share[p].rvalue = thread[p].rvalue
        /\ thread[t].pc = "wait_lock" /\ thread[t].arg = p =>
             Exited(p) /\ share[p].rvalue = thread[p].rvalue
    BY Zenon, <1>4 DEF StatusOK
  <2>2. /\ p \in reaped' => ~ByParent(p)'
        /\ Exited(p) => /\ Exited(p)' /\ thread'[p].rvalue = thread[p].rvalue
                        /\ share'[p].rvalue = share[p].rvalue
        /\ share'[p].sig = 1 => Exited(p)' /\ share'[p].rvalue = thread'[p].rvalue
        /\ thread'[t].pc = "wait_lock" => Exited(p)' /\ share'[p].rvalue = thread'[p].rvalue
        /\ thread'[t].pc = "wait_release" => Exited(p)' /\ thread'[t].result = thread'[p].rvalue
    BY Zenon, <1>11, <1>14, <2>1
  <2>3. StatusOK(p)'
    BY Zenon, <1>4, <1>12, <2>2, StatusStep
  <2>4. LoadOK(p)'
    BY Zenon, <1>4, <1>11 DEF LoadOK
  <2>5. QED
    BY Zenon, <2>3, <2>4
<1>18. QED
  BY Zenon, <1>4, <1>10, <1>12, <1>13, <1>16, <1>17, LocalStep

\* No children are left, and the exiting thread turns to its own share.
LEMMA ProcessExitOwnInv ==
  ASSUME Inv, NEW t \in Tids, process_exit(t), child_share[t] = <<>>, t # main
  PROVE  Inv'
<1>1. TypeOK /\ ThreadOK(t) /\ thread[t] \in ThreadRecords /\ thread[t].pc = "exit"
  BY ZenonT(30) DEF Inv, TypeOK, At, ThreadOK, process_exit
<1>2. PICK p \in Created : p = t
  BY Zenon, <1>1 DEF ThreadOK
<1>3. /\ p \in Tids /\ share[p] \in ShareRecords /\ parent[p] \in Tids
      /\ ShareOK(p) /\ StatusOK(p) /\ LoadOK(p) /\ parent[p] # p
  BY ZenonT(30), <1>1, <1>2 DEF Inv, TypeOK, Created, ShareOK
<1> DEFINE r == [thread[t] EXCEPT !.pc = "share_lock", !.arg = t]
<1>4. r \in ThreadRecords
  <2>1. "share_lock" \in Pcs /\ t \in Tids
    BY Zenon, <1>1, <1>3 DEF Pcs, ThreadRecords, ShareRecords
  <2>2. QED
    BY Zenon, <1>1, <1>3, <2>1 DEF ThreadRecords
<1>5. /\ thread' = [thread EXCEPT ![t] = r]
      /\ UNCHANGED <<next_tid, all_list, child_share, share, parent, reaped, panicked>>
  BY Zenon, <1>1, <1>2 DEF process_exit, Goto, TypeOK
<1>6. /\ r.pc = "share_lock" /\ r.arg = t /\ r.rvalue = thread[t].rvalue
      /\ r.success = thread[t].success /\ r.result = thread[t].result
  BY Zenon, <1>1, <1>3 DEF ThreadRecords
<1> HIDE DEF r
<1>7. /\ thread' \in [Tids -> ThreadRecords] /\ thread'[t] = r
      /\ \A u \in Tids : u # t => thread'[u] = thread[u]
  BY Zenon, <1>1, <1>4, <1>5, ThreadWrite
<1>8. TypeOK'
  BY Zenon, <1>1, <1>3, <1>5, <1>7 DEF TypeOK
<1>9. /\ p \in Tids /\ parent[p] # p /\ thread[t].pc = "exit"
      /\ p = t
      /\ thread'[t].pc = "share_lock" /\ thread'[t].arg = t
      /\ thread'[t].rvalue = thread[t].rvalue /\ thread'[t].success = thread[t].success
      /\ thread'[t].result = thread[t].result
      /\ \A u \in Tids : u # t => thread'[u] = thread[u]
      /\ next_tid' = next_tid /\ child_share' = child_share /\ share' = share /\ parent' = parent /\ reaped' = reaped
  BY Zenon, <1>1, <1>2, <1>3, <1>5, <1>6, <1>7
<1>10. Local(t, p)
  BY Zenon, <1>9 DEF Local, Busy, OnChild, OnShare
<1>11. ThreadOK(t)'
  BY Zenon, <1>1, <1>9 DEF ThreadOK, Created, OnChild, OnShare
<1>12. (ByParent(p)' <=> ByParent(p)) /\ (ByChild(p)' <=> ByChild(p)) /\ (Exited(p)' <=> Exited(p))
  BY Zenon, <1>3, <1>9 DEF ByParent, ByChild, Exited
<1>13. (LockedBy(t, p)' <=> LockedBy(t, p)) /\ (FreedBy(t, p)' <=> FreedBy(t, p))
  BY Zenon, <1>9 DEF LockedBy, FreedBy
<1>14. ShareOK(p)'
  <2>1. /\ share[p].refcount = Count(ByParent(p)) + Count(ByChild(p))
        /\ share[p].lock = t <=> LockedBy(t, p)
        /\ FreedBy(t, p) => share[p].refcount = 0 /\ share[p].lock = 0
    BY Zenon, <1>3 DEF ShareOK
  <2>2. share'[p].refcount = Count(ByParent(p)') + Count(ByChild(p)')
    BY Zenon, <1>9, <1>12, <2>1 DEF Count
  <2>3. /\ share'[p].lock = t <=> LockedBy(t, p)'
        /\ \/ share'[p].lock = share[p].lock
           \/ share[p].lock \in {0, t} /\ share'[p].lock \in {0, t}
        /\ share[p].refcount = 0 /\ share[p].lock = 0 =>
             share'[p].refcount = 0 /\ share'[p].lock = 0
        /\ FreedBy(t, p)' =>
             /\ FreedBy(t, p) \/ share[p].lock = t
             /\ share'[p].refcount = 0 /\ share'[p].lock = 0
        /\ \/ /\ share'[p].state = share[p].state
              /\ (share[p].refcount # 0 \/ share[p].lock # 0 \/ FreedBy(t, p)) <=>
                 (share'[p].refcount # 0 \/ share'[p].lock # 0 \/ FreedBy(t, p)')
           \/ /\ FreedBy(t, p) /\ ~FreedBy(t, p)'
              /\ share'[p].refcount = 0 /\ share'[p].lock = 0 /\ share'[p].state = "freed"
    BY Zenon, <1>9, <1>13, <2>1
  <2>4. QED
    BY Zenon, <1>3, <1>10, <2>2, <2>3, ShareStep
<1>15. StatusOK(p)' /\ LoadOK(p)'
  <2>1. /\ p \in reaped => ~ByParent(p)
        /\ share[p].sig = 1 => Exited(p) /\ share[p].rvalue = thread[p].rvalue
        /\ thread[t].pc = "wait_lock" /\ thread[t].arg = p =>
             Exited(p) /\ share[p].rvalue = thread[p].rvalue
    BY Zenon, <1>3 DEF StatusOK
  <2>2. /\ p \in reaped' => ~ByParent(p)'
        /\ Exited(p) => /\ Exited(p)' /\ thread'[p].rvalue = thread[p].rvalue
                        /\ share'[p].rvalue = share[p].rvalue
        /\ share'[p].sig = 1 => Exited(p)' /\ share'[p].rvalue = thread'[p].rvalue
        /\ thread'[t].pc = "wait_lock" => Exited(p)' /\ share'[p].rvalue = thread'[p].rvalue
        /\ thread'[t].pc = "wait_release" => Exited(p)' /\ thread'[t].result = thread'[p].rvalue
    BY Zenon, <1>9, <1>12, <2>1 DEF Exited
  <2>3. StatusOK(p)'
    BY Zenon, <1>3, <1>10, <2>2, StatusStep
  <2>4. LoadOK(p)'
    BY Zenon, <1>3, <1>9 DEF LoadOK
  <2>5. QED
    BY Zenon, <2>3, <2>4
<1>16. QED
  BY Zenon, <1>3, <1>8, <1>10, <1>11, <1>14, <1>15, LocalStep

\* The thread is gone.
LEMMA ThreadExitInv ==
  ASSUME Inv, NEW t \in Tids, thread_exit(t)
  PROVE  Inv'
<1>1. TypeOK /\ ThreadOK(t) /\ thread[t] \in ThreadRecords /\ thread[t].pc = "die"
  BY ZenonT(30) DEF Inv, TypeOK, At, ThreadOK, thread_exit
<1>2. PICK p \in Tids : p = t
  BY Zenon
<1>3. /\ p \in Tids /\ share[p] \in ShareRecords /\ parent[p] \in Tids
      /\ (p \in Created => ShareOK(p) /\ StatusOK(p) /\ LoadOK(p) /\ parent[p] # p)
  BY ZenonT(30), <1>1, <1>2 DEF Inv, TypeOK, Created, ShareOK
<1> DEFINE r == [thread[t] EXCEPT !.pc = "dead"]
<1>4. r \in ThreadRecords
  <2>1. "dead" \in Pcs
    BY Zenon, <1>1, <1>3 DEF Pcs, ThreadRecords, ShareRecords
  <2>2. QED
    BY Zenon, <1>1, <1>3, <2>1 DEF ThreadRecords
<1>5. /\ thread' = [thread EXCEPT ![t] = r]
      /\ UNCHANGED <<next_tid, child_share, share, parent, reaped, panicked>>
      /\ all_list' = all_list \ {t}
  BY Zenon, <1>1, <1>2 DEF thread_exit, Goto, TypeOK
<1>6. /\ r.pc = "dead" /\ r.arg = thread[t].arg /\ r.rvalue = thread[t].rvalue
      /\ r.success = thread[t].success /\ r.result = thread[t].result
  BY Zenon, <1>1, <1>3 DEF ThreadRecords
<1> HIDE DEF r
<1>7. /\ thread' \in [Tids -> ThreadRecords] /\ thread'[t] = r
      /\ \A u \in Tids : u # t => thread'[u] = thread[u]
  BY Zenon, <1>1, <1>4, <1>5, ThreadWrite
<1>8. TypeOK'
  BY Zenon, <1>1, <1>3, <1>5, <1>7 DEF TypeOK
<1>9. /\ p \in Tids /\ thread[t].pc = "die"
      /\ p = t
      /\ thread'[t].pc = "dead" /\ thread'[t].arg = thread[t].arg
      /\ thread'[t].rvalue = thread[t].rvalue /\ thread'[t].success = thread[t].success
      /\ thread'[t].result = thread[t].result
      /\ \A u \in Tids : u # t => thread'[u] = thread[u]
      /\ next_tid' = next_tid /\ child_share' = child_share /\ share' = share /\ parent' = parent /\ reaped' = reaped
  BY Zenon, <1>1, <1>2, <1>3, <1>5, <1>6, <1>7
<1>10. Local(t, p)
  BY Zenon, <1>9 DEF Local, Busy, OnChild, OnShare
<1>11. ThreadOK(t)'
  BY Zenon, <1>1, <1>9 DEF ThreadOK, Created, OnChild, OnShare
<1> SUFFICES ASSUME p \in Created
             PROVE  ShareOK(p)' /\ StatusOK(p)' /\ LoadOK(p)'
  <2>1. p \in reaped' => p \in Created
    BY Zenon, <1>9 DEF Inv
  <2>2. QED
    BY Zenon, <1>3, <1>8, <1>10, <1>11, <2>1, LocalStep
<1>12. (ByParent(p)' <=> ByParent(p)) /\ (ByChild(p)' <=> ByChild(p)) /\ (Exited(p)' <=> Exited(p))
  BY Zenon, <1>3, <1>9 DEF ByParent, ByChild, Exited
<1>13. (LockedBy(t, p)' <=> LockedBy(t, p)) /\ (FreedBy(t, p)' <=> FreedBy(t, p))
  BY Zenon, <1>9 DEF LockedBy, FreedBy
<1>14. ShareOK(p)'
  <2>1. /\ share[p].refcount = Count(ByParent(p)) + Count(ByChild(p))
        /\ share[p].lock = t <=> LockedBy(t, p)
        /\ FreedBy(t, p) => share[p].refcount = 0 /\ share[p].lock = 0
    BY Zenon, <1>3 DEF ShareOK
  <2>2. share'[p].refcount = Count(ByParent(p)') + Count(ByChild(p)')
    BY Zenon, <1>9, <1>12, <2>1 DEF Count
  <2>3. /\ share'[p].lock = t <=> LockedBy(t, p)'
        /\ \/ share'[p].lock = share[p].lock
           \/ share[p].lock \in {0, t} /\ share'[p].lock \in {0, t}
        /\ share[p].refcount = 0 /\ share[p].lock = 0 =>
             share'[p].refcount = 0 /\ share'[p].lock = 0
        /\ FreedBy(t, p)' =>
             /\ FreedBy(t, p) \/ share[p].lock = t
             /\ share'[p].refcount = 0 /\ share'[p].lock = 0
        /\ \/ /\ share'[p].state = share[p].state
              /\ (share[p].refcount # 0 \/ share[p].lock # 0 \/ FreedBy(t, p)) <=>
                 (share'[p].refcount # 0 \/ share'[p].lock # 0 \/ FreedBy(t, p)')
           \/ /\ FreedBy(t, p) /\ ~FreedBy(t, p)'
              /\ share'[p].refcount = 0 /\ share'[p].lock = 0 /\ share'[p].state = "freed"
    BY Zenon, <1>9, <1>13, <2>1
  <2>4. QED
    BY Zenon, <1>3, <1>10, <2>2, <2>3, ShareStep
<1>15. StatusOK(p)' /\ LoadOK(p)'
  <2>1. /\ p \in reaped => ~ByParent(p)
        /\ share[p].sig = 1 => Exited(p) /\ share[p].rvalue = thread[p].rvalue
        /\ thread[t].pc = "wait_lock" /\ thread[t].arg = p =>
             Exited(p) /\ share[p].rvalue = thread[p].rvalue
    BY Zenon, <1>3 DEF StatusOK
  <2>2. /\ p \in reaped' => ~ByParent(p)'
        /\ Exited(p) => /\ Exited(p)' /\ thread'[p].rvalue = thread[p].rvalue
                        /\ share'[p].rvalue = share[p].rvalue
        /\ share'[p].sig = 1 => Exited(p)' /\ share'[p].rvalue = thread'[p].rvalue
        /\ thread'[t].pc = "wait_lock" => Exited(p)' /\ share'[p].rvalue = thread'[p].rvalue
        /\ thread'[t].pc = "wait_release" => Exited(p)' /\ thread'[t].result = thread'[p].rvalue
    BY Zenon, <1>9, <1>12, <2>1 DEF Exited
  <2>3. StatusOK(p)'
    BY Zenon, <1>3, <1>10, <2>2, StatusStep
  <2>4. LoadOK(p)'
    BY Zenon, <1>3, <1>9 DEF LoadOK
  <2>5. QED
    BY Zenon, <2>3, <2>4
<1>16. QED
  BY Zenon, <1>14, <1>15

\* main has no share of its own.
LEMMA ProcessExitMainInv ==
  ASSUME Inv, NEW t \in Tids, process_exit(t), child_share[t] = <<>>, t = main
  PROVE  Inv'
<1>1. TypeOK /\ ThreadOK(t) /\ thread[t] \in ThreadRecords /\ thread[t].pc = "exit"
  BY ZenonT(30) DEF Inv, TypeOK, At, ThreadOK, process_exit
<1>2. PICK p \in Tids : p = t
  BY Zenon
<1>3. /\ p \in Tids /\ share[p] \in ShareRecords /\ parent[p] \in Tids
      /\ (p \in Created => ShareOK(p) /\ StatusOK(p) /\ LoadOK(p) /\ parent[p] # p)
  BY Zenon, <1>1, <1>2 DEF Inv, TypeOK, Created, ShareOK
<1> DEFINE r == [thread[t] EXCEPT !.pc = "die"]
<1>4. r \in ThreadRecords
  <2>1. "die" \in Pcs
    BY Zenon, <1>1, <1>3 DEF Pcs, ThreadRecords, ShareRecords
  <2>2. QED
    BY Zenon, <1>1, <1>3, <2>1 DEF ThreadRecords
<1>5. /\ thread' = [thread EXCEPT ![t] = r]
      /\ UNCHANGED <<next_tid, all_list, child_share, share, parent, reaped, panicked>>
  BY Zenon, <1>1, <1>2 DEF process_exit, Goto, TypeOK
<1>6. /\ r.pc = "die" /\ r.arg = thread[t].arg /\ r.rvalue = thread[t].rvalue
      /\ r.success = thread[t].success /\ r.result = thread[t].result
  BY Zenon, <1>1, <1>3 DEF ThreadRecords
<1> HIDE DEF r
<1>7. /\ thread' \in [Tids -> ThreadRecords] /\ thread'[t] = r
      /\ \A u \in Tids : u # t => thread'[u] = thread[u]
  BY Zenon, <1>1, <1>4, <1>5, ThreadWrite
<1>8. TypeOK'
  BY Zenon, <1>1, <1>3, <1>5, <1>7 DEF TypeOK
<1>9. /\ p \in Tids /\ thread[t].pc = "exit"
      /\ p = t
      /\ thread'[t].pc = "die" /\ thread'[t].arg = thread[t].arg
      /\ thread'[t].rvalue = thread[t].rvalue /\ thread'[t].success = thread[t].success
      /\ thread'[t].result = thread[t].result
      /\ \A u \in Tids : u # t => thread'[u] = thread[u]
      /\ next_tid' = next_tid /\ child_share' = child_share /\ share' = share /\ parent' = parent /\ reaped' = reaped
  BY Zenon, <1>1, <1>2, <1>3, <1>5, <1>6, <1>7
<1>10. Local(t, p)
  BY Zenon, <1>9 DEF Local, Busy, OnChild, OnShare
<1>11. ThreadOK(t)'
  BY Zenon, <1>1, <1>9 DEF ThreadOK, Created, OnChild, OnShare
<1>12. p \notin Created
  BY Zenon, <1>2 DEF Created
<1>13. p \in reaped' => p \in Created
  BY Zenon, <1>9 DEF Inv
<1>14. QED
  BY Zenon, <1>3, <1>8, <1>10, <1>11, <1>12, <1>13, LocalStep

\* setup is downed in the child's struct thread.
LEMMA ExecuteSetupInv ==
  ASSUME Inv, NEW t \in Tids, execute_setup(t)
  PROVE  Inv'
<1>1. TypeOK /\ ThreadOK(t) /\ thread[t] \in ThreadRecords /\ thread[t].pc = "setup"
  BY Zenon DEF Inv, TypeOK, At, execute_setup
<1>2. PICK p \in Created : p = thread[t].arg /\ parent[p] = t /\ p \notin Elems(child_share[t])
  BY Zenon, <1>1 DEF ThreadOK, OnChild
<1>3. /\ p \in Tids /\ ShareOK(p) /\ StatusOK(p) /\ LoadOK(p) /\ p # t
      /\ thread[p] \in ThreadRecords /\ thread[p].setup > 0
  BY ZenonT(30), <1>1, <1>2 DEF Inv, TypeOK, Created, ShareOK, execute_setup
<1> DEFINE r == [thread[t] EXCEPT !.pc = "link"]
<1> DEFINE c == [thread[p] EXCEPT !.setup = @ - 1]
<1>4. r \in ThreadRecords /\ c \in ThreadRecords
  <2>1. "link" \in Pcs /\ thread[p].setup - 1 \in 0 .. 1
    BY <1>3 DEF Pcs, ThreadRecords
  <2>2. r \in ThreadRecords
    BY Zenon, <1>1, <2>1 DEF ThreadRecords
  <2>3. c \in ThreadRecords
    BY Zenon, <1>3, <2>1 DEF ThreadRecords
  <2>4. QED
    BY Zenon, <2>2, <2>3
<1>5. thread' = [thread EXCEPT ![p] = c, ![t] = r]
  BY Zenon, <1>1, <1>2, <1>3 DEF execute_setup, TypeOK
<1>6. UNCHANGED <<next_tid, all_list, child_share, share, parent, reaped, panicked>>
  BY Zenon DEF execute_setup
<1>7. /\ r.pc = "link" /\ r.arg = p /\ r.success = thread[t].success
      /\ c.pc = thread[p].pc /\ c.arg = thread[p].arg /\ c.rvalue = thread[p].rvalue
      /\ c.success = thread[p].success /\ c.result = thread[p].result
  BY Zenon, <1>1, <1>2, <1>3 DEF ThreadRecords
<1> HIDE DEF r, c
<1>8. /\ thread' \in [Tids -> ThreadRecords] /\ thread'[t] = r /\ thread'[p] = c
      /\ \A u \in Tids : u # t /\ u # p => thread'[u] = thread[u]
  BY Zenon, <1>1, <1>3, <1>4, <1>5 DEF TypeOK
<1>9. TypeOK'
  BY Zenon, <1>1, <1>6, <1>8 DEF TypeOK
<1>10. Local(t, p)
  BY ZenonT(30), <1>1, <1>2, <1>3, <1>6, <1>7, <1>8 DEF Local, Busy, OnChild, OnShare
<1>11. ThreadOK(t)'
  BY ZenonT(30), <1>1, <1>2, <1>3, <1>6, <1>7, <1>8 DEF ThreadOK, Created, OnChild, OnShare
<1>12. (ByParent(p)' <=> ByParent(p)) /\ (ByChild(p)' <=> ByChild(p)) /\ (Exited(p)' <=> Exited(p))
  BY ZenonT(30), <1>1, <1>2, <1>3, <1>6, <1>7, <1>8 DEF ByParent, ByChild, Exited
<1>13. /\ \A u \in Tids : LockedBy(u, p)' <=> LockedBy(u, p)
       /\ \A u \in Tids : FreedBy(u, p)' <=> FreedBy(u, p)
  BY ZenonT(90), <1>1, <1>2, <1>3, <1>7, <1>8 DEF LockedBy, FreedBy
<1>14. ShareOK(p)'
  BY ZenonT(30), <1>3, <1>6, <1>12, <1>13 DEF ShareOK, Count
<1>15. StatusOK(p)' /\ LoadOK(p)'
  BY SMTT(30), <1>1, <1>2, <1>3, <1>6, <1>7, <1>8, <1>12 DEF StatusOK, LoadOK
<1>16. QED
  BY ZenonT(30), <1>2, <1>3, <1>6, <1>9, <1>10, <1>11, <1>14, <1>15, LocalStep DEF Inv

\* Panicking, and a stuttering step, change nothing the invariant is about.
LEMMA UnchangedInv ==
  ASSUME Inv, panicked' \in BOOLEAN,
         UNCHANGED <<next_tid, all_list, thread, child_share, share, parent, reaped>>
  PROVE  Inv'
<1>1. UNCHANGED <<next_tid, all_list, thread, child_share, share, parent, reaped>>
  BY Zenon
<1>2. TypeOK'
  BY Zenon, <1>1 DEF Inv, TypeOK
<1>3. Created' = Created
  BY Zenon, <1>1 DEF Created
<1>4. ASSUME NEW u \in Tids PROVE ThreadOK(u)' <=> ThreadOK(u)
  BY Zenon, <1>1, <1>3 DEF ThreadOK
<1>5. ASSUME NEW q \in Tids PROVE ShareOK(q)' <=> ShareOK(q)
  BY <1>1 DEF ShareOK, ByParent, ByChild, LockedBy, FreedBy
<1>6. ASSUME NEW q \in Tids
      PROVE  (StatusOK(q)' <=> StatusOK(q)) /\ (LoadOK(q)' <=> LoadOK(q))
  BY ZenonT(30), <1>1 DEF StatusOK, LoadOK, ByParent, Exited
<1>7. Created \subseteq Tids
  BY Zenon DEF Created
<1>8. QED
  BY Zenon, <1>1, <1>2, <1>3, <1>4, <1>5, <1>6, <1>7 DEF Inv

\* The new process has its two references.
LEMMA ProcessExecuteInv ==
  ASSUME Inv, NEW t \in Tids, process_execute(t)
  PROVE  Inv'
<1>1. TypeOK /\ ThreadOK(t) /\ thread[t] \in ThreadRecords /\ thread[t].pc = "user"
  BY Zenon DEF Inv, TypeOK, At, process_execute
<1>2. PICK n \in Tids : n = next_tid
  BY Zenon DEF process_execute
<1>3. /\ n \notin Created /\ n # main /\ n # t /\ thread[n].pc = "none"
      /\ child_share[n] = <<>> /\ ThreadOK(n)
  BY SMTT(30), <1>1, <1>2 DEF Inv, Created, ThreadOK, main, Tids
<1> DEFINE r == [thread[t] EXCEPT !.pc = "lookup", !.arg = n]
<1> DEFINE c == [NoThread EXCEPT !.pc = "load", !.setup = 1]
<1> DEFINE s == [NoShare EXCEPT !.state = "live", !.refcount = 2, !.loaded = TRUE]
<1>4. r \in ThreadRecords /\ c \in ThreadRecords /\ s \in ShareRecords
  <2>1. /\ "lookup" \in Pcs /\ "load" \in Pcs /\ main \in Tids /\ 0 \in 0 .. 1 /\ 1 \in 0 .. 1
        /\ FALSE \in BOOLEAN /\ TRUE \in BOOLEAN /\ 2 \in 0 .. 2
    BY ProcessAssumption DEF Pcs, main, Tids
  <2>2. -1 \in Codes \cup {-1} /\ -1 \in Codes \cup Tids \cup {-1, Uninit}
    BY Zenon
  <2>3. r \in ThreadRecords
    BY Zenon, <1>1, <2>1 DEF ThreadRecords
  <2>4. c \in ThreadRecords
    BY Zenon, <2>1, <2>2 DEF ThreadRecords, NoThread
  <2>5. s \in ShareRecords
    BY Zenon, <2>1 DEF ShareRecords, NoShare
  <2>6. QED
    BY Zenon, <2>3, <2>4, <2>5
<1>5. /\ thread' = [thread EXCEPT ![n] = c, ![t] = r]
      /\ share' = [share EXCEPT ![n] = s]
      /\ parent' = [parent EXCEPT ![n] = t]
      /\ next_tid' = n + 1 /\ all_list' = all_list \cup {n}
      /\ UNCHANGED <<child_share, reaped, panicked>>
  BY Zenon, <1>1, <1>2, <1>3 DEF process_execute, thread_create, TypeOK
<1>6. /\ r.pc = "lookup" /\ r.arg = n /\ r.success = thread[t].success
      /\ r.rvalue = thread[t].rvalue
      /\ c.pc = "load" /\ c.arg = main /\ c.success = FALSE
      /\ s.state = "live" /\ s.refcount = 2 /\ s.lock = 0 /\ s.sig = 0
      /\ s.successload = 0 /\ s.loaded = TRUE
  BY Zenon, <1>1 DEF ThreadRecords, NoThread, NoShare
<1> HIDE DEF r, c, s
<1>7. /\ thread' \in [Tids -> ThreadRecords] /\ thread'[t] = r /\ thread'[n] = c
      /\ \A u \in Tids : u # t /\ u # n => thread'[u] = thread[u]
      /\ share' \in [Tids -> ShareRecords] /\ share'[n] = s
      /\ \A q \in Tids : q # n => share'[q] = share[q]
      /\ parent' \in [Tids -> Tids] /\ parent'[n] = t
      /\ \A q \in Tids : q # n => parent'[q] = parent[q]
  BY Zenon, <1>1, <1>3, <1>4, <1>5 DEF TypeOK
<1>8. TypeOK'
  <2>1. next_tid' \in 1 .. MaxTid + 1
    BY <1>5, ProcessAssumption DEF Tids
  <2>2. all_list' \in SUBSET Tids
    BY Zenon, <1>1, <1>5 DEF TypeOK
  <2>3. QED
    BY Zenon, <1>1, <1>5, <1>7, <2>1, <2>2 DEF TypeOK
<1>9. Created' = Created \cup {n} /\ next_tid' >= 2 /\ Created \subseteq Tids
  <2>1. \A q \in Tids : q < n + 1 <=> q < n \/ q = n
    BY DEF Tids
  <2>2. Created' = Created \cup {n}
    BY Zenon, <1>2, <1>3, <1>5, <2>1 DEF Created
  <2>3. QED
    BY <1>2, <1>5, <2>2 DEF Inv, Created, Tids
<1>10. ASSUME NEW u \in Tids PROVE ThreadOK(u)'
  <2>1. ThreadOK(u) /\ \A q \in Elems(child_share[u]) : q # n
    <3>1. ThreadOK(u)
      BY Zenon DEF Inv
    <3> QED
      BY ZenonT(30), <1>3, <3>1 DEF ThreadOK
  <2>2. CASE u = t
    BY SMTT(30), <1>1, <1>3, <1>5, <1>6, <1>7, <1>9, <2>1, <2>2 DEF ThreadOK, OnChild, OnShare
  <2>3. CASE u = n
    BY ZenonT(30), <1>3, <1>5, <1>6, <1>7, <1>9, <2>1, <2>3, ElemsNil DEF ThreadOK, OnChild, OnShare
  <2>4. CASE u # t /\ u # n
    <3>1. thread'[u] = thread[u] /\ child_share'[u] = child_share[u]
      BY Zenon, <1>5, <1>7, <2>4
    <3>2. \A q \in Created : parent'[q] = parent[q] /\ q \in Created'
      BY Zenon, <1>3, <1>7, <1>9
    <3>3. u \in Created' \cup {main} <=> u \in Created \cup {main}
      BY Zenon, <1>9, <2>4
    <3>4. QED
      BY ZenonT(30), <2>1, <3>1, <3>2, <3>3 DEF ThreadOK
  <2>5. QED
    BY ZenonT(30), <2>2, <2>3, <2>4
<1>11. ASSUME NEW q \in Created
       PROVE  ShareOK(q)' /\ StatusOK(q)' /\ LoadOK(q)'
  <2>1. /\ q \in Tids /\ q # n /\ share'[q] = share[q] /\ parent'[q] = parent[q]
        /\ parent[q] \in Tids /\ ShareOK(q) /\ StatusOK(q) /\ LoadOK(q)
    BY ZenonT(30), <1>1, <1>3, <1>7, <1>9 DEF Inv, TypeOK
  <2>2. thread[q].pc # "none" /\ ThreadOK(parent[q]) /\ q # parent[q]
    BY ZenonT(30), <2>1 DEF Inv, ThreadOK, ShareOK
  <2>3. ByParent(q)' <=> ByParent(q)
    <3>1. child_share' = child_share
      BY Zenon, <1>5
    <3>2. CASE parent[q] = t
      BY ZenonT(30), <1>1, <1>6, <1>7, <2>1, <3>1, <3>2 DEF ByParent
    <3>3. CASE parent[q] # t
      <4>1. CASE parent[q] = n
        BY ZenonT(90), <1>3, <1>6, <1>7, <2>1, <2>2, <3>1, <4>1 DEF ByParent, ThreadOK
      <4>2. CASE parent[q] # n
        BY ZenonT(30), <1>7, <2>1, <3>1, <3>3, <4>2 DEF ByParent
      <4> QED
        BY Zenon, <4>1, <4>2
    <3> QED
      BY Zenon, <3>2, <3>3
  <2>4. (ByChild(q)' <=> ByChild(q)) /\ (Exited(q)' <=> Exited(q))
    <3>1. CASE q = t
      BY ZenonT(30), <1>1, <1>3, <1>6, <1>7, <2>1, <3>1 DEF ByChild, Exited
    <3>2. CASE q # t
      BY ZenonT(30), <1>7, <2>1, <3>2 DEF ByChild, Exited
    <3> QED
      BY Zenon, <3>1, <3>2
  <2>5. /\ \A u \in Tids : LockedBy(u, q)' <=> LockedBy(u, q)
        /\ \A u \in Tids : FreedBy(u, q)' <=> FreedBy(u, q)
    BY SMTT(30), <1>1, <1>3, <1>6, <1>7, <2>1 DEF LockedBy, FreedBy
  <2>6. ShareOK(q)'
    BY Zenon, <2>1, <2>3, <2>4, <2>5 DEF ShareOK, Count
  <2>7. /\ Exited(q) => thread'[q].rvalue = thread[q].rvalue
        /\ thread'[q].success = thread[q].success
        /\ thread'[q].pc \in {"load", "announce"} <=> thread[q].pc \in {"load", "announce"}
        /\ thread'[q].pc = "load" <=> thread[q].pc = "load"
    BY SMTT(30), <1>1, <1>3, <1>6, <1>7, <2>1
  <2>8. \A u \in Tids : thread'[u].pc \in {"wait_lock", "wait_release"} =>
          /\ thread'[u].pc = thread[u].pc /\ thread'[u].arg = thread[u].arg
          /\ thread'[u].result = thread[u].result
    BY ZenonT(30), <1>6, <1>7
  <2>9. StatusOK(q)'
    <3>1. reaped' = reaped
      BY Zenon, <1>5
    <3>2. QED
      BY SMTT(30), <2>1, <2>3, <2>4, <2>7, <2>8, <3>1 DEF StatusOK
  <2>10. LoadOK(q)'
    BY Zenon, <2>1, <2>7 DEF LoadOK
  <2>11. QED
    BY Zenon, <2>6, <2>9, <2>10
<1>12. ShareOK(n)' /\ StatusOK(n)' /\ LoadOK(n)'
  <2>1. \A u \in Tids : thread[u].pc \in Busy => thread[u].arg # n
    BY SMTT(30), <1>3 DEF Inv, ThreadOK, Busy, OnChild, OnShare
  <2>2. ByParent(n)' /\ ByChild(n)' /\ ~Exited(n)'
    BY ZenonT(30), <1>3, <1>6, <1>7 DEF ByParent, ByChild, Exited
  <2>3. \A u \in Tids : ~LockedBy(u, n)' /\ ~FreedBy(u, n)'
    BY SMTT(30), <1>3, <1>6, <1>7, <2>1 DEF LockedBy, FreedBy, Busy, OnChild, OnShare
  <2>4. ShareOK(n)'
    BY SMTT(30), <1>3, <1>6, <1>7, <2>2, <2>3 DEF ShareOK, Count, Tids
  <2>5. n \notin reaped'
    BY Zenon, <1>3, <1>5 DEF Inv
  <2>6. StatusOK(n)'
    BY SMTT(30), <1>3, <1>6, <1>7, <2>1, <2>5 DEF StatusOK, Busy, OnChild
  <2>7. LoadOK(n)'
    BY Zenon, <1>6, <1>7 DEF LoadOK
  <2>8. QED
    BY ZenonT(30), <2>4, <2>6, <2>7
<1>13. reaped' \subseteq Created'
  BY Zenon, <1>5, <1>9 DEF Inv
<1>14. QED
  BY ZenonT(30), <1>8, <1>9, <1>10, <1>11, <1>12, <1>13 DEF Inv

\* Every step keeps the invariant.
LEMMA NextInv ==
  ASSUME Inv, [Next]_vars
  PROVE  Inv'
<1>1. CASE UNCHANGED vars
  BY Zenon, <1>1, UnchangedInv DEF vars, Inv, TypeOK
<1>2. ASSUME NEW t \in Tids, Kernel(t) PROVE Inv'
  <2>1. CASE execute_link(t)
    BY Zenon, <2>1, ExecuteLinkMainInv, ExecuteLinkExecInv
  <2>2. CASE process_exit(t)
    BY Zenon, <2>2, ProcessExitChildInv, ProcessExitOwnInv, ProcessExitMainInv
  <2>3. CASE execute_freed(t)
    BY Zenon, <2>3, UnchangedInv DEF execute_freed
  <2>4. QED
    BY Zenon, <1>2, <2>1, <2>2, <2>3, GetThreadInv, ExecuteSetupInv, ExecReturnInv,
       StartProcessInv, StartProcessUpInv, WaitSemaDownInv, WaitLockInv, WaitReleaseInv,
       WaitFreeInv, ExitShareInv, ExitShareSigInv, ExitShareReleaseInv, ExitShareFreeInv,
       ThreadExitInv DEF Kernel
<1>3. ASSUME NEW t \in Tids, User(t) PROVE Inv'
  BY Zenon, <1>3, ProcessExecuteInv, ProcessWaitInv, ProcessWaitInvalidInv, SystemExitInv DEF User
<1>4. QED
  BY Zenon, <1>1, <1>2, <1>3 DEF Next

-----------------------------------------------------------------------------
(* Theorems *)

\* The inductive invariant is an invariant.
THEOREM Invariance == Spec => []Inv
<1>1. Init => Inv
  BY Zenon, InitInv
<1>2. Inv /\ [Next]_vars => Inv'
  BY Zenon, NextInv
<1>3. QED
  BY <1>1, <1>2, PTL DEF Spec

\* Whatever a thread can still access is in use.
LEMMA AccessibleLive ==
  ASSUME Inv, NEW t \in Tids, NEW p \in Accessible(t)
  PROVE  share[p].state = "live"
<1>1. ThreadOK(t) /\ TypeOK
  BY Zenon DEF Inv
<1>2. p \in Created
  BY Zenon, <1>1 DEF Accessible, ThreadOK, OnChild, OnShare
<1>3. p \in Tids /\ ShareOK(p) /\ share[p] \in ShareRecords /\ parent[p] # p
  BY ZenonT(30), <1>1, <1>2 DEF Inv, TypeOK, Created, ShareOK
<1>4. ByParent(p) \/ ByChild(p) \/ LockedBy(t, p) \/ FreedBy(t, p)
  <2>1. CASE p \in Elems(child_share[t])
    BY Zenon, <1>1, <2>1 DEF ThreadOK, ByParent
  <2>2. CASE p # t /\ p \notin Elems(child_share[t])
    BY Zenon, <1>1, <2>2 DEF Accessible, ThreadOK, OnChild, OnShare, ByParent, LockedBy, FreedBy
  <2>3. CASE p = t
    BY Zenon, <1>1, <1>2, <2>3 DEF Accessible, ThreadOK, ByChild, LockedBy, FreedBy, Created, OnChild, OnShare, ByParent
  <2>4. QED
    BY Zenon, <2>1, <2>2, <2>3
<1>5. QED
  BY <1>3, <1>4, ProcessAssumption DEF ShareOK, Count, Tids

\* The share of two threads that are gone is gone.
LEMMA GoneFreed ==
  ASSUME Inv, NEW t \in Tids, t # main,
         thread[t].pc = "dead", thread[parent[t]].pc = "dead"
  PROVE  share[t].state = "freed"
<1>1. /\ TypeOK /\ ThreadOK(t) /\ parent[t] \in Tids /\ ThreadOK(parent[t])
      /\ share[t] \in ShareRecords
  BY Zenon DEF Inv, TypeOK
<1>2. t \in Created /\ ShareOK(t)
  BY ZenonT(30), <1>1 DEF Inv, ThreadOK
<1>3. ~ByParent(t) /\ ~ByChild(t)
  BY Zenon, <1>1, ElemsNil DEF ByParent, ByChild, ThreadOK
<1>4. ASSUME NEW u \in Tids PROVE ~LockedBy(u, t) /\ ~FreedBy(u, t)
  <2>1. ThreadOK(u)
    BY Zenon DEF Inv
  <2>2. QED
    BY Zenon, <1>1, <2>1 DEF ThreadOK, LockedBy, FreedBy, OnChild, OnShare
<1>5. share[t].refcount = 0 /\ share[t].lock = 0
  BY SMTT(30), <1>1, <1>2, <1>3, <1>4 DEF ShareOK, Count, ShareRecords
<1>6. QED
  BY Zenon, <1>1, <1>2, <1>4, <1>5 DEF ShareOK, ShareRecords

\* Parent and child let go of their process_share in any order, in process_wait
\* and process_exit: neither touches it after it was freed, and when both are
\* gone so is the share.
THEOREM SharesStayConsistent == Spec => []SharesConsistent
<1>1. Inv => SharesConsistent
  BY Zenon, AccessibleLive, GoneFreed DEF Inv, SharesConsistent, NoUseAfterFree, NoShareLeak
<1>2. QED
  BY <1>1, Invariance, PTL

\* process_wait returns what the child passed to exit, and succeeds at most
\* once for a child.
THEOREM WaitsReturnStatus == Spec => []WaitReturnsStatus
<1>1. ASSUME Inv, NEW t \in Tids
      PROVE  /\ thread[t].pc = "wait_release" => thread[t].result = thread[thread[t].arg].rvalue
             /\ thread[t].pc \in {"wait_sig", "wait_lock"} => thread[t].arg \notin reaped
  <2>1. ThreadOK(t) /\ \A p \in Created : StatusOK(p)
    BY Zenon, <1>1 DEF Inv
  <2>2. thread[t].pc \in OnChild => StatusOK(thread[t].arg) /\ parent[thread[t].arg] = t
    BY Zenon, <2>1 DEF ThreadOK
  <2>3. QED
    BY Zenon, <2>2 DEF StatusOK, ByParent, OnChild
<1>2. Inv => WaitReturnsStatus
  BY Zenon, <1>1 DEF WaitReturnsStatus
<1>3. QED
  BY <1>2, Invariance, PTL

\* exec returns after the child's load is over, and reports whether it succeeded.
THEOREM ExecsReportLoad == Spec => ExecReportsLoad
<1> DEFINE Reports ==
      \A t \in Tids : exec_return(t) =>
        LET p == thread[t].arg
        IN  /\ thread[p].pc \notin {"load", "announce"}
            /\ thread[t].result' = IF thread[p].success THEN p ELSE -1
<1>1. ASSUME Inv, NEW t \in Tids, exec_return(t)
      PROVE  /\ thread[thread[t].arg].pc \notin {"load", "announce"}
             /\ thread[t].result' = IF thread[thread[t].arg].success THEN thread[t].arg ELSE -1
  <2>1. TypeOK /\ ThreadOK(t) /\ thread[t] \in ThreadRecords /\ thread[t].pc = "exec_wait"
    BY Zenon, <1>1 DEF Inv, TypeOK, At, exec_return
  <2>2. PICK p \in Created : p = thread[t].arg
    BY Zenon, <2>1 DEF ThreadOK
  <2>3. LoadOK(p) /\ share[p].successload > 0
    BY Zenon, <1>1, <2>2 DEF Inv, exec_return
  <2>4. thread[p].pc \notin {"load", "announce"} /\ share[p].loaded = thread[p].success
    BY <2>3 DEF LoadOK
  <2>5. thread'[t].result = IF share[p].loaded THEN p ELSE -1
    BY Zenon, <1>1, <2>1, <2>2 DEF exec_return, TypeOK, ThreadRecords
  <2>6. QED
    BY Zenon, <2>2, <2>4, <2>5
<1>2. Inv /\ [Next]_vars => [Reports]_vars
  BY Zenon, <1>1
<1>3. QED
  BY <1>2, Invariance, PTL DEF Spec, ExecReportsLoad
=============================================================================
