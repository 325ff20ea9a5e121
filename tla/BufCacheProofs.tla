--------------------------- MODULE BufCacheProofs ---------------------------
(***************************************************************************)
(* Proofs about BufCache, for any number of threads, entries and sectors   *)
(* and for sectors of any size: its invariants, and that it implements     *)
(* BlockStore.                                                             *)
(***************************************************************************)
EXTENDS BufCache, TLAPS

\* A thread outside the cache has no request, one inside has a proper one.
Requesting ==
  \A t \in Threads : IF pc[t] = "idle" THEN req[t] = NoRequest
                     ELSE req[t] \in Abstract!Requests

\* Only a thread in cond_wait is in a condition's queue, and in one only.
WaitersWait ==
  \A t \in Threads :
    /\ t \in until_one_ready =>
         pc[t] = "wait" /\ \A e \in Entries : t \notin until_ready[e]
    /\ \A e \in Entries : t \in until_ready[e] =>
         pc[t] = "wait" /\ \A f \in Entries : t \in until_ready[f] => f = e

\* Only an entry of a sector is ever dirty.
DirtyIsCached == \A e \in Entries : dirty[e] => sector[e] \in Sectors

\* What a thread that transfers an entry can rely on without the lock: the
\* entry stays as clean() or replace() left it, and once the transfer is over
\* the entry and the disk agree.
Owns(t) ==
  /\ entry[t] \in Entries
  /\ ~ready[entry[t]]
  /\ sector[entry[t]] \in Sectors
  /\ pc[t] \in {"write", "written"} => dirty[entry[t]]
  /\ pc[t] \in {"read", "filled"} =>
       ~dirty[entry[t]] /\ sector[entry[t]] = req[t].sector
  /\ pc[t] \in {"written", "filled"} => contents[entry[t]] = disk[sector[entry[t]]]

\* A thread that transfers an entry owns it, and alone.
TransferConsistent ==
  \A t \in Threads : Transferring(t) =>
    /\ Owns(t)
    /\ \A u \in Threads : Transferring(u) /\ entry[u] = entry[t] => u = t

\* The inductive invariant.
Inv ==
  /\ TypeOK
  /\ Requesting
  /\ WaitersWait
  /\ DirtyIsCached
  /\ OneEntryPerSector
  /\ TransferConsistent
  /\ OneTransferPerEntry
  /\ NoMissedBroadcast
  /\ CleanMatchesDisk
  /\ LruComplete

-----------------------------------------------------------------------------
\* A request is about one sector and its bytes are the sector's.
LEMMA RequestType ==
  ASSUME NEW r \in Abstract!Requests
  PROVE  /\ r.sector \in Sectors
         /\ r.op \in {"read", "write"}
         /\ r.op = "write" => r.byte \in Values
BY Zenon DEF Abstract!Requests, Abstract!ReadRequests, Abstract!WriteRequests

\* memcpy yields a sector's contents.
LEMMA CopyType ==
  ASSUME NEW r \in Abstract!Requests, NEW c \in Abstract!Contents,
         NEW b \in Abstract!Contents
  PROVE  /\ Abstract!Copied(b, c, r) \in Abstract!Contents
         /\ r.op = "write" => Abstract!Patched(c, r) \in Abstract!Contents
         /\ Abstract!Zeros \in Abstract!Contents
BY Zenon, RequestType, BufCacheAssumption
   DEF Abstract!Copied, Abstract!Patched, Abstract!Contents, Abstract!Zeros

\* find returns the entry of a cached sector.
LEMMA FindEntry ==
  ASSUME TypeOK, OneEntryPerSector, NEW s \in Sectors, Cached(s)
  PROVE  /\ find(s) \in Entries
         /\ sector[find(s)] = s
         /\ \A f \in Entries : sector[f] = s => f = find(s)
<1>1. PICK e \in Entries : sector[e] = s
  BY Zenon DEF Cached
<1>2. \A f \in Entries : sector[f] = s => f = e
  BY Zenon, <1>1, BufCacheAssumption DEF OneEntryPerSector
<1>3. \A f \in Entries : sector[f] = s => e <= f
  BY <1>2 DEF Entries
<1>4. find(s) \in Entries /\ sector[find(s)] = s
  BY Zenon, <1>1, <1>3 DEF find
<1>5. QED
  BY Zenon, <1>2, <1>4

\* A non-empty set of numbers of 1 .. n has a greatest element, so that a search
\* of a list from the back ends: proved as LastExists, below.
HasLast ==
  \A n \in Nat : \A S \in SUBSET (1 .. n) :
    S # {} => \E i \in S : \A j \in i + 1 .. n : j \notin S

\* When some entry is ready, get_eviction_candidate returns a ready one.
LEMMA CandidateReady ==
  ASSUME HasLast, TypeOK, LruComplete, Evictable
  PROVE  /\ get_eviction_candidate \in Entries
         /\ ready[get_eviction_candidate]
<1> DEFINE S == {i \in 1 .. NUM_ENTRIES : ready[lru_list[i]]}
<1>1. S # {}
  BY Zenon DEF Evictable, LruComplete
<1>2. \E i \in S : \A j \in i + 1 .. NUM_ENTRIES : j \notin S
  BY <1>1, BufCacheAssumption, ZenonT(90) DEF HasLast
<1>3. \E i \in 1 .. NUM_ENTRIES :
        /\ ready[lru_list[i]]
        /\ \A j \in i + 1 .. NUM_ENTRIES : ~ready[lru_list[j]]
  BY <1>2, BufCacheAssumption
<1>4. QED
  BY Zenon, <1>3 DEF get_eviction_candidate, TypeOK

-----------------------------------------------------------------------------
\* bufcache_init establishes the invariant, on any disk.
LEMMA InvInit == Init => Inv
<1> SUFFICES ASSUME Init PROVE Inv
  BY Zenon
<1>1. TypeOK
  BY BufCacheAssumption
     DEF Init, TypeOK, Pcs, Entries, Abstract!Zeros, Abstract!Contents
<1>2. LruComplete
  <2> SUFFICES ASSUME NEW e \in Entries
               PROVE  \E i \in 1 .. NUM_ENTRIES : lru_list[i] = e
    BY Zenon DEF LruComplete
  <2>1. NUM_ENTRIES - e \in 1 .. NUM_ENTRIES /\ lru_list[NUM_ENTRIES - e] = e
    BY BufCacheAssumption DEF Init, Entries
  <2>2. QED
    BY Zenon, <2>1
<1>3. QED
  BY Zenon, <1>1, <1>2 DEF Init, Inv, Requesting, WaitersWait, DirtyIsCached, OneEntryPerSector,
     TransferConsistent, Transferring, CleanMatchesDisk,
     OneTransferPerEntry, NoMissedBroadcast

\* A call of bufcache_read or bufcache_write keeps the invariant.
LEMMA CallInv ==
  ASSUME Inv, NEW t \in Threads, NEW r \in Abstract!Requests, Call(t, r)
  PROVE  Inv'
<1> USE DEF Inv, Call, Goto, entryVars, condVars
<1>1. TypeOK'
  BY Zenon, CopyType, BufCacheAssumption
     DEF TypeOK, Pcs, Abstract!Zeros, Abstract!Contents
<1>2. Requesting'
  BY Zenon, RequestAssumption DEF Requesting, TypeOK
<1>3. (DirtyIsCached /\ OneEntryPerSector /\ CleanMatchesDisk /\ LruComplete)'
  BY Zenon DEF DirtyIsCached, OneEntryPerSector, CleanMatchesDisk, LruComplete
<1>4. (TransferConsistent /\ OneTransferPerEntry)'
  BY SMTT(30) DEF TransferConsistent, Owns, OneTransferPerEntry, Transferring, TypeOK
<1>5. (WaitersWait /\ NoMissedBroadcast)'
  BY ZenonT(90) DEF WaitersWait, NoMissedBroadcast, Evictable, TypeOK
<1>6. QED
  BY Zenon, <1>1, <1>2, <1>3, <1>4, <1>5

\* lock_acquire(&cache_lock) keeps the invariant.
LEMMA AcquireInv ==
  ASSUME Inv, NEW t \in Threads, Acquire(t)
  PROVE  Inv'
<1> USE DEF Inv, Acquire, Goto, entryVars, condVars
<1>1. TypeOK'
  BY Zenon DEF TypeOK, Pcs
<1>2. (Requesting /\ DirtyIsCached /\ OneEntryPerSector /\ CleanMatchesDisk /\ LruComplete)'
  BY Zenon DEF Requesting, DirtyIsCached, OneEntryPerSector, CleanMatchesDisk, LruComplete, TypeOK
<1>3. (TransferConsistent /\ OneTransferPerEntry)'
  BY DEF TransferConsistent, Owns, OneTransferPerEntry, Transferring, TypeOK
<1>4. (WaitersWait /\ NoMissedBroadcast)'
  BY ZenonT(90) DEF WaitersWait, NoMissedBroadcast, Evictable, TypeOK
<1>5. QED
  BY Zenon, <1>1, <1>2, <1>3, <1>4

\* Waiting for an entry in transfer keeps it: the thread joins one queue only.
LEMMA WaitReadyInv ==
  ASSUME Inv, NEW t \in Threads, WaitReady(t)
  PROVE  Inv'
<1> USE DEF Inv, WaitReady, Goto, entryVars
<1>1. TypeOK'
  BY Zenon DEF TypeOK, Pcs
<1>2. (Requesting /\ DirtyIsCached /\ OneEntryPerSector /\ CleanMatchesDisk /\ LruComplete)'
  BY Zenon DEF Requesting, DirtyIsCached, OneEntryPerSector, CleanMatchesDisk, LruComplete, TypeOK
<1>3. (TransferConsistent /\ OneTransferPerEntry)'
  BY SMTT(30) DEF TransferConsistent, Owns, OneTransferPerEntry, Transferring, TypeOK
<1>4. find(req[t].sector) \in Entries
  BY Zenon, RequestType, FindEntry DEF Requesting
<1>5. (WaitersWait /\ NoMissedBroadcast)'
  BY <1>4 DEF WaitersWait, NoMissedBroadcast, Evictable, TypeOK
<1>6. QED
  BY Zenon, <1>1, <1>2, <1>3, <1>5

\* Waiting for any entry keeps it.
LEMMA WaitOneReadyInv ==
  ASSUME Inv, NEW t \in Threads, WaitOneReady(t)
  PROVE  Inv'
<1> USE DEF Inv, WaitOneReady, Goto, entryVars
<1>1. TypeOK'
  BY Zenon DEF TypeOK, Pcs
<1>2. (Requesting /\ DirtyIsCached /\ OneEntryPerSector /\ CleanMatchesDisk /\ LruComplete)'
  BY Zenon DEF Requesting, DirtyIsCached, OneEntryPerSector, CleanMatchesDisk, LruComplete, TypeOK
<1>3. (TransferConsistent /\ OneTransferPerEntry)'
  BY DEF TransferConsistent, Owns, OneTransferPerEntry, Transferring, TypeOK
<1>4. (WaitersWait /\ NoMissedBroadcast)'
  BY ZenonT(90) DEF WaitersWait, NoMissedBroadcast, Evictable, TypeOK
<1>5. QED
  BY Zenon, <1>1, <1>2, <1>3, <1>4

\* Moving an element of the LRU list to its front loses none of them.
LEMMA MoveKeepsAll ==
  ASSUME TypeOK, LruComplete, NEW e \in Entries
  PROVE  /\ MovedToFront(lru_list, e) \in [1 .. NUM_ENTRIES -> Entries]
         /\ \A f \in Entries : \E i \in 1 .. NUM_ENTRIES :
              MovedToFront(lru_list, e)[i] = f
<1> DEFINE pos == CHOOSE i \in 1 .. NUM_ENTRIES : lru_list[i] = e
           new == [i \in 1 .. NUM_ENTRIES |->
                     IF i = 1 THEN e ELSE IF i <= pos THEN lru_list[i - 1]
                     ELSE lru_list[i]]
<1>1. lru_list \in [1 .. NUM_ENTRIES -> Entries] /\ DOMAIN lru_list = 1 .. NUM_ENTRIES
  BY Zenon DEF TypeOK
<1>2. MovedToFront(lru_list, e) = new
  BY Zenon, <1>1 DEF MovedToFront
<1>3. pos \in 1 .. NUM_ENTRIES /\ lru_list[pos] = e
  BY Zenon DEF LruComplete
<1> HIDE DEF pos
<1>4. new \in [1 .. NUM_ENTRIES -> Entries]
  BY <1>1, <1>3, BufCacheAssumption
<1>5. ASSUME NEW f \in Entries PROVE \E i \in 1 .. NUM_ENTRIES : new[i] = f
  <2>1. PICK j \in 1 .. NUM_ENTRIES : lru_list[j] = f
    BY Zenon DEF LruComplete
  <2>2. CASE j = pos
    BY <2>1, <2>2, <1>3, BufCacheAssumption
  <2>3. CASE j < pos
    <3>1. j + 1 \in 1 .. NUM_ENTRIES /\ new[j + 1] = f
      BY <2>1, <2>3, <1>3, BufCacheAssumption
    <3>2. QED
      BY Zenon, <3>1
  <2>4. CASE j > pos
    <3>1. new[j] = f
      BY <2>1, <2>4, <1>3, BufCacheAssumption
    <3>2. QED
      BY Zenon, <3>1
  <2>5. QED
    BY <2>2, <2>3, <2>4, <1>3, BufCacheAssumption
<1>6. QED
  BY Zenon, <1>2, <1>4, <1>5

\* Returning an entry, and the memcpy and dirty = true of the caller, keep it: a
\* ready entry is in nobody's transfer.
LEMMA HitInv ==
  ASSUME Inv, NEW t \in Threads, Hit(t)
  PROVE  Inv'
<1> DEFINE s == req[t].sector
           e == find(s)
<1>1. req[t] \in Abstract!Requests /\ s \in Sectors
  BY Zenon, RequestType DEF Inv, Requesting, Hit
<1>2. e \in Entries /\ sector[e] = s /\ ready[e]
  BY Zenon, <1>1, FindEntry DEF Inv, Hit
<1> HIDE DEF e
<1> USE DEF Inv, Goto
<1>3. /\ lru_list' = MovedToFront(lru_list, e)
      /\ req' = [req EXCEPT ![t] = NoRequest]
      /\ pc' = [pc EXCEPT ![t] = "idle"]
      /\ cache_lock' = NULL
      /\ UNCHANGED <<sector, ready, condVars, disk, entry>>
  BY Zenon DEF Hit, e
<1>4. \/ /\ buffer' = [buffer EXCEPT ![t] = Abstract!Copied(@, contents[e], req[t])]
         /\ UNCHANGED <<contents, dirty>>
      \/ /\ req[t].op = "write"
         /\ contents' = [contents EXCEPT ![e] = Abstract!Patched(@, req[t])]
         /\ dirty' = [dirty EXCEPT ![e] = TRUE]
         /\ UNCHANGED buffer
  BY Zenon DEF Hit, e
<1>5. TypeOK'
  <2>1. contents[e] \in Abstract!Contents /\ buffer[t] \in Abstract!Contents
    BY Zenon, <1>2 DEF TypeOK
  <2>2. /\ Abstract!Copied(buffer[t], contents[e], req[t]) \in Abstract!Contents
        /\ req[t].op = "write" => Abstract!Patched(contents[e], req[t]) \in Abstract!Contents
    BY Zenon, <1>1, <2>1, CopyType
  <2>3. lru_list' \in [1 .. NUM_ENTRIES -> Entries]
    BY Zenon, <1>2, <1>3, MoveKeepsAll
  <2>4. /\ contents' \in [Entries -> Abstract!Contents]
        /\ dirty' \in [Entries -> BOOLEAN]
        /\ buffer' \in [Threads -> Abstract!Contents]
    <3>1. CASE UNCHANGED <<contents, dirty>>
      BY ZenonT(90), <1>4, <2>2, <3>1 DEF TypeOK
    <3>2. CASE /\ req[t].op = "write"
               /\ contents' = [contents EXCEPT ![e] = Abstract!Patched(@, req[t])]
               /\ dirty' = [dirty EXCEPT ![e] = TRUE]
               /\ UNCHANGED buffer
      BY Zenon, <1>2, <2>2, <3>2 DEF TypeOK
    <3>3. QED
      BY Zenon, <1>4, <3>1, <3>2
  <2>5. QED
    BY <1>3, <2>3, <2>4, Zenon DEF TypeOK, Pcs, condVars
<1>6. Requesting'
  BY Zenon, <1>3 DEF Requesting, TypeOK
<1>7. DirtyIsCached'
  BY Zenon, <1>1, <1>2, <1>3, <1>4 DEF DirtyIsCached, TypeOK
<1>8. OneEntryPerSector'
  BY Zenon, <1>3 DEF OneEntryPerSector
<1>9. TransferConsistent'
  <2>1. \A u \in Threads : Transferring(u)' => Transferring(u) /\ u # t
    BY Zenon, <1>3 DEF Transferring, TypeOK
  <2>2. \A u \in Threads : Transferring(u)' =>
          /\ pc'[u] = pc[u] /\ req'[u] = req[u] /\ entry'[u] = entry[u]
          /\ entry[u] # e
          /\ contents'[entry[u]] = contents[entry[u]] /\ dirty'[entry[u]] = dirty[entry[u]]
    BY <1>2, <1>3, <1>4, <2>1 DEF TransferConsistent, Owns, TypeOK
  <2>3. QED
    BY <1>3, <2>1, <2>2 DEF TransferConsistent, Owns
<1>10. CleanMatchesDisk'
  BY ZenonT(90), <1>2, <1>3, <1>4 DEF CleanMatchesDisk, TypeOK
<1>11. LruComplete'
  BY <1>2, <1>3, MoveKeepsAll, Zenon DEF LruComplete
<1>12. OneTransferPerEntry'
  BY SMTT(30), <1>3 DEF OneTransferPerEntry, Transferring, TypeOK, Hit
<1>13. (WaitersWait /\ NoMissedBroadcast)'
  BY <1>3 DEF WaitersWait, NoMissedBroadcast, Evictable, TypeOK, condVars, Hit
<1>14. QED
  BY Zenon, <1>5, <1>6, <1>7, <1>8, <1>9, <1>10, <1>11, <1>12, <1>13

\* The start of clean() keeps it: the entry it takes out of reach was ready.
LEMMA BeginCleanInv ==
  ASSUME HasLast, Inv, NEW t \in Threads, BeginClean(t)
  PROVE  Inv'
<1> DEFINE e == get_eviction_candidate
<1>1. e \in Entries /\ ready[e]
  BY Zenon, CandidateReady DEF Inv, BeginClean
<1> HIDE DEF e
<1>2. /\ pc[t] = "access"
      /\ dirty[e]
      /\ ready' = [ready EXCEPT ![e] = FALSE]
      /\ entry' = [entry EXCEPT ![t] = e]
      /\ cache_lock' = NULL
      /\ pc' = [pc EXCEPT ![t] = "write"]
      /\ UNCHANGED <<sector, dirty, contents, lru_list, condVars, disk, req, buffer>>
  BY Zenon DEF BeginClean, Goto, e
<1> USE DEF Inv
<1>3. TypeOK'
  BY Zenon, <1>1, <1>2 DEF TypeOK, Pcs, condVars
<1>4. (Requesting /\ DirtyIsCached /\ OneEntryPerSector /\ LruComplete)'
  BY Zenon, <1>2 DEF Requesting, DirtyIsCached, OneEntryPerSector, LruComplete, TypeOK
<1>5. CleanMatchesDisk'
  BY Zenon, <1>1, <1>2 DEF CleanMatchesDisk, TypeOK
<1>6. TransferConsistent'
  BY <1>1, <1>2 DEF TransferConsistent, Owns, Transferring, DirtyIsCached, TypeOK
<1>7. OneTransferPerEntry'
  BY <1>1, <1>2 DEF OneTransferPerEntry, Transferring, TypeOK
<1>8. (WaitersWait /\ NoMissedBroadcast)'
  BY <1>1, <1>2 DEF WaitersWait, NoMissedBroadcast, Evictable, TypeOK, condVars
<1>9. QED
  BY Zenon, <1>3, <1>4, <1>5, <1>6, <1>7, <1>8

\* The write of clean() keeps it: no other entry has the sector written.
LEMMA BlockWriteInv ==
  ASSUME Inv, NEW t \in Threads, block_write(t)
  PROVE  Inv'
<1> DEFINE e == entry[t]
<1>1. e \in Entries /\ ~ready[e] /\ sector[e] \in Sectors /\ dirty[e]
  BY Zenon DEF Inv, block_write, TransferConsistent, Owns, Transferring
<1>2. /\ pc[t] = "write"
      /\ disk' = [disk EXCEPT ![sector[e]] = contents[e]]
      /\ pc' = [pc EXCEPT ![t] = "written"]
      /\ UNCHANGED <<entryVars, condVars, cache_lock, req, buffer, entry>>
  BY Zenon DEF block_write, Goto
<1> USE DEF Inv
<1>3. TypeOK'
  BY Zenon, <1>1, <1>2 DEF TypeOK, Pcs, condVars, entryVars
<1>4. (Requesting /\ DirtyIsCached /\ OneEntryPerSector /\ LruComplete)'
  BY Zenon, <1>2 DEF Requesting, DirtyIsCached, OneEntryPerSector, LruComplete, TypeOK, entryVars
<1>5. \A f \in Entries : f # e /\ sector[f] \in Sectors => disk'[sector[f]] = disk[sector[f]]
  BY ZenonT(30), <1>1, <1>2, BufCacheAssumption DEF OneEntryPerSector, TypeOK
<1>6. CleanMatchesDisk'
  BY ZenonT(30), <1>1, <1>2, <1>5 DEF CleanMatchesDisk, TypeOK, entryVars
<1>7. TransferConsistent'
  <2>1. disk'[sector[e]] = contents[e]
    BY Zenon, <1>1, <1>2 DEF TypeOK
  <2>2. \A u \in Threads : Transferring(u)' => Transferring(u)
    BY Zenon, <1>2 DEF Transferring, TypeOK
  <2>3. \A u \in Threads : u # t => pc'[u] = pc[u]
    BY Zenon, <1>2 DEF TypeOK
  <2>4. \A u \in Threads : Transferring(u) /\ u # t => entry[u] # e
    BY Zenon, <1>2 DEF TransferConsistent, Owns, Transferring
  <2>5. pc'[t] = "written"
    BY Zenon, <1>2 DEF TypeOK
  <2>6. QED
    BY SMTT(30), <1>1, <1>2, <1>5, <2>1, <2>2, <2>3, <2>4, <2>5 DEF TransferConsistent, Owns, entryVars
<1>8. OneTransferPerEntry'
  BY <1>2 DEF OneTransferPerEntry, Transferring, TypeOK, entryVars
<1>9. (WaitersWait /\ NoMissedBroadcast)'
  BY ZenonT(90), <1>2 DEF WaitersWait, NoMissedBroadcast, Evictable, TypeOK, condVars, entryVars
<1>10. QED
  BY Zenon, <1>3, <1>4, <1>6, <1>7, <1>8, <1>9

\* Finish wakes threads that wait, and so interrupts no other transfer.
LEMMA FinishStep ==
  ASSUME Inv, NEW t \in Threads, Transferring(t), Finish(t)
  PROVE  /\ entry[t] \in Entries
         /\ ready' = [ready EXCEPT ![entry[t]] = TRUE]
         /\ entry' \in [Threads -> Entries \cup {NULL}]
         /\ pc' \in [Threads -> Pcs]
         /\ \A u \in Threads : pc'[u] = "idle" <=> pc[u] = "idle"
         /\ \A u \in Threads : Transferring(u)' <=> Transferring(u) /\ u # t
         /\ \A u \in Threads : Transferring(u) /\ u # t =>
              pc'[u] = pc[u] /\ entry'[u] = entry[u] /\ entry[u] # entry[t]
<1>0. TypeOK /\ TransferConsistent /\ WaitersWait
  BY Zenon DEF Inv
<1>1. /\ entry[t] \in Entries
      /\ ready' = [ready EXCEPT ![entry[t]] = TRUE]
      /\ entry' \in [Threads -> Entries \cup {NULL}]
      /\ pc' \in [Threads -> Pcs]
      /\ pc'[t] = "access"
  BY Zenon, <1>0 DEF TypeOK, Finish, TransferConsistent, Owns, Pcs
<1>2. \A u \in Threads : u # t =>
        /\ entry'[u] = entry[u]
        /\ pc'[u] = pc[u] \/ (pc[u] = "wait" /\ pc'[u] = "lock")
  BY Zenon, <1>0, <1>1 DEF Finish, TypeOK, WaitersWait
<1>3. \A u \in Threads : Transferring(u) /\ u # t => entry[u] # entry[t]
  BY Zenon, <1>0 DEF TransferConsistent, Owns
<1>4. \A u \in Threads : pc'[u] = "idle" <=> pc[u] = "idle"
  BY Zenon, <1>1, <1>2 DEF Transferring
<1>5. \A u \in Threads : Transferring(u)' <=> Transferring(u) /\ u # t
  BY Zenon, <1>1, <1>2 DEF Transferring
<1>6. \A u \in Threads : Transferring(u) /\ u # t => pc'[u] = pc[u]
  BY Zenon, <1>2 DEF Transferring
<1>7. QED
  BY Zenon, <1>1, <1>2, <1>3, <1>4, <1>5, <1>6

\* After Finish, who waits for another entry waits on, and the entry of the
\* transfer that ends has nobody else.
LEMMA FinishKeeps ==
  ASSUME Inv, NEW t \in Threads, Transferring(t), Finish(t)
  PROVE  (WaitersWait /\ NoMissedBroadcast /\ OneTransferPerEntry)'
<1>0. TypeOK /\ WaitersWait /\ NoMissedBroadcast /\ OneTransferPerEntry
  BY Zenon DEF Inv
<1>1. /\ entry[t] \in Entries
      /\ ready' = [ready EXCEPT ![entry[t]] = TRUE]
      /\ \A u \in Threads : Transferring(u)' <=> Transferring(u) /\ u # t
      /\ \A u \in Threads : Transferring(u) /\ u # t =>
           entry'[u] = entry[u] /\ entry[u] # entry[t]
  BY Zenon, FinishStep
<1>2. /\ until_ready' = [until_ready EXCEPT ![entry[t]] = {}]
      /\ until_one_ready' = {}
      /\ \A u \in Threads : pc'[u] = IF u = t THEN "access"
           ELSE IF u \in until_ready[entry[t]] \cup until_one_ready THEN "lock"
           ELSE pc[u]
  BY Zenon DEF Finish
<1>3. pc[t] # "wait"
  BY Zenon DEF Transferring
<1>4. \A u \in Threads : \A e \in Entries : u \in until_ready[e] /\ e # entry[t] =>
        pc'[u] = "wait"
  BY Zenon, <1>0, <1>1, <1>2, <1>3 DEF WaitersWait
<1>5. WaitersWait' /\ NoMissedBroadcast'
  BY SMTT(30), <1>0, <1>1, <1>2, <1>3, <1>4 DEF TypeOK, WaitersWait, NoMissedBroadcast
<1>6. OneTransferPerEntry'
  BY <1>0, <1>1 DEF OneTransferPerEntry, TypeOK
<1>7. QED
  BY Zenon, <1>5, <1>6

\* The end of clean() keeps it: the entry it marks clean equals the disk.
LEMMA EndCleanInv ==
  ASSUME Inv, NEW t \in Threads, EndClean(t)
  PROVE  Inv'
<1> DEFINE e == entry[t]
<1>1. Transferring(t) /\ Finish(t) /\ pc[t] = "written"
  BY Zenon DEF EndClean, Transferring
<1>2. /\ dirty' = [dirty EXCEPT ![e] = FALSE]
      /\ UNCHANGED <<sector, contents, lru_list, disk, req, buffer>>
  BY Zenon DEF EndClean
<1>3. /\ TypeOK /\ Requesting /\ DirtyIsCached /\ OneEntryPerSector /\ LruComplete
      /\ TransferConsistent /\ CleanMatchesDisk
  BY Zenon DEF Inv
<1>4. /\ e \in Entries /\ ~ready[e] /\ sector[e] \in Sectors
      /\ contents[e] = disk[sector[e]]
  BY Zenon, <1>1, <1>3 DEF TransferConsistent, Owns
<1>5. /\ ready' = [ready EXCEPT ![e] = TRUE]
      /\ entry' \in [Threads -> Entries \cup {NULL}]
      /\ pc' \in [Threads -> Pcs]
      /\ \A u \in Threads : pc'[u] = "idle" <=> pc[u] = "idle"
      /\ \A u \in Threads : Transferring(u)' <=> Transferring(u) /\ u # t
      /\ \A u \in Threads : Transferring(u) /\ u # t =>
           pc'[u] = pc[u] /\ entry'[u] = entry[u] /\ entry[u] # entry[t]
  BY Zenon, <1>1, FinishStep
<1>6. /\ cache_lock' = t
      /\ until_ready' = [until_ready EXCEPT ![e] = {}]
      /\ until_one_ready' = {}
  BY Zenon, <1>1 DEF Finish
<1>7. TypeOK'
  BY Zenon, <1>2, <1>3, <1>4, <1>5, <1>6 DEF TypeOK
<1>8. Requesting'
  BY Zenon, <1>2, <1>3, <1>5 DEF Requesting
<1>9. (DirtyIsCached /\ OneEntryPerSector /\ LruComplete)'
  BY Zenon, <1>2, <1>3 DEF TypeOK, DirtyIsCached, OneEntryPerSector, LruComplete
<1>10. CleanMatchesDisk'
  BY ZenonT(30), <1>2, <1>3, <1>4, <1>5 DEF TypeOK, CleanMatchesDisk
<1>11. TransferConsistent'
  <2>1. \A f \in Entries : f # e => ready'[f] = ready[f] /\ dirty'[f] = dirty[f]
    BY Zenon, <1>2, <1>3, <1>5 DEF TypeOK
  <2>2. ASSUME NEW u \in Threads, Transferring(u), u # t PROVE Owns(u)'
    <3>1. Owns(u) /\ entry'[u] = entry[u] /\ entry[u] # e /\ pc'[u] = pc[u]
      BY Zenon, <1>3, <1>5, <2>2 DEF TransferConsistent
    <3>2. QED
      BY Zenon, <1>2, <2>1, <3>1 DEF Owns
  <2>3. QED
    BY Zenon, <1>3, <1>5, <2>2 DEF TransferConsistent
<1>12. (WaitersWait /\ NoMissedBroadcast /\ OneTransferPerEntry)'
  BY Zenon, <1>1, FinishKeeps
<1>13. QED
  BY Zenon, <1>7, <1>8, <1>9, <1>10, <1>11, <1>12 DEF Inv

\* The end of replace() keeps it: the entry it makes ready equals the disk.
LEMMA EndReplaceInv ==
  ASSUME Inv, NEW t \in Threads, EndReplace(t)
  PROVE  Inv'
<1> DEFINE e == entry[t]
<1>1. Transferring(t) /\ Finish(t) /\ pc[t] = "filled"
  BY Zenon DEF EndReplace, Transferring
<1>2. UNCHANGED <<sector, dirty, contents, lru_list, disk, req, buffer>>
  BY Zenon DEF EndReplace
<1>3. /\ TypeOK /\ Requesting /\ DirtyIsCached /\ OneEntryPerSector /\ LruComplete
      /\ TransferConsistent /\ CleanMatchesDisk
  BY Zenon DEF Inv
<1>4. /\ e \in Entries /\ ~ready[e] /\ sector[e] \in Sectors
      /\ contents[e] = disk[sector[e]]
  BY Zenon, <1>1, <1>3 DEF TransferConsistent, Owns
<1>5. /\ ready' = [ready EXCEPT ![e] = TRUE]
      /\ entry' \in [Threads -> Entries \cup {NULL}]
      /\ pc' \in [Threads -> Pcs]
      /\ \A u \in Threads : pc'[u] = "idle" <=> pc[u] = "idle"
      /\ \A u \in Threads : Transferring(u)' <=> Transferring(u) /\ u # t
      /\ \A u \in Threads : Transferring(u) /\ u # t =>
           pc'[u] = pc[u] /\ entry'[u] = entry[u] /\ entry[u] # entry[t]
  BY Zenon, <1>1, FinishStep
<1>6. /\ cache_lock' = t
      /\ until_ready' = [until_ready EXCEPT ![e] = {}]
      /\ until_one_ready' = {}
  BY Zenon, <1>1 DEF Finish
<1>7. TypeOK'
  BY Zenon, <1>2, <1>3, <1>4, <1>5, <1>6 DEF TypeOK
<1>8. Requesting'
  BY Zenon, <1>2, <1>3, <1>5 DEF Requesting
<1>9. (DirtyIsCached /\ OneEntryPerSector /\ LruComplete)'
  BY Zenon, <1>2, <1>3 DEF DirtyIsCached, OneEntryPerSector, LruComplete
<1>10. CleanMatchesDisk'
  BY Zenon, <1>2, <1>3, <1>4, <1>5 DEF TypeOK, CleanMatchesDisk
<1>11. TransferConsistent'
  <2>1. \A f \in Entries : f # e => ready'[f] = ready[f]
    BY Zenon, <1>3, <1>5 DEF TypeOK
  <2>2. ASSUME NEW u \in Threads, Transferring(u), u # t PROVE Owns(u)'
    <3>1. Owns(u) /\ entry'[u] = entry[u] /\ entry[u] # e /\ pc'[u] = pc[u]
      BY Zenon, <1>3, <1>5, <2>2 DEF TransferConsistent
    <3>2. QED
      BY Zenon, <1>2, <2>1, <3>1 DEF Owns
  <2>3. QED
    BY Zenon, <1>3, <1>5, <2>2 DEF TransferConsistent
<1>12. (WaitersWait /\ NoMissedBroadcast /\ OneTransferPerEntry)'
  BY Zenon, <1>1, FinishKeeps
<1>13. QED
  BY Zenon, <1>7, <1>8, <1>9, <1>10, <1>11, <1>12 DEF Inv

\* other entry has the sector.
LEMMA BeginReplaceInv ==
  ASSUME HasLast, Inv, NEW t \in Threads, BeginReplace(t)
  PROVE  Inv'
<1> DEFINE e == get_eviction_candidate
<1>1. e \in Entries /\ ready[e]
  BY Zenon, CandidateReady DEF Inv, BeginReplace
<1> HIDE DEF e
<1>2. /\ pc[t] = "access"
      /\ ~Cached(req[t].sector)
      /\ ~dirty[e]
      /\ sector' = [sector EXCEPT ![e] = req[t].sector]
      /\ ready' = [ready EXCEPT ![e] = FALSE]
      /\ entry' = [entry EXCEPT ![t] = e]
      /\ cache_lock' = NULL
      /\ pc' = [pc EXCEPT ![t] = "read"]
      /\ UNCHANGED <<dirty, contents, lru_list, condVars, disk, req, buffer>>
  BY Zenon DEF BeginReplace, Goto, e
<1>3. req[t].sector \in Sectors
  BY Zenon, <1>2, RequestType DEF Inv, Requesting
<1> USE DEF Inv
<1>4. TypeOK'
  BY Zenon, <1>1, <1>2, <1>3 DEF TypeOK, Pcs, condVars
<1>5. (Requesting /\ DirtyIsCached /\ LruComplete)'
  BY Zenon, <1>1, <1>2, <1>3 DEF Requesting, DirtyIsCached, LruComplete, TypeOK
<1>6. OneEntryPerSector'
  BY Zenon, <1>1, <1>2 DEF OneEntryPerSector, Cached, TypeOK
<1>7. CleanMatchesDisk'
  BY ZenonT(30), <1>1, <1>2 DEF CleanMatchesDisk, TypeOK
<1>8. TransferConsistent'
  BY <1>1, <1>2, <1>3 DEF TransferConsistent, Owns, Transferring, TypeOK
<1>9. OneTransferPerEntry'
  BY SMTT(30), <1>1, <1>2 DEF OneTransferPerEntry, Transferring, TypeOK
<1>10. (WaitersWait /\ NoMissedBroadcast)'
  BY <1>1, <1>2 DEF WaitersWait, NoMissedBroadcast, Evictable, TypeOK, condVars
<1>11. QED
  BY Zenon, <1>4, <1>5, <1>6, <1>7, <1>8, <1>9, <1>10

\* The read of replace() keeps it: the entry it fills is nobody else's.
LEMMA BlockReadInv ==
  ASSUME Inv, NEW t \in Threads, block_read(t)
  PROVE  Inv'
<1> DEFINE e == entry[t]
<1>1. Transferring(t) /\ pc[t] = "read"
  BY Zenon DEF block_read, Transferring
<1>2. /\ e \in Entries /\ ~ready[e] /\ ~dirty[e] /\ sector[e] = req[t].sector
      /\ sector[e] \in Sectors
  BY <1>1, Zenon DEF Inv, TransferConsistent, Owns
<1>3. /\ contents' = [contents EXCEPT ![e] = disk[sector[e]]]
      /\ pc' = [pc EXCEPT ![t] = "filled"]
      /\ UNCHANGED <<sector, ready, dirty, lru_list, condVars, cache_lock, disk, req,
                     buffer, entry>>
  BY Zenon, <1>2 DEF block_read, Goto
<1> USE DEF Inv
<1>4. TypeOK'
  BY Zenon, <1>2, <1>3 DEF TypeOK, Pcs, condVars
<1>5. (Requesting /\ DirtyIsCached /\ OneEntryPerSector /\ LruComplete)'
  BY Zenon, <1>1, <1>3 DEF Requesting, DirtyIsCached, OneEntryPerSector, LruComplete, TypeOK
<1>6. CleanMatchesDisk'
  BY Zenon, <1>2, <1>3 DEF CleanMatchesDisk, TypeOK
<1>7. TransferConsistent'
  <2>1. \A u \in Threads : Transferring(u)' => Transferring(u)
    BY Zenon, <1>1, <1>3 DEF Transferring, TypeOK
  <2>2. \A u \in Threads : Transferring(u) /\ u # t =>
          pc'[u] = pc[u] /\ entry[u] # e /\ contents'[entry[u]] = contents[entry[u]]
    BY ZenonT(30), <1>1, <1>2, <1>3 DEF TransferConsistent, Owns, TypeOK
  <2>3. pc'[t] = "filled" /\ contents'[e] = disk[sector[e]]
    BY Zenon, <1>2, <1>3 DEF TypeOK
  <2>4. ASSUME NEW u \in Threads, Transferring(u) PROVE Owns(u)'
    <3>1. CASE u = t
      BY Zenon, <1>1, <1>2, <1>3, <2>3, <3>1 DEF Owns
    <3>2. CASE u # t
      <4>1. Owns(u)
        BY Zenon, <2>4 DEF TransferConsistent
      <4>2. QED
        BY ZenonT(30), <1>3, <2>2, <2>4, <3>2, <4>1 DEF Owns
    <3>3. QED
      BY Zenon, <3>1, <3>2
  <2>5. QED
    BY <1>3, <2>1, <2>4, Zenon DEF TransferConsistent
<1>8. OneTransferPerEntry'
  BY <1>1, <1>3 DEF OneTransferPerEntry, Transferring, TypeOK
<1>9. (WaitersWait /\ NoMissedBroadcast)'
  BY ZenonT(30), <1>1, <1>3 DEF WaitersWait, NoMissedBroadcast, Evictable, TypeOK, condVars
<1>10. QED
  BY Zenon, <1>4, <1>5, <1>6, <1>7, <1>8, <1>9

\* Every step of bufcache.c keeps the inductive invariant.
LEMMA InvNext ==
  ASSUME HasLast, Inv, [Next]_vars
  PROVE  Inv'
<1>1. CASE UNCHANGED vars
  <2> USE <1>1 DEF vars, entryVars, condVars, Inv
  <2>1. TypeOK'
    BY Zenon DEF TypeOK
  <2>2. (Requesting /\ WaitersWait /\ DirtyIsCached /\ OneEntryPerSector /\ LruComplete)'
    BY Zenon DEF Requesting, WaitersWait, DirtyIsCached, OneEntryPerSector, LruComplete
  <2>3. (TransferConsistent /\ OneTransferPerEntry)'
    BY DEF TransferConsistent, Owns, Transferring, OneTransferPerEntry
  <2>4. (NoMissedBroadcast /\ CleanMatchesDisk)'
    BY Zenon DEF NoMissedBroadcast, Evictable, CleanMatchesDisk
  <2>5. QED
    BY Zenon, <2>1, <2>2, <2>3, <2>4
<1>2. ASSUME NEW t \in Threads, NEW r \in Abstract!Requests, Call(t, r)
      PROVE  Inv'
  BY Zenon, <1>2, CallInv
<1>3. ASSUME NEW t \in Threads, Step(t)
      PROVE  Inv'
  BY Zenon, <1>3, AcquireInv, HitInv, WaitReadyInv, WaitOneReadyInv, BeginCleanInv,
     BlockWriteInv, EndCleanInv, BeginReplaceInv, BlockReadInv, EndReplaceInv DEF Step
<1>4. QED
  BY Zenon, <1>1, <1>2, <1>3 DEF Next

-----------------------------------------------------------------------------
(* BufCache implements BlockStore                                            *)

\* What the file system sees of a sector: its entry, if filled, else the disk.
LEMMA StoreIs ==
  ASSUME OneEntryPerSector, NEW s \in Sectors
  PROVE  /\ \A e \in Entries : sector[e] = s /\ Filled(e) => Store[s] = contents[e]
         /\ (\A e \in Entries : sector[e] = s => ~Filled(e)) => Store[s] = disk[s]
<1>1. \A e, f \in Entries : sector[e] = s /\ sector[f] = s => e = f
  BY Zenon, BufCacheAssumption DEF OneEntryPerSector
<1>2. QED
  BY Zenon, <1>1 DEF Store

\* The same of the state after a step.
LEMMA StoreIsNext ==
  ASSUME OneEntryPerSector', NEW s \in Sectors
  PROVE  /\ \A e \in Entries : sector'[e] = s /\ Filled(e)' => Store'[s] = contents'[e]
         /\ (\A e \in Entries : sector'[e] = s => ~Filled(e)') => Store'[s] = disk'[s]
<1>1. \A e, f \in Entries : sector'[e] = s /\ sector'[f] = s => e = f
  BY Zenon, BufCacheAssumption DEF OneEntryPerSector
<1>2. QED
  BY Zenon, <1>1 DEF Store

\* A sector whose entry keeps its contents, or that has none and stays on the
\* disk as it is, looks the same after a step.
LEMMA SameStore ==
  ASSUME OneEntryPerSector, OneEntryPerSector', NEW s \in Sectors,
         \A f \in Entries : (sector'[f] = s /\ Filled(f)') <=> (sector[f] = s /\ Filled(f)),
         \A f \in Entries : sector[f] = s /\ Filled(f) => contents'[f] = contents[f],
         (\A f \in Entries : sector[f] = s => ~Filled(f)) => disk'[s] = disk[s]
  PROVE  Store'[s] = Store[s]
<1>1. CASE \A f \in Entries : sector[f] = s => ~Filled(f)
  <2>1. Store[s] = disk[s]
    BY Zenon, <1>1, StoreIs
  <2>2. Store'[s] = disk'[s]
    BY Zenon, <1>1, StoreIsNext
  <2>3. QED
    BY Zenon, <1>1, <2>1, <2>2
<1>2. CASE \E f \in Entries : sector[f] = s /\ Filled(f)
  <2>1. PICK f \in Entries : sector[f] = s /\ Filled(f)
    BY Zenon, <1>2
  <2>2. Store[s] = contents[f]
    BY Zenon, <2>1, StoreIs
  <2>3. Store'[s] = contents'[f]
    BY Zenon, <2>1, StoreIsNext
  <2>4. QED
    BY Zenon, <2>1, <2>2, <2>3
<1>3. QED
  BY Zenon, <1>1, <1>2

\* An empty cache shows the disk.
LEMMA InitRefines == Init => Abstract!StoreInit
<1> SUFFICES ASSUME Init PROVE Abstract!StoreInit
  BY Zenon
<1>1. \A s \in Sectors : Store[s] = disk[s]
  BY Zenon, BufCacheAssumption DEF Init, Store
<1>2. Store \in [Sectors -> Abstract!Contents]
  BY Zenon, <1>1 DEF Init, Store
<1>3. QED
  BY Zenon, <1>2 DEF Init, Abstract!StoreInit

-----------------------------------------------------------------------------
(* Writing an entry back, evicting it and filling it with another sector *)
(* are invisible: what a sector holds for the file system stays as it is. *)

\* A step that keeps which entries are filled, and what they and the sectors
\* without an entry hold, keeps the store.
LEMMA SameStores ==
  ASSUME OneEntryPerSector, OneEntryPerSector', UNCHANGED sector,
         \A f \in Entries : Filled(f)' <=> Filled(f),
         \A f \in Entries : Filled(f) => contents'[f] = contents[f],
         \A s \in Sectors : (\A f \in Entries : sector[f] = s => ~Filled(f)) => disk'[s] = disk[s]
  PROVE  Store' = Store
<1>1. ASSUME NEW s \in Sectors PROVE Store'[s] = Store[s]
  BY Zenon, SameStore
<1>2. QED
  BY Zenon, <1>1 DEF Store

\* clean() takes a dirty entry: it counts although it is not ready.
LEMMA BeginCleanHidden ==
  ASSUME HasLast, TypeOK, LruComplete, OneEntryPerSector, OneEntryPerSector',
         NEW t \in Threads, BeginClean(t)
  PROVE  Store' = Store
<1>1. PICK e \in Entries : e = get_eviction_candidate
  BY Zenon, CandidateReady DEF BeginClean
<1>2. /\ dirty[e]
      /\ ready' = [ready EXCEPT ![e] = FALSE]
      /\ UNCHANGED <<sector, dirty, contents, disk>>
  BY Zenon, <1>1 DEF BeginClean
<1>3. \A f \in Entries : f # e => ready'[f] = ready[f]
  BY Zenon, <1>2 DEF TypeOK
<1>4. \A f \in Entries : Filled(f)' <=> Filled(f)
  BY Zenon, <1>2, <1>3 DEF Filled
<1>5. QED
  BY Zenon, <1>2, <1>4, SameStores

\* The sector block_write changes is one whose entry counts.
LEMMA BlockWriteHidden ==
  ASSUME TypeOK, TransferConsistent, OneEntryPerSector, OneEntryPerSector',
         NEW t \in Threads, block_write(t)
  PROVE  Store' = Store
<1>1. PICK e \in Entries : e = entry[t] /\ sector[e] \in Sectors /\ Filled(e)
  BY Zenon DEF block_write, TransferConsistent, Owns, Transferring, Filled
<1>2. /\ disk' = [disk EXCEPT ![sector[e]] = contents[e]]
      /\ UNCHANGED <<sector, ready, dirty, contents>>
  BY Zenon, <1>1 DEF block_write, entryVars
<1>3. \A f \in Entries : Filled(f)' <=> Filled(f)
  BY Zenon, <1>2 DEF Filled
<1>4. \A s \in Sectors : (\A f \in Entries : sector[f] = s => ~Filled(f)) => disk'[s] = disk[s]
  BY Zenon, <1>1, <1>2 DEF TypeOK
<1>5. QED
  BY Zenon, <1>2, <1>3, <1>4, SameStores

\* The entry clean() gives back counts because it is ready again.
LEMMA EndCleanHidden ==
  ASSUME TypeOK, TransferConsistent, OneEntryPerSector, OneEntryPerSector',
         NEW t \in Threads, EndClean(t)
  PROVE  Store' = Store
<1>1. PICK e \in Entries : e = entry[t] /\ dirty[e]
  BY Zenon DEF EndClean, TransferConsistent, Owns, Transferring
<1>2. /\ ready' = [ready EXCEPT ![e] = TRUE]
      /\ dirty' = [dirty EXCEPT ![e] = FALSE]
      /\ UNCHANGED <<sector, contents, disk>>
  BY Zenon, <1>1 DEF EndClean, Finish
<1>3. ready'[e] /\ \A f \in Entries : f # e => ready'[f] = ready[f] /\ dirty'[f] = dirty[f]
  BY Zenon, <1>2 DEF TypeOK
<1>4. \A f \in Entries : Filled(f)' <=> Filled(f)
  BY Zenon, <1>1, <1>3 DEF Filled
<1>5. QED
  BY Zenon, <1>2, <1>4, SameStores

\* replace() drops an entry that is equal to the disk, and its new sector has
\* no entry that counts yet.
LEMMA BeginReplaceHidden ==
  ASSUME HasLast, TypeOK, LruComplete, CleanMatchesDisk, OneEntryPerSector, OneEntryPerSector',
         NEW t \in Threads, BeginReplace(t)
  PROVE  Store' = Store
<1>1. PICK e \in Entries : e = get_eviction_candidate /\ ready[e]
  BY Zenon, CandidateReady DEF BeginReplace
<1>2. /\ ready' = [ready EXCEPT ![e] = FALSE]
      /\ sector' = [sector EXCEPT ![e] = req[t].sector]
      /\ UNCHANGED <<dirty, contents, disk>>
      /\ ~dirty[e]
  BY Zenon, <1>1 DEF BeginReplace
<1>3. /\ ~ready'[e]
      /\ \A f \in Entries : f # e => sector'[f] = sector[f] /\ ready'[f] = ready[f]
  BY Zenon, <1>1, <1>2 DEF TypeOK
<1>4. ~Filled(e)' /\ \A f \in Entries : f # e => (Filled(f)' <=> Filled(f))
  BY Zenon, <1>2, <1>3 DEF Filled
<1>5. ASSUME NEW s \in Sectors PROVE Store'[s] = Store[s]
  <2>1. CASE sector[e] = s
    <3>1. Store[s] = contents[e]
      BY Zenon, <1>1, <2>1, StoreIs DEF Filled
    <3>2. contents[e] = disk[s]
      BY Zenon, <1>1, <1>2, <2>1, BufCacheAssumption DEF CleanMatchesDisk
    <3>3. \A f \in Entries : f # e => sector[f] # s
      BY Zenon, <2>1, BufCacheAssumption DEF OneEntryPerSector
    <3>4. \A f \in Entries : sector'[f] = s => ~Filled(f)'
      BY Zenon, <1>3, <1>4, <3>3
    <3>5. QED
      BY Zenon, <1>2, <3>1, <3>2, <3>4, StoreIsNext
  <2>2. CASE sector[e] # s
    <3>1. \A f \in Entries : (sector'[f] = s /\ Filled(f)') <=> (sector[f] = s /\ Filled(f))
      BY Zenon, <1>3, <1>4, <2>2
    <3>2. QED
      BY Zenon, <1>2, <3>1, SameStore
  <2>3. QED
    BY Zenon, <2>1, <2>2
<1>6. QED
  BY Zenon, <1>5 DEF Store

\* The entry block_read fills does not count.
LEMMA BlockReadHidden ==
  ASSUME TypeOK, TransferConsistent, OneEntryPerSector, OneEntryPerSector',
         NEW t \in Threads, block_read(t)
  PROVE  Store' = Store
<1>1. PICK e \in Entries : e = entry[t] /\ ~Filled(e)
  BY Zenon DEF block_read, TransferConsistent, Owns, Transferring, Filled
<1>2. /\ contents' = [contents EXCEPT ![e] = disk[req[t].sector]]
      /\ UNCHANGED <<sector, ready, dirty, disk>>
  BY Zenon, <1>1 DEF block_read
<1>3. \A f \in Entries : Filled(f)' <=> Filled(f)
  BY Zenon, <1>2 DEF Filled
<1>4. \A f \in Entries : Filled(f) => contents'[f] = contents[f]
  BY Zenon, <1>1, <1>2 DEF TypeOK
<1>5. QED
  BY Zenon, <1>2, <1>3, <1>4, SameStores

\* The entry replace() gives back holds what its sector's does.
LEMMA EndReplaceHidden ==
  ASSUME TypeOK, TransferConsistent, OneEntryPerSector, OneEntryPerSector',
         NEW t \in Threads, EndReplace(t)
  PROVE  Store' = Store
<1>1. PICK e \in Entries : /\ e = entry[t] /\ ~Filled(e) /\ sector[e] \in Sectors
                           /\ contents[e] = disk[sector[e]]
  BY Zenon DEF EndReplace, TransferConsistent, Owns, Transferring, Filled
<1>2. /\ ready' = [ready EXCEPT ![e] = TRUE]
      /\ UNCHANGED <<sector, dirty, contents, disk>>
  BY Zenon, <1>1 DEF EndReplace, Finish
<1>3. ready'[e] /\ \A f \in Entries : f # e => ready'[f] = ready[f]
  BY Zenon, <1>1, <1>2 DEF TypeOK
<1>4. Filled(e)' /\ \A f \in Entries : f # e => (Filled(f)' <=> Filled(f))
  BY Zenon, <1>2, <1>3 DEF Filled
<1>5. ASSUME NEW s \in Sectors PROVE Store'[s] = Store[s]
  <2>1. CASE sector[e] = s
    <3>1. \A f \in Entries : sector[f] = s => ~Filled(f)
      BY Zenon, <1>1, <2>1, BufCacheAssumption DEF OneEntryPerSector
    <3>2. Store[s] = disk[s]
      BY Zenon, <3>1, StoreIs
    <3>3. Store'[s] = contents'[e]
      BY Zenon, <1>2, <1>4, <2>1, StoreIsNext
    <3>4. QED
      BY Zenon, <1>1, <1>2, <2>1, <3>2, <3>3
  <2>2. CASE sector[e] # s
    <3>1. \A f \in Entries : (sector'[f] = s /\ Filled(f)') <=> (sector[f] = s /\ Filled(f))
      BY Zenon, <1>2, <1>4, <2>2
    <3>2. QED
      BY Zenon, <1>2, <3>1, SameStore
  <2>3. QED
    BY Zenon, <2>1, <2>2
<1>6. QED
  BY Zenon, <1>5 DEF Store

-----------------------------------------------------------------------------
\* The memcpy under the lock is the moment a call takes effect.
LEMMA HitRefines ==
  ASSUME TypeOK, Requesting, OneEntryPerSector, OneEntryPerSector',
         NEW t \in Threads, Hit(t)
  PROVE  Abstract!StoreApply(t)
<1> DEFINE s == req[t].sector
<1>1. req[t] \in Abstract!Requests /\ s \in Sectors
  BY Zenon, RequestType DEF Requesting, Hit
<1>2. PICK e \in Entries : e = find(s) /\ sector[e] = s /\ ready[e]
  BY Zenon, <1>1, FindEntry DEF Hit
<1>3. Store[s] = contents[e]
  BY ZenonT(30), <1>1, <1>2, StoreIs DEF Filled
<1>4. /\ req' = [req EXCEPT ![t] = NoRequest]
      /\ UNCHANGED <<sector, ready, disk>>
  BY Zenon DEF Hit
<1>5. CASE /\ req[t].op = "read"
           /\ buffer' = [buffer EXCEPT ![t] = Abstract!Copied(@, contents[e], req[t])]
           /\ UNCHANGED <<contents, dirty>>
  <2>1. UNCHANGED Store
    BY Zenon, <1>4, <1>5 DEF Store, Filled
  <2>2. QED
    BY Zenon, <1>1, <1>3, <1>4, <1>5, <2>1, RequestAssumption DEF Abstract!StoreApply
<1>6. CASE /\ req[t].op = "write"
           /\ contents' = [contents EXCEPT ![e] = Abstract!Patched(@, req[t])]
           /\ dirty' = [dirty EXCEPT ![e] = TRUE]
           /\ UNCHANGED buffer
  <2>1. Store'[s] = Abstract!Patched(Store[s], req[t])
    <3>1. contents'[e] = Abstract!Patched(contents[e], req[t])
      BY Zenon, <1>2, <1>6 DEF TypeOK
    <3>2. sector'[e] = s /\ Filled(e)'
      BY Zenon, <1>2, <1>4 DEF Filled
    <3>3. QED
      BY Zenon, <1>1, <1>2, <1>3, <3>1, <3>2, StoreIsNext
  <2>2. ASSUME NEW r \in Sectors, r # s PROVE Store'[r] = Store[r]
    <3>1. \A f \in Entries : sector[f] = r =>
            contents'[f] = contents[f] /\ dirty'[f] = dirty[f]
      BY <1>2, <1>4, <1>6, <2>2, Zenon DEF TypeOK
    <3>2. \A f \in Entries : sector[f] = r => (Filled(f)' <=> Filled(f))
      BY Zenon, <1>4, <3>1 DEF Filled
    <3>3. QED
      BY Zenon, <1>4, <3>1, <3>2, SameStore
  <2>3. Store' = [Store EXCEPT ![s] = Abstract!Patched(@, req[t])]
    <3>1. \A f, g : /\ f = [x \in Sectors |-> f[x]] /\ g = [x \in Sectors |-> g[x]]
                    /\ g[s] = Abstract!Patched(f[s], req[t])
                    /\ \A x \in Sectors : x # s => g[x] = f[x]
                    => g = [f EXCEPT ![s] = Abstract!Patched(@, req[t])]
      BY Zenon, <1>1
    <3>2. Store = [x \in Sectors |-> Store[x]] /\ Store' = [x \in Sectors |-> Store'[x]]
      BY Zenon DEF Store
    <3>3. QED
      BY Zenon, <2>1, <2>2, <3>1, <3>2
  <2>4. QED
    BY Zenon, <1>1, <1>4, <1>6, <2>3, RequestAssumption DEF Abstract!StoreApply
<1>7. QED
  BY Zenon, <1>2, <1>5, <1>6 DEF Hit

\* Every step of the cache is a step of BlockStore, or changes nothing there.
LEMMA NextRefines ==
  ASSUME HasLast, Inv, Inv', [Next]_vars
  PROVE  [Abstract!StoreNext]_(Abstract!storeVars)
<1> SUFFICES Abstract!StoreNext \/ UNCHANGED <<Store, req, buffer>>
  BY Zenon DEF Abstract!storeVars
<1>0. /\ TypeOK /\ Requesting /\ TransferConsistent /\ CleanMatchesDisk /\ LruComplete
      /\ OneEntryPerSector /\ OneEntryPerSector'
  BY Zenon DEF Inv
<1>1. CASE UNCHANGED vars
  BY Zenon, <1>1 DEF vars, entryVars, Store, Filled
<1>2. ASSUME NEW t \in Threads, NEW r \in Abstract!Requests, Call(t, r)
      PROVE  Abstract!StoreNext
  <2>1. UNCHANGED Store
    BY Zenon, <1>2 DEF Call, entryVars, Store, Filled
  <2>2. Abstract!StoreCall(t, r)
    BY Zenon, <1>0, <1>2, <2>1 DEF Requesting, Call, Abstract!StoreCall
  <2>3. QED
    BY Zenon, <2>2 DEF Abstract!StoreNext
<1>3. ASSUME NEW t \in Threads, Hit(t)
      PROVE  Abstract!StoreNext
  BY Zenon, <1>0, <1>3, HitRefines DEF Abstract!StoreNext
<1>4. ASSUME NEW t \in Threads, Acquire(t) \/ WaitReady(t) \/ WaitOneReady(t)
      PROVE  UNCHANGED <<Store, req, buffer>>
  <2>1. UNCHANGED <<sector, ready, dirty, contents, disk, req, buffer>>
    BY Zenon, <1>4 DEF Acquire, WaitReady, WaitOneReady, entryVars
  <2>2. QED
    BY Zenon, <2>1 DEF Store, Filled
<1>5. ASSUME NEW t \in Threads,
             \/ BeginClean(t) \/ block_write(t) \/ EndClean(t)
             \/ BeginReplace(t) \/ block_read(t) \/ EndReplace(t)
      PROVE  UNCHANGED <<Store, req, buffer>>
  <2>1. CASE BeginClean(t)
    BY <1>0, <2>1, BeginCleanHidden, Zenon DEF BeginClean
  <2>2. CASE block_write(t)
    BY <1>0, <2>2, BlockWriteHidden, Zenon DEF block_write
  <2>3. CASE EndClean(t)
    BY <1>0, <2>3, EndCleanHidden, Zenon DEF EndClean
  <2>4. CASE BeginReplace(t)
    BY <1>0, <2>4, BeginReplaceHidden, Zenon DEF BeginReplace
  <2>5. CASE block_read(t)
    BY <1>0, <2>5, BlockReadHidden, Zenon DEF block_read
  <2>6. CASE EndReplace(t)
    BY Zenon, <1>0, <2>6, EndReplaceHidden DEF EndReplace
  <2>7. QED
    BY Zenon, <1>5, <2>1, <2>2, <2>3, <2>4, <2>5, <2>6
<1>6. QED
  BY Zenon, <1>1, <1>2, <1>3, <1>4, <1>5 DEF Next, Step

-----------------------------------------------------------------------------
(* The theorems                                                              *)

INSTANCE WellFoundedInduction

\* An element further back in a list is nearer to its end.
LEMMA LaterIsNearer ==
  ASSUME NEW n \in Nat, NEW i \in 1 .. n, NEW j \in i + 1 .. n
  PROVE  n - j < n - i
OBVIOUS

\* A non-empty set of numbers of 1 .. n has a greatest element.
LEMMA GreatestElement ==
  ASSUME NEW n \in Nat, NEW S \in SUBSET (1 .. n), S # {}
  PROVE  \E i \in S : \A j \in i + 1 .. n : j \notin S
<1> DEFINE T == {n - i : i \in S}
<1>1. T \subseteq Nat /\ T # {}
  <2>1. \A i \in S : n - i \in Nat
    OBVIOUS
  <2>2. QED
    BY <2>1, Zenon
<1>2. PICK x \in T : \A y \in T : ~(<<y, x>> \in OpToRel(<, Nat))
  BY <1>1, WFMin, NatLessThanWellFounded, Zenon
<1>3. \A y \in T : ~(y < x)
  BY <1>1, <1>2, Zenon DEF OpToRel
<1>4. PICK i \in S : x = n - i
  BY Zenon
<1>5. ASSUME NEW j \in i + 1 .. n, j \in S PROVE FALSE
  <2>1. n - j \in T
    BY Zenon, <1>5
  <2>2. i \in 1 .. n
    BY Zenon
  <2>3. n - j < n - i
    BY Zenon, <2>2, LaterIsNearer
  <2>4. QED
    BY Zenon, <2>1, <2>3, <1>3, <1>4
<1>6. QED
  BY Zenon, <1>5

\* A search from the back of the list of entries ends.
LEMMA LastExists == HasLast
BY Zenon, GreatestElement DEF HasLast

\* The inductive invariant holds in every reachable state of the cache.
THEOREM Invariance == Spec => []Inv
<1>1. Inv /\ [Next]_vars => Inv'
  BY Zenon, InvNext, LastExists
<1>2. QED
  BY <1>1, InvInit, PTL DEF Spec

\* The variables of bufcache.c keep their types, for every number of entries.
THEOREM TypeCorrect == Spec => []TypeOK
<1>1. Inv => TypeOK
  BY Zenon DEF Inv
<1>2. QED
  BY <1>1, Invariance, PTL

\* Two threads that miss on a sector at once never give it two entries,
\* although clean() and replace() let go of cache_lock.
THEOREM SectorsUnique == Spec => []OneEntryPerSector
<1>1. Inv => OneEntryPerSector
  BY Zenon DEF Inv
<1>2. QED
  BY <1>1, Invariance, PTL

\* An entry out of reach has exactly one thread in clean() or replace() that
\* will make it ready.
THEOREM TransfersExclusive == Spec => []OneTransferPerEntry
<1>1. Inv => OneTransferPerEntry
  BY Zenon DEF Inv
<1>2. QED
  BY <1>1, Invariance, PTL

\* replace() drops no unwritten data: a clean entry equals its sector on disk.
THEOREM CleanEntriesMatch == Spec => []CleanMatchesDisk
<1>1. Inv => CleanMatchesDisk
  BY Zenon DEF Inv
<1>2. QED
  BY <1>1, Invariance, PTL

\* No thread sleeps in bufcache_access on a condition that already holds.
THEOREM BroadcastsSuffice == Spec => []NoMissedBroadcast
<1>1. Inv => NoMissedBroadcast
  BY Zenon DEF Inv
<1>2. QED
  BY <1>1, Invariance, PTL

\* list_remove and list_push_front in bufcache_access lose no entry.
THEOREM LruKeepsAll == Spec => []LruComplete
<1>1. Inv => LruComplete
  BY Zenon DEF Inv
<1>2. QED
  BY <1>1, Invariance, PTL

\* All these together: what bufcache_access relies on each time it has
\* the lock, after any other threads have had it.
THEOREM StaysConsistent == Spec => []CacheConsistent
<1>1. Inv => CacheConsistent
  BY Zenon DEF Inv, CacheConsistent
<1>2. QED
  BY <1>1, Invariance, PTL

\* Reads and writes of sectors are atomic, whatever the threads, the number of
\* entries and the evictions: bufcache.c implements the abstract store.
THEOREM Refinement == Spec => Linearizable
<1>1. Inv /\ Inv' /\ [Next]_vars => [Abstract!StoreNext]_(Abstract!storeVars)
  BY Zenon, NextRefines, LastExists
<1>2. QED
  BY <1>1, Invariance, InitRefines, PTL DEF Spec, Linearizable, Abstract!StoreSpec
=============================================================================
