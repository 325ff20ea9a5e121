------------------------------ MODULE BufCache ------------------------------
(***************************************************************************)
(* The write-back buffer cache of filesys/bufcache.c.                      *)
(*                                                                         *)
(* cache_lock protects the entries and the LRU list, and is released while *)
(* a thread transfers a sector; the entry in transfer has ready = false.   *)
(* What a thread does from one acquisition of the lock to the next release *)
(* or cond_wait is one step of the model, except that a step ends where    *)
(* the loop of bufcache_access starts over.  The lock and the conditions   *)
(* are those of Synch.  All broadcasts, so the order of a condition's      *)
(* queue is immaterial and the queue is a set of threads.                  *)
(***************************************************************************)
EXTENDS Integers, Sequences, FiniteSets

CONSTANTS
  Threads, Sectors, BLOCK_SECTOR_SIZE, Values, NoRequest,
  NUM_ENTRIES,
  NULL,             \* no thread, no entry
  NoSector,         \* (block_sector_t) -1, the sector of an empty entry
  Zero              \* the byte memory is cleared with

Entries == 0 .. NUM_ENTRIES - 1

ASSUME BufCacheAssumption ==
  /\ BLOCK_SECTOR_SIZE \in Nat \ {0}
  /\ NUM_ENTRIES \in Nat \ {0}
  /\ Zero \in Values
  /\ NULL \notin Threads \cup Entries
  /\ NoSector \notin Sectors

VARIABLES
  sector, ready, dirty, contents,   \* entries[] and cached_data[]
  until_ready,      \* [entry -> threads waiting for it]
  until_one_ready,  \* threads waiting for any entry
  lru_list,         \* most recently used entry first
  cache_lock,       \* its holder, or NULL
  disk,             \* the sectors of fs_device
  req, buffer,      \* as in BlockStore
  pc,               \* where each thread is
  entry             \* the entry a thread transfers

entryVars == <<sector, ready, dirty, contents, lru_list>>
condVars == <<until_ready, until_one_ready>>
vars == <<entryVars, condVars, cache_lock, disk, req, buffer, pc, entry>>

\* The store of sectors the file system sees: an entry's contents count
\* unless a block_read is filling them, and else the disk's.
Filled(e) == ready[e] \/ dirty[e]

Store ==
  [s \in Sectors |->
     IF \E e \in Entries : sector[e] = s /\ Filled(e)
     THEN contents[CHOOSE e \in Entries : sector[e] = s /\ Filled(e)]
     ELSE disk[s]]

Abstract == INSTANCE BlockStore WITH store <- Store

ASSUME RequestAssumption == NoRequest \notin Abstract!Requests

Pcs == {"idle", "lock", "access", "wait", "write", "written", "read", "filled"}

TypeOK ==
  /\ sector \in [Entries -> Sectors \cup {NoSector}]
  /\ ready \in [Entries -> BOOLEAN]
  /\ dirty \in [Entries -> BOOLEAN]
  /\ contents \in [Entries -> Abstract!Contents]
  /\ until_ready \in [Entries -> SUBSET Threads]
  /\ until_one_ready \in SUBSET Threads
  /\ lru_list \in [1 .. NUM_ENTRIES -> Entries]
  /\ cache_lock \in Threads \cup {NULL}
  /\ disk \in [Sectors -> Abstract!Contents]
  /\ req \in [Threads -> Abstract!Requests \cup {NoRequest}]
  /\ buffer \in [Threads -> Abstract!Contents]
  /\ pc \in [Threads -> Pcs]
  /\ entry \in [Threads -> Entries \cup {NULL}]

\* bufcache_init, on a disk that holds anything.
Init ==
  /\ sector = [e \in Entries |-> NoSector]
  /\ ready = [e \in Entries |-> TRUE]
  /\ dirty = [e \in Entries |-> FALSE]
  /\ contents = [e \in Entries |-> Abstract!Zeros]
  /\ until_ready = [e \in Entries |-> {}]
  /\ until_one_ready = {}
  /\ lru_list = [i \in 1 .. NUM_ENTRIES |-> NUM_ENTRIES - i]
  /\ cache_lock = NULL
  /\ disk \in [Sectors -> Abstract!Contents]
  /\ req = [t \in Threads |-> NoRequest]
  /\ buffer = [t \in Threads |-> Abstract!Zeros]
  /\ pc = [t \in Threads |-> "idle"]
  /\ entry = [t \in Threads |-> NULL]

-----------------------------------------------------------------------------
Goto(t, p) == pc' = [pc EXCEPT ![t] = p]

\* Whether find(s) returns an entry, and which one: the first that matches.
Cached(s) == \E e \in Entries : sector[e] = s

find(s) ==
  CHOOSE e \in Entries :
    sector[e] = s /\ \A f \in Entries : sector[f] = s => e <= f

\* Whether get_eviction_candidate returns an entry, and which one: the last
\* of the LRU list that is ready.
Evictable == \E e \in Entries : ready[e]

\* Fault: the last of the list, ready or not.
get_eviction_candidate_any == lru_list[NUM_ENTRIES]

get_eviction_candidate ==
  lru_list[CHOOSE i \in 1 .. NUM_ENTRIES :
             /\ ready[lru_list[i]]
             /\ \A j \in i + 1 .. NUM_ENTRIES : ~ready[lru_list[j]]]

\* Faults: no list_remove; the element before e is lost.
MovedToFront_no_remove(list, e) ==
  [i \in 1 .. NUM_ENTRIES + 1 |-> IF i = 1 THEN e ELSE list[i - 1]]

MovedToFront_short(list, e) ==
  LET pos == CHOOSE i \in DOMAIN list : list[i] = e
  IN  [i \in DOMAIN list |-> IF i = 1 THEN e
                             ELSE IF i < pos THEN list[i - 1]
                             ELSE list[i]]

\* list_remove and list_push_front of a list's element e.
MovedToFront(list, e) ==
  LET pos == CHOOSE i \in DOMAIN list : list[i] = e
  IN  [i \in DOMAIN list |-> IF i = 1 THEN e
                             ELSE IF i <= pos THEN list[i - 1]
                             ELSE list[i]]

-----------------------------------------------------------------------------
\* bufcache_read or bufcache_write is called.
Call(t, r) ==
  /\ pc[t] = "idle"
  /\ req' = [req EXCEPT ![t] = r]
  /\ buffer' = [buffer EXCEPT ![t] = Abstract!Zeros]
  /\ Goto(t, "lock")
  /\ UNCHANGED <<entryVars, condVars, cache_lock, disk, entry>>

\* lock_acquire(&cache_lock), at the start of a call or at the end of a
\* cond_wait; the loop of bufcache_access follows.
Acquire(t) ==
  /\ pc[t] = "lock"
  /\ cache_lock = NULL
  /\ cache_lock' = t
  /\ Goto(t, "access")
  /\ UNCHANGED <<entryVars, condVars, disk, req, buffer, entry>>

\* Fault: bufcache_write does not set dirty.
Hit_clean(t) ==
  LET s == req[t].sector
      e == find(s)
  IN  /\ pc[t] = "access"
      /\ Cached(s)
      /\ ready[e]
      /\ lru_list' = MovedToFront(lru_list, e)
      /\ \/ req[t].op = "read" /\ UNCHANGED contents
         \/ /\ req[t].op = "write"
            /\ contents' = [contents EXCEPT ![e] = Abstract!Patched(@, req[t])]
      /\ buffer' = [buffer EXCEPT ![t] =
                      IF req[t].op = "read" THEN Abstract!Copied(@, contents[e], req[t]) ELSE @]
      /\ cache_lock' = NULL
      /\ req' = [req EXCEPT ![t] = NoRequest]
      /\ Goto(t, "idle")
      /\ UNCHANGED <<sector, ready, dirty, condVars, disk, entry>>

\* The sector is cached and its entry ready: bufcache_access returns it, the
\* caller copies and releases the lock.
Hit(t) ==
  LET s == req[t].sector
      e == find(s)
  IN  /\ pc[t] = "access"
      /\ Cached(s)
      /\ ready[e]
      /\ lru_list' = MovedToFront(lru_list, e)
      /\ \/ /\ req[t].op = "read"
            /\ buffer' = [buffer EXCEPT ![t] = Abstract!Copied(@, contents[e], req[t])]
            /\ UNCHANGED <<contents, dirty>>
         \/ /\ req[t].op = "write"
            /\ contents' = [contents EXCEPT ![e] = Abstract!Patched(@, req[t])]
            /\ dirty' = [dirty EXCEPT ![e] = TRUE]
            /\ UNCHANGED buffer
      /\ cache_lock' = NULL
      /\ req' = [req EXCEPT ![t] = NoRequest]
      /\ Goto(t, "idle")
      /\ UNCHANGED <<sector, ready, condVars, disk, entry>>

\* The sector is cached but in transfer: cond_wait for its entry.
WaitReady(t) ==
  LET s == req[t].sector
  IN  /\ pc[t] = "access"
      /\ Cached(s)
      /\ ~ready[find(s)]
      /\ until_ready' = [until_ready EXCEPT ![find(s)] = @ \cup {t}]
      /\ cache_lock' = NULL
      /\ Goto(t, "wait")
      /\ UNCHANGED <<entryVars, until_one_ready, disk, req, buffer, entry>>

\* The sector is not cached and every entry is in transfer: cond_wait.
WaitOneReady(t) ==
  /\ pc[t] = "access"
  /\ ~Cached(req[t].sector)
  /\ ~Evictable
  /\ until_one_ready' = until_one_ready \cup {t}
  /\ cache_lock' = NULL
  /\ Goto(t, "wait")
  /\ UNCHANGED <<entryVars, until_ready, disk, req, buffer, entry>>

\* clean() up to its block_write: the entry to evict is dirty.
BeginClean(t) ==
  LET e == get_eviction_candidate
  IN  /\ pc[t] = "access"
      /\ ~Cached(req[t].sector)
      /\ Evictable
      /\ dirty[e]
      /\ ready' = [ready EXCEPT ![e] = FALSE]
      /\ entry' = [entry EXCEPT ![t] = e]
      /\ cache_lock' = NULL
      /\ Goto(t, "write")
      /\ UNCHANGED <<sector, dirty, contents, lru_list, condVars, disk, req, buffer>>

block_write(t) ==
  /\ pc[t] = "write"
  /\ disk' = [disk EXCEPT ![sector[entry[t]]] = contents[entry[t]]]
  /\ Goto(t, "written")
  /\ UNCHANGED <<entryVars, condVars, cache_lock, req, buffer, entry>>

\* Fault: no broadcast of until_one_ready.
Finish_one_broadcast(t) ==
  /\ cache_lock = NULL
  /\ cache_lock' = t
  /\ ready' = [ready EXCEPT ![entry[t]] = TRUE]
  /\ entry' = [entry EXCEPT ![t] = NULL]
  /\ until_ready' = [until_ready EXCEPT ![entry[t]] = {}]
  /\ pc' = [u \in Threads |-> IF u = t THEN "access"
                              ELSE IF u \in until_ready[entry[t]] THEN "lock"
                              ELSE pc[u]]
  /\ UNCHANGED until_one_ready

\* The end of clean() and of replace(): with the lock, the entry is ready
\* again, and both conditions are broadcast.
Finish(t) ==
  /\ cache_lock = NULL
  /\ cache_lock' = t
  /\ ready' = [ready EXCEPT ![entry[t]] = TRUE]
  /\ entry' = [entry EXCEPT ![t] = NULL]
  /\ until_ready' = [until_ready EXCEPT ![entry[t]] = {}]
  /\ until_one_ready' = {}
  /\ pc' = [u \in Threads |->
              IF u = t THEN "access"
              ELSE IF u \in until_ready[entry[t]] \cup until_one_ready THEN "lock"
              ELSE pc[u]]

\* Fault: the entry stays dirty.
EndClean_dirty(t) ==
  /\ pc[t] = "written"
  /\ Finish(t)
  /\ UNCHANGED <<sector, dirty, contents, lru_list, disk, req, buffer>>

EndClean(t) ==
  /\ pc[t] = "written"
  /\ Finish(t)
  /\ dirty' = [dirty EXCEPT ![entry[t]] = FALSE]
  /\ UNCHANGED <<sector, contents, lru_list, disk, req, buffer>>

\* Faults: replace() although the sector has an entry; although the entry to
\* evict is dirty.
BeginReplace_cached(t) ==
  LET e == get_eviction_candidate
  IN  /\ pc[t] = "access"
      /\ Evictable
      /\ ~dirty[e]
      /\ sector' = [sector EXCEPT ![e] = req[t].sector]
      /\ ready' = [ready EXCEPT ![e] = FALSE]
      /\ entry' = [entry EXCEPT ![t] = e]
      /\ cache_lock' = NULL
      /\ Goto(t, "read")
      /\ UNCHANGED <<dirty, contents, lru_list, condVars, disk, req, buffer>>

BeginReplace_dirty(t) ==
  LET e == get_eviction_candidate
  IN  /\ pc[t] = "access"
      /\ ~Cached(req[t].sector)
      /\ Evictable
      /\ sector' = [sector EXCEPT ![e] = req[t].sector]
      /\ ready' = [ready EXCEPT ![e] = FALSE]
      /\ entry' = [entry EXCEPT ![t] = e]
      /\ cache_lock' = NULL
      /\ Goto(t, "read")
      /\ UNCHANGED <<dirty, contents, lru_list, condVars, disk, req, buffer>>

\* replace() up to its block_read: the entry to evict is clean.
BeginReplace(t) ==
  LET e == get_eviction_candidate
  IN  /\ pc[t] = "access"
      /\ ~Cached(req[t].sector)
      /\ Evictable
      /\ ~dirty[e]
      /\ sector' = [sector EXCEPT ![e] = req[t].sector]
      /\ ready' = [ready EXCEPT ![e] = FALSE]
      /\ entry' = [entry EXCEPT ![t] = e]
      /\ cache_lock' = NULL
      /\ Goto(t, "read")
      /\ UNCHANGED <<dirty, contents, lru_list, condVars, disk, req, buffer>>

block_read(t) ==
  /\ pc[t] = "read"
  /\ contents' = [contents EXCEPT ![entry[t]] = disk[req[t].sector]]
  /\ Goto(t, "filled")
  /\ UNCHANGED <<sector, ready, dirty, lru_list, condVars, cache_lock, disk, req, buffer, entry>>

EndReplace(t) ==
  /\ pc[t] = "filled"
  /\ Finish(t)
  /\ UNCHANGED <<sector, dirty, contents, lru_list, disk, req, buffer>>

Step(t) ==
  \/ Acquire(t)
  \/ Hit(t)
  \/ WaitReady(t)
  \/ WaitOneReady(t)
  \/ BeginClean(t)
  \/ block_write(t)
  \/ EndClean(t)
  \/ BeginReplace(t)
  \/ block_read(t)
  \/ EndReplace(t)

Next == \E t \in Threads : Step(t) \/ \E r \in Abstract!Requests : Call(t, r)

Spec == Init /\ [][Next]_vars

-----------------------------------------------------------------------------
(* Properties. *)

Transferring(t) == pc[t] \in {"write", "written", "read", "filled"}

\* Although bufcache_access lets go of the lock between its find and the
\* replace of an entry, a sector never gets two entries.
OneEntryPerSector ==
  \A e, f \in Entries : sector[e] = sector[f] /\ sector[e] # NoSector => e = f

\* Every entry that is not ready has exactly one thread that transfers it and
\* will make it ready again; a ready entry has none.
OneTransferPerEntry ==
  \A e \in Entries :
    IF ready[e] THEN \A t \in Threads : Transferring(t) => entry[t] # e
    ELSE \E t \in Threads : /\ Transferring(t) /\ entry[t] = e
                            /\ \A u \in Threads : Transferring(u) /\ entry[u] = e => u = t

\* An entry that is not marked dirty can be dropped: replace() overwrites it
\* without writing it back, and it holds what the disk holds.
CleanMatchesDisk ==
  \A e \in Entries :
    sector[e] # NoSector /\ ready[e] /\ ~dirty[e] => contents[e] = disk[sector[e]]

\* A thread asleep in cond_wait sleeps for a reason: the entry it waits for is
\* in transfer, or all of them are, so a broadcast is still to come.
NoMissedBroadcast ==
  /\ \A e \in Entries : until_ready[e] # {} => ~ready[e]
  /\ until_one_ready # {} => ~Evictable
  /\ \A t \in Threads : pc[t] = "wait" =>
       t \in until_one_ready \/ \E e \in Entries : t \in until_ready[e]

\* The LRU list keeps every entry, once: an entry that dropped out could never
\* be evicted again.
LruComplete ==
  \A e \in Entries : \E i \in 1 .. NUM_ENTRIES : lru_list[i] = e

\* What the lock of the cache protects, together with the types.
CacheConsistent ==
  /\ TypeOK
  /\ OneEntryPerSector
  /\ OneTransferPerEntry
  /\ NoMissedBroadcast
  /\ LruComplete

\* Reads and writes of sectors, by any number of threads and through any
\* evictions, are atomic: the cache implements BlockStore.
Linearizable == Abstract!StoreSpec
=============================================================================
