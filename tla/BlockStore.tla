----------------------------- MODULE BlockStore -----------------------------
(***************************************************************************)
(* What the buffer cache promises to the file system: a store of sectors   *)
(* in which every bufcache_read and bufcache_write takes effect at once,   *)
(* at one moment between its call and its return.                          *)
(***************************************************************************)
EXTENDS Naturals

CONSTANTS
  Threads,
  Sectors,
  BLOCK_SECTOR_SIZE,
  Values,           \* what a byte can hold
  Zero,             \* the byte memory is cleared with
  NoRequest         \* the request of a thread outside the cache

Offsets == 0 .. BLOCK_SECTOR_SIZE - 1

Contents == [Offsets -> Values]

Zeros == [i \in Offsets |-> Zero]

\* offset + length <= BLOCK_SECTOR_SIZE, as both calls assert.  A write's
\* buffer holds the same byte throughout.
Spans == {sp \in [offset : Offsets, length : 1 .. BLOCK_SECTOR_SIZE] :
            sp.offset + sp.length <= BLOCK_SECTOR_SIZE}

ReadRequests == [op : {"read"}, sector : Sectors, span : Spans]

WriteRequests == [op : {"write"}, sector : Sectors, span : Spans, byte : Values]

Requests == ReadRequests \cup WriteRequests

\* The bytes of a sector a request is about.
Span(r) == r.span.offset .. r.span.offset + r.span.length - 1

\* A sector's contents after the memcpy of a write.
Patched(contents, r) ==
  [i \in Offsets |-> IF i \in Span(r) THEN r.byte ELSE contents[i]]

\* A caller's buffer after the memcpy of a read: the bytes it asked for.
Copied(buf, contents, r) ==
  [i \in Offsets |-> IF i \in Span(r) THEN contents[i] ELSE buf[i]]

VARIABLES
  store,            \* [Sectors -> Contents]
  req,              \* what each thread has called and not returned from
  buffer            \* what each thread has read

storeVars == <<store, req, buffer>>

StoreInit ==
  /\ store \in [Sectors -> Contents]
  /\ req = [t \in Threads |-> NoRequest]
  /\ buffer = [t \in Threads |-> Zeros]

\* A call is made with a cleared buffer.
StoreCall(t, r) ==
  /\ req[t] = NoRequest
  /\ req' = [req EXCEPT ![t] = r]
  /\ buffer' = [buffer EXCEPT ![t] = Zeros]
  /\ UNCHANGED store

StoreApply(t) ==
  /\ req[t] # NoRequest
  /\ req' = [req EXCEPT ![t] = NoRequest]
  /\ \/ /\ req[t].op = "read"
        /\ buffer' = [buffer EXCEPT ![t] = Copied(@, store[req[t].sector], req[t])]
        /\ UNCHANGED store
     \/ /\ req[t].op = "write"
        /\ store' = [store EXCEPT ![req[t].sector] = Patched(@, req[t])]
        /\ UNCHANGED buffer

StoreNext == \E t \in Threads : StoreApply(t) \/ \E r \in Requests : StoreCall(t, r)

StoreSpec == StoreInit /\ [][StoreNext]_storeVars
=============================================================================
