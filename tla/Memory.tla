------------------------------- MODULE Memory -------------------------------
(***************************************************************************)
(* The page allocator (threads/palloc.c) and malloc (threads/malloc.c) on  *)
(* top of it, called by threads that are preempted between any two steps.  *)
(* Addresses are numbers of bytes; pages are allocated under the lock of   *)
(* their pool, but freed without it, one bit at a time.                    *)
(*                                                                         *)
(* Memory itself is modelled by who would notice a wrong write: data tells *)
(* for every block in use whether its bytes are still its owner's.         *)
(***************************************************************************)
EXTENDS Bitmap, Sequences, SequencesExt, TLC

CONSTANTS Threads,
          PGSIZE,           \* 4096 in the source
          MIN_BLOCK,        \* the smallest block_size, 16
          ARENA,            \* sizeof (struct arena), 12
          LIST_ELEM,        \* sizeof (struct list_elem), 8
          FreePages,        \* pages between 1 MB and the end of RAM
          user_page_limit,
          SIZE_MAX,         \* largest size_t
          Requests,         \* sizes that malloc is asked for
          Callocs,          \* pairs that calloc is asked for
          Groups,           \* <<flags, page_cnt>> that palloc_get is asked for
          MaxBlocks         \* blocks a thread has at a time

NULL == 0
None == 0
NoDesc == 0
Pools == {"kernel", "user"}
DIV_ROUND_UP(n, d) == (n + d - 1) \div d

\* bm_pages at the base of the pool hold its bitmap.
init_pool(first, page_cnt) ==
  LET bm_pages == DIV_ROUND_UP(bitmap_buf_size(page_cnt), PGSIZE)
  IN [base |-> first + bm_pages, page_cnt |-> page_cnt - bm_pages]

\* Page 1 stands for the one at 1 MB.
palloc_init ==
  LET user_pages == Min({FreePages \div 2, user_page_limit})
      kernel_pages == FreePages - user_pages
  IN [kernel |-> init_pool(1, kernel_pages), user |-> init_pool(1 + kernel_pages, user_pages)]

\* block_size of each of the at most 10 descriptors: 16, 32 ... below PGSIZE / 2.
malloc_init ==
  LET n == Cardinality({k \in 0..9 : MIN_BLOCK * 2 ^ k < PGSIZE \div 2})
  IN [k \in 1..n |-> MIN_BLOCK * 2 ^ (k - 1)]

block_size == malloc_init
Descs == DOMAIN block_size
blocks_per_arena(d) == (PGSIZE - ARENA) \div block_size[d]
PagesOf(pool) == palloc_init[pool].base..palloc_init[pool].base + palloc_init[pool].page_cnt - 1
Pages == PagesOf("kernel") \cup PagesOf("user")
page_from_pool(pool, page) == page \in PagesOf(pool)

MemoryAssumption ==
  /\ \A pool \in Pools : palloc_init[pool].page_cnt >= 0
  /\ None \notin Threads

VARIABLES used_map,   \* pool -> bitmap
          pool_lock,  \* pool -> holder of its lock
          desc_lock,  \* descriptor -> holder of its lock
          free_list,  \* descriptor -> addresses of its free blocks
          arena,      \* page -> the header at its start; magic tells if valid
          blocks,     \* thread -> what it has, [addr, size, page_cnt]
          data,       \* address of each of those -> whether it is intact
          call,       \* thread -> its call of malloc, free, ... and locals
          pc, panicked

vars == <<used_map, pool_lock, desc_lock, free_list, arena, blocks, data, call, pc, panicked>>
locks == <<pool_lock, desc_lock>>
heap == <<used_map, free_list, arena>>
user == <<blocks, data>>

NoCall == [op |-> "none", size |-> 0, old |-> NULL, d |-> NoDesc, cnt |-> 0,
           i |-> 0, pool |-> "kernel", flags |-> {}, page |-> NULL, then |-> "none"]
NoArena == [magic |-> FALSE, desc |-> NoDesc, free_cnt |-> 0]

Init ==
  /\ used_map = [p \in Pools |-> bitmap_create(palloc_init[p].page_cnt,
                    [i \in 0..elem_cnt(palloc_init[p].page_cnt) - 1 |-> {}])]
  /\ pool_lock = [p \in Pools |-> None]
  /\ desc_lock = [d \in Descs |-> None]
  /\ free_list = [d \in Descs |-> <<>>]
  /\ arena = [p \in Pages |-> NoArena]
  /\ blocks = [t \in Threads |-> {}]
  /\ data = << >>
  /\ call = [t \in Threads |-> NoCall]
  /\ pc = [t \in Threads |-> "idle"]
  /\ panicked = FALSE

block_to_arena(b) == b \div PGSIZE
arena_to_block(page, idx) == (page * PGSIZE) + ARENA + (idx * block_size[arena[page].desc])
Blocks == UNION {blocks[t] : t \in Threads}
BlockAt(addr) == CHOOSE b \in Blocks : b.addr = addr

\* data after someone writes the n bytes at lo: blocks there are not intact,
\* but for the ones in own.
Overwritten(lo, n, own) ==
  [x \in DOMAIN data |->
     /\ data[x]
     /\ x \in own \/ x + BlockAt(x).size <= lo \/ lo + n <= x]

Goto(t, label) == pc' = [pc EXCEPT ![t] = label]
Set(t, c) == call' = [call EXCEPT ![t] = c @@ @]

\* The call of t returns the block b: t has it and fills it.
Returns(t, addr, size, page_cnt) ==
  /\ blocks' = [blocks EXCEPT ![t] = @ \cup {[addr |-> addr, size |-> size, page_cnt |-> page_cnt]}]
  /\ data' = (addr :> TRUE) @@ Overwritten(addr, size, {})
  /\ call' = [call EXCEPT ![t] = NoCall]
  /\ Goto(t, "idle")

\* The call of t returns without a block.
Ends(t) ==
  /\ call' = [call EXCEPT ![t] = NoCall]
  /\ Goto(t, "idle")
  /\ UNCHANGED user
-----------------------------------------------------------------------------
(* palloc.c *)

\* Enters palloc_get_multiple; the result goes to the label then.
Palloc(t, pool, cnt, then) ==
  /\ Set(t, [pool |-> pool, cnt |-> cnt, i |-> 0, then |-> then])
  /\ Goto(t, "p_lock")

palloc_get_multiple(t, flags, cnt) ==
  /\ pc[t] = "idle"
  /\ Cardinality(blocks[t]) < MaxBlocks
  /\ call' = [call EXCEPT ![t] = [op |-> "palloc", flags |-> flags, cnt |-> cnt,
                 pool |-> IF "PAL_USER" \in flags THEN "user" ELSE "kernel",
                 then |-> "p_user"] @@ NoCall]
  /\ Goto(t, IF cnt = 0 THEN "p_none" ELSE "p_lock")
  /\ UNCHANGED <<heap, locks, user, panicked>>

p_lock(t) ==
  LET pool == call[t].pool
  IN /\ pc[t] = "p_lock" /\ pool_lock[pool] = None
     /\ pool_lock' = [pool_lock EXCEPT ![pool] = t]
     /\ Goto(t, "p_scan")
     /\ UNCHANGED <<heap, desc_lock, user, call, panicked>>

\* bitmap_scan tries the group at i.  A free only clears bits, and only the
\* holder of the lock sets them, so that a group is free when its last bit
\* is found to be.
p_scan(t) ==
  LET c == call[t]
      map == used_map[c.pool]
  IN /\ pc[t] = "p_scan"
     /\ CASE c.i > map.bit_cnt - c.cnt ->
               /\ pool_lock' = [pool_lock EXCEPT ![c.pool] = None]
               /\ Set(t, [page |-> NULL])
               /\ Goto(t, c.then)
          [] bitmap_contains(map, c.i, c.cnt, TRUE) ->
               /\ Set(t, [i |-> c.i + 1])
               /\ UNCHANGED <<pc, pool_lock>>
          [] OTHER -> Goto(t, "p_flip") /\ UNCHANGED <<call, pool_lock>>
     /\ UNCHANGED <<heap, desc_lock, user, panicked>>

p_flip(t) ==
  LET c == call[t]
  IN /\ pc[t] = "p_flip"
     /\ used_map' = [used_map EXCEPT ![c.pool] = bitmap_set_multiple(@, c.i, c.cnt, TRUE)]
     /\ pool_lock' = [pool_lock EXCEPT ![c.pool] = None]
     /\ Set(t, [page |-> palloc_init[c.pool].base + c.i])
     /\ Goto(t, c.then)
     /\ UNCHANGED <<free_list, arena, desc_lock, user, panicked>>

\* Back in palloc_get_multiple, for a caller outside malloc: PAL_ZERO fills
\* the pages, PAL_ASSERT stops the kernel when there are none.
p_user(t) ==
  LET c == call[t]
  IN /\ pc[t] \in {"p_user", "p_none"}
     /\ IF c.page # NULL
        THEN Returns(t, c.page * PGSIZE, c.cnt * PGSIZE, c.cnt) /\ UNCHANGED panicked
        ELSE /\ panicked' = (pc[t] = "p_user" /\ "PAL_ASSERT" \in c.flags)
             /\ Ends(t)
     /\ UNCHANGED <<heap, locks>>

\* Fault: the pages are overwritten when they are free already.
pf_clear_late(t) ==
  LET c == call[t]
      pool == CHOOSE p \in Pools : page_from_pool(p, c.page)
  IN /\ pc[t] = "pf_clear"
     /\ IF c.i = 0
        THEN /\ used_map' = [used_map EXCEPT ![pool] =
                               bitmap_set_multiple(@, c.page - palloc_init[pool].base, c.cnt, FALSE)]
             /\ Set(t, [i |-> 1])
             /\ UNCHANGED <<data, pc>>
        ELSE /\ data' = Overwritten(c.page * PGSIZE, c.cnt * PGSIZE, {})
             /\ Goto(t, IF c.then = "f_unlock" THEN "f_unlock" ELSE "idle")
             /\ UNCHANGED <<used_map, call>>
     /\ arena' = [p \in Pages |-> IF p \in c.page..c.page + c.cnt - 1 THEN NoArena ELSE arena[p]]
     /\ UNCHANGED <<free_list, locks, blocks, panicked>>

\* palloc_free_multiple: the pages are overwritten, then freed bit by bit.
pf_clear(t) ==
  LET c == call[t]
  IN /\ pc[t] = "pf_clear"
     /\ arena' = [p \in Pages |-> IF p \in c.page..c.page + c.cnt - 1 THEN NoArena ELSE arena[p]]
     /\ data' = Overwritten(c.page * PGSIZE, c.cnt * PGSIZE, {})
     /\ Set(t, [i |-> 0, pool |-> CHOOSE p \in Pools : page_from_pool(p, c.page)])
     /\ Goto(t, "pf_bits")
     /\ UNCHANGED <<used_map, free_list, locks, blocks, panicked>>

pf_bits(t) ==
  LET c == call[t]
      idx == c.page - palloc_init[c.pool].base
  IN /\ pc[t] = "pf_bits"
     /\ IF c.i = 0 /\ ~bitmap_all(used_map[c.pool], idx, c.cnt)
        THEN panicked' = TRUE /\ UNCHANGED <<used_map, call, pc>>
        ELSE /\ used_map' = [used_map EXCEPT ![c.pool] = bitmap_reset(@, idx + c.i)]
             /\ UNCHANGED panicked
             /\ IF c.i + 1 < c.cnt THEN Set(t, [i |-> c.i + 1]) /\ UNCHANGED pc
                ELSE IF c.then = "f_unlock" THEN Goto(t, "f_unlock") /\ UNCHANGED call
                ELSE Goto(t, "idle") /\ call' = [call EXCEPT ![t] = NoCall]
     /\ UNCHANGED <<free_list, arena, locks, user>>

palloc_free_multiple(t, b) ==
  /\ pc[t] = "idle"
  /\ b \in blocks[t] /\ b.page_cnt > 0
  /\ blocks' = [blocks EXCEPT ![t] = @ \ {b}]
  /\ data' = [x \in DOMAIN data \ {b.addr} |-> data[x]]
  /\ call' = [call EXCEPT ![t] = [op |-> "free", page |-> b.addr \div PGSIZE,
                                   cnt |-> b.page_cnt] @@ NoCall]
  /\ Goto(t, "pf_clear")
  /\ UNCHANGED <<heap, locks, panicked>>
-----------------------------------------------------------------------------
(* malloc.c *)

\* The smallest descriptor that satisfies the request; NoDesc for a big block.
DescFor(size) ==
  LET fit == {d \in Descs : block_size[d] >= size} IN IF fit = {} THEN NoDesc ELSE Min(fit)

\* Enters malloc on behalf of op.
EnterMalloc(t, op, size, old) ==
  LET d == DescFor(size)
      c == [op |-> op, size |-> size, old |-> old, d |-> d] @@ NoCall
  IN /\ pc[t] = "idle"
     /\ Cardinality(blocks[t]) < MaxBlocks
     /\ UNCHANGED <<heap, locks, user, panicked>>
     /\ IF size = 0 THEN UNCHANGED <<call, pc>>       \* malloc (0) is null
        ELSE IF d # NoDesc
        THEN call' = [call EXCEPT ![t] = c] /\ Goto(t, "m_lock")
        ELSE /\ call' = [call EXCEPT ![t] = [cnt |-> DIV_ROUND_UP(size + ARENA, PGSIZE),
                                             then |-> "m_big"] @@ c]
             /\ Goto(t, "p_lock")

malloc(t, size) == EnterMalloc(t, "malloc", size, NULL)

calloc(t, a, b) ==
  LET size == (a * b) % (SIZE_MAX + 1)
  IN size >= a /\ size >= b /\ EnterMalloc(t, "calloc", size, NULL)

m_lock(t) ==
  LET c == call[t]
  IN /\ pc[t] = "m_lock" /\ desc_lock[c.d] = None
     /\ desc_lock' = [desc_lock EXCEPT ![c.d] = t]
     /\ IF free_list[c.d] = <<>> THEN Palloc(t, "kernel", 1, "m_arena")
        ELSE Goto(t, "m_pop") /\ UNCHANGED call
     /\ UNCHANGED <<heap, pool_lock, user, panicked>>

\* The header and the list elements of the new blocks are written.
m_arena(t) ==
  LET c == call[t]
      n == blocks_per_arena(c.d)
      first == (c.page * PGSIZE) + ARENA
  IN /\ pc[t] = "m_arena"
     /\ IF c.page = NULL
        THEN /\ desc_lock' = [desc_lock EXCEPT ![c.d] = None]
             /\ Ends(t)
             /\ UNCHANGED heap
        ELSE /\ arena' = [arena EXCEPT ![c.page] = [magic |-> TRUE, desc |-> c.d, free_cnt |-> n]]
             /\ free_list' = [free_list EXCEPT ![c.d] =
                               @ \o [i \in 1..n |-> first + ((i - 1) * block_size[c.d])]]
             /\ data' = Overwritten(c.page * PGSIZE, ARENA + ((n - 1) * block_size[c.d]) + LIST_ELEM, {})
             /\ Goto(t, "m_pop")
             /\ UNCHANGED <<used_map, desc_lock, blocks, call>>
     /\ UNCHANGED <<pool_lock, panicked>>

\* Number of bytes in the block at addr; block_size () of malloc.c.
SizeOfBlock(addr) ==
  LET a == arena[block_to_arena(addr)]
  IN IF a.desc # NoDesc THEN block_size[a.desc] ELSE (PGSIZE * a.free_cnt) - (addr % PGSIZE)

\* The block at addr goes back to the descriptor of its arena, or its pages to
\* the page allocator: the part of free before any lock is taken.
EnterFree(t, addr, rest, held) ==
  LET page == block_to_arena(addr)
      a == arena[page]
      c == [op |-> "free", old |-> addr, d |-> a.desc, page |-> page] @@ NoCall
  IN /\ blocks' = [blocks EXCEPT ![t] = held]
     /\ IF a.desc # NoDesc
        THEN /\ data' = [x \in rest |-> Overwritten(addr, block_size[a.desc], {addr})[x]]
             /\ call' = [call EXCEPT ![t] = c]
             /\ Goto(t, "f_lock")
        ELSE /\ data' = [x \in rest |-> data[x]]
             /\ call' = [call EXCEPT ![t] = [cnt |-> a.free_cnt] @@ c]
             /\ Goto(t, "pf_clear")

\* malloc has the block at addr: calloc clears it, realloc copies the old block
\* and frees it.
GotBlock(t, addr) ==
  LET c == call[t]
      new == [addr |-> addr, size |-> c.size, page_cnt |-> 0]
      kept == Min({c.size, SizeOfBlock(c.old)})
  IN IF c.op # "realloc" \/ c.old = NULL THEN Returns(t, addr, c.size, 0)
     ELSE /\ blocks' = [blocks EXCEPT ![t] = @ \cup {new}]
          /\ data' = (addr :> data[c.old]) @@ Overwritten(addr, kept, {})
          /\ Set(t, [size |-> 0])
          /\ Goto(t, "r_free")

m_big(t) ==
  LET c == call[t]
  IN /\ pc[t] = "m_big"
     /\ IF c.page = NULL THEN Ends(t) /\ UNCHANGED heap
        ELSE /\ arena' = [arena EXCEPT ![c.page] =
                            [magic |-> TRUE, desc |-> NoDesc, free_cnt |-> c.cnt]]
             /\ GotBlock(t, (c.page * PGSIZE) + ARENA)
             /\ UNCHANGED <<used_map, free_list>>
     /\ UNCHANGED <<locks, panicked>>

m_pop(t) ==
  LET d == call[t].d
      b == Head(free_list[d])
  IN /\ pc[t] = "m_pop"
     /\ free_list' = [free_list EXCEPT ![d] = Tail(@)]
     /\ arena' = [arena EXCEPT ![block_to_arena(b)].free_cnt = @ - 1]
     /\ desc_lock' = [desc_lock EXCEPT ![d] = None]
     /\ GotBlock(t, b)
     /\ UNCHANGED <<used_map, pool_lock, panicked>>

realloc(t, old, new_size) ==
  /\ new_size > 0
  /\ old # NULL => \E b \in blocks[t] : b.addr = old /\ b.page_cnt = 0
  /\ EnterMalloc(t, "realloc", new_size, old)

r_free(t) ==
  LET old == call[t].old
  IN /\ pc[t] = "r_free"
     /\ EnterFree(t, old, DOMAIN data \ {old}, {b \in blocks[t] : b.addr # old})
     /\ UNCHANGED <<heap, locks, panicked>>

\* Also realloc of the block to size 0.
free(t, b) ==
  /\ pc[t] = "idle"
  /\ b \in blocks[t] /\ b.page_cnt = 0
  /\ EnterFree(t, b.addr, DOMAIN data \ {b.addr}, blocks[t] \ {b})
  /\ UNCHANGED <<heap, locks, panicked>>

f_lock(t) ==
  /\ pc[t] = "f_lock" /\ desc_lock[call[t].d] = None
  /\ desc_lock' = [desc_lock EXCEPT ![call[t].d] = t]
  /\ Goto(t, "f_list")
  /\ UNCHANGED <<heap, pool_lock, user, call, panicked>>

\* Fault: an arena whose last block is freed stays.
f_list_keep(t) ==
  LET c == call[t]
  IN /\ pc[t] = "f_list"
     /\ arena' = [arena EXCEPT ![c.page].free_cnt = @ + 1]
     /\ free_list' = [free_list EXCEPT ![c.d] = <<c.old>> \o @]
     /\ Goto(t, "f_unlock")
     /\ UNCHANGED <<used_map, locks, user, call, panicked>>

f_list(t) ==
  LET c == call[t]
      own == {arena_to_block(c.page, i) : i \in 0..blocks_per_arena(c.d) - 1}
      unused == arena[c.page].free_cnt + 1 >= blocks_per_arena(c.d)
      pushed == <<c.old>> \o free_list[c.d]
  IN /\ pc[t] = "f_list"
     /\ arena' = [arena EXCEPT ![c.page].free_cnt = @ + 1]
     /\ IF unused
        THEN /\ free_list' = [free_list EXCEPT ![c.d] = SelectSeq(pushed, LAMBDA x : x \notin own)]
             /\ Set(t, [cnt |-> 1, i |-> 0, then |-> "f_unlock"])
             /\ Goto(t, "pf_clear")
        ELSE /\ free_list' = [free_list EXCEPT ![c.d] = pushed]
             /\ Goto(t, "f_unlock")
             /\ UNCHANGED call
     /\ UNCHANGED <<used_map, locks, user, panicked>>

f_unlock(t) ==
  /\ pc[t] = "f_unlock"
  /\ desc_lock' = [desc_lock EXCEPT ![call[t].d] = None]
  /\ Ends(t)
  /\ UNCHANGED <<heap, pool_lock, panicked>>
-----------------------------------------------------------------------------
Step(t) ==
  \/ p_lock(t) \/ p_scan(t) \/ p_flip(t) \/ p_user(t) \/ pf_clear(t) \/ pf_bits(t)
  \/ m_lock(t) \/ m_arena(t) \/ m_big(t) \/ m_pop(t) \/ r_free(t)
  \/ f_lock(t) \/ f_list(t) \/ f_unlock(t)

Call(t) ==
  \/ \E g \in Groups : palloc_get_multiple(t, g[1], g[2])
  \/ \E b \in blocks[t] : palloc_free_multiple(t, b) \/ free(t, b)
  \/ \E size \in Requests : malloc(t, size)
  \/ \E p \in Callocs : calloc(t, p[1], p[2])
  \/ \E b \in blocks[t], size \in Requests : realloc(t, b.addr, size)

Next == ~panicked /\ \E t \in Threads : Step(t) \/ Call(t)
Spec == Init /\ [][Next]_vars
-----------------------------------------------------------------------------
\* No write by the allocator or by another owner ever reaches a block in use:
\* not when pages are freed without the lock of their pool while others are
\* being allocated, nor when an arena goes back to the page allocator; realloc
\* keeps the contents.
BlocksIntact == \A x \in DOMAIN data : data[x]

\* When no call is under way, nothing is lost: the used pages are exactly those
\* of the blocks in use, and a descriptor's free list has the free blocks of
\* its arenas, each once.  The kernel stopped only if PAL_ASSERT asked it to.
NothingLeaked ==
  (\A t \in Threads : pc[t] = "idle") =>
    LET PagesUsed == UNION {(b.addr \div PGSIZE)..((b.addr + b.size - 1) \div PGSIZE) : b \in Blocks}
        Arenas(d) == {p \in Pages : arena[p].magic /\ arena[p].desc = d}
        Spare(d) == UNION {{arena_to_block(p, i) : i \in 0..blocks_per_arena(d) - 1} : p \in Arenas(d)}
                    \ {b.addr : b \in Blocks}
    IN /\ \A pool \in Pools : {palloc_init[pool].base + i : i \in Ones(used_map[pool])}
                                = PagesUsed \cap PagesOf(pool)
       /\ \A d \in Descs : /\ ToSet(free_list[d]) = Spare(d)
                            /\ Len(free_list[d]) = Cardinality(Spare(d))
=============================================================================
