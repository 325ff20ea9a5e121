---------------------------- MODULE InodeProofs ----------------------------
(***************************************************************************)
(* Proofs about Inode: reads, writes and extensions of one inode by any    *)
(* number of threads keep its blocks apart, its bytes in place and their   *)
(* sector lookups valid, and the counter that writers and deniers share    *)
(* and both conditions are right as long as one thread denies at a time.   *)
(***************************************************************************)
EXTENDS Inode, TLAPS

-----------------------------------------------------------------------------
(* Sectors and sizes                                                       *)

\* bytes_to_sectors: block b begins inside of n bytes exactly if it is one of
\* their blocks.
LEMMA BlockInside ==
  ASSUME NEW b \in Nat, NEW n \in Nat
  PROVE  b * BLOCK_SECTOR_SIZE < n <=> b < bytes_to_sectors(n)
BY SMTT(30), InodeAssumption DEF bytes_to_sectors

\* A size has at most as many blocks as bytes.
LEMMA BlocksBound ==
  ASSUME NEW n \in Nat
  PROVE  bytes_to_sectors(n) \in 0 .. n
BY InodeAssumption DEF bytes_to_sectors

\* A position inside of n bytes is in one of their blocks.
LEMMA PositionInside ==
  ASSUME NEW n \in Nat, NEW pos \in Nat, pos < n
  PROVE  pos \div BLOCK_SECTOR_SIZE \in 0 .. bytes_to_sectors(n) - 1
BY InodeAssumption DEF bytes_to_sectors

\* The smallest of three numbers, for chunk_size.
LEMMA MinOfThree ==
  ASSUME NEW a \in Int, NEW b \in Int, NEW c \in Int
  PROVE  /\ Min({a, b, c}) \in Int
         /\ Min({a, b, c}) <= a /\ Min({a, b, c}) <= b /\ Min({a, b, c}) <= c
<1>1. \E x \in {a, b, c} : \A y \in {a, b, c} : x <= y
  OBVIOUS
<1> QED
  BY Zenon, <1>1 DEF Min

-----------------------------------------------------------------------------
(* The inductive invariant                                                 *)

\* The first n blocks of the file are sectors of its own, one each.
Owned(n) ==
  \A b \in 0 .. n - 1 : /\ blocks[b] \in Sectors \ free
                        /\ \A c \in 0 .. n - 1 : blocks[b] = blocks[c] => b = c

\* An extension that found no sector: nobody allocates and nobody ever will.
Stuck == extending /\ \A t \in Threads : pc[t] # "alloc"

\* What each kind of call does: where it may be, and the locals it has there.
CallAt(p, l) ==
  /\ l.offset + l.size <= MaxLength
  /\ l.done <= l.offset
  /\ p \notin {"alloc", "locate", "copy", "leave"} => l.count = 0 /\ l.done = 0
  /\ p \in {"count", "alloc", "leave"} => l.op = "write"
  /\ p = "reenter" => l.op = "read"
  /\ p \in {"enter", "locate", "copy"} => l.op \in {"read", "write"}
  /\ p \in {"deny", "deny_store"} => l.op = "deny"
  /\ p = "alloc" => l.count <= bytes_to_sectors(l.offset + l.size)

CallOK == \A t \in Threads : CallAt(pc[t], local[t])

\* The sleepers of the two conditions are the threads that wait, and those of
\* until_not_extending wait for an extension that has not ended.
WaitOK ==
  /\ \A t \in Threads : pc[t] = "wait" <=> t \in until_not_extending \cup until_no_writers
  /\ until_not_extending \cap until_no_writers = {}
  /\ \A t \in until_not_extending : local[t].op \in {"read", "write"}
  /\ \A t \in until_no_writers : local[t].op \in {"read", "deny"}
  /\ until_not_extending # {} => extending

\* One thread allocates, for a longer file, and the blocks it has passed are
\* the file's; a thread in the copy loop stays in the file, unless the
\* extension it wanted has failed.
ExtendOK ==
  /\ \A t, u \in Threads : pc[t] = "alloc" /\ pc[u] = "alloc" => t = u
  /\ \A t \in Threads : pc[t] = "alloc" =>
       /\ extending /\ local[t].offset + local[t].size > length
       /\ Owned(local[t].count)
  /\ Owned(bytes_to_sectors(length))
  /\ \A t \in Threads : pc[t] \in {"locate", "copy"} =>
       local[t].offset + local[t].size <= length \/ Stuck
  /\ \A t \in Threads : pc[t] = "copy" =>
       local[t].sector \in Sectors \/ (Stuck /\ local[t].offset >= length)

Inv == TypeOK /\ CallOK /\ WaitOK /\ ExtendOK

\* The threads that have counted themselves as deniers and not discounted.
Denied == denying \cup {t \in Threads : pc[t] = "allow_store"}

\* At most one thread runs the program, so at most one denies writes.
SingleDenier == \A t, u \in Deniers : t = u

\* The counter with a single denier.  The load of inode_allow_write and that of
\* inode_deny_write are still current when they are stored.
CountOK ==
  /\ denying \subseteq Deniers
  /\ \A t \in Threads : local[t].op = "deny" \/ pc[t] = "allow_store" =>
       t \in Deniers /\ t \notin denying
  /\ \A t \in Threads : pc[t] = "allow_store" => local[t].op # "deny"
  /\ \A t \in Threads : pc[t] = "deny_store" => inode_lock = t /\ Writing = {}
  /\ \A t \in Threads : pc[t] \in {"deny_store", "allow_store"} =>
       local[t].eax = deny_write_cnt
  /\ Denied # {} => Writing = {} /\ deny_write_cnt = 1
  /\ Denied = {} => deny_write_cnt = 0 - Cardinality(Writing)
  /\ until_no_writers # {} => Writing # {}

\* Threads other than t stay where they are, or are woken.
Others(t) ==
  \A u \in Threads \ {t} :
    /\ local'[u] = local[u]
    /\ pc'[u] = pc[u] \/ (pc[u] = "wait" /\ pc'[u] \in {"enter", "reenter", "deny"})

\* Only t moves.
Moves(t) ==
  /\ pc' \in [Threads -> Pcs] /\ local' \in [Threads -> Locals]
  /\ \A u \in Threads : u # t => pc'[u] = pc[u] /\ local'[u] = local[u]

-----------------------------------------------------------------------------
(* What a step of one thread may do                                        *)

\* An assignment to the place and the locals of one thread.
LEMMA Assigned ==
  ASSUME TypeOK, NEW t \in Threads, NEW p \in Pcs, NEW l \in Locals,
         pc' = [pc EXCEPT ![t] = p], local' = [local EXCEPT ![t] = l]
  PROVE  Moves(t) /\ pc'[t] = p /\ local'[t] = l
<1>1. pc \in [Threads -> Pcs] /\ local \in [Threads -> Locals]
  BY Zenon DEF TypeOK
<1> QED
  BY Zenon, <1>1 DEF Moves

\* A step to another place.
LEMMA Goes ==
  ASSUME TypeOK, NEW t \in Threads, NEW p \in Pcs, Goto(t, p), UNCHANGED local
  PROVE  Moves(t) /\ pc'[t] = p /\ local'[t] = local[t]
BY Zenon DEF TypeOK, Goto, Moves

\* The end of a call.
LEMMA Returns ==
  ASSUME TypeOK, NEW t \in Threads, NEW value \in -1 .. MaxLength, Return(t, value)
  PROVE  /\ Moves(t) /\ pc'[t] = "idle" /\ local'[t] = Outside(value)
         /\ CallAt("idle", Outside(value))
<1>1. Outside(value) \in Locals /\ "idle" \in Pcs
  BY InodeAssumption DEF Outside, Locals, Ops, Pcs
<1>2. CallAt("idle", Outside(value))
  BY InodeAssumption DEF Outside, CallAt
<1>3. QED
  BY Zenon, <1>1, <1>2, Assigned DEF Return, Goto

\* A step that leaves length, blocks and extending alone, of a thread that
\* neither allocates nor begins to.
LEMMA ExtendFrame ==
  ASSUME ExtendOK, NEW t \in Threads, Others(t),
         UNCHANGED <<length, blocks, free, extending>>,
         pc[t] # "alloc", pc'[t] # "alloc",
         pc'[t] \in {"locate", "copy"} =>
           local'[t].offset + local'[t].size <= length \/ Stuck,
         pc'[t] = "copy" =>
           local'[t].sector \in Sectors \/ (Stuck /\ local'[t].offset >= length)
  PROVE  ExtendOK'
<1>1. /\ length' = length /\ blocks' = blocks /\ free' = free /\ extending' = extending
  BY Zenon
<1>2. length' = length /\ extending' = extending
  BY <1>1, Zenon
<1>3. /\ \A u \in Threads : pc'[u] \in {"alloc", "locate", "copy"} /\ u # t =>
           pc'[u] = pc[u] /\ local'[u] = local[u]
      /\ \A u \in Threads : pc[u] = "alloc" => pc'[u] = "alloc"
      /\ \A u \in Threads : pc'[u] = "alloc" => pc[u] = "alloc" /\ local'[u] = local[u]
  BY Zenon DEF Others
<1>4. Stuck => Stuck'
  <2>1. extending => extending'
    BY <1>1
  <2>2. (\A u \in Threads : pc[u] # "alloc") => \A u \in Threads : pc'[u] # "alloc"
    BY <1>3, Zenon
  <2> QED
    BY <2>1, <2>2, Zenon DEF Stuck
<1>5. \A u, v \in Threads : pc'[u] = "alloc" /\ pc'[v] = "alloc" => u = v
  BY <1>3, Zenon DEF ExtendOK
<1>6. ASSUME NEW u \in Threads, pc'[u] = "alloc"
      PROVE  /\ extending' /\ local'[u].offset + local'[u].size > length'
             /\ Owned(local[u].count)' /\ local'[u] = local[u]
  <2>1. pc[u] = "alloc" /\ local'[u] = local[u]
    BY <1>3, <1>6, Zenon
  <2>2. /\ extending /\ local[u].offset + local[u].size > length
        /\ Owned(local[u].count)
    BY <2>1, Zenon DEF ExtendOK
  <2>3. extending'
    BY <1>1, <2>2
  <2>4. Owned(local[u].count)'
    BY <1>1, <2>1, <2>2, Zenon DEF Owned
  <2> QED
    BY <1>1, <2>1, <2>2, <2>3, <2>4, Zenon
<1>7. Owned(bytes_to_sectors(length))'
  BY <1>1, Zenon DEF ExtendOK, Owned
<1>8. \A u \in Threads : pc'[u] \in {"locate", "copy"} =>
        local'[u].offset + local'[u].size <= length' \/ Stuck'
  BY <1>1, <1>3, <1>4, Zenon DEF ExtendOK
<1>9. \A u \in Threads : pc'[u] = "copy" =>
        local'[u].sector \in Sectors \/ (Stuck' /\ local'[u].offset >= length')
  BY <1>1, <1>3, <1>4, Zenon DEF ExtendOK
<1>10. \A u \in Threads : pc'[u] = "alloc" => Owned(local[u].count)'
  BY <1>6, Zenon
<1> QED
  BY <1>5, <1>6, <1>7, <1>8, <1>9, <1>10, Zenon DEF ExtendOK, Owned

\* A step of a thread that neither waits nor begins to.
LEMMA WaitFrame ==
  ASSUME TypeOK, WaitOK, NEW t \in Threads,
         \A u \in Threads \ {t} : pc'[u] = pc[u] /\ local'[u] = local[u],
         UNCHANGED condVars, extending => extending',
         pc[t] # "wait", pc'[t] # "wait"
  PROVE  WaitOK'
<1>1. /\ until_not_extending' = until_not_extending /\ until_no_writers' = until_no_writers
      /\ until_not_extending \subseteq Threads /\ until_no_writers \subseteq Threads
  BY Zenon DEF condVars, TypeOK
<1>2. t \notin until_not_extending /\ t \notin until_no_writers
  BY Zenon DEF WaitOK
<1>3. \A u \in Threads : pc'[u] = "wait" <=> pc[u] = "wait"
  BY Zenon
<1>4. \A u \in until_not_extending \cup until_no_writers : local'[u] = local[u]
  BY <1>1, <1>2, Zenon
<1> QED
  BY <1>1, <1>3, <1>4, Zenon DEF WaitOK

\* A step of one thread, inside of a call, that changes nothing of the file but
\* bytes.
LEMMA PlainStep ==
  ASSUME Inv, NEW t \in Threads, Moves(t),
         UNCHANGED <<length, blocks, free, extending, condVars>>,
         disk' \in [Sectors -> [0 .. BLOCK_SECTOR_SIZE - 1 -> Bytes]],
         deny_write_cnt' \in Int, inode_lock' \in Threads \cup {NULL},
         denying' \in SUBSET Threads, calls' \in [Threads -> 0 .. MaxCalls],
         pc[t] \notin {"wait", "alloc"}, pc'[t] \notin {"wait", "alloc"},
         CallAt(pc'[t], local'[t]),
         pc'[t] \in {"locate", "copy"} =>
           local'[t].offset + local'[t].size <= length \/ Stuck,
         pc'[t] = "copy" =>
           local'[t].sector \in Sectors \/ (Stuck /\ local'[t].offset >= length)
  PROVE  Inv'
<1>1. TypeOK /\ CallOK /\ WaitOK /\ ExtendOK
  BY Zenon DEF Inv
<1>2. /\ pc' \in [Threads -> Pcs] /\ local' \in [Threads -> Locals]
      /\ \A u \in Threads \ {t} : pc'[u] = pc[u] /\ local'[u] = local[u]
  BY <1>1, Zenon DEF Moves
<1>3. /\ length' = length /\ blocks' = blocks /\ free' = free /\ extending' = extending
      /\ until_not_extending' = until_not_extending /\ until_no_writers' = until_no_writers
      /\ UNCHANGED condVars
  BY Zenon DEF condVars
<1>4. TypeOK'
  BY <1>1, <1>2, <1>3, Zenon DEF TypeOK
<1>5. CallOK'
  BY <1>1, <1>2, Zenon DEF CallOK
<1>6. pc[t] # "wait" /\ pc'[t] # "wait" /\ pc[t] # "alloc" /\ pc'[t] # "alloc"
  BY Zenon, <1>2
<1>7. WaitOK'
  <2>1. extending => extending'
    BY <1>3
  <2> QED
    BY <1>1, <1>2, <1>3, <1>6, <2>1, WaitFrame, Zenon
<1>8. ExtendOK'
  <2>1. Others(t)
    BY <1>2, Zenon DEF Others
  <2> QED
    BY <1>1, <1>2, <1>3, <1>6, <2>1, ExtendFrame, Zenon
<1> QED
  BY <1>4, <1>5, <1>7, <1>8, Zenon DEF Inv

\* A thread goes to sleep on one of the conditions, on until_not_extending
\* during an extension only.
LEMMA SleepStep ==
  ASSUME Inv, NEW t \in Threads,
         pc[t] \in {"enter", "reenter", "deny"},
         pc' = [pc EXCEPT ![t] = "wait"],
         \/ /\ until_not_extending' = until_not_extending \cup {t}
            /\ until_no_writers' = until_no_writers
            /\ extending /\ local[t].op \in {"read", "write"}
         \/ /\ until_no_writers' = until_no_writers \cup {t}
            /\ until_not_extending' = until_not_extending
            /\ local[t].op \in {"read", "deny"},
         UNCHANGED <<dataVars, extending, deny_write_cnt, inode_lock, local, denying, calls>>
  PROVE  Inv'
<1>1. TypeOK /\ CallOK /\ WaitOK /\ ExtendOK
  BY Zenon DEF Inv
<1>2. /\ length' = length /\ blocks' = blocks /\ free' = free /\ disk' = disk
      /\ extending' = extending /\ local' = local /\ deny_write_cnt' = deny_write_cnt
      /\ inode_lock' = inode_lock /\ denying' = denying /\ calls' = calls
  BY Zenon DEF dataVars
<1>3. /\ pc' \in [Threads -> Pcs] /\ pc'[t] = "wait"
      /\ \A u \in Threads \ {t} : pc'[u] = pc[u]
  BY Zenon, <1>1 DEF TypeOK, Pcs
<1>4. pc[t] \notin {"alloc", "locate", "copy", "leave"} /\ pc[t] # "wait" /\ pc[t] # "alloc"
  BY Zenon
<1>5. /\ until_not_extending' \in SUBSET Threads /\ until_no_writers' \in SUBSET Threads
      /\ until_not_extending \subseteq Threads /\ until_no_writers \subseteq Threads
  BY Zenon, <1>1 DEF TypeOK
<1>6. TypeOK'
  BY <1>1, <1>2, <1>3, <1>5, Zenon DEF TypeOK
<1>7. CallOK'
  <2>1. CallAt(pc[t], local[t])
    BY <1>1, Zenon DEF CallOK
  <2>2. CallAt("wait", local[t])
    BY Zenon, <1>4, <2>1 DEF CallAt
  <2> QED
    BY <1>1, <1>2, <1>3, <2>2, Zenon DEF CallOK
<1>8. WaitOK'
  <2>1. t \notin until_not_extending /\ t \notin until_no_writers
    BY <1>1, <1>4, Zenon DEF WaitOK
  <2>2. CASE /\ until_not_extending' = until_not_extending \cup {t}
             /\ until_no_writers' = until_no_writers
             /\ extending /\ local[t].op \in {"read", "write"}
    <3>1. \A u \in Threads :
            pc'[u] = "wait" <=> u \in until_not_extending' \cup until_no_writers'
      BY <1>1, <1>3, <2>2, Zenon DEF WaitOK
    <3>2. until_not_extending' \cap until_no_writers' = {}
      BY <1>1, <2>1, <2>2, ZenonT(30) DEF WaitOK
    <3>3. /\ \A u \in until_not_extending' : local'[u].op \in {"read", "write"}
          /\ \A u \in until_no_writers' : local'[u].op \in {"read", "deny"}
      BY <1>1, <1>2, <2>2, Zenon DEF WaitOK
    <3>4. extending'
      BY <1>2, <2>2
    <3> QED
      BY <3>1, <3>2, <3>3, <3>4, Zenon DEF WaitOK
  <2>3. CASE /\ until_no_writers' = until_no_writers \cup {t}
             /\ until_not_extending' = until_not_extending
             /\ local[t].op \in {"read", "deny"}
    <3>1. \A u \in Threads :
            pc'[u] = "wait" <=> u \in until_not_extending' \cup until_no_writers'
      BY <1>1, <1>3, <2>3, Zenon DEF WaitOK
    <3>2. until_not_extending' \cap until_no_writers' = {}
      BY <1>1, <2>1, <2>3, ZenonT(30) DEF WaitOK
    <3>3. /\ \A u \in until_not_extending' : local'[u].op \in {"read", "write"}
          /\ \A u \in until_no_writers' : local'[u].op \in {"read", "deny"}
      BY <1>1, <1>2, <2>3, Zenon DEF WaitOK
    <3>4. until_not_extending' # {} => extending'
      <4>1. extending => extending'
        BY <1>2
      <4> QED
        BY <1>1, <2>3, <4>1, Zenon DEF WaitOK
    <3> QED
      BY <3>1, <3>2, <3>3, <3>4, Zenon DEF WaitOK
  <2> QED
    BY <2>2, <2>3, Zenon
<1>9. ExtendOK'
  <2>1. Others(t)
    BY <1>2, <1>3, Zenon DEF Others
  <2>2. pc'[t] \notin {"locate", "copy"} /\ pc'[t] # "alloc" /\ pc'[t] # "copy"
    BY Zenon, <1>3
  <2> QED
    BY <1>1, <1>2, <1>4, <2>1, <2>2, ExtendFrame, Zenon
<1> QED
  BY <1>6, <1>7, <1>8, <1>9, Zenon DEF Inv

-----------------------------------------------------------------------------
(* Calls, tests and copies: the steps that leave the file's blocks alone.   *)

\* The invariant's parts.
LEMMA InvParts == Inv => TypeOK /\ CallOK /\ WaitOK /\ ExtendOK
BY Zenon DEF Inv

\* What the types say of a thread's locals.
LEMMA LocalTypes ==
  ASSUME TypeOK, NEW t \in Threads
  PROVE  /\ pc[t] \in Pcs /\ local[t] \in Locals
         /\ local[t].offset \in 0 .. MaxLength /\ local[t].size \in 0 .. MaxLength
         /\ local[t].done \in 0 .. MaxLength /\ local[t].count \in 0 .. MaxLength
         /\ local[t].eax \in Int
<1>1. pc[t] \in Pcs /\ local[t] \in Locals
  BY Zenon DEF TypeOK
<1> QED
  BY Zenon, <1>1 DEF Locals

\* A chunk is inside of what is asked for and inside of the file.
LEMMA ChunkBounds ==
  ASSUME TypeOK, NEW t \in Threads
  PROVE  /\ chunk_size(t) \in Int /\ chunk_size(t) <= local[t].size
         /\ chunk_size(t) <= length - local[t].offset
<1>1. /\ local[t].size \in Int /\ length - local[t].offset \in Int
      /\ BLOCK_SECTOR_SIZE - (local[t].offset % BLOCK_SECTOR_SIZE) \in Int
  BY SMTT(30), InodeAssumption, LocalTypes DEF TypeOK
<1> QED
  BY ZenonT(30), <1>1, MinOfThree DEF chunk_size

\* The types of what a step leaves alone.
LEMMA Untouched ==
  ASSUME TypeOK
  PROVE  /\ disk' = disk => disk' \in [Sectors -> [0 .. BLOCK_SECTOR_SIZE - 1 -> Bytes]]
         /\ deny_write_cnt' = deny_write_cnt => deny_write_cnt' \in Int
         /\ inode_lock' = inode_lock => inode_lock' \in Threads \cup {NULL}
         /\ denying' = denying => denying' \in SUBSET Threads
         /\ calls' = calls => calls' \in [Threads -> 0 .. MaxCalls]
BY Zenon DEF TypeOK

\* A call begins outside of the lock: only its caller moves.
LEMMA Keeps_Call ==
  ASSUME Inv, NEW t \in Threads, NEW op \in {"read", "write"},
         NEW offset \in 0 .. MaxLength, NEW size \in 1 .. MaxLength,
         offset + size <= MaxLength, Call(t, op, offset, size)
  PROVE  Inv'
<1>1. TypeOK /\ CallAt(pc[t], local[t])
  BY Zenon, InvParts DEF CallOK
<1>2. /\ pc[t] = "idle" /\ calls[t] < MaxCalls /\ calls' = [calls EXCEPT ![t] = @ + 1]
      /\ local' = [local EXCEPT ![t].op = op, ![t].offset = offset, ![t].size = size]
      /\ pc' = [pc EXCEPT ![t] = IF op = "read" THEN "enter" ELSE "count"]
      /\ UNCHANGED <<length, blocks, free, extending, condVars>>
      /\ disk' = disk /\ deny_write_cnt' = deny_write_cnt
      /\ inode_lock' = inode_lock /\ denying' = denying
  BY Zenon DEF Call, Goto, dataVars
<1>3. /\ local' \in [Threads -> Locals] /\ \A u \in Threads : u # t => local'[u] = local[u]
      /\ local'[t] = [local[t] EXCEPT !.op = op, !.offset = offset, !.size = size]
  <2>1. local \in [Threads -> Locals] /\ local[t] \in Locals
    BY Zenon, <1>1 DEF TypeOK
  <2>2. [local[t] EXCEPT !.op = op, !.offset = offset, !.size = size] \in Locals
    <3>1. op \in Ops /\ size \in 0 .. MaxLength
      BY DEF Ops
    <3>2. QED
      BY ZenonT(30), <2>1, <3>1 DEF Locals
  <2>3. local' = [local EXCEPT ![t] = [local[t] EXCEPT !.op = op, !.offset = offset, !.size = size]]
    BY ZenonT(30), <1>2, <2>1
  <2>4. QED
    BY Zenon, <2>1, <2>2, <2>3
<1>4. /\ local'[t].op = op /\ local'[t].offset = offset /\ local'[t].size = size
      /\ local'[t].done = local[t].done /\ local'[t].count = local[t].count
  BY Zenon, <1>1, <1>3, LocalTypes DEF Locals
<1>5. /\ pc' \in [Threads -> Pcs] /\ \A u \in Threads : u # t => pc'[u] = pc[u]
      /\ pc'[t] = IF op = "read" THEN "enter" ELSE "count"
  BY Zenon, <1>1, <1>2 DEF TypeOK, Pcs
<1>6. CallAt(pc'[t], local'[t])
  BY <1>1, <1>2, <1>4, <1>5 DEF CallAt
<1>7. calls' \in [Threads -> 0 .. MaxCalls]
  BY SMTT(30), <1>1, <1>2, InodeAssumption DEF TypeOK
<1>8. pc'[t] \notin {"wait", "alloc", "locate", "copy"} /\ pc[t] \notin {"wait", "alloc"}
  BY Zenon, <1>2, <1>5
<1>9. Moves(t)
  BY Zenon, <1>3, <1>5 DEF Moves
<1> QED
  BY Zenon, <1>1, <1>2, <1>6, <1>7, <1>8, <1>9, PlainStep, Untouched

\* A read that nobody has to be waited for starts copying inside the file, or
\* returns -1.
LEMMA Keeps_read_test_end ==
  ASSUME Inv, NEW t \in Threads, read_test_end(t)
  PROVE  Inv'
<1>1. TypeOK /\ CallAt(pc[t], local[t])
  BY Zenon, InvParts DEF CallOK
<1>2. /\ pc[t] \in {"enter", "reenter"} /\ local[t].op = "read"
      /\ UNCHANGED <<length, blocks, free, extending, condVars>>
      /\ disk' = disk /\ deny_write_cnt' = deny_write_cnt
      /\ inode_lock' = inode_lock /\ denying' = denying /\ calls' = calls
  BY Zenon DEF read_test_end, Locked, dataVars
<1>3. CASE Return(t, -1)
  <2>1. -1 \in -1 .. MaxLength
    BY InodeAssumption
  <2>2. Moves(t) /\ pc'[t] = "idle" /\ CallAt(pc'[t], local'[t])
    BY Zenon, <1>1, <1>3, <2>1, Returns
  <2>3. pc'[t] \notin {"wait", "alloc", "locate", "copy"} /\ pc[t] \notin {"wait", "alloc"}
    BY Zenon, <1>2, <2>2
  <2> QED
    BY Zenon, <1>1, <1>2, <2>2, <2>3, PlainStep, Untouched
<1>4. CASE /\ local[t].offset + local[t].size <= length
           /\ Goto(t, "locate") /\ UNCHANGED local
  <2>1. Moves(t) /\ pc'[t] = "locate" /\ local'[t] = local[t]
    BY Zenon, <1>1, <1>4, Goes DEF Pcs
  <2>2. CallAt(pc'[t], local'[t])
    BY Zenon, <1>1, <1>2, <2>1 DEF CallAt
  <2>3. pc'[t] \notin {"wait", "alloc", "copy"} /\ pc[t] \notin {"wait", "alloc"}
    BY Zenon, <1>2, <2>1
  <2> QED
    BY Zenon, <1>1, <1>2, <1>4, <2>1, <2>2, <2>3, PlainStep, Untouched
<1> QED
  BY Zenon, <1>3, <1>4 DEF read_test_end

\* A writer is counted or turned away; neither touches the file.
LEMMA Keeps_write_count ==
  ASSUME Inv, NEW t \in Threads, write_count(t)
  PROVE  Inv'
<1>1. TypeOK /\ CallAt(pc[t], local[t])
  BY Zenon, InvParts DEF CallOK
<1>2. /\ pc[t] = "count"
      /\ UNCHANGED <<length, blocks, free, extending, condVars>>
      /\ disk' = disk
      /\ inode_lock' = inode_lock /\ denying' = denying /\ calls' = calls
  BY Zenon DEF write_count, Locked, dataVars
<1>3. CASE Return(t, 0) /\ UNCHANGED deny_write_cnt
  <2>1. 0 \in -1 .. MaxLength
    BY InodeAssumption
  <2>2. Moves(t) /\ pc'[t] = "idle" /\ CallAt(pc'[t], local'[t])
    BY Zenon, <1>1, <1>3, <2>1, Returns
  <2>3. pc'[t] \notin {"wait", "alloc", "locate", "copy"} /\ pc[t] \notin {"wait", "alloc"}
    BY Zenon, <1>2, <2>2
  <2> QED
    BY Zenon, <1>1, <1>2, <1>3, <2>2, <2>3, PlainStep, Untouched
<1>4. CASE deny_write_cnt' = deny_write_cnt - 1 /\ Goto(t, "enter") /\ UNCHANGED local
  <2>1. Moves(t) /\ pc'[t] = "enter" /\ local'[t] = local[t]
    BY Zenon, <1>1, <1>4, Goes DEF Pcs
  <2>2. CallAt(pc'[t], local'[t])
    BY Zenon, <1>1, <1>2, <2>1 DEF CallAt
  <2>3. pc'[t] \notin {"wait", "alloc", "locate", "copy"} /\ pc[t] \notin {"wait", "alloc"}
    BY Zenon, <1>2, <2>1
  <2>4. deny_write_cnt' \in Int
    BY <1>1, <1>4 DEF TypeOK
  <2> QED
    BY Zenon, <1>1, <1>2, <2>1, <2>2, <2>3, <2>4, PlainStep, Untouched
<1> QED
  BY Zenon, <1>3, <1>4 DEF write_count

\* The first of the two branches: the file is long enough.
LEMMA Keeps_write_within ==
  ASSUME Inv, NEW t \in Threads, pc[t] = "enter", local[t].op = "write",
         local[t].offset + local[t].size <= length, Goto(t, "locate"),
         UNCHANGED <<dataVars, extending, deny_write_cnt, inode_lock, condVars, local, denying, calls>>
  PROVE  Inv'
<1>1. TypeOK /\ CallAt(pc[t], local[t])
  BY Zenon, InvParts DEF CallOK
<1>2. /\ UNCHANGED <<length, blocks, free, extending, condVars>>
      /\ disk' = disk /\ deny_write_cnt' = deny_write_cnt
      /\ inode_lock' = inode_lock /\ denying' = denying /\ calls' = calls
  BY Zenon DEF dataVars
<1>3. Moves(t) /\ pc'[t] = "locate" /\ local'[t] = local[t]
  BY Zenon, <1>1, Goes DEF Pcs
<1>4. CallAt(pc'[t], local'[t])
  BY Zenon, <1>1, <1>3 DEF CallAt
<1>5. pc'[t] \notin {"wait", "alloc", "copy"} /\ pc[t] \notin {"wait", "alloc"}
  BY Zenon, <1>3
<1> QED
  BY Zenon, <1>1, <1>2, <1>3, <1>4, <1>5, PlainStep, Untouched

\* A position of the file is in a sector of the file.
LEMMA InFile ==
  ASSUME Inv, NEW pos \in Nat, pos < length
  PROVE  blocks[pos \div BLOCK_SECTOR_SIZE] \in Sectors \ free
<1>1. length \in Nat /\ Owned(bytes_to_sectors(length))
  BY InvParts DEF TypeOK, ExtendOK
<1>2. pos \div BLOCK_SECTOR_SIZE \in 0 .. bytes_to_sectors(length) - 1
  BY Zenon, <1>1, PositionInside
<1> QED
  BY Zenon, <1>1, <1>2 DEF Owned

\* The sector of an offset inside the file is one of its own.
LEMMA Keeps_locate ==
  ASSUME Inv, NEW t \in Threads, locate(t)
  PROVE  Inv'
<1> DEFINE sector == byte_to_sector(local[t].offset)
           l == [local[t] EXCEPT !.sector = sector]
<1>1. TypeOK /\ CallAt(pc[t], local[t])
  BY Zenon, InvParts DEF CallOK
<1>2. /\ pc[t] = "locate" /\ local[t].size > 0
      /\ local' = [local EXCEPT ![t] = l] /\ pc' = [pc EXCEPT ![t] = "copy"]
      /\ UNCHANGED <<length, blocks, free, extending, condVars>>
      /\ disk' = disk /\ deny_write_cnt' = deny_write_cnt
      /\ inode_lock' = inode_lock /\ denying' = denying /\ calls' = calls
  BY Zenon DEF locate, Goto, dataVars
<1>3. /\ local[t] \in Locals /\ local[t].offset \in Nat /\ local[t].size \in Nat
      /\ length \in Nat
  BY <1>1, LocalTypes DEF TypeOK
<1>4. local[t].offset + local[t].size <= length \/ Stuck
  BY <1>2, Zenon, InvParts DEF ExtendOK
<1>5. sector \in Sectors \/ (sector = NoSector /\ local[t].offset >= length)
  <2>1. CASE local[t].offset < length
    BY Zenon, <1>3, <2>1, InFile DEF byte_to_sector
  <2>2. CASE local[t].offset >= length
    BY <1>3, <2>2 DEF byte_to_sector
  <2> QED
    BY <1>3, <2>1, <2>2
<1>6. local[t].offset >= length => Stuck
  BY <1>2, <1>3, <1>4
<1> HIDE DEF sector
<1>7. l \in Locals /\ l.sector = sector /\ l.offset = local[t].offset
      /\ l.size = local[t].size /\ l.op = local[t].op /\ l.done = local[t].done
      /\ l.count = local[t].count
  BY Zenon, <1>3, <1>5 DEF Locals
<1> HIDE DEF l
<1>8. Moves(t) /\ pc'[t] = "copy" /\ local'[t] = l
  <2>1. "copy" \in Pcs
    BY Zenon DEF Pcs
  <2> QED
    BY ZenonT(30), <1>1, <1>2, <1>7, <2>1, Assigned
<1>9. CallAt(pc'[t], local'[t])
  BY Zenon, <1>1, <1>2, <1>7, <1>8 DEF CallAt
<1>10. pc'[t] \notin {"wait", "alloc"} /\ pc[t] \notin {"wait", "alloc"}
  BY Zenon, <1>2, <1>8
<1>11. /\ local'[t].offset + local'[t].size <= length \/ Stuck
       /\ local'[t].sector \in Sectors \/ (Stuck /\ local'[t].offset >= length)
  BY Zenon, <1>4, <1>5, <1>6, <1>7, <1>8
<1> QED
  BY ZenonT(30), <1>1, <1>2, <1>8, <1>9, <1>10, <1>11, PlainStep, Untouched

\* A chunk that is copied comes from, or goes to, a sector.
LEMMA CopiesSector ==
  ASSUME Inv, NEW t \in Threads, pc[t] = "copy", chunk_size(t) > 0
  PROVE  local[t].sector \in Sectors
<1>1. TypeOK /\ ExtendOK
  BY Zenon, InvParts
<1>2. /\ chunk_size(t) \in Int /\ chunk_size(t) <= length - local[t].offset
      /\ length \in Nat /\ local[t].offset \in Nat
  BY <1>1, ChunkBounds, LocalTypes DEF TypeOK
<1>3. ~(local[t].offset >= length)
  BY <1>2
<1> QED
  BY Zenon, <1>1, <1>3 DEF ExtendOK

\* A chunk ends inside the file, so the rest of the call stays inside too.
LEMMA Keeps_copy ==
  ASSUME Inv, NEW t \in Threads, copy(t)
  PROVE  Inv'
<1> DEFINE n == chunk_size(t)
           l == [local[t] EXCEPT !.size = @ - n, !.offset = @ + n, !.done = @ + n]
<1>1. TypeOK /\ CallAt(pc[t], local[t])
  BY Zenon, InvParts DEF CallOK
<1>2. /\ pc[t] = "copy" /\ n > 0
      /\ disk' = IF local[t].op = "write"
                 THEN [disk EXCEPT ![local[t].sector] = Patched(@, t)] ELSE disk
      /\ local' = [local EXCEPT ![t].size = @ - n, ![t].offset = @ + n, ![t].done = @ + n]
      /\ pc' = [pc EXCEPT ![t] = "locate"]
      /\ UNCHANGED <<length, blocks, free, extending, condVars>>
      /\ deny_write_cnt' = deny_write_cnt
      /\ inode_lock' = inode_lock /\ denying' = denying /\ calls' = calls
  BY Zenon DEF copy, Goto
<1>3. /\ local[t] \in Locals /\ local[t].offset \in Nat /\ local[t].size \in Nat
      /\ local[t].done \in Nat /\ MaxLength \in Nat
  BY <1>1, LocalTypes, InodeAssumption
<1>4. n \in Nat /\ n <= local[t].size
  BY <1>1, <1>2, ChunkBounds
<1>5. /\ local[t].offset + local[t].size <= MaxLength /\ local[t].done <= local[t].offset
  BY Zenon, <1>1 DEF CallAt
<1>6. disk' \in [Sectors -> [0 .. BLOCK_SECTOR_SIZE - 1 -> Bytes]]
  <2>1. disk \in [Sectors -> [0 .. BLOCK_SECTOR_SIZE - 1 -> Bytes]]
    BY Zenon, <1>1 DEF TypeOK
  <2>2. local[t].sector \in Sectors
    BY Zenon, <1>2, CopiesSector
  <2>3. disk[local[t].sector] \in [0 .. BLOCK_SECTOR_SIZE - 1 -> Bytes]
    BY Zenon, <2>1, <2>2
  <2>4. Patched(disk[local[t].sector], t) \in [0 .. BLOCK_SECTOR_SIZE - 1 -> Bytes]
    BY Zenon, <2>3 DEF Patched, Bytes
  <2> QED
    BY Zenon, <1>2, <2>1, <2>2, <2>4
<1> HIDE DEF n
<1>7. /\ local[t].size - n \in 0 .. MaxLength /\ local[t].offset + n \in 0 .. MaxLength
      /\ local[t].done + n \in 0 .. MaxLength /\ local[t].done + n <= local[t].offset + n
      /\ (local[t].offset + n) + (local[t].size - n) = local[t].offset + local[t].size
  BY <1>3, <1>4, <1>5
<1>8. /\ l.sector = local[t].sector /\ l.op = local[t].op /\ l.count = local[t].count
      /\ l.size = local[t].size - n /\ l.offset = local[t].offset + n
      /\ l.done = local[t].done + n /\ l \in Locals
  BY ZenonT(30), <1>3, <1>7 DEF Locals
<1>9. Moves(t) /\ pc'[t] = "locate" /\ local'[t] = l
  <2>1. "locate" \in Pcs /\ local \in [Threads -> Locals]
    BY Zenon, <1>1 DEF Pcs, TypeOK
  <2>2. local' = [local EXCEPT ![t] = l]
    BY ZenonT(30), <1>2, <2>1
  <2> QED
    BY ZenonT(30), <1>1, <1>2, <1>8, <2>1, <2>2, Assigned
<1>10. CallAt(pc'[t], local'[t])
  BY ZenonT(90), <1>1, <1>2, <1>5, <1>7, <1>8, <1>9 DEF CallAt
<1>11. pc'[t] \notin {"wait", "alloc", "copy"} /\ pc[t] \notin {"wait", "alloc"}
  BY Zenon, <1>2, <1>9
<1>12. local'[t].offset + local'[t].size <= length \/ Stuck
  <2>1. local[t].offset + local[t].size <= length \/ Stuck
    BY Zenon, <1>2, InvParts DEF ExtendOK
  <2>2. local'[t].offset + local'[t].size = local[t].offset + local[t].size
    BY Zenon, <1>7, <1>8, <1>9
  <2> QED
    BY Zenon, <2>1, <2>2
<1> QED
  BY Zenon, <1>1, <1>2, <1>6, <1>9, <1>10, <1>11, <1>12, PlainStep, Untouched

\* The end of the copy loop.
LEMMA Keeps_copied ==
  ASSUME Inv, NEW t \in Threads, copied(t)
  PROVE  Inv'
<1>1. TypeOK /\ CallAt(pc[t], local[t])
  BY Zenon, InvParts DEF CallOK
<1>2. /\ pc[t] \in {"locate", "copy"}
      /\ UNCHANGED <<length, blocks, free, extending, condVars>>
      /\ disk' = disk /\ deny_write_cnt' = deny_write_cnt
      /\ inode_lock' = inode_lock /\ denying' = denying /\ calls' = calls
  BY Zenon DEF copied, dataVars
<1>3. CASE Return(t, local[t].done)
  <2>1. local[t].done \in -1 .. MaxLength
    BY <1>1, LocalTypes, InodeAssumption
  <2>2. Moves(t) /\ pc'[t] = "idle" /\ CallAt(pc'[t], local'[t])
    BY Zenon, <1>1, <1>3, <2>1, Returns
  <2>3. pc'[t] \notin {"wait", "alloc", "locate", "copy"} /\ pc[t] \notin {"wait", "alloc"}
    BY Zenon, <1>2, <2>2
  <2> QED
    BY Zenon, <1>1, <1>2, <2>2, <2>3, PlainStep, Untouched
<1>4. CASE local[t].op = "write" /\ Goto(t, "leave") /\ UNCHANGED local
  <2>1. Moves(t) /\ pc'[t] = "leave" /\ local'[t] = local[t]
    BY Zenon, <1>1, <1>4, Goes DEF Pcs
  <2>2. CallAt(pc'[t], local'[t])
    BY Zenon, <1>1, <1>4, <2>1 DEF CallAt
  <2>3. pc'[t] \notin {"wait", "alloc", "locate", "copy"} /\ pc[t] \notin {"wait", "alloc"}
    BY Zenon, <1>2, <2>1
  <2> QED
    BY Zenon, <1>1, <1>2, <2>1, <2>2, <2>3, PlainStep, Untouched
<1> QED
  BY Zenon, <1>3, <1>4 DEF copied

-----------------------------------------------------------------------------
(* Denying writes                                                           *)

\* A call of inode_deny_write begins.
LEMMA Keeps_Call_deny ==
  ASSUME Inv, NEW t \in Threads, Call_deny(t)
  PROVE  Inv'
<1> DEFINE l == [local[t] EXCEPT !.op = "deny"]
<1>1. TypeOK /\ CallAt(pc[t], local[t])
  BY Zenon, InvParts DEF CallOK
<1>2. /\ pc[t] = "idle" /\ calls[t] < MaxCalls /\ calls' = [calls EXCEPT ![t] = @ + 1]
      /\ local' = [local EXCEPT ![t] = l] /\ pc' = [pc EXCEPT ![t] = "deny"]
      /\ UNCHANGED <<length, blocks, free, extending, condVars>>
      /\ disk' = disk /\ deny_write_cnt' = deny_write_cnt
      /\ inode_lock' = inode_lock /\ denying' = denying
  BY Zenon DEF Call_deny, Goto, dataVars
<1>3. /\ l \in Locals /\ l.op = "deny" /\ l.offset = local[t].offset
      /\ l.size = local[t].size /\ l.done = local[t].done /\ l.count = local[t].count
  <2>1. local[t] \in Locals /\ "deny" \in Ops
    BY Zenon, <1>1, LocalTypes DEF Ops
  <2> QED
    BY Zenon, <2>1 DEF Locals
<1> HIDE DEF l
<1>4. Moves(t) /\ pc'[t] = "deny" /\ local'[t] = l
  <2>1. "deny" \in Pcs
    BY Zenon DEF Pcs
  <2> QED
    BY ZenonT(30), <1>1, <1>2, <1>3, <2>1, Assigned
<1>5. CallAt(pc'[t], local'[t])
  BY Zenon, <1>1, <1>2, <1>3, <1>4 DEF CallAt
<1>6. calls' \in [Threads -> 0 .. MaxCalls]
  BY <1>1, <1>2, InodeAssumption DEF TypeOK
<1>7. pc'[t] \notin {"wait", "alloc", "locate", "copy"} /\ pc[t] \notin {"wait", "alloc"}
  BY Zenon, <1>2, <1>4
<1> QED
  BY Zenon, <1>1, <1>2, <1>4, <1>5, <1>6, <1>7, PlainStep, Untouched

\* A load of the counter changes one local of the thread.
LEMMA Loaded ==
  ASSUME TypeOK, NEW t \in Threads, NEW p \in Pcs, Goto(t, p),
         local' = [local EXCEPT ![t].eax = deny_write_cnt]
  PROVE  /\ Moves(t) /\ pc'[t] = p /\ local'[t].eax = deny_write_cnt
         /\ local'[t].op = local[t].op /\ local'[t].offset = local[t].offset
         /\ local'[t].size = local[t].size /\ local'[t].done = local[t].done
         /\ local'[t].count = local[t].count
<1> DEFINE l == [local[t] EXCEPT !.eax = deny_write_cnt]
<1>1. deny_write_cnt \in Int /\ local[t] \in Locals
  BY Zenon, LocalTypes DEF TypeOK
<1>2. /\ l \in Locals /\ l.op = local[t].op /\ l.offset = local[t].offset
      /\ l.size = local[t].size /\ l.done = local[t].done /\ l.count = local[t].count
      /\ l.eax = deny_write_cnt
  BY Zenon, <1>1 DEF Locals
<1>3. local' = [local EXCEPT ![t] = l] /\ pc' = [pc EXCEPT ![t] = p]
  BY Zenon DEF Goto
<1> HIDE DEF l
<1>4. Moves(t) /\ pc'[t] = p /\ local'[t] = l
  BY ZenonT(90), <1>2, <1>3, Assigned
<1> QED
  BY Zenon, <1>2, <1>4

\* It is the first half of inode_deny_write's increment or of
\* inode_allow_write's decrement.
LEMMA Loads ==
  ASSUME TypeOK, NEW t \in Threads, NEW p \in Pcs, Goto(t, p), CallAt(pc[t], local[t]),
         pc[t] \in {"idle", "deny"}, p \in {"deny_store", "allow_store"},
         p = "deny_store" => local[t].op = "deny",
         local' = [local EXCEPT ![t].eax = deny_write_cnt]
  PROVE  /\ Moves(t) /\ pc'[t] = p /\ CallAt(pc'[t], local'[t])
         /\ local'[t].eax = deny_write_cnt /\ local'[t].op = local[t].op
<1>1. /\ Moves(t) /\ pc'[t] = p /\ local'[t].eax = deny_write_cnt
      /\ local'[t].op = local[t].op /\ local'[t].offset = local[t].offset
      /\ local'[t].size = local[t].size /\ local'[t].done = local[t].done
      /\ local'[t].count = local[t].count
  BY Zenon, Loaded
<1>2. CallAt(pc'[t], local'[t])
  BY Zenon, <1>1 DEF CallAt
<1> QED
  BY Zenon, <1>1, <1>2

\* The two loads of the counter change a thread's own copy only.
LEMMA Keeps_deny_load ==
  ASSUME Inv, NEW t \in Threads, deny_load(t)
  PROVE  Inv'
<1>1. TypeOK /\ CallAt(pc[t], local[t])
  BY Zenon, InvParts DEF CallOK
<1>2. /\ pc[t] = "deny" /\ Goto(t, "deny_store") /\ inode_lock' = t
      /\ local' = [local EXCEPT ![t].eax = deny_write_cnt]
      /\ UNCHANGED <<length, blocks, free, extending, condVars>>
      /\ disk' = disk /\ deny_write_cnt' = deny_write_cnt
      /\ denying' = denying /\ calls' = calls
  BY Zenon DEF deny_load, Locked, dataVars
<1>3. local[t].op = "deny" /\ "deny_store" \in Pcs
  BY Zenon, <1>1, <1>2 DEF CallAt, Pcs
<1>4. Moves(t) /\ pc'[t] = "deny_store" /\ CallAt(pc'[t], local'[t])
  BY Zenon, <1>1, <1>2, <1>3, Loads
<1>5. pc'[t] \notin {"wait", "alloc", "locate", "copy"} /\ pc[t] \notin {"wait", "alloc"}
  BY Zenon, <1>2, <1>4
<1> QED
  BY Zenon, <1>1, <1>2, <1>4, <1>5, PlainStep, Untouched

\* The load of inode_allow_write.
LEMMA Keeps_allow_load ==
  ASSUME Inv, NEW t \in Threads, allow_load(t)
  PROVE  Inv'
<1>1. TypeOK /\ CallAt(pc[t], local[t])
  BY Zenon, InvParts DEF CallOK
<1>2. /\ pc[t] = "idle" /\ Goto(t, "allow_store") /\ denying' = denying \ {t}
      /\ local' = [local EXCEPT ![t].eax = deny_write_cnt]
      /\ UNCHANGED <<length, blocks, free, extending, condVars>>
      /\ disk' = disk /\ deny_write_cnt' = deny_write_cnt
      /\ inode_lock' = inode_lock /\ calls' = calls
  BY Zenon DEF allow_load, dataVars
<1>3. denying' \in SUBSET Threads /\ "allow_store" \in Pcs
  BY Zenon, <1>1, <1>2 DEF TypeOK, Pcs
<1>4. Moves(t) /\ pc'[t] = "allow_store" /\ CallAt(pc'[t], local'[t])
  BY Zenon, <1>1, <1>2, <1>3, Loads
<1>5. pc'[t] \notin {"wait", "alloc", "locate", "copy"} /\ pc[t] \notin {"wait", "alloc"}
  BY Zenon, <1>2, <1>4
<1> QED
  BY Zenon, <1>1, <1>2, <1>3, <1>4, <1>5, PlainStep, Untouched

\* The stores.
LEMMA Keeps_store ==
  ASSUME Inv, NEW t \in Threads, deny_store(t) \/ allow_store(t)
  PROVE  Inv'
<1>1. TypeOK
  BY Zenon, InvParts
<1>2. /\ pc[t] \in {"deny_store", "allow_store"} /\ Return(t, 0)
      /\ UNCHANGED <<length, blocks, free, extending, condVars>>
      /\ disk' = disk /\ calls' = calls
  BY Zenon DEF deny_store, allow_store, dataVars
<1>3. deny_write_cnt' \in Int
  BY <1>1, LocalTypes DEF deny_store, allow_store
<1>4. inode_lock' \in Threads \cup {NULL} /\ denying' \in SUBSET Threads
  BY Zenon, <1>1 DEF deny_store, allow_store, TypeOK
<1>5. 0 \in -1 .. MaxLength
  BY InodeAssumption
<1>6. Moves(t) /\ pc'[t] = "idle" /\ CallAt(pc'[t], local'[t])
  BY Zenon, <1>1, <1>2, <1>5, Returns
<1>7. pc'[t] \notin {"wait", "alloc", "locate", "copy"} /\ pc[t] \notin {"wait", "alloc"}
  BY Zenon, <1>2, <1>6
<1> QED
  BY Zenon, <1>1, <1>2, <1>3, <1>4, <1>6, <1>7, PlainStep, Untouched

-----------------------------------------------------------------------------
(* Going to sleep                                                           *)

\* A thread that goes to sleep joins the condition it waits for.
LEMMA Keeps_wait ==
  ASSUME Inv, NEW t \in Threads,
         \/ read_wait_extending(t) \/ read_wait_writers(t)
         \/ write_wait_extending(t) \/ deny_wait(t)
  PROVE  Inv'
<1>1. CASE read_wait_extending(t) \/ write_wait_extending(t)
  <2>1. /\ pc[t] \in {"enter", "reenter", "deny"} /\ pc' = [pc EXCEPT ![t] = "wait"]
        /\ UNCHANGED <<dataVars, extending, deny_write_cnt, inode_lock, local, denying, calls>>
        /\ until_not_extending' = until_not_extending \cup {t}
        /\ until_no_writers' = until_no_writers
        /\ extending /\ local[t].op \in {"read", "write"}
    BY Zenon, <1>1 DEF read_wait_extending, write_wait_extending, Locked, Goto
  <2> QED
    BY Zenon, <2>1, SleepStep
<1>2. CASE read_wait_writers(t) \/ deny_wait(t)
  <2>1. /\ pc[t] \in {"enter", "reenter", "deny"} /\ pc' = [pc EXCEPT ![t] = "wait"]
        /\ UNCHANGED <<dataVars, extending, deny_write_cnt, inode_lock, local, denying, calls>>
        /\ until_no_writers' = until_no_writers \cup {t}
        /\ until_not_extending' = until_not_extending
    BY Zenon, <1>2 DEF read_wait_writers, deny_wait, Locked, Goto
  <2>2. local[t].op \in {"read", "deny"}
    BY Zenon, <1>2, InvParts DEF read_wait_writers, deny_wait, Locked, CallOK, CallAt
  <2> QED
    BY Zenon, <2>1, <2>2, SleepStep
<1> QED
  BY Zenon, <1>1, <1>2

-----------------------------------------------------------------------------
(* Extending the file                                                       *)

\* Fewer blocks are owned too.
LEMMA OwnedFewer ==
  ASSUME NEW n \in Nat, NEW m \in Nat, m <= n, Owned(n)
  PROVE  Owned(m)
<1>1. 0 .. m - 1 \subseteq 0 .. n - 1
  OBVIOUS
<1> QED
  BY Zenon, <1>1 DEF Owned

\* The file is too short: this thread is the one that extends it.
LEMMA Keeps_write_extends ==
  ASSUME Inv, NEW t \in Threads, pc[t] = "enter", local[t].op = "write", ~extending,
         local[t].offset + local[t].size > length, Goto(t, "alloc"), extending' = TRUE,
         UNCHANGED <<dataVars, deny_write_cnt, inode_lock, condVars, local, denying, calls>>
  PROVE  Inv'
<1>1. TypeOK /\ CallOK /\ WaitOK /\ ExtendOK
  BY Zenon, InvParts
<1>2. /\ length' = length /\ blocks' = blocks /\ free' = free /\ disk' = disk
      /\ until_not_extending' = until_not_extending /\ until_no_writers' = until_no_writers
      /\ local' = local /\ deny_write_cnt' = deny_write_cnt /\ inode_lock' = inode_lock
      /\ denying' = denying /\ calls' = calls
  BY Zenon DEF dataVars, condVars
<1>3. Moves(t) /\ pc'[t] = "alloc" /\ local'[t] = local[t]
  BY Zenon, <1>1, Goes DEF Pcs
<1>4. TypeOK'
  BY Zenon, <1>1, <1>2, <1>3 DEF TypeOK, Moves
<1>5. CallOK'
  <2>1. local[t].count = 0 /\ CallAt(pc[t], local[t])
    BY Zenon, <1>1 DEF CallOK, CallAt
  <2>2. 0 <= bytes_to_sectors(local[t].offset + local[t].size)
    BY <1>1, LocalTypes, BlocksBound
  <2>3. CallAt("alloc", local[t])
    BY Zenon, <2>1, <2>2 DEF CallAt
  <2> QED
    BY Zenon, <1>1, <1>2, <1>3, <2>3 DEF CallOK, Moves
<1>6. WaitOK'
  <2>1. \A u \in Threads \ {t} : pc'[u] = pc[u] /\ local'[u] = local[u]
    BY Zenon, <1>3 DEF Moves
  <2>2. pc'[t] # "wait" /\ extending'
    BY Zenon, <1>3
  <2> QED
    BY Zenon, <1>1, <2>1, <2>2, WaitFrame
<1>7. ExtendOK'
  <2>1. \A u \in Threads : pc[u] # "alloc"
    BY Zenon, <1>1 DEF ExtendOK
  <2>2. ~Stuck
    BY Zenon DEF Stuck
  <2>3. Owned(0)' /\ local[t].count = 0
    <3>1. local[t].count = 0
      BY Zenon, <1>1 DEF CallOK, CallAt
    <3>2. 0 .. 0 - 1 = {}
      OBVIOUS
    <3> QED
      BY Zenon, <3>1, <3>2 DEF Owned
  <2>4. \A u \in Threads : pc'[u] = "alloc" =>
          u = t /\ local'[u] = local[u] /\ Owned(local[u].count)'
    <3>1. \A u \in Threads : pc'[u] = "alloc" => u = t
      BY Zenon, <1>3, <2>1 DEF Moves
    <3>2. local'[t].count = 0
      BY Zenon, <1>3, <2>3
    <3>3. Owned(local[t].count)'
      BY Zenon, <2>3, <3>2 DEF Owned
    <3> QED
      BY Zenon, <1>3, <3>1, <3>3
  <2>5. Owned(bytes_to_sectors(length))'
    BY Zenon, <1>1, <1>2 DEF ExtendOK, Owned
  <2>6. \A u \in Threads : pc'[u] \in {"locate", "copy"} =>
          pc[u] = pc'[u] /\ local'[u].offset + local'[u].size <= length'
    BY Zenon, <1>1, <1>2, <1>3, <2>2 DEF ExtendOK, Moves
  <2>7. \A u \in Threads : pc'[u] = "copy" => local'[u].sector \in Sectors
    BY Zenon, <1>1, <1>2, <1>3, <2>2 DEF ExtendOK, Moves
  <2>8. \A u \in Threads : pc'[u] = "alloc" =>
          extending' /\ local'[u].offset + local'[u].size > length'
    <3>1. extending' /\ local'[t].offset + local'[t].size > length'
      BY Zenon, <1>2
    <3> QED
      BY Zenon, <2>4, <3>1
  <2> QED
    BY ZenonT(30), <2>4, <2>5, <2>6, <2>7, <2>8 DEF ExtendOK, Owned
<1> QED
  BY Zenon, <1>4, <1>5, <1>6, <1>7 DEF Inv

\* The test of the end of file by a writer, with both outcomes.
LEMMA Keeps_write_test_end ==
  ASSUME Inv, NEW t \in Threads, write_test_end(t)
  PROVE  Inv'
<1>1. /\ local[t].offset \in Nat /\ local[t].size \in Nat
      /\ local[t].size + local[t].offset = local[t].offset + local[t].size
  BY InvParts, LocalTypes
<1>2. CASE local[t].size + local[t].offset > length /\ extending' = TRUE /\ Goto(t, "alloc")
  BY Zenon, <1>1, <1>2, Keeps_write_extends DEF write_test_end, Locked
<1>3. CASE local[t].size + local[t].offset <= length /\ Goto(t, "locate") /\ UNCHANGED extending
  BY Zenon, <1>1, <1>3, Keeps_write_within DEF write_test_end, Locked
<1> QED
  BY Zenon, <1>2, <1>3 DEF write_test_end

\* What free_map_allocate relies on: a set of sectors has a first one.
HasFirst == \A S \in SUBSET Nat : S # {} => Min(S) \in S

\* Where the thread that extends is.
LEMMA Extending ==
  ASSUME Inv, NEW t \in Threads, pc[t] = "alloc"
  PROVE  /\ extending /\ ~Stuck /\ Owned(local[t].count)
         /\ local[t].op = "write"
         /\ local[t].offset + local[t].size > length
         /\ local[t].offset + local[t].size \in 0 .. MaxLength
         /\ local[t].count \in Nat
         /\ local[t].count <= bytes_to_sectors(local[t].offset + local[t].size)
         /\ bytes_to_sectors(local[t].offset + local[t].size) \in 0 .. MaxLength
         /\ \A u \in Threads : pc[u] = "alloc" => u = t
         /\ \A u \in Threads : pc[u] \in {"locate", "copy"} =>
              local[u].offset + local[u].size <= length
         /\ \A u \in Threads : pc[u] = "copy" => local[u].sector \in Sectors
<1>1. TypeOK /\ CallAt(pc[t], local[t]) /\ ExtendOK
  BY Zenon, InvParts DEF CallOK
<1>2. ~Stuck
  BY Zenon DEF Stuck
<1>3. /\ local[t].op = "write" /\ local[t].offset + local[t].size <= MaxLength
      /\ local[t].count <= bytes_to_sectors(local[t].offset + local[t].size)
  BY Zenon, <1>1 DEF CallAt
<1>4. local[t].offset + local[t].size \in 0 .. MaxLength /\ local[t].count \in Nat
  BY SMTT(30), <1>1, <1>3, LocalTypes, InodeAssumption
<1>5. bytes_to_sectors(local[t].offset + local[t].size) \in 0 .. MaxLength
  BY <1>4, BlocksBound, InodeAssumption
<1> QED
  BY Zenon, <1>1, <1>2, <1>3, <1>4, <1>5 DEF ExtendOK

\* A turn of allocate_file that ends with one more block of the file's own.
LEMMA BlockPassed ==
  ASSUME Inv, NEW t \in Threads, pc[t] = "alloc",
         local[t].count < bytes_to_sectors(local[t].offset + local[t].size),
         local' = [local EXCEPT ![t].count = local[t].count + 1],
         UNCHANGED <<pc, length, disk, extending, deny_write_cnt, inode_lock, condVars,
                     denying, calls>>,
         blocks' \in [Blocks -> Sectors \cup {0}], free' \in SUBSET Sectors,
         Owned(bytes_to_sectors(length))',
         ASSUME NEW n \in Nat, n = local[t].count + 1 PROVE Owned(n)'
  PROVE  Inv'
<1> DEFINE l == [local[t] EXCEPT !.count = local[t].count + 1]
<1>1. TypeOK /\ CallOK /\ WaitOK /\ ExtendOK /\ CallAt(pc[t], local[t])
  BY Zenon, InvParts DEF CallOK
<1>2. /\ length' = length /\ extending' = extending /\ pc' = pc
      /\ until_not_extending' = until_not_extending /\ until_no_writers' = until_no_writers
      /\ UNCHANGED condVars
      /\ disk' = disk /\ deny_write_cnt' = deny_write_cnt /\ inode_lock' = inode_lock
      /\ denying' = denying /\ calls' = calls
  BY Zenon DEF condVars
<1>3. /\ l \in Locals /\ l.op = local[t].op /\ l.offset = local[t].offset
      /\ l.size = local[t].size /\ l.done = local[t].done /\ l.count = local[t].count + 1
      /\ l.count \in Nat /\ l.count <= bytes_to_sectors(local[t].offset + local[t].size)
  <2>1. local[t] \in Locals
    BY Zenon, <1>1, LocalTypes
  <2>2. /\ local[t].count + 1 \in 0 .. MaxLength
        /\ local[t].count + 1 <= bytes_to_sectors(local[t].offset + local[t].size)
    <3>1. /\ local[t].count \in Nat
          /\ bytes_to_sectors(local[t].offset + local[t].size) \in 0 .. MaxLength
      BY Zenon, Extending
    <3> QED
      BY <3>1, InodeAssumption
  <2> QED
    BY <2>1, <2>2 DEF Locals
<1>4. local' = [local EXCEPT ![t] = l]
  BY Zenon
<1> HIDE DEF l
<1>5. /\ local' \in [Threads -> Locals] /\ local'[t] = l
      /\ \A u \in Threads \ {t} : local'[u] = local[u]
  BY ZenonT(30), <1>1, <1>3, <1>4 DEF TypeOK
<1>6. TypeOK'
  BY Zenon, <1>1, <1>2, <1>5 DEF TypeOK
<1>7. CallOK'
  <2>1. CallAt(pc[t], l)
    BY Zenon, <1>1, <1>3 DEF CallAt
  <2> QED
    BY Zenon, <1>1, <1>2, <1>5, <2>1 DEF CallOK
<1>8. WaitOK'
  <2>1. extending => extending'
    BY <1>2
  <2>2. pc[t] # "wait" /\ pc'[t] # "wait"
    BY Zenon, <1>2
  <2> QED
    BY Zenon, <1>1, <1>2, <1>5, <2>1, <2>2, WaitFrame
<1>9. ExtendOK'
  <2>1. extending' /\ local'[t].offset + local'[t].size > length'
    BY SMTT(30), <1>2, <1>3, <1>5, Extending
  <2>2. Owned(local[t].count)'
    <3>1. local'[t].count \in Nat /\ local'[t].count = local[t].count + 1
      BY Zenon, <1>3, <1>5
    <3> QED
      BY Zenon, <3>1
  <2>3. \A u \in Threads : pc'[u] = "alloc" => u = t
    BY Zenon, <1>2, Extending
  <2>4. \A u \in Threads : pc'[u] \in {"locate", "copy"} =>
          local'[u].offset + local'[u].size <= length'
    BY ZenonT(90), <1>2, <1>5, Extending
  <2>5. \A u \in Threads : pc'[u] = "copy" => local'[u].sector \in Sectors
    BY Zenon, <1>2, <1>5, Extending
  <2> QED
    BY Zenon, <2>1, <2>2, <2>3, <2>4, <2>5 DEF ExtendOK
<1> QED
  BY Zenon, <1>6, <1>7, <1>8, <1>9 DEF Inv

\* The block was allocated before.
LEMMA Keeps_allocate_kept ==
  ASSUME Inv, NEW t \in Threads, pc[t] = "alloc",
         local[t].count < bytes_to_sectors(local[t].offset + local[t].size),
         local[t].count * BLOCK_SECTOR_SIZE < length,
         local' = [local EXCEPT ![t].count = local[t].count + 1],
         UNCHANGED <<blocks, free, pc, length, disk, extending, deny_write_cnt, inode_lock,
                     condVars, denying, calls>>
  PROVE  Inv'
<1>1. /\ blocks' = blocks /\ free' = free /\ length' = length
      /\ length \in Nat /\ Owned(bytes_to_sectors(length))
      /\ blocks \in [Blocks -> Sectors \cup {0}] /\ free \in SUBSET Sectors
  BY InvParts DEF TypeOK, ExtendOK
<1>2. local[t].count \in Nat
  BY Zenon, Extending
<1>3. bytes_to_sectors(length) \in Nat /\ local[t].count < bytes_to_sectors(length)
  BY <1>1, <1>2, BlockInside, BlocksBound
<1>4. ASSUME NEW n \in Nat, n = local[t].count + 1 PROVE Owned(n)'
  <2>1. n <= bytes_to_sectors(length)
    BY <1>2, <1>3, <1>4
  <2>2. Owned(n)
    BY Zenon, <1>1, <1>3, <2>1, OwnedFewer
  <2> QED
    BY Zenon, <1>1, <2>2 DEF Owned
<1>5. Owned(bytes_to_sectors(length))'
  BY Zenon, <1>1 DEF Owned
<1> QED
  BY Zenon, <1>1, <1>4, <1>5, BlockPassed

\* The block gets the first free sector, which is no other block's.
LEMMA Keeps_allocate_new ==
  ASSUME HasFirst, Inv, NEW t \in Threads, pc[t] = "alloc",
         local[t].count < bytes_to_sectors(local[t].offset + local[t].size),
         local[t].count * BLOCK_SECTOR_SIZE >= length, free # {},
         blocks' = [blocks EXCEPT ![local[t].count] = Min(free)],
         free' = free \ {Min(free)},
         local' = [local EXCEPT ![t].count = local[t].count + 1],
         UNCHANGED <<pc, length, disk, extending, deny_write_cnt, inode_lock,
                     condVars, denying, calls>>
  PROVE  Inv'
<1> DEFINE b == local[t].count
<1>1. /\ length \in Nat /\ MaxLength \in Nat
      /\ blocks \in [Blocks -> Sectors \cup {0}] /\ free \in SUBSET Sectors
  BY SMTT(30), InvParts, InodeAssumption DEF TypeOK
<1>2. b \in Nat /\ Owned(b) /\ b \in 0 .. MaxLength - 1
  <2>1. /\ b \in Nat /\ Owned(b)
        /\ bytes_to_sectors(local[t].offset + local[t].size) \in 0 .. MaxLength
    BY Zenon, Extending
  <2> QED
    BY <1>1, <2>1
<1>3. Min(free) \in free /\ Min(free) \in Sectors
  <2>1. free \in SUBSET Nat
    BY <1>1 DEF Sectors
  <2> QED
    BY Zenon, <1>1, <2>1 DEF HasFirst
<1>4. bytes_to_sectors(length) \in Nat /\ bytes_to_sectors(length) <= b
  <2>1. b * BLOCK_SECTOR_SIZE >= length /\ BLOCK_SECTOR_SIZE \in Nat
    BY Zenon, InodeAssumption
  <2>2. bytes_to_sectors(length) \in Nat
    BY <1>1, BlocksBound
  <2>3. ~(b * BLOCK_SECTOR_SIZE < length)
    BY <1>1, <1>2, <2>1
  <2>4. ~(b < bytes_to_sectors(length))
    BY Zenon, <1>1, <1>2, <2>3, BlockInside
  <2> HIDE DEF b
  <2> QED
    BY <1>2, <2>2, <2>4
<1>5. /\ blocks'[b] = Min(free) /\ blocks' \in [Blocks -> Sectors \cup {0}]
      /\ \A c \in Blocks : c # b => blocks'[c] = blocks[c]
  BY Zenon, <1>1, <1>2, <1>3 DEF Blocks
<1>6. \A c \in 0 .. b - 1 : blocks'[c] = blocks[c] /\ c # b
  BY <1>1, <1>2, <1>5 DEF Blocks
<1>7. free' \in SUBSET Sectors
  BY Zenon, <1>1
<1>a. \A x : x \in free' => x \in free /\ x # Min(free)
  BY Zenon
<1>8. ASSUME NEW n \in Nat, n = b + 1 PROVE Owned(n)'
  <2>1. \A c : c \in 0 .. n - 1 <=> c \in 0 .. b - 1 \/ c = b
    BY <1>2, <1>8
  <2>2. \A c \in 0 .. b - 1 : blocks'[c] \in Sectors \ free /\ blocks'[c] # blocks'[b]
    <3> SUFFICES ASSUME NEW c \in 0 .. b - 1
                 PROVE  blocks'[c] \in Sectors \ free /\ blocks'[c] # blocks'[b]
      BY Zenon
    <3>1. blocks'[c] = blocks[c] /\ blocks[c] \in Sectors \ free
      BY Zenon, <1>2, <1>6 DEF Owned
    <3> QED
      BY Zenon, <1>3, <1>5, <3>1
  <2>3. \A c \in 0 .. n - 1 : blocks'[c] \in Sectors \ free'
    <3>1. blocks'[b] \in Sectors \ free'
      BY Zenon, <1>3, <1>5, <1>a
    <3> SUFFICES ASSUME NEW c \in 0 .. n - 1 PROVE blocks'[c] \in Sectors \ free'
      BY Zenon
    <3>2. CASE c \in 0 .. b - 1
      BY Zenon, <1>a, <2>2, <3>2
    <3>3. CASE c = b
      BY Zenon, <3>1, <3>3
    <3> QED
      BY Zenon, <2>1, <3>2, <3>3
  <2>4. \A c, d \in 0 .. b - 1 : blocks'[c] = blocks'[d] => c = d
    <3> SUFFICES ASSUME NEW c \in 0 .. b - 1, NEW d \in 0 .. b - 1, blocks'[c] = blocks'[d]
                 PROVE  c = d
      BY Zenon
    <3>1. blocks'[c] = blocks[c] /\ blocks'[d] = blocks[d]
      BY Zenon, <1>6
    <3>2. blocks[c] = blocks[d]
      BY Zenon, <3>1
    <3> QED
      BY Zenon, <1>2, <3>2 DEF Owned
  <2>5. \A c, d \in 0 .. n - 1 : blocks'[c] = blocks'[d] => c = d
    BY Zenon, <2>1, <2>2, <2>4
  <2> QED
    BY Zenon, <2>3, <2>5 DEF Owned
<1>9. Owned(bytes_to_sectors(length))'
  <2>1. Owned(bytes_to_sectors(length))
    BY Zenon, InvParts DEF ExtendOK
  <2>2. \A c \in 0 .. bytes_to_sectors(length) - 1 : blocks'[c] = blocks[c]
    BY <1>2, <1>4, <1>6
  <2>3. length' = length
    BY Zenon
  <2> DEFINE n == bytes_to_sectors(length)
  <2>4. ASSUME NEW c \in 0 .. n - 1 PROVE blocks'[c] \in Sectors \ free'
    BY Zenon, <1>a, <2>1, <2>2, <2>4 DEF Owned
  <2>5. ASSUME NEW c \in 0 .. n - 1, NEW d \in 0 .. n - 1, blocks'[c] = blocks'[d]
        PROVE  c = d
    <3>1. blocks[c] = blocks[d]
      BY Zenon, <2>2, <2>5
    <3> QED
      BY Zenon, <2>1, <3>1 DEF Owned
  <2> QED
    BY Zenon, <2>3, <2>4, <2>5 DEF Owned, bytes_to_sectors
<1> QED
  BY Zenon, <1>5, <1>7, <1>8, <1>9, BlockPassed

\* There is no free sector: allocate_file returns with the file extending.
LEMMA Keeps_allocate_none ==
  ASSUME Inv, NEW t \in Threads, pc[t] = "alloc", Goto(t, "locate"),
         UNCHANGED <<blocks, free, local, length, disk, extending, deny_write_cnt, inode_lock,
                     condVars, denying, calls>>
  PROVE  Inv'
<1>1. TypeOK /\ CallOK /\ WaitOK /\ ExtendOK /\ CallAt(pc[t], local[t])
  BY Zenon, InvParts DEF CallOK
<1>2. /\ length' = length /\ blocks' = blocks /\ free' = free /\ disk' = disk
      /\ extending' = extending
      /\ until_not_extending' = until_not_extending /\ until_no_writers' = until_no_writers
      /\ UNCHANGED condVars
      /\ deny_write_cnt' = deny_write_cnt /\ inode_lock' = inode_lock
      /\ denying' = denying /\ calls' = calls
  BY Zenon DEF condVars
<1>3. Moves(t) /\ pc'[t] = "locate" /\ local'[t] = local[t]
  BY Zenon, <1>1, Goes DEF Pcs
<1>4. TypeOK'
  BY Zenon, <1>1, <1>2, <1>3 DEF TypeOK, Moves
<1>5. CallOK'
  <2>1. CallAt("locate", local[t])
    BY Zenon, <1>1, Extending DEF CallAt
  <2> QED
    BY Zenon, <1>1, <1>3, <2>1 DEF CallOK, Moves
<1>6. WaitOK'
  <2>1. \A u \in Threads \ {t} : pc'[u] = pc[u] /\ local'[u] = local[u]
    BY Zenon, <1>3 DEF Moves
  <2>2. extending => extending'
    BY <1>2
  <2>3. pc[t] # "wait" /\ pc'[t] # "wait"
    BY Zenon, <1>3
  <2> QED
    BY Zenon, <1>1, <1>2, <2>1, <2>2, <2>3, WaitFrame
<1>7. ExtendOK'
  <2>1. \A u \in Threads : pc'[u] # "alloc"
    BY Zenon, <1>3, Extending DEF Moves
  <2>2. extending'
    BY <1>2, Extending
  <2>3. Stuck'
    BY Zenon, <2>1, <2>2 DEF Stuck
  <2>4. Owned(bytes_to_sectors(length))'
    BY Zenon, <1>1, <1>2 DEF ExtendOK, Owned
  <2>5. \A u \in Threads : pc'[u] = "copy" => local'[u].sector \in Sectors
    BY Zenon, <1>3, Extending DEF Moves
  <2> QED
    BY Zenon, <2>1, <2>3, <2>4, <2>5 DEF ExtendOK
<1> QED
  BY Zenon, <1>4, <1>5, <1>6, <1>7 DEF Inv

\* A turn of the loop of allocate_file, with its three outcomes.
LEMMA Keeps_allocate_file ==
  ASSUME HasFirst, Inv, NEW t \in Threads, allocate_file(t)
  PROVE  Inv'
<1> DEFINE b == local[t].count
<1>1. /\ pc[t] = "alloc" /\ b < bytes_to_sectors(local[t].offset + local[t].size)
      /\ UNCHANGED <<length, disk, extending, deny_write_cnt, inode_lock, condVars,
                     denying, calls>>
  BY Zenon DEF allocate_file
<1>2. CASE /\ b * BLOCK_SECTOR_SIZE < length
           /\ local' = [local EXCEPT ![t].count = b + 1]
           /\ UNCHANGED <<blocks, free, pc>>
  BY Zenon, <1>1, <1>2, Keeps_allocate_kept
<1>3. CASE /\ b * BLOCK_SECTOR_SIZE >= length
           /\ free # {}
           /\ blocks' = [blocks EXCEPT ![b] = Min(free)]
           /\ free' = free \ {Min(free)}
           /\ local' = [local EXCEPT ![t].count = b + 1]
           /\ UNCHANGED pc
  BY Zenon, <1>1, <1>3, Keeps_allocate_new
<1>4. CASE /\ free = {} /\ Goto(t, "locate")
           /\ UNCHANGED <<blocks, free, local>>
  BY Zenon, <1>1, <1>4, Keeps_allocate_none
<1> QED
  BY Zenon, <1>2, <1>3, <1>4 DEF allocate_file

\* A woken thread goes on where its call says.
LEMMA Wakes ==
  ASSUME Inv, NEW u \in Threads
  PROVE  /\ u \in until_not_extending =>
              /\ pc[u] = "wait" /\ u \notin until_no_writers
              /\ AfterExtending(u) \in {"enter", "reenter"}
              /\ CallAt(AfterExtending(u), local[u])
         /\ u \in until_no_writers =>
              /\ pc[u] = "wait" /\ u \notin until_not_extending
              /\ AfterWriters(u) \in {"enter", "deny"}
              /\ CallAt(AfterWriters(u), local[u])
<1>1. WaitOK /\ CallAt(pc[u], local[u])
  BY Zenon, InvParts DEF CallOK
<1>2. ASSUME u \in until_not_extending
      PROVE  /\ pc[u] = "wait" /\ u \notin until_no_writers
             /\ AfterExtending(u) \in {"enter", "reenter"}
             /\ CallAt(AfterExtending(u), local[u])
  <2>1. /\ pc[u] = "wait" /\ u \notin until_no_writers /\ local[u].op \in {"read", "write"}
    BY Zenon, <1>1, <1>2 DEF WaitOK
  <2>2. AfterExtending(u) \in {"enter", "reenter"}
    BY Zenon DEF AfterExtending
  <2>3. CallAt(AfterExtending(u), local[u])
    BY Zenon, <1>1, <2>1 DEF CallAt, AfterExtending
  <2> QED
    BY Zenon, <2>1, <2>2, <2>3
<1>3. ASSUME u \in until_no_writers
      PROVE  /\ pc[u] = "wait" /\ u \notin until_not_extending
             /\ AfterWriters(u) \in {"enter", "deny"}
             /\ CallAt(AfterWriters(u), local[u])
  <2>1. /\ pc[u] = "wait" /\ u \notin until_not_extending /\ local[u].op \in {"read", "deny"}
    BY Zenon, <1>1, <1>3 DEF WaitOK
  <2>2. AfterWriters(u) \in {"enter", "deny"}
    BY Zenon DEF AfterWriters
  <2>3. CallAt(AfterWriters(u), local[u])
    BY Zenon, <1>1, <2>1 DEF CallAt, AfterWriters
  <2> QED
    BY Zenon, <2>1, <2>2, <2>3
<1> QED
  BY Zenon, <1>2, <1>3

\* The extension ends with the length, and everybody who waited for it goes on.
LEMMA Keeps_allocate_file_end ==
  ASSUME Inv, NEW t \in Threads, allocate_file_end(t)
  PROVE  Inv'
<1>1. TypeOK /\ CallOK /\ WaitOK /\ ExtendOK /\ CallAt(pc[t], local[t])
  BY Zenon, InvParts DEF CallOK
<1>2. /\ pc[t] = "alloc"
      /\ local[t].count = bytes_to_sectors(local[t].offset + local[t].size)
      /\ length' = local[t].offset + local[t].size
      /\ extending' = FALSE /\ until_not_extending' = {}
      /\ pc' = [u \in Threads |->
                  IF u = t THEN "locate"
                  ELSE IF u \in until_not_extending THEN AfterExtending(u)
                  ELSE pc[u]]
      /\ blocks' = blocks /\ free' = free /\ disk' = disk
      /\ until_no_writers' = until_no_writers /\ local' = local
      /\ deny_write_cnt' = deny_write_cnt /\ inode_lock' = inode_lock
      /\ denying' = denying /\ calls' = calls
  BY Zenon DEF allocate_file_end, Locked
<1>3. /\ pc'[t] = "locate"
      /\ \A u \in Threads : u # t =>
           pc'[u] = IF u \in until_not_extending THEN AfterExtending(u) ELSE pc[u]
  BY Zenon, <1>2
<1>4. pc' \in [Threads -> Pcs]
  <2>1. \A u \in Threads : pc[u] \in Pcs /\ AfterExtending(u) \in Pcs
    BY Zenon, <1>1 DEF TypeOK, AfterExtending, Pcs
  <2>2. "locate" \in Pcs
    BY Zenon DEF Pcs
  <2> QED
    BY Zenon, <1>2, <2>1, <2>2
<1>5. TypeOK'
  <2>1. length' \in 0 .. MaxLength
    BY Zenon, <1>2, Extending
  <2>2. extending' \in BOOLEAN /\ until_not_extending' \in SUBSET Threads
    BY Zenon, <1>2
  <2> QED
    BY Zenon, <1>1, <1>2, <1>4, <2>1, <2>2 DEF TypeOK
<1>6. CallOK'
  <2>1. CallAt("locate", local[t])
    BY Zenon, <1>1, <1>2, Extending DEF CallAt
  <2>2. \A u \in Threads : CallAt(pc[u], local[u])
    BY Zenon, <1>1 DEF CallOK
  <2>3. \A u \in Threads : CallAt(pc'[u], local[u])
    BY Zenon, <1>3, <2>1, <2>2, Wakes
  <2> QED
    BY Zenon, <1>2, <2>3 DEF CallOK
<1>7. WaitOK'
  <2>1. \A u \in Threads : pc'[u] = "wait" <=> u \in until_no_writers
    <3> SUFFICES ASSUME NEW u \in Threads PROVE pc'[u] = "wait" <=> u \in until_no_writers
      BY Zenon
    <3>1. pc[u] = "wait" <=> u \in until_not_extending \/ u \in until_no_writers
      BY Zenon, <1>1 DEF WaitOK
    <3>2. CASE u = t
      BY Zenon, <1>2, <1>3, <3>1, <3>2
    <3>3. CASE u # t /\ u \in until_not_extending
      <4>1. pc'[u] \in {"enter", "reenter"} /\ u \notin until_no_writers
        BY Zenon, <1>3, <3>3, Wakes
      <4> QED
        BY Zenon, <4>1
    <3>4. CASE u # t /\ u \notin until_not_extending
      BY Zenon, <1>3, <3>1, <3>4
    <3> QED
      BY Zenon, <3>2, <3>3, <3>4
  <2> QED
    BY Zenon, <1>1, <1>2, <2>1 DEF WaitOK
<1>8. ExtendOK'
  <2>1. \A u \in Threads : u # t /\ pc'[u] \in {"alloc", "locate", "copy"} => pc'[u] = pc[u]
    <3>1. \A u \in Threads : u \in until_not_extending => AfterExtending(u) \notin {"alloc", "locate", "copy"}
      BY Zenon DEF AfterExtending
    <3> QED
      BY Zenon, <1>3, <3>1
  <2>2. \A u \in Threads : pc'[u] # "alloc"
    BY ZenonT(30), <1>2, <1>3, <2>1, Extending
  <2>3. Owned(bytes_to_sectors(length))'
    <3>1. Owned(local[t].count)
      BY Zenon, <1>2, Extending
    <3>2. local[t].count = bytes_to_sectors(length')
      BY Zenon, <1>2
    <3> QED
      BY Zenon, <1>2, <3>1, <3>2 DEF Owned, bytes_to_sectors
  <2>4. \A u \in Threads : pc'[u] \in {"locate", "copy"} =>
          local'[u].offset + local'[u].size <= length'
    <3> SUFFICES ASSUME NEW u \in Threads, pc'[u] \in {"locate", "copy"}
                 PROVE  local[u].offset + local[u].size <= length'
      BY Zenon, <1>2
    <3>1. /\ local[u].offset + local[u].size \in Nat /\ length \in Nat
          /\ local[t].offset + local[t].size \in Nat
      BY SMTT(30), <1>1, LocalTypes DEF TypeOK
    <3>2. CASE u = t
      BY SMTT(30), <1>2, <3>1, <3>2
    <3>3. CASE u # t
      <4>1. local[u].offset + local[u].size <= length /\ local[t].offset + local[t].size > length
        BY Zenon, <1>2, <2>1, <3>3, Extending
      <4> QED
        BY SMTT(30), <1>2, <3>1, <4>1
    <3> QED
      BY Zenon, <3>2, <3>3
  <2>5. \A u \in Threads : pc'[u] = "copy" => local'[u].sector \in Sectors
    <3>1. \A u \in Threads : pc'[u] = "copy" => pc[u] = "copy"
      BY Zenon, <1>3, <2>1
    <3> QED
      BY Zenon, <1>2, <3>1, Extending
  <2> QED
    BY Zenon, <2>2, <2>3, <2>4, <2>5 DEF ExtendOK
<1> QED
  BY Zenon, <1>5, <1>6, <1>7, <1>8 DEF Inv

\* The last writer leaves, and everybody who waited for the writers goes on.
LEMMA Keeps_write_leave ==
  ASSUME Inv, NEW t \in Threads, write_leave(t)
  PROVE  Inv'
<1> DEFINE woken == IF deny_write_cnt' = 0 THEN until_no_writers ELSE {}
<1>1. TypeOK /\ CallOK /\ WaitOK /\ ExtendOK
  BY Zenon, InvParts
<1>2. /\ pc[t] = "leave" /\ deny_write_cnt' = deny_write_cnt + 1
      /\ until_no_writers' = until_no_writers \ woken
      /\ pc' = [u \in Threads |->
                  IF u = t THEN "idle"
                  ELSE IF u \in woken THEN AfterWriters(u)
                  ELSE pc[u]]
      /\ local' = [local EXCEPT ![t] = Outside(local[t].done)]
      /\ length' = length /\ blocks' = blocks /\ free' = free /\ disk' = disk
      /\ extending' = extending /\ until_not_extending' = until_not_extending
      /\ inode_lock' = inode_lock /\ denying' = denying /\ calls' = calls
  BY Zenon DEF write_leave, Locked, dataVars
<1>w. woken \subseteq until_no_writers
  BY Zenon
<1> HIDE DEF woken
<1>3. /\ pc'[t] = "idle"
      /\ \A u \in Threads : u # t =>
           pc'[u] = IF u \in woken THEN AfterWriters(u) ELSE pc[u]
  BY Zenon, <1>2
<1>4. pc' \in [Threads -> Pcs]
  <2>1. \A u \in Threads : pc[u] \in Pcs /\ AfterWriters(u) \in Pcs
    BY Zenon, <1>1 DEF TypeOK, AfterWriters, Pcs
  <2>2. "idle" \in Pcs
    BY Zenon DEF Pcs
  <2> QED
    BY Zenon, <1>2, <2>1, <2>2
<1>5. Outside(local[t].done) \in Locals /\ CallAt("idle", Outside(local[t].done))
  <2>1. local[t].done \in 0 .. MaxLength
    BY Zenon, <1>1, LocalTypes
  <2>2. Outside(local[t].done) \in Locals
    BY SMTT(30), <2>1, InodeAssumption DEF Outside, Locals, Ops
  <2>3. CallAt("idle", Outside(local[t].done))
    BY SMTT(30), InodeAssumption DEF Outside, CallAt
  <2> QED
    BY Zenon, <2>2, <2>3
<1>6. /\ local' \in [Threads -> Locals] /\ local'[t] = Outside(local[t].done)
      /\ \A u \in Threads : u # t => local'[u] = local[u]
  BY Zenon, <1>1, <1>2, <1>5 DEF TypeOK
<1>7. TypeOK'
  <2>1. deny_write_cnt' \in Int
    BY <1>1, <1>2 DEF TypeOK
  <2>2. until_no_writers' \in SUBSET Threads
    BY Zenon, <1>1, <1>2 DEF TypeOK
  <2> QED
    BY ZenonT(30), <1>1, <1>2, <1>4, <1>6, <2>1, <2>2 DEF TypeOK
<1>8. CallOK'
  <2>1. \A u \in Threads : CallAt(pc[u], local[u])
    BY Zenon, <1>1 DEF CallOK
  <2>2. \A u \in Threads : u # t => CallAt(pc'[u], local'[u])
    BY Zenon, <1>w, <1>3, <1>6, <2>1, Wakes
  <2> QED
    BY Zenon, <1>3, <1>5, <1>6, <2>2 DEF CallOK
<1>9. t \notin until_not_extending /\ t \notin until_no_writers
  BY Zenon, <1>1, <1>2 DEF WaitOK
<1>10. WaitOK'
  <2>1. \A u \in Threads : pc'[u] = "wait" <=> u \in until_not_extending \cup (until_no_writers \ woken)
    <3> SUFFICES ASSUME NEW u \in Threads
                 PROVE  pc'[u] = "wait" <=> u \in until_not_extending \cup (until_no_writers \ woken)
      BY Zenon
    <3>1. pc[u] = "wait" <=> u \in until_not_extending \/ u \in until_no_writers
      BY Zenon, <1>1 DEF WaitOK
    <3>2. CASE u = t
      BY Zenon, <1>3, <1>9, <3>2
    <3>3. CASE u # t /\ u \in woken
      <4>1. pc'[u] \in {"enter", "deny"} /\ u \notin until_not_extending
        BY Zenon, <1>w, <1>3, <3>3, Wakes
      <4> QED
        BY Zenon, <3>3, <4>1
    <3>4. CASE u # t /\ u \notin woken
      BY Zenon, <1>3, <3>1, <3>4
    <3> QED
      BY Zenon, <3>2, <3>3, <3>4
  <2>2. \A u \in until_not_extending \cup until_no_writers : local'[u] = local[u]
    BY Zenon, <1>1, <1>6, <1>9 DEF TypeOK
  <2>3. until_not_extending' # {} => extending'
    <3>1. until_not_extending # {} => extending
      BY Zenon, <1>1 DEF WaitOK
    <3> QED
      BY Zenon, <1>2, <3>1
  <2>4. /\ \A u \in until_not_extending' : local'[u].op \in {"read", "write"}
        /\ \A u \in until_no_writers' : local'[u].op \in {"read", "deny"}
    BY ZenonT(30), <1>1, <1>2, <2>2 DEF WaitOK
  <2>5. until_not_extending' \cap until_no_writers' = {}
    BY Zenon, <1>1, <1>2 DEF WaitOK
  <2> QED
    BY Zenon, <1>2, <2>1, <2>3, <2>4, <2>5 DEF WaitOK
<1>11. ExtendOK'
  <2>1. Others(t)
    BY ZenonT(30), <1>w, <1>3, <1>6, Wakes DEF Others
  <2>2. pc[t] # "alloc" /\ pc'[t] \notin {"alloc", "locate", "copy"} /\ pc'[t] # "copy"
    BY Zenon, <1>2, <1>3
  <2> QED
    BY Zenon, <1>1, <1>2, <2>1, <2>2, ExtendFrame
<1> QED
  BY Zenon, <1>7, <1>8, <1>10, <1>11 DEF Inv

-----------------------------------------------------------------------------
(* The invariant, and the file's bytes                                      *)

\* inode_open of an empty file.
LEMMA InitInv == Init => Inv
<1> SUFFICES ASSUME Init PROVE Inv
  BY Zenon
<1>1. 0 \in -1 .. MaxLength /\ 0 \in 0 .. MaxLength /\ 0 \in 0 .. MaxCalls
  BY InodeAssumption
<1>2. Outside(0) \in Locals /\ CallAt("idle", Outside(0))
  BY InodeAssumption DEF Outside, Locals, Ops, CallAt
<1>3. TypeOK
  <2>1. /\ length \in 0 .. MaxLength /\ blocks \in [Blocks -> Sectors \cup {0}]
        /\ extending \in BOOLEAN /\ inode_lock \in Threads \cup {NULL}
        /\ until_not_extending \in SUBSET Threads /\ until_no_writers \in SUBSET Threads
        /\ free \in SUBSET Sectors /\ denying \in SUBSET Threads
        /\ calls \in [Threads -> 0 .. MaxCalls]
    BY Zenon, <1>1 DEF Init
  <2>2. deny_write_cnt \in Int
    BY DEF Init
  <2>3. disk \in [Sectors -> [0 .. BLOCK_SECTOR_SIZE - 1 -> Bytes]]
    BY Zenon DEF Init, Bytes
  <2>4. pc \in [Threads -> Pcs] /\ local \in [Threads -> Locals]
    BY Zenon, <1>2 DEF Init, Pcs
  <2> QED
    BY Zenon, <2>1, <2>2, <2>3, <2>4 DEF TypeOK
<1>4. CallOK
  BY Zenon, <1>2 DEF Init, CallOK
<1>5. \A t \in Threads : pc[t] = "idle"
  BY Zenon DEF Init
<1>6. WaitOK
  BY Zenon, <1>5 DEF Init, WaitOK
<1>7. ExtendOK
  <2>1. bytes_to_sectors(length) = 0
    <3>1. bytes_to_sectors(0) \in 0 .. 0
      BY Zenon, BlocksBound
    <3> QED
      BY <3>1 DEF Init
  <2>2. 0 .. 0 - 1 = {}
    OBVIOUS
  <2>3. Owned(bytes_to_sectors(length))
    BY Zenon, <2>1, <2>2 DEF Owned
  <2> QED
    BY Zenon, <1>5, <2>3 DEF ExtendOK
<1> QED
  BY Zenon, <1>3, <1>4, <1>6, <1>7 DEF Inv

\* Every step keeps the invariant.
LEMMA NextInv ==
  ASSUME HasFirst, Inv, [Next]_vars
  PROVE  Inv'
<1>1. CASE UNCHANGED vars
  <2>1. /\ length' = length /\ blocks' = blocks /\ free' = free /\ disk' = disk
        /\ extending' = extending /\ deny_write_cnt' = deny_write_cnt
        /\ inode_lock' = inode_lock /\ until_not_extending' = until_not_extending
        /\ until_no_writers' = until_no_writers /\ pc' = pc /\ local' = local
        /\ denying' = denying /\ calls' = calls
    BY Zenon, <1>1 DEF vars, dataVars, condVars
  <2>2. TypeOK' /\ CallOK'
    BY Zenon, <2>1, InvParts DEF TypeOK, CallOK
  <2>3. extending' <=> extending
    BY Zenon, <2>1
  <2>4. WaitOK'
    BY Zenon, <2>1, <2>3, InvParts DEF WaitOK
  <2>5. Stuck' <=> Stuck
    BY Zenon, <2>1, <2>3 DEF Stuck
  <2>6. ExtendOK'
    BY ZenonT(90), <2>1, <2>3, <2>5, InvParts DEF ExtendOK, Owned
  <2> QED
    BY Zenon, <2>2, <2>4, <2>6 DEF Inv
<1>2. CASE Next
  <2>1. PICK t \in Threads : Step(t) \/ User(t)
    BY Zenon, <1>2 DEF Next
  <2>2. CASE Step(t)
    BY Zenon, <2>2, Keeps_wait, Keeps_read_test_end, Keeps_write_count, Keeps_write_test_end,
       Keeps_allocate_file, Keeps_allocate_file_end, Keeps_locate, Keeps_copy, Keeps_copied,
       Keeps_write_leave, Keeps_deny_load, Keeps_store DEF Step
  <2>3. CASE User(t)
    BY Zenon, <2>3, Keeps_Call, Keeps_Call_deny, Keeps_allow_load DEF User
  <2> QED
    BY Zenon, <2>1, <2>2, <2>3
<1> QED
  BY Zenon, <1>1, <1>2

\* A step that leaves the index alone.
LEMMA IndexKept ==
  ASSUME Inv, length' = length, blocks' = blocks
  PROVE  KeepsBytes
<1>1. length \in Nat
  BY InvParts DEF TypeOK
<1>2. length' >= length
  BY <1>1
<1>3. disk' = disk => \A pos \in 0 .. length - 1 : FileByte(pos)' = FileByte(pos)
  BY Zenon DEF FileByte
<1> QED
  BY Zenon, <1>2, <1>3 DEF KeepsBytes

\* The steps of an extension change the index, and only behind the end of file.
LEMMA StepKeepsBytes ==
  ASSUME HasFirst, Inv, [Next]_vars
  PROVE  KeepsBytes
<1>0. length \in Nat /\ TypeOK
  BY InvParts DEF TypeOK
<1>1. CASE UNCHANGED vars
  BY Zenon, <1>1, IndexKept DEF vars, dataVars
<1>2. ASSUME NEW t \in Threads, allocate_file(t) PROVE KeepsBytes
  <2>1. length' = length /\ pc[t] = "alloc"
    BY Zenon, <1>2 DEF allocate_file
  <2>2. CASE blocks' = blocks
    BY Zenon, <2>1, <2>2, IndexKept
  <2>3. CASE /\ blocks' = [blocks EXCEPT ![local[t].count] = Min(free)]
             /\ local[t].count * BLOCK_SECTOR_SIZE >= length
    <3> DEFINE b == local[t].count
    <3>1. b \in Nat
      BY Zenon, <2>1, Extending
    <3>2. ~(b < bytes_to_sectors(length)) /\ bytes_to_sectors(length) \in Nat
      <4>1. b * BLOCK_SECTOR_SIZE \in Nat
        BY <3>1, InodeAssumption
      <4>2. ~(b * BLOCK_SECTOR_SIZE < length)
        BY <1>0, <2>3, <4>1
      <4>3. bytes_to_sectors(length) \in Nat
        BY <1>0, BlocksBound
      <4> QED
        BY Zenon, <1>0, <3>1, <4>2, <4>3, BlockInside
    <3>3. ASSUME NEW pos \in 0 .. length - 1
          PROVE  blocks'[pos \div BLOCK_SECTOR_SIZE] = blocks[pos \div BLOCK_SECTOR_SIZE]
      <4>1. pos \in Nat /\ pos < length
        BY <1>0
      <4>2. pos \div BLOCK_SECTOR_SIZE \in 0 .. bytes_to_sectors(length) - 1
        BY Zenon, <1>0, <4>1, PositionInside
      <4> HIDE DEF b
      <4>3. pos \div BLOCK_SECTOR_SIZE # b
        BY <3>1, <3>2, <4>2
      <4>4. bytes_to_sectors(length) \in 0 .. MaxLength
        BY SMTT(30), <1>0, BlocksBound, InodeAssumption DEF TypeOK
      <4>5. pos \div BLOCK_SECTOR_SIZE \in Blocks
        BY <4>2, <4>4, InodeAssumption DEF Blocks
      <4>6. blocks \in [Blocks -> Sectors \cup {0}]
        BY Zenon, <1>0 DEF TypeOK
      <4> USE DEF b
      <4> QED
        BY Zenon, <2>3, <4>3, <4>5, <4>6
    <3>4. disk' = disk => \A pos \in 0 .. length - 1 : FileByte(pos)' = FileByte(pos)
      BY Zenon, <3>3 DEF FileByte
    <3>5. length' >= length
      BY <1>0, <2>1
    <3> QED
      BY Zenon, <3>4, <3>5 DEF KeepsBytes
  <2> QED
    BY Zenon, <1>2, <2>2, <2>3 DEF allocate_file
<1>3. ASSUME NEW t \in Threads, allocate_file_end(t) PROVE KeepsBytes
  <2>1. /\ pc[t] = "alloc" /\ length' = local[t].offset + local[t].size /\ blocks' = blocks
    BY Zenon, <1>3 DEF allocate_file_end, Locked
  <2>2. local[t].offset + local[t].size > length /\ local[t].offset + local[t].size \in 0 .. MaxLength
    BY Zenon, <2>1, Extending
  <2>3. length' >= length
    BY <1>0, <2>1, <2>2
  <2>4. disk' = disk => \A pos \in 0 .. length - 1 : FileByte(pos)' = FileByte(pos)
    BY Zenon, <2>1 DEF FileByte
  <2> QED
    BY Zenon, <2>3, <2>4 DEF KeepsBytes
<1>4. ASSUME NEW t \in Threads, Step(t), ~allocate_file(t), ~allocate_file_end(t)
      PROVE  length' = length /\ blocks' = blocks
  BY Zenon, <1>4 DEF Step, read_wait_extending, read_wait_writers, read_test_end, write_count,
     write_wait_extending, write_test_end, locate, copy, copied, write_leave, deny_wait,
     deny_load, deny_store, allow_store, dataVars
<1>5. ASSUME NEW t \in Threads, User(t) PROVE length' = length /\ blocks' = blocks
  BY Zenon, <1>5 DEF User, Call, Call_deny, allow_load, dataVars
<1> QED
  BY ZenonT(30), <1>1, <1>2, <1>3, <1>4, <1>5, IndexKept DEF Next

-----------------------------------------------------------------------------
(* The counter, with a single denier                                        *)

\* What the proofs need of the sizes of sets of threads.
Counting ==
  /\ Cardinality({}) = 0
  /\ \A t \in Threads : Cardinality({t}) = 1
  /\ \A S \in SUBSET Threads :
       /\ Cardinality(S) \in Nat
       /\ Cardinality(S) = 0 => S = {}
       /\ \A t \in Threads \ S : Cardinality(S \cup {t}) = Cardinality(S) + 1
       /\ \A t \in S : Cardinality(S \ {t}) = Cardinality(S) - 1

\* Places in which a thread is counted as a writer.
WritePcs == {"enter", "wait", "alloc", "locate", "copy", "leave"}

\* Who is counted.
LEMMA WritingIs ==
  /\ Writing \in SUBSET Threads
  /\ \A u : u \in Writing <=> u \in Threads /\ local[u].op = "write" /\ pc[u] \in WritePcs
  /\ \A u : u \in Writing' <=> u \in Threads /\ local'[u].op = "write" /\ pc'[u] \in WritePcs
BY Zenon DEF Writing, WritePcs

\* Who has denied writes.
LEMMA DeniedIs ==
  /\ \A u : u \in Denied <=> u \in denying \/ (u \in Threads /\ pc[u] = "allow_store")
  /\ \A u : u \in Denied' <=> u \in denying' \/ (u \in Threads /\ pc'[u] = "allow_store")
BY Zenon DEF Denied

\* A step that neither counts nor denies: the writers stay the same, nobody
\* comes to or leaves a load of the counter, and whoever goes to sleep on
\* until_no_writers has seen a writer.
LEMMA CountFrame ==
  ASSUME CountOK, deny_write_cnt' = deny_write_cnt, inode_lock' = inode_lock,
         denying' = denying,
         \A u \in Threads : u \in Writing' <=> u \in Writing,
         \A u \in Threads : /\ pc'[u] = "deny_store" <=> pc[u] = "deny_store"
                            /\ pc'[u] = "allow_store" <=> pc[u] = "allow_store"
                            /\ pc[u] \in {"deny_store", "allow_store"} => local'[u] = local[u]
                            /\ local'[u].op = "deny" => local[u].op = "deny",
         until_no_writers' # {} => Writing # {}
  PROVE  CountOK'
<1>1. Writing' = Writing
  BY Zenon, WritingIs
<1>2. Denied' = Denied
  BY Zenon, DeniedIs
<1>3. \A u \in Threads : pc'[u] \in {"deny_store", "allow_store"} =>
        pc[u] = pc'[u] /\ local'[u] = local[u]
  BY Zenon
<1>4. (denying \subseteq Deniers)'
  BY Zenon DEF CountOK
<1>5. \A t \in Threads : local'[t].op = "deny" \/ pc'[t] = "allow_store" =>
        t \in Deniers /\ t \notin denying'
  BY Zenon DEF CountOK
<1>6. \A t \in Threads : pc'[t] = "allow_store" => local'[t].op # "deny"
  BY Zenon, <1>3 DEF CountOK
<1>7. \A t \in Threads : pc'[t] = "deny_store" => inode_lock' = t /\ Writing' = {}
  BY Zenon, <1>1 DEF CountOK
<1>8. \A t \in Threads : pc'[t] \in {"deny_store", "allow_store"} =>
        local'[t].eax = deny_write_cnt'
  BY ZenonT(30), <1>3 DEF CountOK
<1>9. /\ Denied' # {} => Writing' = {} /\ deny_write_cnt' = 1
      /\ Denied' = {} => deny_write_cnt' = 0 - Cardinality(Writing')
      /\ until_no_writers' # {} => Writing' # {}
  BY Zenon, <1>1, <1>2 DEF CountOK
<1> QED
  BY Zenon, <1>1, <1>4, <1>5, <1>6, <1>7, <1>8, <1>9 DEF CountOK

\* A step of t that neither counts nor denies.
CountStill(t) ==
  /\ \A u \in Threads : u # t => pc'[u] = pc[u] /\ local'[u] = local[u]
  /\ deny_write_cnt' = deny_write_cnt /\ inode_lock' = inode_lock /\ denying' = denying
  /\ pc[t] \notin {"deny_store", "allow_store"} /\ pc'[t] \notin {"deny_store", "allow_store"}
  /\ local'[t].op = "deny" => local[t].op = "deny"
  /\ local'[t].op = "write" /\ pc'[t] \in WritePcs <=>
       local[t].op = "write" /\ pc[t] \in WritePcs

\* Such a step keeps the account of the counter.
LEMMA CountedStill ==
  ASSUME CountOK, NEW t \in Threads, CountStill(t), until_no_writers' # {} => Writing # {}
  PROVE  CountOK'
<1>1. \A u \in Threads : u \in Writing' <=> u \in Writing
  <2> SUFFICES ASSUME NEW u \in Threads PROVE u \in Writing' <=> u \in Writing
    BY Zenon
  <2>1. CASE u = t
    BY Zenon, <2>1, WritingIs DEF CountStill
  <2>2. CASE u # t
    BY ZenonT(30), <2>2, WritingIs DEF CountStill
  <2> QED
    BY Zenon, <2>1, <2>2
<1>2. \A u \in Threads : /\ pc'[u] = "deny_store" <=> pc[u] = "deny_store"
                         /\ pc'[u] = "allow_store" <=> pc[u] = "allow_store"
                         /\ pc[u] \in {"deny_store", "allow_store"} => local'[u] = local[u]
                         /\ local'[u].op = "deny" => local[u].op = "deny"
  <2> SUFFICES ASSUME NEW u \in Threads
               PROVE  /\ pc'[u] = "deny_store" <=> pc[u] = "deny_store"
                      /\ pc'[u] = "allow_store" <=> pc[u] = "allow_store"
                      /\ pc[u] \in {"deny_store", "allow_store"} => local'[u] = local[u]
                      /\ local'[u].op = "deny" => local[u].op = "deny"
    BY Zenon
  <2>1. CASE u = t
    BY Zenon, <2>1 DEF CountStill
  <2>2. CASE u # t
    BY Zenon, <2>2 DEF CountStill
  <2> QED
    BY Zenon, <2>1, <2>2
<1>3. deny_write_cnt' = deny_write_cnt /\ inode_lock' = inode_lock /\ denying' = denying
  BY Zenon DEF CountStill
<1> QED
  BY Zenon, <1>1, <1>2, <1>3, CountFrame

\* A call, a test, a wait or a copy.
LEMMA StillAction ==
  ASSUME Inv, NEW t \in Threads,
         \/ \E op \in {"read", "write"}, offset \in 0 .. MaxLength, size \in 1 .. MaxLength :
              Call(t, op, offset, size)
         \/ read_wait_extending(t) \/ read_wait_writers(t) \/ read_test_end(t)
         \/ write_wait_extending(t) \/ write_test_end(t) \/ allocate_file(t)
         \/ locate(t) \/ copy(t) \/ copied(t) \/ deny_wait(t)
  PROVE  CountStill(t)
<1>0. /\ pc \in [Threads -> Pcs] /\ local \in [Threads -> Locals]
      /\ CallAt(pc[t], local[t]) /\ local[t] \in Locals
  BY Zenon, InvParts DEF TypeOK, CallOK
<1> DEFINE Same == deny_write_cnt' = deny_write_cnt /\ inode_lock' = inode_lock
                     /\ denying' = denying
<1>1. CASE read_wait_extending(t) \/ read_wait_writers(t) \/ write_wait_extending(t) \/ deny_wait(t)
  <2>1. /\ pc[t] \in {"enter", "reenter", "deny"} /\ pc' = [pc EXCEPT ![t] = "wait"]
        /\ local' = local /\ Same
        /\ pc[t] \in {"reenter", "deny"} => local[t].op # "write"
    BY ZenonT(30), <1>0, <1>1 DEF read_wait_extending, read_wait_writers, write_wait_extending,
       deny_wait, Locked, Goto, CallAt
  <2>2. pc'[t] = "wait" /\ \A u \in Threads : u # t => pc'[u] = pc[u]
    BY Zenon, <1>0, <2>1
  <2> QED
    BY Zenon, <2>1, <2>2 DEF CountStill, WritePcs
<1>2. CASE write_test_end(t)
  <2>1. /\ pc[t] = "enter" /\ local' = local /\ Same
        /\ pc' = [pc EXCEPT ![t] = "alloc"] \/ pc' = [pc EXCEPT ![t] = "locate"]
    BY Zenon, <1>2 DEF write_test_end, Locked, Goto
  <2>2. pc'[t] \in {"alloc", "locate"} /\ \A u \in Threads : u # t => pc'[u] = pc[u]
    BY Zenon, <1>0, <2>1
  <2> QED
    BY Zenon, <2>1, <2>2 DEF CountStill, WritePcs
<1>3. CASE allocate_file(t)
  <2>1. /\ pc[t] = "alloc" /\ Same
        /\ pc' = pc \/ pc' = [pc EXCEPT ![t] = "locate"]
        /\ local' = local \/ local' = [local EXCEPT ![t].count = local[t].count + 1]
    BY Zenon, <1>3 DEF allocate_file, Goto
  <2>2. pc'[t] \in {"alloc", "locate"} /\ \A u \in Threads : u # t => pc'[u] = pc[u]
    BY Zenon, <1>0, <2>1
  <2>3. local'[t].op = local[t].op /\ \A u \in Threads : u # t => local'[u] = local[u]
    BY <1>0, <2>1 DEF Locals
  <2> QED
    BY Zenon, <2>1, <2>2, <2>3 DEF CountStill, WritePcs
<1>4. CASE locate(t)
  <2>1. /\ pc[t] = "locate" /\ Same /\ pc' = [pc EXCEPT ![t] = "copy"]
        /\ local' = [local EXCEPT ![t].sector = byte_to_sector(local[t].offset)]
    BY Zenon, <1>4 DEF locate, Goto
  <2>2. pc'[t] = "copy" /\ \A u \in Threads : u # t => pc'[u] = pc[u]
    BY Zenon, <1>0, <2>1
  <2>3. local'[t].op = local[t].op /\ \A u \in Threads : u # t => local'[u] = local[u]
    BY Zenon, <1>0, <2>1 DEF Locals
  <2> QED
    BY Zenon, <2>1, <2>2, <2>3 DEF CountStill, WritePcs
<1>5. CASE copy(t)
  <2>1. /\ pc[t] = "copy" /\ Same /\ pc' = [pc EXCEPT ![t] = "locate"]
        /\ local' = [local EXCEPT ![t].size = @ - chunk_size(t),
                                  ![t].offset = @ + chunk_size(t), ![t].done = @ + chunk_size(t)]
    BY Zenon, <1>5 DEF copy, Goto
  <2>2. pc'[t] = "locate" /\ \A u \in Threads : u # t => pc'[u] = pc[u]
    BY Zenon, <1>0, <2>1
  <2>3. local'[t].op = local[t].op /\ \A u \in Threads : u # t => local'[u] = local[u]
    BY Zenon, <1>0, <2>1 DEF Locals
  <2> QED
    BY ZenonT(30), <2>1, <2>2, <2>3 DEF CountStill, WritePcs
<1>6. CASE read_test_end(t) \/ copied(t)
  <2>1. /\ pc[t] \in {"enter", "reenter", "locate", "copy"} /\ Same
    BY Zenon, <1>6 DEF read_test_end, copied, Locked
  <2>2. CASE \E value : Return(t, value) /\ local[t].op = "read"
    <3>1. PICK value : /\ pc' = [pc EXCEPT ![t] = "idle"] /\ local[t].op = "read"
                       /\ local' = [local EXCEPT ![t] = Outside(value)]
      BY Zenon, <2>2 DEF Return, Goto
    <3>2. pc'[t] = "idle" /\ \A u \in Threads : u # t => pc'[u] = pc[u] /\ local'[u] = local[u]
      BY Zenon, <1>0, <3>1
    <3>3. local'[t].op = "read"
      BY Zenon, <1>0, <3>1 DEF Outside
    <3> QED
      BY Zenon, <2>1, <3>1, <3>2, <3>3 DEF CountStill, WritePcs
  <2>3. CASE /\ local' = local
             /\ \/ pc' = [pc EXCEPT ![t] = "locate"] /\ local[t].op = "read"
                \/ pc' = [pc EXCEPT ![t] = "leave"] /\ pc[t] \in {"locate", "copy"}
    <3>1. /\ pc'[t] \in {"locate", "leave"} /\ \A u \in Threads : u # t => pc'[u] = pc[u]
          /\ pc'[t] = "locate" => local[t].op = "read"
          /\ pc'[t] = "leave" => pc[t] \in {"locate", "copy"}
      BY Zenon, <1>0, <2>3
    <3> QED
      BY Zenon, <2>1, <2>3, <3>1 DEF CountStill, WritePcs
  <2> QED
    BY Zenon, <1>6, <2>2, <2>3 DEF read_test_end, copied, Goto
<1>7. ASSUME NEW op \in {"read", "write"}, NEW offset, NEW size, Call(t, op, offset, size)
      PROVE  CountStill(t)
  <2>1. /\ pc[t] = "idle" /\ Same
        /\ local' = [local EXCEPT ![t].op = op, ![t].offset = offset, ![t].size = size]
        /\ pc' = [pc EXCEPT ![t] = IF op = "read" THEN "enter" ELSE "count"]
    BY Zenon, <1>7 DEF Call, Goto
  <2>2. /\ pc'[t] = (IF op = "read" THEN "enter" ELSE "count")
        /\ \A u \in Threads : u # t => pc'[u] = pc[u]
    BY Zenon, <1>0, <2>1
  <2>3. local'[t].op = op /\ \A u \in Threads : u # t => local'[u] = local[u]
    BY Zenon, <1>0, <2>1 DEF Locals
  <2>4. /\ pc'[t] \in {"enter", "count"} /\ pc'[t] \notin {"deny_store", "allow_store"}
        /\ op = "write" => pc'[t] = "count"
    BY Zenon, <2>2
  <2>5. pc[t] \notin {"deny_store", "allow_store"} /\ pc[t] \notin WritePcs
        /\ "count" \notin WritePcs /\ op # "deny"
    BY Zenon, <2>1 DEF WritePcs
  <2> QED
    BY Zenon, <2>1, <2>2, <2>3, <2>4, <2>5 DEF CountStill
<1> QED
  BY ZenonT(30), <1>1, <1>2, <1>3, <1>4, <1>5, <1>6, <1>7

\* Steps that leave the sleepers of until_no_writers alone too.
LEMMA Count_still ==
  ASSUME Inv, CountOK, NEW t \in Threads,
         \/ \E op \in {"read", "write"}, offset \in 0 .. MaxLength, size \in 1 .. MaxLength :
              Call(t, op, offset, size)
         \/ read_wait_extending(t) \/ read_test_end(t)
         \/ write_wait_extending(t) \/ write_test_end(t) \/ allocate_file(t)
         \/ locate(t) \/ copy(t) \/ copied(t)
  PROVE  CountOK'
<1>1. CountStill(t)
  BY Zenon, StillAction
<1>2. until_no_writers' = until_no_writers
  BY Zenon DEF Call, read_wait_extending, read_test_end, write_wait_extending, write_test_end,
     allocate_file, locate, copy, copied, condVars
<1>3. until_no_writers' # {} => Writing # {}
  BY Zenon, <1>2 DEF CountOK
<1> QED
  BY Zenon, <1>1, <1>3, CountedStill

\* A negative counter counts writers, and nobody denies.
LEMMA CountsWriters ==
  ASSUME Counting, CountOK
  PROVE  /\ deny_write_cnt < 0 => Writing # {}
         /\ deny_write_cnt >= 0 => Writing = {}
         /\ deny_write_cnt <= 0 => Denied = {} /\ deny_write_cnt = 0 - Cardinality(Writing)
         /\ Cardinality(Writing) \in Nat
<1>1. Cardinality(Writing) \in Nat /\ (Cardinality(Writing) = 0 => Writing = {})
  BY Zenon, WritingIs DEF Counting
<1>2. CASE Denied # {}
  <2>1. Writing = {} /\ deny_write_cnt = 1
    BY Zenon, <1>2 DEF CountOK
  <2> QED
    BY <1>1, <2>1
<1>3. CASE Denied = {}
  <2>1. deny_write_cnt = 0 - Cardinality(Writing) /\ Cardinality({}) = 0
    BY Zenon, <1>3 DEF CountOK, Counting
  <2>2. CASE Writing = {}
    BY <1>3, <2>1, <2>2
  <2>3. CASE Writing # {}
    BY SMTT(30), <1>1, <1>3, <2>1, <2>3
  <2> QED
    BY Zenon, <2>2, <2>3
<1> QED
  BY Zenon, <1>2, <1>3

\* Whoever waits for the writers has seen one.
LEMMA Count_wait_writers ==
  ASSUME Counting, Inv, CountOK, NEW t \in Threads, read_wait_writers(t) \/ deny_wait(t)
  PROVE  CountOK'
<1>1. CountStill(t)
  BY Zenon, StillAction
<1>2. deny_write_cnt < 0
  BY Zenon DEF read_wait_writers, deny_wait
<1>3. Writing # {}
  BY Zenon, <1>2, CountsWriters
<1> QED
  BY Zenon, <1>1, <1>3, CountedStill

\* A wakeup is no change of a call: a writer that waited still writes.
LEMMA Count_allocate_file_end ==
  ASSUME Inv, CountOK, NEW t \in Threads, allocate_file_end(t)
  PROVE  CountOK'
<1>1. /\ pc[t] = "alloc" /\ local' = local
      /\ pc' = [u \in Threads |->
                  IF u = t THEN "locate"
                  ELSE IF u \in until_not_extending THEN AfterExtending(u)
                  ELSE pc[u]]
      /\ until_no_writers' = until_no_writers /\ deny_write_cnt' = deny_write_cnt
      /\ inode_lock' = inode_lock /\ denying' = denying
  BY Zenon DEF allocate_file_end, Locked
<1>2. \A u \in Threads :
        \/ u = t /\ pc[u] = "alloc" /\ pc'[u] = "locate"
        \/ u # t /\ pc[u] = "wait" /\ pc'[u] = AfterExtending(u)
        \/ u # t /\ pc'[u] = pc[u]
  BY Zenon, <1>1, Wakes
<1>3. \A u \in Threads : pc'[u] = pc[u] \/
        /\ pc[u] \notin {"deny_store", "allow_store"}
        /\ pc'[u] \notin {"deny_store", "allow_store"}
        /\ local[u].op = "write" => (pc[u] \in WritePcs /\ pc'[u] \in WritePcs)
  BY Zenon, <1>2 DEF AfterExtending, WritePcs
<1>4. \A u \in Threads : u \in Writing' <=> u \in Writing
  BY Zenon, <1>1, <1>3, WritingIs
<1>5. \A u \in Threads : /\ pc'[u] = "deny_store" <=> pc[u] = "deny_store"
                         /\ pc'[u] = "allow_store" <=> pc[u] = "allow_store"
                         /\ pc[u] \in {"deny_store", "allow_store"} => local'[u] = local[u]
                         /\ local'[u].op = "deny" => local[u].op = "deny"
  BY Zenon, <1>1, <1>3
<1>6. until_no_writers' # {} => Writing # {}
  BY Zenon, <1>1 DEF CountOK
<1> QED
  BY ZenonT(30), <1>1, <1>4, <1>5, <1>6, CountFrame

\* A writer is counted before it writes, or returns.
LEMMA Count_write_count ==
  ASSUME Counting, Inv, CountOK, NEW t \in Threads, write_count(t)
  PROVE  CountOK'
<1>0. /\ pc[t] = "count" /\ inode_lock = NULL /\ inode_lock' = inode_lock /\ denying' = denying
      /\ until_no_writers' = until_no_writers
      /\ pc \in [Threads -> Pcs] /\ local \in [Threads -> Locals]
      /\ local[t].op = "write"
  BY Zenon, InvParts DEF write_count, Locked, condVars, TypeOK, CallOK, CallAt
<1>1. CASE Return(t, 0) /\ UNCHANGED deny_write_cnt
  <2>1. /\ pc' = [pc EXCEPT ![t] = "idle"] /\ local' = [local EXCEPT ![t] = Outside(0)]
        /\ deny_write_cnt' = deny_write_cnt
    BY Zenon, <1>1 DEF Return, Goto
  <2>2. /\ pc'[t] = "idle" /\ local'[t] = Outside(0)
        /\ \A u \in Threads : u # t => pc'[u] = pc[u] /\ local'[u] = local[u]
    BY Zenon, <1>0, <2>1
  <2>3. local'[t].op = "read"
    BY SMTT(30), <2>2 DEF Outside
  <2>4. CountStill(t)
    BY Zenon, <1>0, <2>1, <2>2, <2>3 DEF CountStill, WritePcs
  <2>5. until_no_writers' # {} => Writing # {}
    BY Zenon, <1>0 DEF CountOK
  <2> QED
    BY Zenon, <2>4, <2>5, CountedStill
<1>2. CASE /\ deny_write_cnt <= 0 /\ deny_write_cnt' = deny_write_cnt - 1
           /\ Goto(t, "enter") /\ UNCHANGED local
  <2>1. pc'[t] = "enter" /\ local' = local /\ \A u \in Threads : u # t => pc'[u] = pc[u]
    BY Zenon, <1>0, <1>2 DEF Goto
  <2>2. /\ Denied = {} /\ deny_write_cnt = 0 - Cardinality(Writing)
        /\ Cardinality(Writing) \in Nat
    BY Zenon, <1>2, CountsWriters
  <2>3. \A u \in Threads : pc[u] # "deny_store" /\ pc[u] # "allow_store"
    <3>1. \A u \in Threads : u # NULL
      BY Zenon, InodeAssumption
    <3> QED
      BY ZenonT(30), <1>0, <2>2, <3>1, DeniedIs DEF CountOK
  <2>4. \A u \in Threads : pc'[u] # "deny_store" /\ pc'[u] # "allow_store"
    BY Zenon, <2>1, <2>3
  <2>5. t \notin Writing /\ \A u : u \in Writing' <=> u \in Writing \cup {t}
    <3>1. "count" \notin WritePcs /\ "enter" \in WritePcs
      BY Zenon DEF WritePcs
    <3>2. t \notin Writing /\ t \in Writing'
      BY ZenonT(30), <1>0, <2>1, <3>1, WritingIs
    <3>3. \A u \in Threads : u # t => (u \in Writing' <=> u \in Writing)
      BY Zenon, <2>1, WritingIs
    <3> QED
      BY Zenon, <3>2, <3>3, WritingIs
  <2>6. Writing' = Writing \cup {t}
    BY Zenon, <2>5
  <2>7. Cardinality(Writing') = Cardinality(Writing) + 1
    BY Zenon, <2>5, <2>6, WritingIs DEF Counting
  <2>8. Denied' = {}
    BY Zenon, <1>0, <2>2, <2>4, DeniedIs
  <2>9. deny_write_cnt' = 0 - Cardinality(Writing')
    BY SMTT(30), <1>2, <2>2, <2>7
  <2>10. \A u \in Threads : pc'[u] \notin {"deny_store", "allow_store"}
    BY Zenon, <2>4
  <2>11. \A u \in Threads : local'[u].op = "deny" => u \in Deniers /\ u \notin denying'
    BY Zenon, <1>0, <2>1 DEF CountOK
  <2>12. (denying \subseteq Deniers)'
    BY Zenon, <1>0 DEF CountOK
  <2>13. Writing' # {}
    BY Zenon, <2>6
  <2> QED
    BY ZenonT(30), <2>4, <2>8, <2>9, <2>10, <2>11, <2>12, <2>13 DEF CountOK
<1> QED
  BY Zenon, <1>1, <1>2 DEF write_count

\* A writer is discounted, and the last one wakes those who wait.
LEMMA Count_write_leave ==
  ASSUME Counting, Inv, CountOK, NEW t \in Threads, write_leave(t)
  PROVE  CountOK'
<1> DEFINE woken == IF deny_write_cnt' = 0 THEN until_no_writers ELSE {}
<1>0. /\ pc[t] = "leave" /\ inode_lock = NULL /\ inode_lock' = inode_lock /\ denying' = denying
      /\ pc \in [Threads -> Pcs] /\ local \in [Threads -> Locals]
      /\ local[t].op = "write"
  BY Zenon, InvParts DEF write_leave, Locked, TypeOK, CallOK, CallAt
<1>1. /\ deny_write_cnt' = deny_write_cnt + 1
      /\ until_no_writers' = until_no_writers \ woken
      /\ pc' = [u \in Threads |->
                  IF u = t THEN "idle"
                  ELSE IF u \in woken THEN AfterWriters(u)
                  ELSE pc[u]]
      /\ local' = [local EXCEPT ![t] = Outside(local[t].done)]
  BY Zenon DEF write_leave
<1>w. /\ woken \subseteq until_no_writers
      /\ deny_write_cnt' = 0 => until_no_writers \ woken = {}
  BY Zenon
<1> HIDE DEF woken
<1>2. /\ pc'[t] = "idle" /\ local'[t] = Outside(local[t].done)
      /\ \A u \in Threads : u # t => local'[u] = local[u]
      /\ \A u \in Threads : u # t => pc'[u] = IF u \in woken THEN AfterWriters(u) ELSE pc[u]
  BY Zenon, <1>0, <1>1
<1>3. local'[t].op = "read"
  BY SMTT(30), <1>2 DEF Outside
<1>4. t \in Writing
  <2>1. "leave" \in WritePcs
    BY Zenon DEF WritePcs
  <2> QED
    BY Zenon, <1>0, <2>1, WritingIs
<1>5. Denied = {} /\ deny_write_cnt = 0 - Cardinality(Writing)
  BY Zenon, <1>4 DEF CountOK
<1>6. \A u \in Threads : pc[u] # "deny_store" /\ pc[u] # "allow_store"
  <2>1. \A u \in Threads : u # NULL
    BY Zenon, InodeAssumption
  <2> QED
    BY ZenonT(30), <1>0, <1>5, <2>1, DeniedIs DEF CountOK
<1>7. \A u \in Threads : u # t =>
        \/ pc'[u] = pc[u]
        \/ pc[u] = "wait" /\ pc'[u] \in {"enter", "deny"} /\ (local[u].op = "write" => pc'[u] = "enter")
  BY Zenon, <1>w, <1>2, Wakes DEF AfterWriters
<1>8. \A u \in Threads : pc'[u] # "deny_store" /\ pc'[u] # "allow_store"
  BY Zenon, <1>2, <1>6, <1>7
<1>9. Writing' = Writing \ {t}
  <2>1. t \notin Writing'
    BY Zenon, <1>3, WritingIs
  <2>2. "wait" \in WritePcs /\ "enter" \in WritePcs
    BY Zenon DEF WritePcs
  <2>3. \A u \in Threads : u # t => (u \in Writing' <=> u \in Writing)
    <3> SUFFICES ASSUME NEW u \in Threads, u # t PROVE u \in Writing' <=> u \in Writing
      BY Zenon
    <3>1. local'[u] = local[u]
      BY Zenon, <1>2
    <3>2. CASE pc'[u] = pc[u]
      BY Zenon, <3>1, <3>2, WritingIs
    <3>3. CASE pc[u] = "wait" /\ (local[u].op = "write" => pc'[u] = "enter")
      BY ZenonT(30), <2>2, <3>1, <3>3, WritingIs
    <3> QED
      BY Zenon, <1>7, <3>2, <3>3
  <2>4. \A u : u \in Writing' <=> u \in Writing \ {t}
    BY Zenon, <2>1, <2>3, WritingIs
  <2> QED
    BY Zenon, <2>4
<1>10. Cardinality(Writing') = Cardinality(Writing) - 1 /\ Cardinality(Writing) \in Nat
  BY Zenon, <1>4, <1>9, WritingIs DEF Counting
<1>11. Denied' = {}
  BY ZenonT(30), <1>0, <1>5, <1>8, DeniedIs
<1>12. deny_write_cnt' = 0 - Cardinality(Writing')
  BY SMTT(30), <1>1, <1>5, <1>10
<1>13. until_no_writers' # {} => Writing' # {}
  <2>1. Writing' = {} => deny_write_cnt' = 0
    <3>1. Cardinality({}) = 0
      BY Zenon DEF Counting
    <3> QED
      BY <1>12, <3>1
  <2> QED
    BY Zenon, <1>w, <1>1, <2>1
<1>14. \A u \in Threads : pc'[u] \notin {"deny_store", "allow_store"}
  BY Zenon, <1>8
<1>15. \A u \in Threads : local'[u].op = "deny" => u \in Deniers /\ u \notin denying'
  <2>1. \A u \in Threads : local'[u].op = "deny" => local[u].op = "deny"
    BY Zenon, <1>2, <1>3
  <2> QED
    BY Zenon, <1>0, <2>1 DEF CountOK
<1>16. (denying \subseteq Deniers)'
  BY Zenon, <1>0 DEF CountOK
<1> QED
  BY ZenonT(30), <1>8, <1>11, <1>12, <1>13, <1>14, <1>15, <1>16 DEF CountOK

\* A denier calls while it does not deny yet.
LEMMA Count_Call_deny ==
  ASSUME Inv, CountOK, NEW t \in Threads, Call_deny(t)
  PROVE  CountOK'
<1>0. /\ pc \in [Threads -> Pcs] /\ local \in [Threads -> Locals]
      /\ pc[t] = "idle" /\ t \in Deniers /\ t \notin denying
      /\ local' = [local EXCEPT ![t].op = "deny"] /\ pc' = [pc EXCEPT ![t] = "deny"]
      /\ deny_write_cnt' = deny_write_cnt /\ inode_lock' = inode_lock /\ denying' = denying
      /\ until_no_writers' = until_no_writers
  BY Zenon, InvParts DEF Call_deny, Goto, TypeOK, condVars
<1>1. /\ pc'[t] = "deny" /\ \A u \in Threads : u # t => pc'[u] = pc[u]
      /\ \A u \in Threads : u # t => local'[u] = local[u]
  BY Zenon, <1>0
<1>2. local'[t].op = "deny"
  BY Zenon, <1>0 DEF Locals
<1>3. Writing' = Writing
  <2>1. "idle" \notin WritePcs /\ "deny" \notin WritePcs
    BY Zenon DEF WritePcs
  <2>2. t \notin Writing /\ t \notin Writing'
    BY ZenonT(30), <1>0, <1>1, <2>1, WritingIs
  <2>3. \A u \in Threads : u # t => (u \in Writing' <=> u \in Writing)
    BY ZenonT(30), <1>1, WritingIs
  <2> QED
    BY Zenon, <2>2, <2>3, WritingIs
<1>4. \A u \in Threads : pc'[u] \in {"deny_store", "allow_store"} =>
        pc[u] = pc'[u] /\ local'[u] = local[u]
  BY Zenon, <1>1
<1>5. \A u \in Threads : pc'[u] = "allow_store" <=> pc[u] = "allow_store"
  BY Zenon, <1>0, <1>1
<1>6. Denied' = Denied
  BY Zenon, <1>0, <1>5, DeniedIs
<1>7. \A u \in Threads : local'[u].op = "deny" \/ pc'[u] = "allow_store" =>
        u \in Deniers /\ u \notin denying'
  BY ZenonT(30), <1>0, <1>1, <1>5 DEF CountOK
<1>8. \A u \in Threads : pc'[u] = "allow_store" => local'[u].op # "deny"
  BY Zenon, <1>4 DEF CountOK
<1>9. \A u \in Threads : pc'[u] = "deny_store" => inode_lock' = u /\ Writing' = {}
  BY ZenonT(30), <1>0, <1>3, <1>4 DEF CountOK
<1>10. \A u \in Threads : pc'[u] \in {"deny_store", "allow_store"} =>
         local'[u].eax = deny_write_cnt'
  BY ZenonT(30), <1>0, <1>4 DEF CountOK
<1>11. /\ Denied' # {} => Writing' = {} /\ deny_write_cnt' = 1
       /\ Denied' = {} => deny_write_cnt' = 0 - Cardinality(Writing')
       /\ until_no_writers' # {} => Writing' # {}
  BY ZenonT(30), <1>0, <1>3, <1>6 DEF CountOK
<1>12. (denying \subseteq Deniers)'
  BY Zenon, <1>0 DEF CountOK
<1> QED
  BY ZenonT(30), <1>7, <1>8, <1>9, <1>10, <1>11, <1>12 DEF CountOK

\* inode_deny_write loads a counter that says nobody writes, with the lock.
LEMMA Count_deny_load ==
  ASSUME Counting, Inv, CountOK, NEW t \in Threads, deny_load(t)
  PROVE  CountOK'
<1>0. /\ TypeOK /\ CallAt(pc[t], local[t])
      /\ pc[t] = "deny" /\ inode_lock = NULL /\ inode_lock' = t /\ deny_write_cnt >= 0
      /\ Goto(t, "deny_store") /\ local' = [local EXCEPT ![t].eax = deny_write_cnt]
      /\ deny_write_cnt' = deny_write_cnt /\ denying' = denying
      /\ until_no_writers' = until_no_writers
  BY Zenon, InvParts DEF deny_load, Locked, CallOK, condVars
<1>a. local[t].op = "deny" /\ "deny_store" \in Pcs
  BY Zenon, <1>0 DEF CallAt, Pcs
<1>1. /\ Moves(t) /\ pc'[t] = "deny_store" /\ local'[t].eax = deny_write_cnt
      /\ local'[t].op = "deny"
  BY ZenonT(30), <1>0, <1>a, Loaded
<1>2. Writing = {}
  BY Zenon, <1>0, CountsWriters
<1>3. Writing' = {}
  <2>1. "deny_store" \notin WritePcs
    BY Zenon DEF WritePcs
  <2>2. t \notin Writing'
    BY Zenon, <1>1, <2>1, WritingIs
  <2>3. \A u \in Threads : u # t => (u \in Writing' <=> u \in Writing)
    <3>1. \A u \in Threads : u # t => pc'[u] = pc[u] /\ local'[u] = local[u]
      BY Zenon, <1>1 DEF Moves
    <3> QED
      BY Zenon, <3>1, WritingIs
  <2> QED
    BY ZenonT(30), <1>2, <2>2, <2>3, WritingIs
<1>4. \A u \in Threads : pc[u] # "deny_store"
  <2>1. \A u \in Threads : u # NULL
    BY Zenon, InodeAssumption
  <2> QED
    BY Zenon, <1>0, <2>1 DEF CountOK
<1>5. \A u \in Threads : (pc'[u] = "allow_store" <=> pc[u] = "allow_store") /\
        (pc'[u] = "allow_store" => local'[u] = local[u]) /\ (pc'[u] = "deny_store" => u = t)
  BY Zenon, <1>0, <1>1, <1>4 DEF Moves
<1>6. Denied' = Denied
  BY Zenon, <1>0, <1>5, DeniedIs
<1>7. \A u \in Threads : local'[u].op = "deny" \/ pc'[u] = "allow_store" =>
        u \in Deniers /\ u \notin denying'
  <2>1. \A u \in Threads : local'[u].op = "deny" => local[u].op = "deny"
    BY Zenon, <1>a, <1>1 DEF Moves
  <2> QED
    BY ZenonT(30), <1>0, <1>5, <2>1 DEF CountOK
<1>8. \A u \in Threads : pc'[u] = "allow_store" => local'[u].op # "deny"
  BY Zenon, <1>5 DEF CountOK
<1>9. \A u \in Threads : pc'[u] = "deny_store" => inode_lock' = u /\ Writing' = {}
  BY Zenon, <1>0, <1>3, <1>5
<1>10. \A u \in Threads : pc'[u] \in {"deny_store", "allow_store"} =>
         local'[u].eax = deny_write_cnt'
  <2>1. \A u \in Threads : pc'[u] = "deny_store" => local'[u].eax = deny_write_cnt'
    BY ZenonT(30), <1>0, <1>1, <1>5
  <2>2. \A u \in Threads : pc'[u] = "allow_store" => local'[u].eax = deny_write_cnt'
    BY ZenonT(30), <1>0, <1>5 DEF CountOK
  <2> QED
    BY Zenon, <2>1, <2>2
<1>11. /\ Denied' # {} => Writing' = {} /\ deny_write_cnt' = 1
       /\ Denied' = {} => deny_write_cnt' = 0 - Cardinality(Writing')
       /\ until_no_writers' # {} => Writing' # {}
  BY ZenonT(30), <1>0, <1>2, <1>3, <1>6 DEF CountOK
<1>12. (denying \subseteq Deniers)'
  BY Zenon, <1>0 DEF CountOK
<1> QED
  BY ZenonT(30), <1>7, <1>8, <1>9, <1>10, <1>11, <1>12 DEF CountOK

\* The only denier denies: the counter it loaded is still 0.
LEMMA Count_deny_store ==
  ASSUME SingleDenier, Counting, Inv, CountOK, NEW t \in Threads, deny_store(t)
  PROVE  CountOK'
<1>0. /\ TypeOK /\ CallAt(pc[t], local[t])
      /\ pc[t] = "deny_store" /\ deny_write_cnt' = local[t].eax + 1 /\ inode_lock' = NULL
      /\ denying' = denying \cup {t} /\ Return(t, 0)
      /\ until_no_writers' = until_no_writers
  BY Zenon, InvParts DEF deny_store, CallOK, condVars
<1>1. local[t].op = "deny" /\ 0 \in -1 .. MaxLength
  BY SMTT(30), <1>0, InodeAssumption DEF CallAt
<1>2. Moves(t) /\ pc'[t] = "idle" /\ local'[t] = Outside(0)
  BY Zenon, <1>0, <1>1, Returns
<1>3. local'[t].op = "read"
  <2>1. Outside(0).op = "read"
    BY Zenon DEF Outside
  <2> QED
    BY Zenon, <1>2, <2>1
<1>4. t \in Deniers /\ t \notin denying /\ Writing = {} /\ local[t].eax = deny_write_cnt
  BY Zenon, <1>0, <1>1 DEF CountOK
<1>5. \A u \in Threads : local[u].op = "deny" \/ pc[u] = "allow_store" \/ u \in denying => u = t
  BY Zenon, <1>4 DEF CountOK, SingleDenier
<1>6. Denied = {} /\ denying = {}
  <2>1. \A u \in denying : u \in Threads
    BY Zenon, <1>0 DEF TypeOK
  <2>2. pc[t] # "allow_store"
    BY Zenon, <1>0
  <2> QED
    BY ZenonT(30), <1>4, <1>5, <2>1, <2>2, DeniedIs
<1>7. deny_write_cnt' = 1
  <2>1. deny_write_cnt = 0 - Cardinality({}) /\ Cardinality({}) = 0
    BY Zenon, <1>4, <1>6 DEF CountOK, Counting
  <2> QED
    BY SMTT(30), <1>0, <1>4, <2>1
<1>8. \A u \in Threads : u # t => pc'[u] = pc[u] /\ local'[u] = local[u]
  BY Zenon, <1>2 DEF Moves
<1>9. Writing' = {}
  <2>1. t \notin Writing'
    BY Zenon, <1>3, WritingIs
  <2>2. \A u \in Threads : u # t => (u \in Writing' <=> u \in Writing)
    BY Zenon, <1>8, WritingIs
  <2> QED
    BY Zenon, <1>4, <2>1, <2>2, WritingIs
<1>10. \A u \in Threads : local'[u].op # "deny"
  BY Zenon, <1>3, <1>5, <1>8
<1>11. \A u \in Threads : pc'[u] # "allow_store"
  BY Zenon, <1>2, <1>5, <1>8
<1>12. \A u \in Threads : pc'[u] # "deny_store"
  <2>1. \A u \in Threads : pc[u] = "deny_store" => local[u].op = "deny"
    BY Zenon, InvParts DEF CallOK, CallAt
  <2> QED
    BY Zenon, <1>2, <1>5, <1>8, <2>1
<1>13. t \in Denied' /\ (denying \subseteq Deniers)'
  BY ZenonT(30), <1>0, <1>4, <1>6, DeniedIs
<1>14. until_no_writers' = {}
  BY Zenon, <1>0, <1>4 DEF CountOK
<1>15. \A u \in Threads : pc'[u] \notin {"deny_store", "allow_store"}
  BY Zenon, <1>11, <1>12
<1> QED
  BY ZenonT(30), <1>7, <1>9, <1>10, <1>11, <1>12, <1>13, <1>14, <1>15 DEF CountOK

\* inode_allow_write loads the counter without the lock: nobody else changes
\* it, because nobody writes and nobody else denies.
LEMMA Count_allow_load ==
  ASSUME SingleDenier, Inv, CountOK, NEW t \in Threads, allow_load(t)
  PROVE  CountOK'
<1>0. /\ TypeOK /\ pc[t] = "idle" /\ t \in denying
      /\ Goto(t, "allow_store") /\ local' = [local EXCEPT ![t].eax = deny_write_cnt]
      /\ denying' = denying \ {t}
      /\ deny_write_cnt' = deny_write_cnt /\ inode_lock' = inode_lock
      /\ until_no_writers' = until_no_writers
  BY Zenon, InvParts DEF allow_load, condVars
<1>1. /\ Moves(t) /\ pc'[t] = "allow_store" /\ local'[t].eax = deny_write_cnt
      /\ local'[t].op = local[t].op
  <2>1. "allow_store" \in Pcs
    BY Zenon DEF Pcs
  <2> QED
    BY Zenon, <1>0, <2>1, Loaded
<1>2. \A u \in Threads : u # t => pc'[u] = pc[u] /\ local'[u] = local[u]
  BY Zenon, <1>1 DEF Moves
<1>3. /\ t \in Deniers /\ local[t].op # "deny" /\ denying \subseteq Deniers
      /\ Writing = {} /\ deny_write_cnt = 1
  <2>1. Denied # {}
    BY Zenon, <1>0, DeniedIs
  <2> QED
    BY Zenon, <1>0, <2>1 DEF CountOK
<1>4. Writing' = {}
  <2>1. "allow_store" \notin WritePcs
    BY Zenon DEF WritePcs
  <2>2. t \notin Writing'
    BY Zenon, <1>1, <2>1, WritingIs
  <2>3. \A u \in Threads : u # t => (u \in Writing' <=> u \in Writing)
    BY Zenon, <1>2, WritingIs
  <2> QED
    BY Zenon, <1>3, <2>2, <2>3, WritingIs
<1>5. \A u \in Threads : u # t => local[u].op # "deny" /\ pc[u] # "allow_store"
  BY Zenon, <1>3 DEF CountOK, SingleDenier
<1>6. \A u \in Threads : local'[u].op # "deny"
  BY Zenon, <1>1, <1>2, <1>3, <1>5
<1>7. \A u \in Threads : pc'[u] = "allow_store" => u = t
  BY Zenon, <1>2, <1>5
<1>8. \A u \in Threads : pc'[u] # "deny_store"
  <2>1. \A u \in Threads : pc[u] = "deny_store" => local[u].op = "deny"
    BY Zenon, InvParts DEF CallOK, CallAt
  <2> QED
    BY Zenon, <1>1, <1>2, <1>5, <2>1
<1>9. t \in Denied' /\ t \notin denying' /\ (denying \subseteq Deniers)'
  BY Zenon, <1>0, <1>1, <1>3, DeniedIs
<1>10. \A u \in Threads : pc'[u] \in {"deny_store", "allow_store"} =>
         local'[u].eax = deny_write_cnt'
  BY Zenon, <1>0, <1>1, <1>7, <1>8
<1>11. until_no_writers' = {}
  BY Zenon, <1>0, <1>3 DEF CountOK
<1>12. \A u \in Threads : local'[u].op = "deny" \/ pc'[u] = "allow_store" =>
         u \in Deniers /\ u \notin denying'
  BY Zenon, <1>3, <1>6, <1>7, <1>9
<1> QED
  BY ZenonT(30), <1>0, <1>3, <1>4, <1>6, <1>8, <1>9, <1>10, <1>11, <1>12 DEF CountOK

\* The decrement stores 0.
LEMMA Count_allow_store ==
  ASSUME SingleDenier, Counting, Inv, CountOK, NEW t \in Threads, allow_store(t)
  PROVE  CountOK'
<1>0. /\ TypeOK /\ pc[t] = "allow_store" /\ deny_write_cnt' = local[t].eax - 1
      /\ inode_lock' = inode_lock /\ denying' = denying /\ Return(t, 0)
      /\ until_no_writers' = until_no_writers /\ 0 \in -1 .. MaxLength
  <2>1. 0 \in -1 .. MaxLength
    BY InodeAssumption
  <2> QED
    BY Zenon, <2>1, InvParts DEF allow_store, condVars
<1>1. Moves(t) /\ pc'[t] = "idle" /\ local'[t] = Outside(0)
  BY Zenon, <1>0, Returns
<1>2. local'[t].op = "read"
  <2>1. Outside(0).op = "read"
    BY Zenon DEF Outside
  <2> QED
    BY Zenon, <1>1, <2>1
<1>3. \A u \in Threads : u # t => pc'[u] = pc[u] /\ local'[u] = local[u]
  BY Zenon, <1>1 DEF Moves
<1>4. /\ t \in Deniers /\ t \notin denying /\ denying \subseteq Deniers
      /\ Writing = {} /\ deny_write_cnt = 1 /\ local[t].eax = deny_write_cnt
  <2>1. Denied # {}
    BY Zenon, <1>0, DeniedIs
  <2> QED
    BY Zenon, <1>0, <2>1 DEF CountOK
<1>5. \A u \in Threads : u # t => local[u].op # "deny" /\ pc[u] # "allow_store"
  BY Zenon, <1>4 DEF CountOK, SingleDenier
<1>6. denying = {}
  BY Zenon, <1>4 DEF SingleDenier
<1>7. \A u \in Threads : local'[u].op # "deny"
  BY Zenon, <1>2, <1>3, <1>5
<1>8. \A u \in Threads : pc'[u] # "allow_store"
  BY Zenon, <1>1, <1>3, <1>5
<1>9. \A u \in Threads : pc'[u] # "deny_store"
  <2>1. \A u \in Threads : pc[u] = "deny_store" => local[u].op = "deny"
    BY Zenon, InvParts DEF CallOK, CallAt
  <2> QED
    BY Zenon, <1>1, <1>3, <1>5, <2>1
<1>10. Writing' = {}
  <2>1. t \notin Writing'
    BY Zenon, <1>2, WritingIs
  <2>2. \A u \in Threads : u # t => (u \in Writing' <=> u \in Writing)
    BY Zenon, <1>3, WritingIs
  <2> QED
    BY Zenon, <1>4, <2>1, <2>2, WritingIs
<1>11. Denied' = {} /\ (denying \subseteq Deniers)'
  BY ZenonT(30), <1>0, <1>4, <1>6, <1>8, DeniedIs
<1>12. deny_write_cnt' = 0 - Cardinality(Writing')
  <2>1. Cardinality(Writing') = 0
    BY Zenon, <1>10 DEF Counting
  <2> QED
    BY <1>0, <1>4, <2>1
<1>13. until_no_writers' = {}
  BY Zenon, <1>0, <1>4 DEF CountOK
<1>14. \A u \in Threads : pc'[u] \notin {"deny_store", "allow_store"}
  BY Zenon, <1>8, <1>9
<1> QED
  BY ZenonT(30), <1>7, <1>8, <1>9, <1>11, <1>12, <1>13, <1>14 DEF CountOK

\* Nobody writes or denies at first.
LEMMA InitCount ==
  ASSUME Counting, Init
  PROVE  CountOK
<1>1. /\ deny_write_cnt = 0 /\ denying = {} /\ until_no_writers = {}
      /\ \A u \in Threads : pc[u] = "idle" /\ local[u].op = "read"
  <2>1. Outside(0).op = "read"
    BY Zenon DEF Outside
  <2> QED
    BY Zenon, <2>1 DEF Init
<1>2. Writing = {}
  BY Zenon, <1>1 DEF Writing
<1>3. Denied = {}
  BY Zenon, <1>1 DEF Denied
<1>4. deny_write_cnt = 0 - Cardinality(Writing)
  <2>1. Cardinality(Writing) = 0
    BY Zenon, <1>2 DEF Counting
  <2> QED
    BY <1>1, <2>1
<1>5. \A u \in Threads : /\ pc[u] \notin {"deny_store", "allow_store"}
                         /\ pc[u] # "deny_store" /\ pc[u] # "allow_store"
                         /\ local[u].op # "deny"
  BY Zenon, <1>1
<1> QED
  BY ZenonT(30), <1>1, <1>3, <1>4, <1>5 DEF CountOK

\* Every step keeps the account of writers and of the one denier.
LEMMA NextCount ==
  ASSUME SingleDenier, Counting, Inv, CountOK, [Next]_vars
  PROVE  CountOK'
<1>1. CASE UNCHANGED vars
  <2>1. /\ deny_write_cnt' = deny_write_cnt /\ inode_lock' = inode_lock
        /\ until_no_writers' = until_no_writers /\ pc' = pc /\ local' = local
        /\ denying' = denying
    BY Zenon, <1>1 DEF vars, condVars
  <2>2. \A u \in Threads : u \in Writing' <=> u \in Writing
    BY Zenon, <2>1, WritingIs
  <2>3. until_no_writers' # {} => Writing # {}
    BY Zenon, <2>1 DEF CountOK
  <2> QED
    BY Zenon, <2>1, <2>2, <2>3, CountFrame
<1>2. CASE Next
  <2>1. PICK t \in Threads : Step(t) \/ User(t)
    BY Zenon, <1>2 DEF Next
  <2>2. CASE Step(t)
    BY Zenon, <2>2, Count_still, Count_wait_writers, Count_write_count,
       Count_allocate_file_end, Count_write_leave, Count_deny_load, Count_deny_store,
       Count_allow_store DEF Step
  <2>3. CASE User(t)
    BY Zenon, <2>3, Count_still, Count_Call_deny, Count_allow_load DEF User
  <2> QED
    BY Zenon, <2>1, <2>2, <2>3
<1> QED
  BY Zenon, <1>1, <1>2

\* The counter counted as CountAccurate counts it: the one denier either holds
\* its denial or is taking it back.
LEMMA CountsAll ==
  ASSUME SingleDenier, Counting, Inv, CountOK
  PROVE  CountAccurate
<1> DEFINE Allowing == {t \in Threads : pc[t] = "allow_store"}
<1>1. \A u : u \in Allowing <=> u \in Threads /\ pc[u] = "allow_store"
  BY Zenon
<1>2. denying \in SUBSET Threads
  BY Zenon, InvParts DEF TypeOK
<1> HIDE DEF Allowing
<1>3. CASE Denied = {}
  <2>1. denying = {} /\ Allowing = {}
    BY Zenon, <1>1, <1>3, DeniedIs
  <2>2. Cardinality(denying) = 0 /\ Cardinality(Allowing) = 0 /\ Cardinality(Writing) \in Nat
    BY Zenon, <2>1, WritingIs DEF Counting
  <2>3. deny_write_cnt = 0 - Cardinality(Writing)
    BY Zenon, <1>3 DEF CountOK
  <2>4. deny_write_cnt = Cardinality(denying) + Cardinality(Allowing) - Cardinality(Writing)
    BY <2>2, <2>3
  <2> QED
    BY Zenon, <2>1, <2>4 DEF CountAccurate, Allowing
<1>4. CASE Denied # {}
  <2>1. PICK d : d \in Denied
    BY Zenon, <1>4
  <2>2. d \in Threads /\ (d \in denying <=> d \notin Allowing)
    BY ZenonT(30), <1>1, <1>2, <2>1, DeniedIs DEF CountOK
  <2>3. \A u : u \in denying \/ u \in Allowing => u = d
    <3>1. \A u : u \in Denied => u \in Deniers
      BY Zenon, DeniedIs DEF CountOK
    <3> QED
      BY ZenonT(30), <1>1, <2>1, <3>1, DeniedIs DEF SingleDenier
  <2>4. Writing = {} /\ deny_write_cnt = 1 /\ Cardinality(Writing) = 0
    BY Zenon, <1>4 DEF CountOK, Counting
  <2>5. \/ denying = {d} /\ Allowing = {}
        \/ denying = {} /\ Allowing = {d}
    <3>1. CASE d \in denying
      BY Zenon, <2>2, <2>3, <3>1
    <3>2. CASE d \notin denying
      BY Zenon, <2>2, <2>3, <3>2
    <3> QED
      BY Zenon, <3>1, <3>2
  <2>6. \/ Cardinality(denying) = 1 /\ Cardinality(Allowing) = 0
        \/ Cardinality(denying) = 0 /\ Cardinality(Allowing) = 1
    BY Zenon, <2>2, <2>5 DEF Counting
  <2>7. deny_write_cnt = Cardinality(denying) + Cardinality(Allowing) - Cardinality(Writing)
    BY <2>4, <2>6
  <2> QED
    BY Zenon, <2>4, <2>7 DEF CountAccurate, Allowing
<1> QED
  BY Zenon, <1>3, <1>4

\* What the two invariants say of an open file.
LEMMA Consistent ==
  ASSUME SingleDenier, Counting, Inv, CountOK
  PROVE  InodeConsistent
<1>1. TypeOK /\ CallOK /\ WaitOK /\ ExtendOK
  BY Zenon, InvParts
<1>2. BlocksOwned
  BY Zenon, <1>1 DEF ExtendOK, Owned, BlocksOwned
<1>3. SectorValid
  BY Zenon, CopiesSector DEF SectorValid
<1>4. NoMissedBroadcast
  <2> DEFINE Allocating == {t \in Threads : pc[t] = "alloc"}
  <2>1. \A u : u \in Allocating <=> u \in Threads /\ pc[u] = "alloc"
    BY Zenon
  <2> HIDE DEF Allocating
  <2>2. Allocating = {} \/ \E t \in Threads : Allocating = {t}
    <3>1. CASE \E t : t \in Allocating
      <4>1. PICK t : t \in Allocating
        BY Zenon, <3>1
      <4>2. \A u : u \in Allocating => u = t
        <5>1. \A u, v \in Threads : pc[u] = "alloc" /\ pc[v] = "alloc" => u = v
          BY Zenon, <1>1 DEF ExtendOK
        <5> SUFFICES ASSUME NEW u, u \in Allocating PROVE u = t
          BY Zenon
        <5>2. t \in Threads /\ pc[t] = "alloc"
          BY Zenon, <2>1, <4>1
        <5>3. u \in Threads /\ pc[u] = "alloc"
          BY Zenon, <2>1
        <5> QED
          BY Zenon, <5>1, <5>2, <5>3
      <4>3. Allocating = {t} /\ t \in Threads
        BY Zenon, <2>1, <4>1, <4>2
      <4> QED
        BY Zenon, <4>3
    <3> QED
      BY Zenon, <3>1
  <2>3. Cardinality(Allocating) = 0 \/ Cardinality(Allocating) = 1
    BY Zenon, <2>2 DEF Counting
  <2>4. Cardinality(Allocating) <= 1
    BY <2>3
  <2> QED
    BY Zenon, <1>1, <2>4 DEF Allocating, NoMissedBroadcast, WaitOK, CountOK
<1> QED
  BY Zenon, <1>1, <1>2, <1>3, <1>4, CountsAll DEF InodeConsistent

-----------------------------------------------------------------------------
(* The theorems                                                              *)

INSTANCE FiniteSetTheorems
INSTANCE WellFoundedInduction

\* free_map_allocate returns one of the free sectors.
LEMMA MinOfFree ==
  ASSUME NEW S \in SUBSET Nat, S # {}
  PROVE  Min(S) \in S
<1>1. PICK x \in S : \A y \in S : <<y, x>> \notin OpToRel(<, Nat)
  BY ZenonT(30), WFMin, NatLessThanWellFounded
<1>2. ASSUME NEW y \in S PROVE x <= y
  <2>1. x \in Nat /\ y \in Nat
    BY Zenon
  <2>2. y < x => <<y, x>> \in OpToRel(<, Nat)
    BY <2>1, ZenonT(30) DEF OpToRel
  <2>3. ~(y < x)
    BY <1>1, <2>2, ZenonT(30)
  <2> QED
    BY SMTT(30), <2>1, <2>3
<1> QED
  BY ZenonT(30), <1>2 DEF Min


\* A nonempty free map has a first sector.
LEMMA FirstFree == HasFirst
BY ZenonT(30), MinOfFree DEF HasFirst

\* Threads are finitely many.
LEMMA ThreadsCount == Counting
<1>1. Cardinality({}) = 0
  BY ZenonT(30), FS_EmptySet
<1>2. \A t \in Threads : Cardinality({t}) = 1
  BY ZenonT(30), FS_Singleton
<1>3. ASSUME NEW S \in SUBSET Threads
      PROVE  /\ Cardinality(S) \in Nat
             /\ Cardinality(S) = 0 => S = {}
             /\ \A t \in Threads \ S : Cardinality(S \cup {t}) = Cardinality(S) + 1
             /\ \A t \in S : Cardinality(S \ {t}) = Cardinality(S) - 1
  <2>1. IsFiniteSet(S)
    BY ZenonT(30), InodeAssumption, FS_Subset
  <2> QED
    BY ZenonT(30), <2>1, FS_CardinalityType, FS_EmptySet, FS_RemoveElement, FS_AddElement
<1> QED
  BY ZenonT(30), <1>1, <1>2, <1>3 DEF Counting

\* The invariant of every open file, however many threads deny writes to it:
\* where each call is, who sleeps on which condition, who extends, and that the
\* blocks up to the end of file, and those an extension has passed, are sectors
\* of the file's own.
THEOREM Invariance == Spec => []Inv
<1>1. Init => Inv
  BY ZenonT(30), InitInv
<1>2. Inv /\ [Next]_vars => Inv'
  BY ZenonT(30), NextInv, FirstFree
<1> QED
  BY <1>1, <1>2, PTL DEF Spec

\* inode_write_at never shortens an open file, and an extension leaves each
\* byte before the old end where it was, although allocate_file fills the index
\* in without the lock while others read and write.
THEOREM ExtendsKeepBytes == Spec => ExtendKeeps
<1>1. Inv /\ [Next]_vars => [KeepsBytes]_vars
  BY ZenonT(30), StepKeepsBytes, FirstFree
<1> QED
  BY <1>1, Invariance, PTL DEF Spec, ExtendKeeps

\* With at most one thread that denies writes, the counter that writers and
\* the denier share is exact, the file's blocks are its own, every copy has a
\* sector, and nobody sleeps for a broadcast that is over.
THEOREM InodeStaysConsistent ==
  ASSUME SingleDenier
  PROVE  Spec => []InodeConsistent
<1>1. Init => CountOK
  BY ZenonT(30), InitCount, ThreadsCount
<1>2. Inv /\ CountOK /\ [Next]_vars => CountOK'
  BY ZenonT(30), NextCount, ThreadsCount
<1>3. Inv /\ CountOK => InodeConsistent
  BY ZenonT(30), Consistent, ThreadsCount
<1> QED
  BY <1>1, <1>2, <1>3, Invariance, PTL DEF Spec
=============================================================================
