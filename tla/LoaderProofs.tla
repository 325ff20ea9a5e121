---------------------------- MODULE LoaderProofs ----------------------------
(***************************************************************************)
(* Proofs about Loader, for any processes, any executables, any number of  *)
(* pages and tables of any size: every page is free or held once, by one   *)
(* process, and the CPU's page directory is alive.                         *)
(***************************************************************************)
EXTENDS Loader, TLAPS

PdeNos == DOMAIN init_page_dir
PteNos == DOMAIN ZeroTable

-----------------------------------------------------------------------------
(* Directories and tables                                                    *)

\* An entry is zero, or present and points to a page of the pool.
EntriesOf(pool) == {ZeroEntry} \cup {e \in [page : pool, flags : SUBSET {"P", "U", "W"}] : "P" \in e.flags}
\* The pages of the pool that the given rows of a two-dimensional array point to.
From(f, rows, N, pool) ==
  {x \in pool : \E a \in rows, i \in N : f[a][i] # ZeroEntry /\ f[a][i].page = x}
\* No two entries point to one page.
Once(f, N) ==
  \A a, b \in DOMAIN f, i, j \in N :
    f[a][i] # ZeroEntry /\ f[b][j] # ZeroEntry /\ f[a][i].page = f[b][j].page => a = b /\ i = j
Array(f, N, pool) == f \in [DOMAIN f -> [N -> EntriesOf(pool)]] /\ Once(f, N)

\* An entry that is not zero is present.
LEMMA Presents ==
  ASSUME NEW pool, NEW e \in EntriesOf(pool)
  PROVE  /\ present(e) <=> e # ZeroEntry
         /\ e # ZeroEntry => e.page \in pool
BY DEF EntriesOf, present, ZeroEntry

\* Pointing one more entry to a page.
SetsEntry(f, g, N, pool, a, i, e) ==
  /\ Array(f, N, pool) /\ a \in DOMAIN f /\ i \in N /\ f[a][i] = ZeroEntry
  /\ e \in EntriesOf(pool) /\ e # ZeroEntry /\ e.page \notin From(f, DOMAIN f, N, pool)
  /\ g = [f EXCEPT ![a][i] = e]

PointsTo(f, g, N, pool, x) ==
  /\ Array(g, N, pool) /\ DOMAIN g = DOMAIN f
  /\ From(g, DOMAIN g, N, pool) = From(f, DOMAIN f, N, pool) \cup {x}

\* An entry more: the page pointed to is added, and no page twice.
LEMMA EntrySet ==
  ASSUME NEW f, NEW g, NEW N, NEW pool, NEW a, NEW i, NEW e, SetsEntry(f, g, N, pool, a, i, e)
  PROVE  PointsTo(f, g, N, pool, e.page)
<1> USE DEF SetsEntry, PointsTo
<1>1. /\ DOMAIN g = DOMAIN f /\ g \in [DOMAIN g -> [N -> EntriesOf(pool)]] /\ g[a][i] = e
      /\ \A b \in DOMAIN f, j \in N : b # a \/ j # i => g[b][j] = f[b][j]
  BY Zenon DEF Array
<1>2. e.page \in pool
  BY Zenon, Presents
<1>3. \A b \in DOMAIN f, j \in N : g[b][j] # ZeroEntry =>
        \/ b = a /\ j = i /\ g[b][j].page = e.page
        \/ f[b][j] # ZeroEntry /\ g[b][j] = f[b][j] /\ g[b][j].page # e.page
  <2> SUFFICES ASSUME NEW b \in DOMAIN f, NEW j \in N, g[b][j] # ZeroEntry, b # a \/ j # i
               PROVE  f[b][j] # ZeroEntry /\ g[b][j] = f[b][j] /\ g[b][j].page # e.page
    BY ZenonT(30), <1>1
  <2>1. g[b][j] = f[b][j] /\ f[b][j] # ZeroEntry
    BY Zenon, <1>1
  <2>2. f[b][j].page = e.page => e.page \in From(f, DOMAIN f, N, pool)
    BY Zenon, <1>2, <2>1 DEF From
  <2> QED
    BY Zenon, <2>1, <2>2
<1>4. Once(g, N)
  <2> SUFFICES ASSUME NEW b \in DOMAIN g, NEW c \in DOMAIN g, NEW j \in N, NEW k \in N,
                      g[b][j] # ZeroEntry, g[c][k] # ZeroEntry, g[b][j].page = g[c][k].page
               PROVE  b = c /\ j = k
    BY SMT DEF Once
  <2>1. Once(f, N)
    BY Zenon DEF Array
  <2>2. b \in DOMAIN f /\ c \in DOMAIN f
    BY Zenon, <1>1
  <2>3. CASE g[b][j].page = e.page
    <3>1. b = a /\ j = i
      BY Zenon, <1>3, <2>2, <2>3
    <3>2. g[c][k].page = e.page
      BY Zenon, <2>3
    <3>3. c = a /\ k = i
      BY Zenon, <1>3, <2>2, <3>2
    <3> QED
      BY Zenon, <3>1, <3>3
  <2>4. CASE g[b][j].page # e.page
    <3>1. /\ f[b][j] # ZeroEntry /\ f[c][k] # ZeroEntry
          /\ g[b][j] = f[b][j] /\ g[c][k] = f[c][k]
      BY ZenonT(30), <1>3, <2>2, <2>4
    <3>2. f[b][j].page = f[c][k].page
      BY Zenon, <3>1
    <3> QED
      BY SMT, <2>1, <2>2, <3>1, <3>2 DEF Once
  <2> QED
    BY Zenon, <2>3, <2>4
<1>5. From(g, DOMAIN g, N, pool) = From(f, DOMAIN f, N, pool) \cup {e.page}
  <2>1. ASSUME NEW x \in From(g, DOMAIN g, N, pool)
        PROVE  x \in From(f, DOMAIN f, N, pool) \cup {e.page}
    <3>1. PICK b \in DOMAIN f, j \in N : x \in pool /\ g[b][j] # ZeroEntry /\ g[b][j].page = x
      BY Zenon, <1>1, <2>1 DEF From
    <3>2. f[b][j] # ZeroEntry /\ g[b][j] = f[b][j] => x \in From(f, DOMAIN f, N, pool)
      BY Zenon, <3>1 DEF From
    <3> QED
      BY ZenonT(30), <1>3, <3>1, <3>2
  <2>2. e.page \in From(g, DOMAIN g, N, pool)
    BY Zenon, <1>1, <1>2 DEF From
  <2>3. ASSUME NEW x \in From(f, DOMAIN f, N, pool)
        PROVE  x \in From(g, DOMAIN g, N, pool)
    <3>1. PICK b \in DOMAIN f, j \in N : x \in pool /\ f[b][j] # ZeroEntry /\ f[b][j].page = x
      BY Zenon, <2>3 DEF From
    <3>2. g[b][j] = f[b][j]
      BY Zenon, <1>1, <3>1
    <3> QED
      BY Zenon, <1>1, <3>1, <3>2 DEF From
  <2> QED
    BY Zenon, <2>1, <2>2, <2>3
<1> QED
  BY Zenon, <1>1, <1>4, <1>5 DEF Array

\* A new row of zeros.
AddsRow(f, g, N, pool, x, zeros) ==
  /\ Array(f, N, pool) /\ x \notin DOMAIN f /\ zeros \in [N -> {ZeroEntry}]
  /\ g = With(f, x, zeros)

HasRow(f, g, N, pool, x) ==
  /\ Array(g, N, pool) /\ DOMAIN g = DOMAIN f \cup {x}
  /\ \A i \in N : g[x][i] = ZeroEntry
  /\ \A a \in DOMAIN f : g[a] = f[a]
  /\ From(g, DOMAIN g, N, pool) = From(f, DOMAIN f, N, pool)

\* A new row, which is empty, points to nothing.
LEMMA RowAdded ==
  ASSUME NEW f, NEW g, NEW N, NEW pool, NEW x, NEW zeros, AddsRow(f, g, N, pool, x, zeros)
  PROVE  HasRow(f, g, N, pool, x)
<1> USE DEF AddsRow, HasRow
<1>1. /\ DOMAIN g = DOMAIN f \cup {x} /\ g[x] = zeros
      /\ \A a \in DOMAIN f : a # x => g[a] = f[a]
      /\ g = [a \in DOMAIN g |-> g[a]]
  BY Zenon DEF With
<1>2. \A a \in DOMAIN f : g[a] = f[a]
  BY Zenon, <1>1
<1>3. \A i \in N : g[x][i] = ZeroEntry
  BY Zenon, <1>1
<1>4. g \in [DOMAIN g -> [N -> EntriesOf(pool)]]
  <2>1. \A a \in DOMAIN f : f[a] \in [N -> EntriesOf(pool)]
    BY Zenon DEF Array
  <2>2. zeros \in [N -> EntriesOf(pool)]
    BY Zenon DEF EntriesOf
  <2>3. \A a \in DOMAIN g : g[a] \in [N -> EntriesOf(pool)]
    BY Zenon, <1>1, <1>2, <2>1, <2>2
  <2> QED
    BY Zenon, <1>1, <2>3
<1>5. \A a \in DOMAIN g, i \in N : g[a][i] # ZeroEntry => a \in DOMAIN f /\ g[a][i] = f[a][i]
  BY Zenon, <1>1, <1>2, <1>3
<1>6. Once(g, N)
  <2>1. Once(f, N)
    BY Zenon DEF Array
  <2> QED
    BY SMT, <1>5, <2>1 DEF Once
<1>7. From(g, DOMAIN g, N, pool) = From(f, DOMAIN f, N, pool)
  <2>1. ASSUME NEW y \in From(g, DOMAIN g, N, pool) PROVE y \in From(f, DOMAIN f, N, pool)
    <3>1. PICK b \in DOMAIN g, j \in N : y \in pool /\ g[b][j] # ZeroEntry /\ g[b][j].page = y
      BY Zenon, <2>1 DEF From
    <3>2. b \in DOMAIN f /\ g[b][j] = f[b][j]
      BY Zenon, <1>5, <3>1
    <3> QED
      BY Zenon, <3>1, <3>2 DEF From
  <2>2. ASSUME NEW y \in From(f, DOMAIN f, N, pool) PROVE y \in From(g, DOMAIN g, N, pool)
    <3>1. PICK b \in DOMAIN f, j \in N : y \in pool /\ f[b][j] # ZeroEntry /\ f[b][j].page = y
      BY Zenon, <2>2 DEF From
    <3>2. b \in DOMAIN g /\ g[b][j] = f[b][j]
      BY Zenon, <1>1, <1>2
    <3> QED
      BY Zenon, <3>1, <3>2 DEF From
  <2> QED
    BY Zenon, <2>1, <2>2
<1> QED
  BY Zenon, <1>1, <1>2, <1>3, <1>4, <1>6, <1>7 DEF Array

\* Rows taken away.
LacksRows(f, g, N, pool, S) ==
  /\ Array(g, N, pool) /\ DOMAIN g = DOMAIN f \ S
  /\ \A a \in DOMAIN g : g[a] = f[a]
  /\ From(g, DOMAIN g, N, pool) = From(f, DOMAIN f, N, pool) \ From(f, S, N, pool)
  /\ From(f, S, N, pool) \subseteq From(f, DOMAIN f, N, pool)

\* Rows that go take with them the pages they point to.
LEMMA RowsGone ==
  ASSUME NEW N, NEW pool, NEW f, Array(f, N, pool), NEW S \in SUBSET DOMAIN f,
         NEW g, g = [a \in DOMAIN f \ S |-> f[a]]
  PROVE  LacksRows(f, g, N, pool, S)
<1> USE DEF LacksRows
<1>1. DOMAIN g = DOMAIN f \ S /\ \A a \in DOMAIN g : g[a] = f[a]
  BY Zenon
<1>2. g \in [DOMAIN g -> [N -> EntriesOf(pool)]]
  BY Zenon DEF Array
<1>3. Once(f, N)
  BY Zenon DEF Array
<1>4. Once(g, N)
  BY SMT, <1>1, <1>3 DEF Once
<1>5. ASSUME NEW x \in pool
      PROVE  x \in From(g, DOMAIN g, N, pool) <=>
               x \in From(f, DOMAIN f, N, pool) /\ x \notin From(f, S, N, pool)
  <2>1. ASSUME x \in From(g, DOMAIN g, N, pool)
        PROVE  x \in From(f, DOMAIN f, N, pool) /\ x \notin From(f, S, N, pool)
    <3>1. PICK a \in DOMAIN g, i \in N : g[a][i] # ZeroEntry /\ g[a][i].page = x
      BY Zenon, <2>1 DEF From
    <3>2. a \in DOMAIN f /\ a \notin S /\ f[a][i] # ZeroEntry /\ f[a][i].page = x
      BY Zenon, <1>1, <3>1
    <3>3. ASSUME NEW b \in S, NEW j \in N, f[b][j] # ZeroEntry, f[b][j].page = x PROVE FALSE
      <4>1. b \in DOMAIN f
        BY Zenon
      <4>2. f[b][j].page = f[a][i].page
        BY Zenon, <3>2, <3>3
      <4> QED
        BY SMT, <1>3, <3>2, <3>3, <4>1, <4>2 DEF Once
    <3> QED
      BY Zenon, <3>2, <3>3 DEF From
  <2>2. ASSUME x \in From(f, DOMAIN f, N, pool), x \notin From(f, S, N, pool)
        PROVE  x \in From(g, DOMAIN g, N, pool)
    <3>1. PICK a \in DOMAIN f, i \in N : f[a][i] # ZeroEntry /\ f[a][i].page = x
      BY Zenon, <2>2 DEF From
    <3>2. a \notin S
      BY Zenon, <2>2, <3>1 DEF From
    <3> QED
      BY Zenon, <1>1, <3>1, <3>2 DEF From
  <2> QED
    BY Zenon, <2>1, <2>2
<1>6. From(g, DOMAIN g, N, pool) = From(f, DOMAIN f, N, pool) \ From(f, S, N, pool)
  <2>1. From(g, DOMAIN g, N, pool) \subseteq pool /\ From(f, DOMAIN f, N, pool) \subseteq pool
    BY Zenon DEF From
  <2> QED
    BY Zenon, <1>5, <2>1
<1>7. From(f, S, N, pool) \subseteq From(f, DOMAIN f, N, pool)
  BY Zenon DEF From
<1> QED
  BY Zenon, <1>1, <1>2, <1>4, <1>6, <1>7 DEF Array

-----------------------------------------------------------------------------
(* Pools                                                                     *)

\* The sets are disjoint and make up the pool.
Split3(pool, a, b, c) ==
  a \cup b \cup c = pool /\ a \cap b = {} /\ a \cap c = {} /\ b \cap c = {}
Split4(pool, a, b, c, d) ==
  /\ a \cup b \cup c \cup d = pool
  /\ a \cap b = {} /\ a \cap c = {} /\ a \cap d = {} /\ b \cap c = {} /\ b \cap d = {} /\ c \cap d = {}

\* What the processes have, one page each at most.
Vals(g, pool) == {x \in pool : \E p \in Procs : g[p] = x}
Distinct(g) == \A p, q \in Procs : g[p] = g[q] /\ g[p] # NULL => p = q
Still(g, h) == \A q \in Procs : h[q] = g[q]
Changed(g, h, p, x) == h[p] = x /\ \A q \in Procs : q # p => h[q] = g[q]
Adds(g, h, pool, x) == Vals(h, pool) = Vals(g, pool) \cup {x}

\* A process that had none gets a page.
LEMMA Gains ==
  ASSUME NEW pool, NULL \notin pool, NEW g, NEW h, Distinct(g), NEW p \in Procs, g[p] = NULL,
         NEW x \in pool, x \notin Vals(g, pool), Changed(g, h, p, x)
  PROVE  Distinct(h) /\ Adds(g, h, pool, x)
<1>0. h[p] = x /\ \A q \in Procs : q # p => h[q] = g[q]
  BY Zenon DEF Changed
<1>1. \A q \in Procs : q # p => h[q] # x
  BY Zenon, <1>0 DEF Vals
<1>2. Distinct(h)
  <2> SUFFICES ASSUME NEW q \in Procs, NEW r \in Procs, h[q] = h[r], h[q] # NULL PROVE q = r
    BY Zenon DEF Distinct
  <2>1. CASE q = p \/ r = p
    BY Zenon, <1>0, <1>1, <2>1
  <2>2. CASE q # p /\ r # p
    BY Zenon, <1>0, <2>2 DEF Distinct
  <2> QED
    BY Zenon, <2>1, <2>2
<1>3. ASSUME NEW y \in pool PROVE y \in Vals(h, pool) <=> y \in Vals(g, pool) \cup {x}
  <2>1. (\E q \in Procs : h[q] = y) <=> (y = x \/ \E q \in Procs : g[q] = y)
    BY Zenon, <1>0
  <2> QED
    BY Zenon, <2>1 DEF Vals
<1>4. Vals(h, pool) \subseteq pool /\ Vals(g, pool) \cup {x} \subseteq pool
  BY Zenon DEF Vals
<1> QED
  BY Zenon, <1>2, <1>3, <1>4 DEF Adds

\* A process gives its page back.
LEMMA Loses ==
  ASSUME NEW pool, NULL \notin pool, NEW g, NEW h, Distinct(g), NEW p \in Procs,
         g[p] \in pool, h[p] = NULL, \A q \in Procs : q # p => h[q] = g[q]
  PROVE  Distinct(h) /\ Vals(h, pool) = Vals(g, pool) \ {g[p]} /\ g[p] \in Vals(g, pool)
<1>1. \A q \in Procs : q # p => g[q] # g[p]
  BY Zenon DEF Distinct
<1>2. Distinct(h)
  <2> SUFFICES ASSUME NEW q \in Procs, NEW r \in Procs, h[q] = h[r], h[q] # NULL PROVE q = r
    BY Zenon DEF Distinct
  <2>1. q # p /\ r # p
    BY Zenon
  <2> QED
    BY Zenon, <2>1 DEF Distinct
<1>3. ASSUME NEW y \in pool PROVE y \in Vals(h, pool) <=> y \in Vals(g, pool) \ {g[p]}
  <2>1. (\E q \in Procs : h[q] = y) <=> (y # g[p] /\ \E q \in Procs : g[q] = y)
    BY Zenon, <1>1
  <2> QED
    BY Zenon, <2>1 DEF Vals
<1>4. Vals(h, pool) \subseteq pool /\ Vals(g, pool) \ {g[p]} \subseteq pool /\ g[p] \in Vals(g, pool)
  BY Zenon DEF Vals
<1> QED
  BY Zenon, <1>2, <1>3, <1>4

\* Nothing changes.
LEMMA Same ==
  ASSUME NEW pool, NEW g, NEW h, Distinct(g), \A q \in Procs : h[q] = g[q]
  PROVE  Distinct(h) /\ Vals(h, pool) = Vals(g, pool)
<1>1. Distinct(h)
  BY Zenon DEF Distinct
<1>2. ASSUME NEW y \in pool PROVE y \in Vals(h, pool) <=> y \in Vals(g, pool)
  BY Zenon DEF Vals
<1>3. Vals(h, pool) \subseteq pool /\ Vals(g, pool) \subseteq pool
  BY Zenon DEF Vals
<1> QED
  BY Zenon, <1>1, <1>2, <1>3

-----------------------------------------------------------------------------
(* The books                                                                 *)

\* palloc_get_page returns a page of the pool.
HasFirst == \A S \in SUBSET Nat : S # {} => Min(S) \in S

\* The pages that tables map, and those that tables are in.
MappedPages(m) == From(m.pt, DOMAIN m.pt, PteNos, UserPages)
TablePages(m) == From(m.pd, DOMAIN m.pd, PdeNos, KernelPages)

\* K are the other kernel pages in use, U the other user pages in use.
Accounts(m, K, U) ==
  /\ m = [pd |-> m.pd, pt |-> m.pt, kernel |-> m.kernel, user |-> m.user]
  /\ Array(m.pd, PdeNos, KernelPages) /\ Array(m.pt, PteNos, UserPages)
  /\ DOMAIN m.pt = TablePages(m)
  /\ Split4(KernelPages, m.kernel, DOMAIN m.pd, DOMAIN m.pt, K)
  /\ Split3(UserPages, m.user, MappedPages(m), U)

\* The page that is taken is in the pool.
LEMMA FirstPages ==
  ASSUME LoaderAssumption, HasFirst, NEW m, NEW K, NEW U, Accounts(m, K, U)
  PROVE  /\ m.kernel # {} => KernelPage(m) \in m.kernel
         /\ m.user # {} => Min(m.user) \in m.user
<1>1. m.kernel \subseteq Nat /\ m.user \subseteq Nat
  BY Zenon DEF Accounts, LoaderAssumption, Split3, Split4
<1> QED
  BY Zenon, <1>1 DEF HasFirst, KernelPage

\* Taking a page out of a pool for something else than a table, and giving it back.
LEMMA TakeKernel ==
  ASSUME NEW m, NEW K, NEW U, Accounts(m, K, U), NEW x \in m.kernel
  PROVE  /\ x \in KernelPages /\ x \notin K
         /\ Accounts([m EXCEPT !.kernel = @ \ {x}], K \cup {x}, U)
<1> DEFINE n == [m EXCEPT !.kernel = @ \ {x}]
<1>1. n.pd = m.pd /\ n.pt = m.pt /\ n.user = m.user /\ n.kernel = m.kernel \ {x}
      /\ n = [pd |-> n.pd, pt |-> n.pt, kernel |-> n.kernel, user |-> n.user]
  BY DEF Accounts
<1> HIDE DEF n
<1>2. /\ x \in KernelPages /\ x \notin K
      /\ Split4(KernelPages, n.kernel, DOMAIN m.pd, DOMAIN m.pt, K \cup {x})
  BY Zenon, <1>1 DEF Accounts, Split4
<1>3. Accounts(n, K \cup {x}, U)
  BY Zenon, <1>1, <1>2 DEF Accounts, TablePages, MappedPages
<1> QED
  BY Zenon, <1>2, <1>3 DEF n

\* A kernel page is given back.
LEMMA GiveKernel ==
  ASSUME NEW m, NEW K, NEW U, Accounts(m, K, U), NEW x \in K
  PROVE  Accounts([m EXCEPT !.kernel = @ \cup {x}], K \ {x}, U)
<1> DEFINE n == [m EXCEPT !.kernel = @ \cup {x}]
<1>1. n.pd = m.pd /\ n.pt = m.pt /\ n.user = m.user /\ n.kernel = m.kernel \cup {x}
      /\ n = [pd |-> n.pd, pt |-> n.pt, kernel |-> n.kernel, user |-> n.user]
  BY DEF Accounts
<1> HIDE DEF n
<1>2. Split4(KernelPages, n.kernel, DOMAIN m.pd, DOMAIN m.pt, K \ {x})
  BY ZenonT(30), <1>1 DEF Accounts, Split4
<1>3. Accounts(n, K \ {x}, U)
  BY Zenon, <1>1, <1>2 DEF Accounts, TablePages, MappedPages
<1> QED
  BY Zenon, <1>3 DEF n

\* A user page is taken.
LEMMA TakeUser ==
  ASSUME NEW m, NEW K, NEW U, Accounts(m, K, U), NEW x \in m.user
  PROVE  /\ x \in UserPages /\ x \notin U
         /\ Accounts([m EXCEPT !.user = @ \ {x}], K, U \cup {x})
<1> DEFINE n == [m EXCEPT !.user = @ \ {x}]
<1>1. n.pd = m.pd /\ n.pt = m.pt /\ n.user = m.user \ {x} /\ n.kernel = m.kernel
      /\ n = [pd |-> n.pd, pt |-> n.pt, kernel |-> n.kernel, user |-> n.user]
  BY DEF Accounts
<1> HIDE DEF n
<1>2. /\ x \in UserPages /\ x \notin U
      /\ Split3(UserPages, n.user, MappedPages(m), U \cup {x})
  BY Zenon, <1>1 DEF Accounts, Split3
<1>3. Accounts(n, K, U \cup {x})
  BY Zenon, <1>1, <1>2 DEF Accounts, TablePages, MappedPages
<1> QED
  BY Zenon, <1>2, <1>3 DEF n

\* A user page is given back.
LEMMA GiveUser ==
  ASSUME NEW m, NEW K, NEW U, Accounts(m, K, U), NEW x \in U
  PROVE  Accounts([m EXCEPT !.user = @ \cup {x}], K, U \ {x})
<1> DEFINE n == [m EXCEPT !.user = @ \cup {x}]
<1>1. n.pd = m.pd /\ n.pt = m.pt /\ n.user = m.user \cup {x} /\ n.kernel = m.kernel
      /\ n = [pd |-> n.pd, pt |-> n.pt, kernel |-> n.kernel, user |-> n.user]
  BY DEF Accounts
<1> HIDE DEF n
<1>2. Split3(UserPages, n.user, MappedPages(m), U \ {x})
  BY Zenon, <1>1 DEF Accounts, Split3
<1>3. Accounts(n, K, U \ {x})
  BY Zenon, <1>1, <1>2 DEF Accounts, TablePages, MappedPages
<1> QED
  BY Zenon, <1>3 DEF n

\* pagedir_create.
LEMMA Creates ==
  ASSUME NEW m, NEW K, NEW U, Accounts(m, K, U), KernelPage(m) \in m.kernel
  PROVE  /\ Accounts(pagedir_create(m), K, U)
         /\ DOMAIN pagedir_create(m).pd = DOMAIN m.pd \cup {KernelPage(m)}
         /\ KernelPage(m) \in KernelPages /\ KernelPage(m) \notin DOMAIN m.pd
<1> DEFINE x == KernelPage(m)
           n == pagedir_create(m)
<1>1. n = [m EXCEPT !.kernel = m.kernel \ {x}, !.pd = With(m.pd, x, init_page_dir)]
  BY Zenon DEF pagedir_create
<1>2. x \in KernelPages /\ x \notin DOMAIN m.pd
  BY Zenon DEF Accounts, Split4
<1>3. init_page_dir \in [PdeNos -> {ZeroEntry}]
  BY Zenon DEF init_page_dir, PdeNos
<1> HIDE DEF x, n
<1>4. n.pd = With(m.pd, x, init_page_dir) /\ n.pt = m.pt /\ n.user = m.user /\ n.kernel = m.kernel \ {x}
      /\ n = [pd |-> n.pd, pt |-> n.pt, kernel |-> n.kernel, user |-> n.user]
  BY Zenon, <1>1 DEF Accounts
<1>5. /\ Array(n.pd, PdeNos, KernelPages) /\ DOMAIN n.pd = DOMAIN m.pd \cup {x}
      /\ TablePages(n) = TablePages(m)
  <2>1. Array(m.pd, PdeNos, KernelPages)
    BY Zenon DEF Accounts
  <2> DEFINE f == m.pd
             g == n.pd
  <2>2. Array(f, PdeNos, KernelPages) /\ x \notin DOMAIN f /\ g = With(f, x, init_page_dir)
    BY Zenon, <1>2, <1>4, <2>1
  <2> HIDE DEF f, g
  <2>3. /\ Array(g, PdeNos, KernelPages) /\ DOMAIN g = DOMAIN f \cup {x}
        /\ From(g, DOMAIN g, PdeNos, KernelPages) = From(f, DOMAIN f, PdeNos, KernelPages)
    <3>1. AddsRow(f, g, PdeNos, KernelPages, x, init_page_dir)
      BY Zenon, <1>3, <2>2 DEF AddsRow
    <3>2. HasRow(f, g, PdeNos, KernelPages, x)
      BY Zenon, <3>1, RowAdded
    <3> QED
      BY Zenon, <3>2 DEF HasRow
  <2> QED
    BY Zenon, <2>3 DEF TablePages, f, g
<1>6. Split4(KernelPages, n.kernel, DOMAIN n.pd, DOMAIN m.pt, K)
  <2>1. x \in m.kernel /\ Split4(KernelPages, m.kernel, DOMAIN m.pd, DOMAIN m.pt, K)
    BY Zenon DEF Accounts, x
  <2> QED
    BY SMT, <1>4, <1>5, <2>1 DEF Split4
<1>7. Accounts(n, K, U)
  BY Zenon, <1>4, <1>5, <1>6 DEF Accounts, MappedPages
<1> QED
  BY Zenon, <1>2, <1>5, <1>7 DEF n, x

\* lookup_page with CREATE: the new table is the directory's, and is empty.
LEMMA CreatesTable ==
  ASSUME NEW m, NEW K, NEW U, Accounts(m, K, U), KernelPage(m) \in m.kernel, NULL \notin KernelPages,
         NEW pd \in DOMAIN m.pd, NEW va, pd_no(va) \in PdeNos, ~HasTable(m, pd, va),
         NEW n, n = CreateTable(m, pd, va)
  PROVE  Accounts(n, K, U) /\ DOMAIN n.pd = DOMAIN m.pd /\ HasTable(n, pd, va)
         /\ \A i \in PteNos : n.pt[pde_get_pt(n.pd[pd][pd_no(va)])][i] = ZeroEntry
<1> DEFINE x == KernelPage(m)
           j == pd_no(va)
           f == m.pd
           g == n.pd
           f2 == m.pt
           g2 == n.pt
           e == pde_create(x)
<1>1. n = [m EXCEPT !.kernel = m.kernel \ {x}, !.pt = With(m.pt, x, ZeroTable), !.pd[pd][j] = e]
  BY Zenon DEF CreateTable
<1>2. x \in KernelPages /\ x \notin DOMAIN m.pd /\ x \notin DOMAIN m.pt
  BY Zenon DEF Accounts, Split4
<1>3. ZeroTable \in [PteNos -> {ZeroEntry}]
  BY Zenon DEF ZeroTable, PteNos
<1>4. e \in EntriesOf(KernelPages) /\ e # ZeroEntry /\ e.page = x
  BY Zenon, <1>2 DEF EntriesOf, ZeroEntry, pde_create
<1>5. pd \in DOMAIN f /\ j \in PdeNos /\ f[pd][j] = ZeroEntry
  BY Zenon DEF HasTable
<1> HIDE DEF x, j, e
<1>6. /\ n.pd = [m.pd EXCEPT ![pd][j] = e] /\ n.pt = With(m.pt, x, ZeroTable)
      /\ n.user = m.user /\ n.kernel = m.kernel \ {x}
      /\ n = [pd |-> n.pd, pt |-> n.pt, kernel |-> n.kernel, user |-> n.user]
  BY ZenonT(30), <1>1 DEF Accounts
<1>7. /\ Array(f, PdeNos, KernelPages) /\ e.page \notin From(f, DOMAIN f, PdeNos, KernelPages)
      /\ g = [f EXCEPT ![pd][j] = e]
      /\ Array(f2, PteNos, UserPages) /\ x \notin DOMAIN f2 /\ g2 = With(f2, x, ZeroTable)
  BY Zenon, <1>2, <1>4, <1>6 DEF Accounts, TablePages
<1> HIDE DEF f, g, f2, g2
<1>8. /\ Array(g, PdeNos, KernelPages) /\ DOMAIN g = DOMAIN f
      /\ From(g, DOMAIN g, PdeNos, KernelPages) = From(f, DOMAIN f, PdeNos, KernelPages) \cup {x}
  <2>1. SetsEntry(f, g, PdeNos, KernelPages, pd, j, e)
    BY Zenon, <1>4, <1>5, <1>7 DEF SetsEntry
  <2>2. PointsTo(f, g, PdeNos, KernelPages, e.page)
    BY Zenon, <2>1, EntrySet
  <2> QED
    BY Zenon, <1>4, <2>2 DEF PointsTo
<1>9. /\ Array(g2, PteNos, UserPages) /\ DOMAIN g2 = DOMAIN f2 \cup {x}
      /\ \A i \in PteNos : g2[x][i] = ZeroEntry
      /\ From(g2, DOMAIN g2, PteNos, UserPages) = From(f2, DOMAIN f2, PteNos, UserPages)
  <2>1. AddsRow(f2, g2, PteNos, UserPages, x, ZeroTable)
    BY Zenon, <1>3, <1>7 DEF AddsRow
  <2>2. HasRow(f2, g2, PteNos, UserPages, x)
    BY Zenon, <2>1, RowAdded
  <2> QED
    BY Zenon, <2>2 DEF HasRow
<1>10. g[pd][j] = e
  BY Zenon, <1>5, <1>7 DEF Array
<1> USE DEF f, g, f2, g2
<1>11. /\ DOMAIN n.pt = TablePages(n) /\ MappedPages(n) = MappedPages(m)
       /\ DOMAIN n.pt = DOMAIN m.pt \cup {x} /\ DOMAIN n.pd = DOMAIN m.pd
  BY Zenon, <1>8, <1>9 DEF TablePages, MappedPages, Accounts
<1>12. Split4(KernelPages, n.kernel, DOMAIN n.pd, DOMAIN n.pt, K)
  <2>1. x \in m.kernel /\ Split4(KernelPages, m.kernel, DOMAIN m.pd, DOMAIN m.pt, K)
    BY Zenon DEF Accounts, x
  <2> QED
    BY SMT, <1>6, <1>11, <2>1 DEF Split4
<1>13. Accounts(n, K, U)
  BY Zenon, <1>6, <1>8, <1>9, <1>11, <1>12 DEF Accounts
<1>14. HasTable(n, pd, va) /\ pde_get_pt(n.pd[pd][pd_no(va)]) = x
  BY Zenon, <1>4, <1>10 DEF HasTable, pde_get_pt, j
<1> QED
  BY Zenon, <1>9, <1>11, <1>13, <1>14

\* A page that was not mapped gets an entry of its own.
SameDirs(m, n) == DOMAIN n.pd = DOMAIN m.pd
Unmapped(m, pd, va) ==
  /\ pd \in DOMAIN m.pd /\ pd_no(va) \in PdeNos /\ pt_no(va) \in PteNos /\ HasTable(m, pd, va)
  /\ m.pt[pde_get_pt(m.pd[pd][pd_no(va)])][pt_no(va)] = ZeroEntry

\* SetEntry maps a page that was in use otherwise.
LEMMA MapsPage ==
  ASSUME NULL \notin UserPages, NEW m, NEW K, NEW U, Accounts(m, K, U), NEW x \in U,
         NEW pd, NEW va, Unmapped(m, pd, va), NEW w \in BOOLEAN,
         NEW n, n = SetEntry(m, pd, va, pte_create_user(x, w))
  PROVE  Accounts(n, K, U \ {x}) /\ SameDirs(m, n)
<1> USE DEF Unmapped, SameDirs
<1> DEFINE t == pde_get_pt(m.pd[pd][pd_no(va)])
           j == pt_no(va)
           f == m.pt
           g == n.pt
           e == pte_create_user(x, w)
<1>1. n = [m EXCEPT !.pt[t][j] = e]
  BY Zenon DEF SetEntry
<1>2. x \in UserPages /\ x \notin MappedPages(m)
  BY Zenon DEF Accounts, Split3
<1>3. e \in EntriesOf(UserPages) /\ e # ZeroEntry /\ e.page = x
  BY Zenon, <1>2 DEF EntriesOf, ZeroEntry, pte_create_user
<1>4. t \in DOMAIN f /\ j \in PteNos /\ f[t][j] = ZeroEntry
  <2>1. m.pd[pd][pd_no(va)] \in EntriesOf(KernelPages) /\ m.pd[pd][pd_no(va)] # ZeroEntry
    BY Zenon DEF Accounts, Array, HasTable
  <2>2. t \in KernelPages
    BY Zenon, <2>1, Presents DEF pde_get_pt
  <2>3. t \in TablePages(m)
    BY Zenon, <2>1, <2>2 DEF TablePages, From, pde_get_pt
  <2> QED
    BY Zenon, <2>3 DEF Accounts
<1> HIDE DEF t, j, e
<1>5. /\ n.pt = [m.pt EXCEPT ![t][j] = e] /\ n.pd = m.pd
      /\ n.user = m.user /\ n.kernel = m.kernel
      /\ n = [pd |-> n.pd, pt |-> n.pt, kernel |-> n.kernel, user |-> n.user]
  BY ZenonT(30), <1>1 DEF Accounts
<1>6. /\ Array(f, PteNos, UserPages) /\ e.page \notin From(f, DOMAIN f, PteNos, UserPages)
      /\ g = [f EXCEPT ![t][j] = e]
  BY Zenon, <1>2, <1>3, <1>5 DEF Accounts, MappedPages
<1> HIDE DEF f, g
<1>7. /\ Array(g, PteNos, UserPages) /\ DOMAIN g = DOMAIN f
      /\ From(g, DOMAIN g, PteNos, UserPages) = From(f, DOMAIN f, PteNos, UserPages) \cup {x}
  <2>1. SetsEntry(f, g, PteNos, UserPages, t, j, e)
    BY Zenon, <1>3, <1>4, <1>6 DEF SetsEntry
  <2>2. PointsTo(f, g, PteNos, UserPages, e.page)
    BY Zenon, <2>1, EntrySet
  <2> QED
    BY Zenon, <1>3, <2>2 DEF PointsTo
<1> USE DEF f, g
<1>8. MappedPages(n) = MappedPages(m) \cup {x} /\ DOMAIN n.pt = DOMAIN m.pt
  BY Zenon, <1>7 DEF MappedPages
<1>9. Split3(UserPages, n.user, MappedPages(n), U \ {x})
  <2>1. Split3(UserPages, m.user, MappedPages(m), U)
    BY Zenon DEF Accounts
  <2> QED
    BY SMT, <1>5, <1>8, <2>1 DEF Split3
<1>10. Accounts(n, K, U \ {x})
  BY Zenon, <1>5, <1>7, <1>8, <1>9 DEF Accounts, TablePages
<1> QED
  BY Zenon, <1>5, <1>10

\* install_page.
LEMMA Installs ==
  ASSUME NEW m, NEW K, NEW U, Accounts(m, K, U), NULL \notin KernelPages, NULL \notin UserPages,
         m.kernel # {} => KernelPage(m) \in m.kernel,
         NEW pd \in DOMAIN m.pd, NEW va, pd_no(va) \in PdeNos, pt_no(va) \in PteNos,
         pagedir_get_page(m, pd, va) = NULL, CanSetPage(m, pd, va),
         NEW x \in U, NEW w \in BOOLEAN, NEW n, n = pagedir_set_page(m, pd, va, x, w)
  PROVE  Accounts(n, K, U \ {x}) /\ SameDirs(m, n)
<1> DEFINE c == IF HasTable(m, pd, va) THEN m ELSE CreateTable(m, pd, va)
<1>1. n = SetEntry(c, pd, va, pte_create_user(x, w))
  BY Zenon DEF pagedir_set_page
<1>2. /\ Accounts(c, K, U) /\ DOMAIN c.pd = DOMAIN m.pd /\ HasTable(c, pd, va)
      /\ c.pt[pde_get_pt(c.pd[pd][pd_no(va)])][pt_no(va)] = ZeroEntry
  <2>1. CASE HasTable(m, pd, va)
    <3> DEFINE t == pde_get_pt(m.pd[pd][pd_no(va)])
               e == m.pt[t][pt_no(va)]
    <3>1. c = m
      BY Zenon, <2>1
    <3>2. e = ZeroEntry
      <4>1. m.pd[pd][pd_no(va)] \in EntriesOf(KernelPages) /\ m.pd[pd][pd_no(va)] # ZeroEntry
        BY SMT, <2>1 DEF Accounts, Array, HasTable
      <4>2. t \in KernelPages
        BY Zenon, <4>1, Presents DEF pde_get_pt
      <4>3. t \in TablePages(m)
        BY Zenon, <4>1, <4>2 DEF TablePages, From, pde_get_pt
      <4>4. t \in DOMAIN m.pt
        BY Zenon, <4>3 DEF Accounts
      <4> HIDE DEF t
      <4>5. e \in EntriesOf(UserPages)
        BY Zenon, <4>4 DEF Accounts, Array
      <4>6. present(e) => pte_get_page(e) = NULL
        BY ZenonT(30), <2>1 DEF pagedir_get_page, lookup_page, t
      <4> QED
        BY Zenon, <4>5, <4>6, Presents DEF pte_get_page
    <3> QED
      BY Zenon, <2>1, <3>1, <3>2
  <2>2. CASE ~HasTable(m, pd, va)
    <3>1. KernelPage(m) \in m.kernel
      BY Zenon, <2>2 DEF CanSetPage, HasKernelPage
    <3>2. c = CreateTable(m, pd, va)
      BY Zenon, <2>2
    <3> HIDE DEF c
    <3> QED
      BY SMTT(30), <2>2, <3>1, <3>2, CreatesTable
  <2> QED
    BY Zenon, <2>1, <2>2
<1> HIDE DEF c
<1>3. Unmapped(c, pd, va)
  BY Zenon, <1>2 DEF Unmapped
<1>4. Accounts(c, K, U) /\ SameDirs(m, c)
  BY Zenon, <1>2 DEF SameDirs
<1>5. Accounts(n, K, U \ {x}) /\ SameDirs(c, n)
  BY Zenon, <1>1, <1>3, <1>4, MapsPage
<1> QED
  BY Zenon, <1>4, <1>5 DEF SameDirs

\* The tables of a directory and the pages they map.
LEMMA TablesAre ==
  ASSUME NEW m, NEW K, NEW U, Accounts(m, K, U), NEW pd \in DOMAIN m.pd
  PROVE  TablesOf(m, pd) = From(m.pd, {pd}, PdeNos, KernelPages) /\ TablesOf(m, pd) \subseteq DOMAIN m.pt
<1>1. DOMAIN m.pd[pd] = PdeNos /\ \A i \in PdeNos : m.pd[pd][i] \in EntriesOf(KernelPages)
  BY Zenon DEF Accounts, Array
<1>2. \A i \in PdeNos : present(m.pd[pd][i]) <=> m.pd[pd][i] # ZeroEntry
  BY Zenon, <1>1, Presents
<1>3. \A i \in PdeNos : m.pd[pd][i] # ZeroEntry => m.pd[pd][i].page \in KernelPages
  BY Zenon, <1>1, Presents
<1>4. ASSUME NEW x
      PROVE  x \in TablesOf(m, pd) <=> \E i \in PdeNos : m.pd[pd][i] # ZeroEntry /\ m.pd[pd][i].page = x
  BY Zenon, <1>1, <1>2 DEF TablesOf, pde_get_pt
<1>5. ASSUME NEW x
      PROVE  x \in From(m.pd, {pd}, PdeNos, KernelPages)
             <=> \E i \in PdeNos : m.pd[pd][i] # ZeroEntry /\ m.pd[pd][i].page = x
  BY Zenon, <1>3 DEF From
<1>6. TablesOf(m, pd) = From(m.pd, {pd}, PdeNos, KernelPages)
  BY Zenon, <1>4, <1>5
<1>7. From(m.pd, {pd}, PdeNos, KernelPages) \subseteq TablePages(m)
  BY Zenon DEF From, TablePages
<1> QED
  BY Zenon, <1>6, <1>7 DEF Accounts

\* The pages that pagedir_destroy frees.
LEMMA PagesAre ==
  ASSUME NEW m, NEW K, NEW U, Accounts(m, K, U), NEW pd \in DOMAIN m.pd
  PROVE  PagesOf(m, pd) = From(m.pt, TablesOf(m, pd), PteNos, UserPages)
         /\ PagesOf(m, pd) \subseteq MappedPages(m)
<1> DEFINE T == TablesOf(m, pd)
<1>1. T \subseteq DOMAIN m.pt
  BY Zenon, TablesAre
<1> HIDE DEF T
<1>2. \A t \in T : DOMAIN m.pt[t] = PteNos /\ \A i \in PteNos : m.pt[t][i] \in EntriesOf(UserPages)
  BY Zenon, <1>1 DEF Accounts, Array
<1>3. \A t \in T, i \in PteNos : present(m.pt[t][i]) <=> m.pt[t][i] # ZeroEntry
  BY Zenon, <1>2, Presents
<1>4. \A t \in T, i \in PteNos : m.pt[t][i] # ZeroEntry => m.pt[t][i].page \in UserPages
  BY Zenon, <1>2, Presents
<1>5. ASSUME NEW x
      PROVE  x \in PagesOf(m, pd) <=> \E t \in T, i \in PteNos : m.pt[t][i] # ZeroEntry /\ m.pt[t][i].page = x
  <2>1. x \in PagesOf(m, pd) <=>
          \E t \in T : x \in {pte_get_page(m.pt[t][i]) : i \in {j \in DOMAIN m.pt[t] : present(m.pt[t][j])}}
    BY Zenon DEF PagesOf, T
  <2>2. ASSUME NEW t \in T
        PROVE  x \in {pte_get_page(m.pt[t][i]) : i \in {j \in DOMAIN m.pt[t] : present(m.pt[t][j])}}
               <=> \E i \in PteNos : m.pt[t][i] # ZeroEntry /\ m.pt[t][i].page = x
    BY Zenon, <1>2, <1>3 DEF pte_get_page
  <2> QED
    BY Zenon, <2>1, <2>2
<1>6. ASSUME NEW x
      PROVE  x \in From(m.pt, T, PteNos, UserPages)
             <=> \E t \in T, i \in PteNos : m.pt[t][i] # ZeroEntry /\ m.pt[t][i].page = x
  BY Zenon, <1>4 DEF From
<1>7. PagesOf(m, pd) = From(m.pt, T, PteNos, UserPages)
  BY Zenon, <1>5, <1>6
<1>8. From(m.pt, T, PteNos, UserPages) \subseteq MappedPages(m)
  BY Zenon, <1>1 DEF From, MappedPages
<1> QED
  BY Zenon, <1>7, <1>8 DEF T

\* A directory and its tables go back to the pool.
LEMMA Frees ==
  ASSUME NEW pool, NEW k, NEW D, NEW T, NEW K, Split4(pool, k, D, T, K), NEW S \in SUBSET T,
         NEW x \in D
  PROVE  Split4(pool, (k \cup S) \cup {x}, D \ {x}, T \ S, K)
BY Zenon DEF Split4

\* pagedir_destroy.
LEMMA Destroys ==
  ASSUME NEW m, NEW K, NEW U, Accounts(m, K, U), NEW pd \in DOMAIN m.pd,
         NEW n, n = pagedir_destroy(m, pd)
  PROVE  Accounts(n, K, U) /\ DOMAIN n.pd = DOMAIN m.pd \ {pd}
<1> DEFINE T == TablesOf(m, pd)
           P == PagesOf(m, pd)
           f == m.pd
           g == n.pd
           f2 == m.pt
           g2 == n.pt
<1>1. /\ n.pd = [p \in DOMAIN m.pd \ {pd} |-> m.pd[p]] /\ n.pt = [t \in DOMAIN m.pt \ T |-> m.pt[t]]
      /\ n.kernel = (m.kernel \cup T) \cup {pd} /\ n.user = m.user \cup P
      /\ n = [pd |-> n.pd, pt |-> n.pt, kernel |-> n.kernel, user |-> n.user]
  BY Zenon DEF pagedir_destroy
<1>2. T = From(f, {pd}, PdeNos, KernelPages) /\ T \subseteq DOMAIN f2
  BY Zenon, TablesAre
<1>3. P = From(f2, T, PteNos, UserPages)
  BY Zenon, PagesAre
<1>4. /\ Array(f, PdeNos, KernelPages) /\ {pd} \in SUBSET DOMAIN f /\ g = [p \in DOMAIN f \ {pd} |-> f[p]]
      /\ Array(f2, PteNos, UserPages) /\ T \in SUBSET DOMAIN f2 /\ g2 = [t \in DOMAIN f2 \ T |-> f2[t]]
  BY Zenon, <1>1, <1>2 DEF Accounts
<1> HIDE DEF T, P, f, g, f2, g2
<1>5. LacksRows(f, g, PdeNos, KernelPages, {pd})
  BY Zenon, <1>4, RowsGone
<1>6. LacksRows(f2, g2, PteNos, UserPages, T)
  BY Zenon, <1>4, RowsGone
<1>7. /\ Array(g, PdeNos, KernelPages) /\ Array(g2, PteNos, UserPages)
      /\ DOMAIN g = DOMAIN f \ {pd} /\ DOMAIN g2 = DOMAIN f2 \ T
      /\ From(g, DOMAIN g, PdeNos, KernelPages) = From(f, DOMAIN f, PdeNos, KernelPages) \ T
      /\ From(g2, DOMAIN g2, PteNos, UserPages) = From(f2, DOMAIN f2, PteNos, UserPages) \ P
      /\ P \subseteq From(f2, DOMAIN f2, PteNos, UserPages)
  BY Zenon, <1>2, <1>3, <1>5, <1>6 DEF LacksRows
<1> USE DEF f, g, f2, g2
<1>8. /\ DOMAIN n.pt = TablePages(n) /\ MappedPages(n) = MappedPages(m) \ P /\ P \subseteq MappedPages(m)
  BY Zenon, <1>7 DEF TablePages, MappedPages, Accounts
<1>9. Split4(KernelPages, n.kernel, DOMAIN n.pd, DOMAIN n.pt, K)
  <2>1. Split4(KernelPages, m.kernel, DOMAIN m.pd, DOMAIN m.pt, K)
    BY Zenon DEF Accounts
  <2>2. /\ DOMAIN n.pd = DOMAIN m.pd \ {pd} /\ DOMAIN n.pt = DOMAIN m.pt \ T
        /\ n.kernel = (m.kernel \cup T) \cup {pd} /\ T \subseteq DOMAIN m.pt
    BY Zenon, <1>1, <1>2, <1>7
  <2>3. Split4(KernelPages, (m.kernel \cup T) \cup {pd}, DOMAIN m.pd \ {pd}, DOMAIN m.pt \ T, K)
    BY Zenon, <2>1, <2>2, Frees
  <2> QED
    BY Zenon, <2>2, <2>3
<1>10. Split3(UserPages, n.user, MappedPages(n), U)
  <2>1. Split3(UserPages, m.user, MappedPages(m), U)
    BY Zenon DEF Accounts
  <2> QED
    BY Zenon, <1>1, <1>8, <2>1 DEF Split3
<1>11. Accounts(n, K, U)
  BY Zenon, <1>1, <1>7, <1>8, <1>9, <1>10 DEF Accounts
<1> QED
  BY Zenon, <1>7, <1>11

-----------------------------------------------------------------------------
(* Segments                                                                  *)

Sizes ==
  /\ PGSIZE \in Nat \ {0} /\ AddressSpace \in Nat /\ PHYS_BASE \in Nat
  /\ PHYS_BASE % PGSIZE = 0 /\ PHYS_BASE <= AddressSpace

\* Division with a remainder.
LEMMA Divides ==
  ASSUME NEW a \in Nat, NEW p \in Nat \ {0}
  PROVE  /\ a \div p \in Nat /\ a % p \in Nat /\ a % p < p
         /\ a = p * (a \div p) + (a % p)
<1> DEFINE d == p * (a \div p)
           r == a % p
<1>1. r = a - d /\ d \in Int
  OBVIOUS
<1>2. a \div p \in Nat /\ r \in Nat /\ r < p
  OBVIOUS
<1>3. a = d + r
  <2> HIDE DEF d, r
  <2> QED
    BY <1>1
<1> QED
  BY Zenon, <1>2, <1>3

\* ROUND_UP: the least multiple that is not smaller.
LEMMA RoundsUp ==
  ASSUME NEW a \in Nat, NEW p \in Nat \ {0}
  PROVE  \E k \in Nat : ROUND_UP(a, p) = k * p /\ a <= k * p /\ k * p < a + p
<1> DEFINE k == (a + p - 1) \div p
           r == (a + p - 1) % p
<1>1. a + p - 1 \in Nat
  OBVIOUS
<1>2. k \in Nat /\ r \in Nat /\ r < p /\ a + p - 1 = p * k + r
  BY Zenon, <1>1, Divides
<1>5. ROUND_UP(a, p) = k * p
  BY Zenon DEF ROUND_UP
<1> HIDE DEF k, r
<1>3. k * p = p * k /\ k * p \in Nat
  BY <1>2
<1>4. a <= k * p /\ k * p < a + p
  <2> DEFINE m == k * p
  <2>1. m \in Nat /\ a + p - 1 = m + r
    BY Zenon, <1>2, <1>3
  <2> HIDE DEF m
  <2>2. a <= m /\ m < a + p
    BY <1>2, <2>1
  <2> QED
    BY Zenon, <2>2 DEF m
<1> QED
  BY Zenon, <1>2, <1>4, <1>5

\* Of two multiples the smaller is smaller by a whole step.
LEMMA Less ==
  ASSUME NEW j \in Nat, NEW k \in Nat, NEW p \in Nat \ {0}, j * p < k * p
  PROVE  j + 1 <= k /\ j * p + p <= k * p
<1>1. k <= j => k * p <= j * p
  OBVIOUS
<1>2. j + 1 <= k
  BY <1>1
<1>3. (j + 1) * p <= k * p
  BY <1>2
<1> QED
  BY <1>2, <1>3

\* A segment that validate_segment accepts is loaded to whole user pages that hold
\* all of it and no page more.
LEMMA SegmentFits ==
  ASSUME Sizes, NEW phdr, NEW length, validate_segment(phdr, length),
         phdr.p_offset \in Nat, phdr.p_vaddr \in 0..AddressSpace - 1,
         phdr.p_filesz \in Nat, phdr.p_memsz \in 0..AddressSpace - 1,
         NEW s, s = SegmentOf(phdr)
  PROVE  /\ s = [pos |-> s.pos, upage |-> s.upage, read_bytes |-> s.read_bytes,
                zero_bytes |-> s.zero_bytes, writable |-> s.writable]
         /\ s.pos \in Nat /\ s.upage \in Nat /\ s.read_bytes \in Nat /\ s.zero_bytes \in Nat
         /\ s.writable \in BOOLEAN
         /\ PGSIZE <= s.upage /\ s.upage <= phdr.p_vaddr
         /\ \E k \in Nat : /\ s.read_bytes + s.zero_bytes = k * PGSIZE
                           /\ phdr.p_vaddr + phdr.p_memsz <= s.upage + k * PGSIZE
                           /\ s.upage + k * PGSIZE < phdr.p_vaddr + phdr.p_memsz + PGSIZE
                           /\ s.upage + k * PGSIZE <= PHYS_BASE
<1> DEFINE v == phdr.p_vaddr
           po == v % PGSIZE
           n == phdr.p_memsz
           f == phdr.p_filesz
           read == IF f > 0 THEN po + f ELSE 0
           up == ROUND_UP(po + n, PGSIZE)
<1>1. /\ s.pos = phdr.p_offset - (phdr.p_offset % PGSIZE) /\ s.upage = v - po
      /\ s.read_bytes = read /\ s.zero_bytes = (up - read) % AddressSpace
      /\ s = [pos |-> s.pos, upage |-> s.upage, read_bytes |-> s.read_bytes,
              zero_bytes |-> s.zero_bytes, writable |-> s.writable]
      /\ s.writable \in BOOLEAN
  <2> DEFINE pos == phdr.p_offset - (phdr.p_offset % PGSIZE)
             zero == (up - read) % AddressSpace
             w == PF_W \in phdr.p_flags
             a == v - po
  <2>1. s = [pos |-> pos, upage |-> a, read_bytes |-> read, zero_bytes |-> zero, writable |-> w]
    BY Zenon DEF SegmentOf, pg_round_down, pg_ofs, Word
  <2>w. w \in BOOLEAN
    OBVIOUS
  <2> HIDE DEF pos, zero, w, a, read
  <2>2. s.pos = pos /\ s.upage = a /\ s.read_bytes = read /\ s.zero_bytes = zero /\ s.writable = w
    BY <2>1
  <2> QED
    BY Zenon, <2>1, <2>2, <2>w DEF pos, zero, a
<1>2. /\ PGSIZE \in Nat \ {0} /\ PHYS_BASE \in Nat /\ AddressSpace \in Nat \ {0} /\ PHYS_BASE <= AddressSpace
      /\ v \in Nat /\ n \in Nat /\ f \in Nat
  BY DEF Sizes
<1>3. /\ (v + n) % AddressSpace < PHYS_BASE /\ (v + n) % AddressSpace >= v
      /\ f <= n /\ PGSIZE <= v /\ n # 0
  BY Zenon DEF validate_segment, EndsInUserSpace, is_user_vaddr, Word
<1>4. v + n < PHYS_BASE
  <2>1. CASE v + n < AddressSpace
    <3>1. (v + n) % AddressSpace = v + n
      BY SMTT(30), <1>2, <2>1
    <3> QED
      BY Zenon, <1>3, <3>1
  <2>2. CASE v + n >= AddressSpace
    <3>1. v + n - AddressSpace \in 0..AddressSpace - 1
      BY <1>2, <2>2
    <3>2. (v + n) % AddressSpace = v + n - AddressSpace
      BY <1>2, <3>1
    <3>3. v + n - AddressSpace < v
      BY <1>2
    <3> QED
      BY <1>2, <1>3, <3>2, <3>3
  <2> QED
    BY <1>2, <2>1, <2>2
<1>5. PICK a \in Nat : v = a * PGSIZE + po /\ po \in Nat /\ po < PGSIZE
  <2>1. /\ v \div PGSIZE \in Nat /\ po \in Nat /\ po < PGSIZE
        /\ v = PGSIZE * (v \div PGSIZE) + po
    BY ZenonT(30), <1>2, Divides
  <2>2. PGSIZE * (v \div PGSIZE) = (v \div PGSIZE) * PGSIZE
    BY <1>2, <2>1
  <2> QED
    BY Zenon, <2>1, <2>2
<1>6. PICK b \in Nat : PHYS_BASE = b * PGSIZE
  <2>1. PHYS_BASE \div PGSIZE \in Nat /\ PHYS_BASE = PGSIZE * (PHYS_BASE \div PGSIZE) + (PHYS_BASE % PGSIZE)
    BY Zenon, <1>2, Divides
  <2> DEFINE q == PHYS_BASE \div PGSIZE
  <2> HIDE DEF q
  <2>2. q \in Nat /\ PHYS_BASE = q * PGSIZE
    BY <1>2, <2>1 DEF Sizes, q
  <2> QED
    BY Zenon, <2>2
<1>7. PICK k \in Nat : up = k * PGSIZE /\ po + n <= k * PGSIZE /\ k * PGSIZE < po + n + PGSIZE
  <2>1. po + n \in Nat
    BY <1>2, <1>5
  <2> QED
    BY ZenonT(30), <1>2, <2>1, RoundsUp
<1> DEFINE p == PGSIZE
           A == a * p
           B == b * p
           K == k * p
<1> HIDE DEF v, po, n, f, read, up, p
<1>8. A \in Nat /\ B \in Nat /\ K \in Nat /\ p \in Nat \ {0}
  BY <1>2 DEF p
<1>9. /\ v = A + po /\ po \in Nat /\ po < p /\ PHYS_BASE = B /\ up = K /\ po + n <= K
      /\ K < po + n + p
  BY Zenon, <1>5, <1>6, <1>7 DEF p
<1>10. a + k <= b
  <2>1. (a + k) * p = A + K /\ (b + 1) * p = B + p
    BY <1>8
  <2>2. A + K < B + p
    <3> HIDE DEF A, B, K
    <3> QED
      BY <1>2, <1>4, <1>8, <1>9
  <2>3. a + k \in Nat /\ b + 1 \in Nat
    OBVIOUS
  <2>4. (a + k) * p < (b + 1) * p
    BY Zenon, <2>1, <2>2
  <2>5. (a + k) + 1 <= b + 1
    BY Zenon, <1>8, <2>3, <2>4, Less
  <2> QED
    BY <2>5
<1>11. A + K <= B
  <2>1. (a + k) * p <= b * p
    BY <1>8, <1>10
  <2>2. (a + k) * p = A + K
    BY <1>8
  <2> QED
    BY Zenon, <2>1, <2>2
<1>12. p <= A
  <2>1. a # 0
    <3>1. a = 0 => A = 0
      BY <1>8
    <3> HIDE DEF A
    <3>2. p <= v
      BY Zenon, <1>3 DEF p
    <3> QED
      BY <1>8, <1>9, <3>1, <3>2
  <2> QED
    BY <1>8, <2>1
<1> HIDE DEF A, B, K
<1>13. read \in Nat /\ read <= po + n
  BY <1>2, <1>3, <1>9 DEF read
<1>14. s.zero_bytes = K - read
  <2>1. K - read \in 0..AddressSpace - 1
    BY <1>2, <1>8, <1>9, <1>11, <1>12, <1>13
  <2>2. (K - read) % AddressSpace = K - read
    BY <1>2, <2>1
  <2> QED
    BY Zenon, <1>1, <1>9, <2>2
<1>15. s.upage = A
  BY <1>1, <1>2, <1>8, <1>9
<1>16. s.pos \in Nat
  <2> DEFINE o == phdr.p_offset
             d == o % p
  <2>1. d \in Nat /\ d <= o
    BY <1>8
  <2>2. s.pos = o - d
    BY Zenon, <1>1 DEF p
  <2>3. o \in Nat
    BY Zenon
  <2> HIDE DEF o, d
  <2> QED
    BY SMTT(30), <2>1, <2>2, <2>3
<1>17. /\ s.read_bytes + s.zero_bytes = K /\ v + n <= s.upage + K /\ s.upage + K < v + n + p
       /\ s.upage + K <= PHYS_BASE /\ s.upage \in Nat /\ s.read_bytes \in Nat
       /\ s.zero_bytes \in Nat /\ p <= s.upage /\ s.upage <= v
  <2> DEFINE z == K - read
  <2>1. /\ z \in Nat /\ read + z = K /\ v + n <= A + K /\ A + K < v + n + p /\ A + K <= PHYS_BASE
        /\ A <= v
    BY <1>2, <1>8, <1>9, <1>11, <1>13
  <2>2. s.read_bytes = read
    BY Zenon, <1>1
  <2> HIDE DEF z
  <2>3. s.zero_bytes = z
    BY Zenon, <1>14 DEF z
  <2> QED
    BY Zenon, <1>8, <1>12, <1>13, <1>15, <2>1, <2>2, <2>3
<1>18. \E i \in Nat : /\ s.read_bytes + s.zero_bytes = i * PGSIZE
                      /\ phdr.p_vaddr + phdr.p_memsz <= s.upage + i * PGSIZE
                      /\ s.upage + i * PGSIZE < phdr.p_vaddr + phdr.p_memsz + PGSIZE
                      /\ s.upage + i * PGSIZE <= PHYS_BASE
  BY Zenon, <1>17 DEF K, p, v, n
<1> QED
  BY Zenon, <1>1, <1>16, <1>17, <1>18 DEF v, p

\* What is left to load of a segment.
SegmentFields == {"pos", "upage", "read_bytes", "zero_bytes", "writable"}
Fits(s) ==
  /\ DOMAIN s = SegmentFields
  /\ s.upage \in Nat /\ s.read_bytes \in Nat /\ s.zero_bytes \in Nat /\ s.writable \in BOOLEAN
  /\ \E k \in Nat : s.read_bytes + s.zero_bytes = k * PGSIZE /\ s.upage + k * PGSIZE <= PHYS_BASE

\* The assignments at the end of the loop of load_segment.
LEMMA Advanced ==
  ASSUME NEW s, DOMAIN s = SegmentFields, NEW n
  PROVE  /\ DOMAIN Advance(s, n) = SegmentFields /\ Advance(s, n).writable = s.writable
         /\ Advance(s, n).upage = s.upage + PGSIZE
         /\ Advance(s, n).read_bytes = s.read_bytes - n
         /\ Advance(s, n).zero_bytes = s.zero_bytes - (PGSIZE - n)
<1> DEFINE a == s.pos + n
           b == s.upage + PGSIZE
           c == s.read_bytes - n
           d == s.zero_bytes - (PGSIZE - n)
           t == Advance(s, n)
<1>1. t = [s EXCEPT !.pos = a, !.upage = b, !.read_bytes = c, !.zero_bytes = d]
  BY Zenon DEF Advance
<1> HIDE DEF a, b, c, d, t
<1>2. DOMAIN t = SegmentFields /\ t.upage = b /\ t.read_bytes = c /\ t.zero_bytes = d /\ t.writable = s.writable
  BY Zenon, <1>1 DEF SegmentFields
<1> QED
  BY Zenon, <1>2 DEF b, c, d, t

\* The loop of load_segment: the page it fills is a user page, and what is left
\* afterwards fits again.
LEMMA StillFits ==
  ASSUME PGSIZE \in Nat \ {0}, PHYS_BASE \in Nat, NEW s, Fits(s), s.read_bytes > 0 \/ s.zero_bytes > 0
  PROVE  s.upage \in 0..PHYS_BASE - 1 /\ Fits(Advance(s, Min2(s.read_bytes, PGSIZE)))
<1> DEFINE u == s.upage
           r == s.read_bytes
           z == s.zero_bytes
           p == PGSIZE
           n == Min2(r, p)
           t == Advance(s, n)
<1>1. PICK k \in Nat : r + z = k * p /\ u + k * p <= PHYS_BASE
  BY Zenon DEF Fits
<1>2. u \in Nat /\ r \in Nat /\ z \in Nat /\ r + z > 0 /\ p \in Nat \ {0} /\ s.writable \in BOOLEAN
  BY DEF Fits
<1>3. /\ t.upage = u + p /\ t.read_bytes = r - n /\ t.zero_bytes = z - (p - n)
      /\ t.writable = s.writable /\ DOMAIN t = SegmentFields
  BY Zenon, Advanced DEF Fits
<1> HIDE DEF u, r, z, p, t
<1>4. n \in Nat /\ (r >= p => n = p) /\ (r < p => n = r)
  BY <1>2 DEF Min2
<1>5. k # 0
  <2>1. k = 0 => k * p = 0
    BY <1>2
  <2> QED
    BY <1>1, <1>2, <2>1
<1>6. k - 1 \in Nat /\ (k - 1) * p = k * p - p /\ k * p \in Nat /\ p <= k * p
  <2>1. k - 1 \in Nat
    BY <1>5
  <2>2. (k - 1) * p = k * p - p /\ (k - 1) * p \in Nat /\ k * p \in Nat
    BY <1>2, <2>1
  <2> QED
    BY <1>2, <2>1, <2>2
<1> DEFINE K == k * p
<1> HIDE DEF K, n
<1>7. K \in Nat /\ p <= K /\ r + z = K /\ u + K <= PHYS_BASE /\ (k - 1) * p = K - p
  BY Zenon, <1>1, <1>6 DEF K
<1>8. u \in 0..PHYS_BASE - 1 /\ u + p \in Nat /\ r - n \in Nat /\ z - (p - n) \in Nat
      /\ (r - n) + (z - (p - n)) = K - p /\ (u + p) + (K - p) <= PHYS_BASE
  BY <1>2, <1>4, <1>7
<1>9. t.read_bytes + t.zero_bytes = (k - 1) * p /\ t.upage + (k - 1) * p <= PHYS_BASE
  BY Zenon, <1>3, <1>7, <1>8
<1>10. Fits(t)
  BY Zenon, <1>2, <1>3, <1>6, <1>8, <1>9 DEF Fits, p
<1> QED
  BY Zenon, <1>8, <1>10 DEF t, u, n, r, p

\* load passes load_segment a segment that fits.
LEMMA FitsFirst ==
  ASSUME Sizes, NEW phdr, NEW length, validate_segment(phdr, length),
         phdr.p_offset \in Nat, phdr.p_vaddr \in 0..AddressSpace - 1,
         phdr.p_filesz \in Nat, phdr.p_memsz \in 0..AddressSpace - 1
  PROVE  Fits(SegmentOf(phdr))
<1> DEFINE s == SegmentOf(phdr)
<1> HIDE DEF s
<1>1. /\ s = [pos |-> s.pos, upage |-> s.upage, read_bytes |-> s.read_bytes,
              zero_bytes |-> s.zero_bytes, writable |-> s.writable]
      /\ s.upage \in Nat /\ s.read_bytes \in Nat /\ s.zero_bytes \in Nat /\ s.writable \in BOOLEAN
      /\ \E k \in Nat : s.read_bytes + s.zero_bytes = k * PGSIZE /\ s.upage + k * PGSIZE <= PHYS_BASE
  <2>1. s = SegmentOf(phdr)
    BY Zenon DEF s
  <2> QED
    BY Zenon, <2>1, SegmentFits
<1>2. DOMAIN s = SegmentFields
  BY Zenon, <1>1 DEF SegmentFields
<1>3. Fits(s)
  BY Zenon, <1>1, <1>2 DEF Fits
<1> QED
  BY Zenon, <1>3 DEF s

-----------------------------------------------------------------------------
(* The books of the processes                                                *)

\* fn are the copies of command lines, kp the pages being loaded and dr the page
\* directories that the processes have.
Books(m, fn, kp, dr) ==
  /\ Accounts(m, Vals(fn, KernelPages), Vals(kp, UserPages))
  /\ Distinct(fn) /\ Distinct(kp) /\ Distinct(dr)
  /\ Vals(dr, KernelPages) = DOMAIN m.pd

Pools == NULL \notin KernelPages /\ NULL \notin UserPages

\* Loses, in terms of Changed.
LEMMA LosesPage ==
  ASSUME NEW pool, NULL \notin pool, NEW g, NEW h, Distinct(g), NEW p \in Procs,
         g[p] \in pool, Changed(g, h, p, NULL)
  PROVE  Distinct(h) /\ Vals(h, pool) = Vals(g, pool) \ {g[p]} /\ g[p] \in Vals(g, pool)
BY Zenon, Loses DEF Changed

\* Same, in terms of Still.
LEMMA StillSame ==
  ASSUME NEW pool, NEW g, NEW h, Distinct(g), Still(g, h)
  PROVE  Distinct(h) /\ Vals(h, pool) = Vals(g, pool)
BY Zenon, Same DEF Still

\* Nothing is taken or given back.
LEMMA BooksSame ==
  ASSUME NEW m, NEW fn, NEW kp, NEW dr, Books(m, fn, kp, dr),
         NEW fn2, NEW kp2, NEW dr2, Still(fn, fn2), Still(kp, kp2), Still(dr, dr2)
  PROVE  Books(m, fn2, kp2, dr2)
<1>1. Distinct(fn2) /\ Vals(fn2, KernelPages) = Vals(fn, KernelPages)
  BY Zenon, StillSame DEF Books
<1>2. Distinct(kp2) /\ Vals(kp2, UserPages) = Vals(kp, UserPages)
  BY Zenon, StillSame DEF Books
<1>3. Distinct(dr2) /\ Vals(dr2, KernelPages) = Vals(dr, KernelPages)
  BY Zenon, StillSame DEF Books
<1> QED
  BY Zenon, <1>1, <1>2, <1>3 DEF Books

\* process_execute takes a page for the copy of the command line.
LEMMA BooksExecute ==
  ASSUME Pools, NEW m, NEW fn, NEW kp, NEW dr, Books(m, fn, kp, dr), NEW p \in Procs, fn[p] = NULL,
         NEW x \in m.kernel, NEW fn2, NEW kp2, NEW dr2, Changed(fn, fn2, p, x), Still(kp, kp2), Still(dr, dr2)
  PROVE  Books([m EXCEPT !.kernel = @ \ {x}], fn2, kp2, dr2) /\ x \in KernelPages
<1> DEFINE K == Vals(fn, KernelPages)
           U == Vals(kp, UserPages)
           n == [m EXCEPT !.kernel = @ \ {x}]
<1>1. Accounts(m, K, U)
  BY Zenon DEF Books
<1>2. x \in KernelPages /\ x \notin K /\ Accounts(n, K \cup {x}, U)
  <2> HIDE DEF K, U
  <2> QED
    BY Zenon, <1>1, TakeKernel
<1>a. Distinct(fn) /\ NULL \notin KernelPages /\ x \notin Vals(fn, KernelPages)
  BY Zenon, <1>2 DEF Books, Pools
<1>b. Distinct(fn2) /\ Adds(fn, fn2, KernelPages, x)
  BY Zenon, <1>2, <1>a, Gains
<1>3. Distinct(fn2) /\ Vals(fn2, KernelPages) = K \cup {x}
  BY Zenon, <1>b DEF Adds
<1>4. Distinct(kp2) /\ Vals(kp2, UserPages) = U
  BY Zenon, StillSame DEF Books
<1>5. Distinct(dr2) /\ Vals(dr2, KernelPages) = Vals(dr, KernelPages)
  BY Zenon, StillSame DEF Books
<1>6. n.pd = m.pd
  BY Zenon DEF Books, Accounts
<1> HIDE DEF n
<1>7. Books(n, fn2, kp2, dr2)
  BY Zenon, <1>2, <1>3, <1>4, <1>5, <1>6 DEF Books
<1> QED
  BY Zenon, <1>2, <1>7 DEF n

\* start_process gives it back.
LEMMA BooksStart ==
  ASSUME Pools, NEW m, NEW fn, NEW kp, NEW dr, Books(m, fn, kp, dr), NEW p \in Procs, fn[p] \in KernelPages,
         NEW fn2, NEW kp2, NEW dr2, Changed(fn, fn2, p, NULL), Still(kp, kp2), Still(dr, dr2)
  PROVE  Books([m EXCEPT !.kernel = @ \cup {fn[p]}], fn2, kp2, dr2)
<1> DEFINE K == Vals(fn, KernelPages)
           U == Vals(kp, UserPages)
           x == fn[p]
           n == [m EXCEPT !.kernel = @ \cup {x}]
<1>1. Accounts(m, K, U)
  BY Zenon DEF Books
<1>2. Distinct(fn2) /\ Vals(fn2, KernelPages) = K \ {x} /\ x \in K
  BY Zenon, LosesPage DEF Books, Pools
<1>3. Accounts(n, K \ {x}, U)
  <2> HIDE DEF K, U, x
  <2> QED
    BY Zenon, <1>1, <1>2, GiveKernel
<1>4. Distinct(kp2) /\ Vals(kp2, UserPages) = U
  BY Zenon, StillSame DEF Books
<1>5. Distinct(dr2) /\ Vals(dr2, KernelPages) = Vals(dr, KernelPages)
  BY Zenon, StillSame DEF Books
<1>6. n.pd = m.pd
  BY Zenon DEF Books, Accounts
<1> HIDE DEF n
<1>7. Books(n, fn2, kp2, dr2)
  BY Zenon, <1>2, <1>3, <1>4, <1>5, <1>6 DEF Books
<1> QED
  BY Zenon, <1>7 DEF n

\* palloc_get_page (PAL_USER).
LEMMA BooksGet ==
  ASSUME Pools, NEW m, NEW fn, NEW kp, NEW dr, Books(m, fn, kp, dr), NEW p \in Procs, kp[p] = NULL,
         NEW x \in m.user, NEW fn2, NEW kp2, NEW dr2, Still(fn, fn2), Changed(kp, kp2, p, x), Still(dr, dr2)
  PROVE  Books([m EXCEPT !.user = @ \ {x}], fn2, kp2, dr2) /\ x \in UserPages
<1> DEFINE K == Vals(fn, KernelPages)
           U == Vals(kp, UserPages)
           n == [m EXCEPT !.user = @ \ {x}]
<1>1. Accounts(m, K, U)
  BY Zenon DEF Books
<1>2. x \in UserPages /\ x \notin U /\ Accounts(n, K, U \cup {x})
  <2> HIDE DEF K, U
  <2> QED
    BY Zenon, <1>1, TakeUser
<1>a. Distinct(kp) /\ NULL \notin UserPages /\ x \notin Vals(kp, UserPages)
  BY Zenon, <1>2 DEF Books, Pools
<1>b. Distinct(kp2) /\ Adds(kp, kp2, UserPages, x)
  BY Zenon, <1>2, <1>a, Gains
<1>3. Distinct(kp2) /\ Vals(kp2, UserPages) = U \cup {x}
  BY Zenon, <1>b DEF Adds
<1>4. Distinct(fn2) /\ Vals(fn2, KernelPages) = K
  BY Zenon, StillSame DEF Books
<1>5. Distinct(dr2) /\ Vals(dr2, KernelPages) = Vals(dr, KernelPages)
  BY Zenon, StillSame DEF Books
<1>6. n.pd = m.pd
  BY Zenon DEF Books, Accounts
<1> HIDE DEF n
<1>7. Books(n, fn2, kp2, dr2)
  BY Zenon, <1>2, <1>3, <1>4, <1>5, <1>6 DEF Books
<1> QED
  BY Zenon, <1>2, <1>7 DEF n

\* palloc_free_page of a page that could not be filled or installed.
LEMMA BooksFree ==
  ASSUME Pools, NEW m, NEW fn, NEW kp, NEW dr, Books(m, fn, kp, dr), NEW p \in Procs, kp[p] \in UserPages,
         NEW fn2, NEW kp2, NEW dr2, Still(fn, fn2), Changed(kp, kp2, p, NULL), Still(dr, dr2)
  PROVE  Books([m EXCEPT !.user = @ \cup {kp[p]}], fn2, kp2, dr2)
<1> DEFINE K == Vals(fn, KernelPages)
           U == Vals(kp, UserPages)
           x == kp[p]
           n == [m EXCEPT !.user = @ \cup {x}]
<1>1. Accounts(m, K, U)
  BY Zenon DEF Books
<1>2. Distinct(kp2) /\ Vals(kp2, UserPages) = U \ {x} /\ x \in U
  BY Zenon, LosesPage DEF Books, Pools
<1>3. Accounts(n, K, U \ {x})
  <2> HIDE DEF K, U, x
  <2> QED
    BY Zenon, <1>1, <1>2, GiveUser
<1>4. Distinct(fn2) /\ Vals(fn2, KernelPages) = K
  BY Zenon, StillSame DEF Books
<1>5. Distinct(dr2) /\ Vals(dr2, KernelPages) = Vals(dr, KernelPages)
  BY Zenon, StillSame DEF Books
<1>6. n.pd = m.pd
  BY Zenon DEF Books, Accounts
<1> HIDE DEF n
<1>7. Books(n, fn2, kp2, dr2)
  BY Zenon, <1>2, <1>3, <1>4, <1>5, <1>6 DEF Books
<1> QED
  BY Zenon, <1>7 DEF n

\* install_page.
LEMMA BooksInstall ==
  ASSUME Pools, NEW m, NEW fn, NEW kp, NEW dr, Books(m, fn, kp, dr), NEW p \in Procs, kp[p] \in UserPages,
         m.kernel # {} => KernelPage(m) \in m.kernel,
         NEW pd \in DOMAIN m.pd, NEW va, pd_no(va) \in PdeNos, pt_no(va) \in PteNos,
         pagedir_get_page(m, pd, va) = NULL, CanSetPage(m, pd, va), NEW w \in BOOLEAN,
         NEW n, n = pagedir_set_page(m, pd, va, kp[p], w),
         NEW fn2, NEW kp2, NEW dr2, Still(fn, fn2), Changed(kp, kp2, p, NULL), Still(dr, dr2)
  PROVE  Books(n, fn2, kp2, dr2)
<1> DEFINE K == Vals(fn, KernelPages)
           U == Vals(kp, UserPages)
           x == kp[p]
<1>1. Accounts(m, K, U)
  BY Zenon DEF Books
<1>2. Distinct(kp2) /\ Vals(kp2, UserPages) = U \ {x} /\ x \in U
  BY Zenon, LosesPage DEF Books, Pools
<1>3. Accounts(n, K, U \ {x}) /\ SameDirs(m, n)
  <2> HIDE DEF K, U, x
  <2> QED
    BY Zenon, <1>1, <1>2, Installs DEF Pools, x
<1>4. Distinct(fn2) /\ Vals(fn2, KernelPages) = K
  BY Zenon, StillSame DEF Books
<1>5. Distinct(dr2) /\ Vals(dr2, KernelPages) = Vals(dr, KernelPages)
  BY Zenon, StillSame DEF Books
<1> QED
  BY Zenon, <1>2, <1>3, <1>4, <1>5 DEF Books, SameDirs

\* A directory is made for p.
LEMMA BooksCreate ==
  ASSUME Pools, NEW m, NEW fn, NEW kp, NEW dr, Books(m, fn, kp, dr), NEW p \in Procs, dr[p] = NULL,
         KernelPage(m) \in m.kernel,
         NEW fn2, NEW kp2, NEW dr2, Still(fn, fn2), Still(kp, kp2), Changed(dr, dr2, p, KernelPage(m))
  PROVE  Books(pagedir_create(m), fn2, kp2, dr2) /\ KernelPage(m) \in KernelPages
<1> DEFINE K == Vals(fn, KernelPages)
           U == Vals(kp, UserPages)
           x == KernelPage(m)
           n == pagedir_create(m)
<1>1. Accounts(m, K, U) /\ Vals(dr, KernelPages) = DOMAIN m.pd
  BY Zenon DEF Books
<1>2. Accounts(n, K, U) /\ DOMAIN n.pd = DOMAIN m.pd \cup {x} /\ x \in KernelPages /\ x \notin DOMAIN m.pd
  <2> HIDE DEF K, U
  <2> QED
    BY Zenon, <1>1, Creates
<1>3. Distinct(dr2) /\ Vals(dr2, KernelPages) = Vals(dr, KernelPages) \cup {x}
  <2>1. Distinct(dr) /\ NULL \notin KernelPages /\ x \notin Vals(dr, KernelPages) /\ Changed(dr, dr2, p, x)
    BY Zenon, <1>1, <1>2 DEF Books, Pools
  <2> HIDE DEF x
  <2>2. Distinct(dr2) /\ Adds(dr, dr2, KernelPages, x)
    BY Zenon, <1>2, <2>1, Gains
  <2> QED
    BY Zenon, <2>2 DEF Adds
<1>4. Distinct(fn2) /\ Vals(fn2, KernelPages) = K
  BY Zenon, StillSame DEF Books
<1>5. Distinct(kp2) /\ Vals(kp2, UserPages) = U
  BY Zenon, StillSame DEF Books
<1> HIDE DEF n, x
<1>6. Books(n, fn2, kp2, dr2)
  BY Zenon, <1>1, <1>2, <1>3, <1>4, <1>5 DEF Books
<1> QED
  BY Zenon, <1>2, <1>6 DEF n, x

\* The directory of p is destroyed.
LEMMA BooksDestroy ==
  ASSUME Pools, NEW m, NEW fn, NEW kp, NEW dr, Books(m, fn, kp, dr), NEW p \in Procs, dr[p] \in KernelPages,
         NEW fn2, NEW kp2, NEW dr2, Still(fn, fn2), Still(kp, kp2), Changed(dr, dr2, p, NULL)
  PROVE  Books(pagedir_destroy(m, dr[p]), fn2, kp2, dr2)
<1> DEFINE K == Vals(fn, KernelPages)
           U == Vals(kp, UserPages)
           x == dr[p]
           n == pagedir_destroy(m, x)
<1>1. Accounts(m, K, U) /\ Vals(dr, KernelPages) = DOMAIN m.pd
  BY Zenon DEF Books
<1>2. Distinct(dr2) /\ Vals(dr2, KernelPages) = Vals(dr, KernelPages) \ {x} /\ x \in Vals(dr, KernelPages)
  BY Zenon, LosesPage DEF Books, Pools
<1>3. Accounts(n, K, U) /\ DOMAIN n.pd = DOMAIN m.pd \ {x}
  <2> HIDE DEF K, U, x
  <2> QED
    BY ZenonT(30), <1>1, <1>2, Destroys
<1>4. Distinct(fn2) /\ Vals(fn2, KernelPages) = K
  BY Zenon, StillSame DEF Books
<1>5. Distinct(kp2) /\ Vals(kp2, UserPages) = U
  BY Zenon, StillSame DEF Books
<1> HIDE DEF n, x
<1>6. Books(n, fn2, kp2, dr2)
  BY Zenon, <1>1, <1>2, <1>3, <1>4, <1>5 DEF Books
<1> QED
  BY Zenon, <1>6 DEF n, x
-----------------------------------------------------------------------------
(* The processes                                                             *)

Fields == {"pc", "cmd", "fn_copy", "i", "seg", "kpage", "pd", "argv", "success"}
HasCopy == {"load", "malloc", "copy", "open", "phdr", "segment", "fill", "stack", "push", "done", "loaded"}
HasDir == {"malloc", "copy", "open", "phdr", "segment", "fill", "stack", "push"}

\* What a process has at each point of start_process, load and process_exit: r is
\* its record, d its page directory.
StateOK(r, d) ==
  /\ DOMAIN r = Fields
  /\ r.fn_copy \in KernelPages \cup {NULL} /\ r.kpage \in UserPages \cup {NULL}
  /\ r.pd \in KernelPages \cup {NULL} /\ d \in KernelPages \cup {NULL}
  /\ r.fn_copy # NULL <=> r.pc \in HasCopy
  /\ r.kpage # NULL <=> r.pc \in {"fill", "push"}
  /\ r.pd # NULL <=> r.pc \in {"activate", "destroy"}
  /\ r.pc \in {"idle", "load", "activate", "destroy"} => d = NULL
  /\ r.pc \in HasDir => d # NULL
  /\ r.pc \in {"phdr", "segment", "fill"} => Head(r.cmd) \in DOMAIN Elf /\ r.i \in Nat \ {0}
  /\ r.pc \in {"segment", "fill"} => Fits(r.seg)
  /\ r.pc = "fill" => r.seg.read_bytes > 0 \/ r.seg.zero_bytes > 0

FnOf == [p \in Procs |-> proc[p].fn_copy]
KpOf == [p \in Procs |-> proc[p].kpage]
DirOf == [p \in Procs |-> Dir(p)]

\* Every process holds what its place in load or process_exit says it holds.
Tidy ==
  /\ DOMAIN proc = Procs /\ DOMAIN pagedir = Procs
  /\ \A p \in Procs : StateOK(proc[p], pagedir[p])

\* The CPU's directory is the kernel's or that of the running process, which is not
\* about to destroy it; a process that has a pagedir runs with it.
CpuOK ==
  /\ running \in Procs \cup {Kernel}
  /\ cr3 # NULL => running \in Procs /\ cr3 = Dir(running) /\ proc[running].pc # "destroy"
  /\ running \in Procs /\ pagedir[running] # NULL => cr3 = pagedir[running]
\* The inductive invariant: control, CPU and pages.
Inv == Tidy /\ CpuOK /\ Books(mm, FnOf, KpOf, DirOf)

\* One process moves, and the directories stay.
LEMMA Moves ==
  ASSUME Tidy, NEW p \in Procs, NEW r, Set(p, r), pagedir' = pagedir,
         StateOK(r, pagedir[p]), r.pd = proc[p].pd
  PROVE  /\ Tidy' /\ Still(DirOf, DirOf')
         /\ Changed(FnOf, FnOf', p, r.fn_copy) /\ Changed(KpOf, KpOf', p, r.kpage)
<1>1. DOMAIN proc' = Procs /\ proc'[p] = r /\ \A q \in Procs : q # p => proc'[q] = proc[q]
  BY Zenon DEF Set, Tidy
<1>2. Tidy'
  BY Zenon, <1>1 DEF Tidy
<1>3. \A q \in Procs : proc'[q].pd = proc[q].pd
  BY Zenon, <1>1
<1>4. Still(DirOf, DirOf')
  BY Zenon, <1>3 DEF Still, DirOf, Dir
<1>5. Changed(FnOf, FnOf', p, r.fn_copy)
  BY Zenon, <1>1 DEF Changed, FnOf
<1>6. Changed(KpOf, KpOf', p, r.kpage)
  BY Zenon, <1>1 DEF Changed, KpOf
<1> QED
  BY Zenon, <1>2, <1>4, <1>5, <1>6

\* A process that gets what it had.
LEMMA StillIf ==
  ASSUME NEW g, NEW h, NEW p \in Procs, NEW x, Changed(g, h, p, x), x = g[p]
  PROVE  Still(g, h)
BY Zenon DEF Changed, Still

\* The CPU keeps its page directory.
LEMMA CpuStays ==
  ASSUME Tidy, CpuOK, NEW p \in Procs, NEW r, Set(p, r), UNCHANGED cpu,
         r.pd = proc[p].pd, r.pc # "destroy"
  PROVE  CpuOK'
<1>1. DOMAIN proc' = Procs /\ proc'[p] = r /\ \A q \in Procs : q # p => proc'[q] = proc[q]
  BY Zenon DEF Set, Tidy
<1>2. pagedir' = pagedir /\ cr3' = cr3 /\ running' = running
  BY Zenon DEF cpu
<1>3. \A q \in Procs : proc'[q].pd = proc[q].pd /\ (proc[q].pc # "destroy" => proc'[q].pc # "destroy")
  BY Zenon, <1>1
<1> QED
  BY Zenon, <1>2, <1>3 DEF CpuOK, Dir

\* A step of load that takes no memory and gives none back.
LEMMA Quiet ==
  ASSUME Inv, NEW p \in Procs, NEW r, Set(p, r), UNCHANGED <<mm, cpu>>, StateOK(r, pagedir[p]),
         r.pd = proc[p].pd, r.pc # "destroy", r.fn_copy = proc[p].fn_copy, r.kpage = proc[p].kpage
  PROVE  Inv'
<1>0. UNCHANGED cpu /\ mm' = mm /\ pagedir' = pagedir /\ Tidy /\ CpuOK /\ Books(mm, FnOf, KpOf, DirOf)
  BY Zenon DEF cpu, Inv
<1>1. CpuOK'
  BY Zenon, <1>0, CpuStays
<1>2. /\ Tidy' /\ Still(DirOf, DirOf')
      /\ Changed(FnOf, FnOf', p, r.fn_copy) /\ Changed(KpOf, KpOf', p, r.kpage)
  BY Zenon, <1>0, Moves
<1>3. FnOf[p] = r.fn_copy /\ KpOf[p] = r.kpage
  BY Zenon DEF FnOf, KpOf
<1>4. Still(FnOf, FnOf') /\ Still(KpOf, KpOf')
  BY Zenon, <1>2, <1>3, StillIf
<1>5. Books(mm', FnOf', KpOf', DirOf')
  BY Zenon, <1>0, <1>2, <1>4, BooksSame
<1> QED
  BY Zenon, <1>1, <1>2, <1>5 DEF Inv

\* The goto done of load, and what it does on the way there.
Early == {"load", "malloc", "copy", "open", "phdr", "segment", "stack", "done"}
Later == HasCopy \ {"load", "fill", "push", "phdr", "segment"}
\* Such a step of load.
LEMMA QuietGoto ==
  ASSUME Inv, NEW p \in Procs, proc[p].pc \in Early, NEW label, label \in Later,
         label \in HasDir => pagedir[p] # NULL, Goto(p, label), UNCHANGED <<mm, cpu>>
  PROVE  Inv'
<1> DEFINE r == [proc[p] EXCEPT !.pc = label]
<1>2. Set(p, r)
  BY Zenon DEF Goto
<1>3. StateOK(proc[p], pagedir[p])
  BY Zenon DEF Inv, Tidy
<1>1. /\ DOMAIN r = Fields /\ r.pc = label /\ r.cmd = proc[p].cmd /\ r.fn_copy = proc[p].fn_copy
      /\ r.i = proc[p].i /\ r.seg = proc[p].seg /\ r.kpage = proc[p].kpage /\ r.pd = proc[p].pd
  BY Zenon, <1>3 DEF StateOK, Fields
<1> HIDE DEF r
<1>4. /\ label \notin {"idle", "load", "activate", "destroy", "fill", "push", "phdr", "segment"}
      /\ label \in HasCopy
  BY Zenon DEF Later, HasCopy
<1>5. proc[p].pc \in HasCopy /\ proc[p].pc \notin {"activate", "destroy", "fill", "push"}
  BY Zenon DEF HasCopy, Early
<1>6. StateOK(r, pagedir[p])
  BY Zenon, <1>1, <1>3, <1>4, <1>5 DEF StateOK
<1> QED
  BY Zenon, <1>1, <1>2, <1>4, <1>6, Quiet

\* malloc fails or not.
LEMMA Keeps_LoadMalloc ==
  ASSUME Inv, NEW p \in Procs, LoadMalloc(p)
  PROVE  Inv'
<1>1. UNCHANGED <<mm, cpu>> /\ proc[p].pc = "malloc" /\ (Goto(p, "copy") \/ Goto(p, "loaded"))
  BY Zenon DEF LoadMalloc, At
<1>2. pagedir[p] # NULL /\ proc[p].pc \in Early
  BY Zenon, <1>1 DEF Inv, Tidy, StateOK, HasDir, Early
<1>3. "copy" \in Later /\ "loaded" \in Later
  BY Zenon DEF Later, HasCopy
<1> QED
  BY Zenon, <1>1, <1>2, <1>3, QuietGoto

\* The command line is copied.
LEMMA Keeps_LoadCopy ==
  ASSUME Inv, NEW p \in Procs, LoadCopy(p)
  PROVE  Inv'
<1>1. UNCHANGED <<mm, cpu>> /\ proc[p].pc = "copy" /\ Goto(p, "open")
  BY Zenon DEF LoadCopy, At
<1>2. pagedir[p] # NULL /\ proc[p].pc \in Early
  BY Zenon, <1>1 DEF Inv, Tidy, StateOK, HasDir, Early
<1>3. "open" \in Later
  BY Zenon DEF Later, HasCopy
<1> QED
  BY Zenon, <1>1, <1>2, <1>3, QuietGoto

\* The executable is there or not.
LEMMA Keeps_LoadOpen ==
  ASSUME Inv, NEW p \in Procs, LoadOpen(p)
  PROVE  Inv'
<1> DEFINE r == [proc[p] EXCEPT !.pc = "phdr", !.i = 1]
<1>1. UNCHANGED <<mm, cpu>> /\ proc[p].pc = "open"
  BY Zenon DEF LoadOpen, At
<1>2. pagedir[p] # NULL /\ proc[p].pc \in Early /\ StateOK(proc[p], pagedir[p])
  BY Zenon, <1>1 DEF Inv, Tidy, StateOK, HasDir, Early
<1>3. "done" \in Later
  BY Zenon DEF Later, HasCopy
<1>4. CASE Goto(p, "done")
  BY Zenon, <1>1, <1>2, <1>3, <1>4, QuietGoto
<1>5. CASE Head(proc[p].cmd) \in DOMAIN Elf /\ Set(p, r)
  <2>0. 1 \in Nat \ {0}
    OBVIOUS
  <2>1. /\ DOMAIN r = Fields /\ r.pc = "phdr" /\ r.cmd = proc[p].cmd /\ r.fn_copy = proc[p].fn_copy
        /\ r.i = 1 /\ r.seg = proc[p].seg /\ r.kpage = proc[p].kpage /\ r.pd = proc[p].pd
    BY Zenon, <1>2 DEF StateOK, Fields
  <2> HIDE DEF r
  <2>2. StateOK(r, pagedir[p])
    BY Zenon, <1>1, <1>2, <1>5, <2>0, <2>1 DEF StateOK, HasCopy, HasDir
  <2>3. r.pc # "destroy"
    BY Zenon, <2>1
  <2> QED
    BY Zenon, <1>1, <1>5, <2>1, <2>2, <2>3, Quiet
<1> QED
  BY Zenon, <1>4, <1>5 DEF LoadOpen

\* validate_segment has accepted what load_segment is called with.
LEMMA HeaderFits ==
  ASSUME LoaderAssumption, NEW name \in DOMAIN Elf, NEW i \in Nat \ {0}, NEW phdr,
         phdr = Elf[name].phdrs[i], i <= Len(Elf[name].phdrs), NEW length, validate_segment(phdr, length)
  PROVE  Fits(SegmentOf(phdr))
<1> DEFINE phdrs == Elf[name].phdrs
           A == {phdr.p_offset, phdr.p_vaddr, phdr.p_filesz, phdr.p_memsz}
<1>1. Sizes /\ AddressSpace \in Nat
  BY Zenon DEF LoaderAssumption, Sizes
<1>2. /\ Len(phdrs) \in Nat
      /\ \A j \in 1..Len(phdrs) : {phdrs[j].p_offset, phdrs[j].p_vaddr, phdrs[j].p_filesz, phdrs[j].p_memsz}
                                    \subseteq 0..AddressSpace - 1
  BY Zenon DEF LoaderAssumption
<1>3. i \in 1..Len(phdrs)
  BY <1>2
<1>4. A \subseteq 0..AddressSpace - 1
  BY Zenon, <1>2, <1>3
<1>5. 0..AddressSpace - 1 \subseteq Nat
  BY <1>1
<1>6. /\ phdr.p_offset \in Nat /\ phdr.p_vaddr \in 0..AddressSpace - 1
      /\ phdr.p_filesz \in Nat /\ phdr.p_memsz \in 0..AddressSpace - 1
  BY Zenon, <1>4, <1>5
<1> QED
  BY Zenon, <1>1, <1>6, FitsFirst

\* A program header is skipped, loaded or refused.
LEMMA Keeps_LoadPhdr ==
  ASSUME LoaderAssumption, Inv, NEW p \in Procs, LoadPhdr(p)
  PROVE  Inv'
<1> DEFINE i == proc[p].i
           name == Head(proc[p].cmd)
           phdr == Elf[name].phdrs[i]
           next == [proc[p] EXCEPT !.i = i + 1]
           load == [proc[p] EXCEPT !.i = i + 1, !.pc = "segment", !.seg = SegmentOf(phdr)]
<1>1. UNCHANGED <<mm, cpu>> /\ proc[p].pc = "phdr"
  BY Zenon DEF LoadPhdr, At
<1>2. /\ pagedir[p] # NULL /\ proc[p].pc \in Early /\ StateOK(proc[p], pagedir[p])
      /\ name \in DOMAIN Elf /\ i \in Nat \ {0}
  BY Zenon, <1>1 DEF Inv, Tidy, StateOK, HasDir, Early
<1>0. i + 1 \in Nat \ {0}
  BY <1>2
<1>3. "done" \in Later /\ "stack" \in Later
  BY Zenon DEF Later, HasCopy
<1>4. \/ Goto(p, "done") \/ Goto(p, "stack") \/ Set(p, next)
      \/ i <= Len(Elf[name].phdrs) /\ validate_segment(phdr, Elf[name].length) /\ Set(p, load)
  BY Zenon DEF LoadPhdr, File
<1>5. CASE Goto(p, "done") \/ Goto(p, "stack")
  BY Zenon, <1>1, <1>2, <1>3, <1>5, QuietGoto
<1>6. CASE Set(p, next)
  <2> DEFINE r == next
  <2>1. /\ DOMAIN r = Fields /\ r.pc = "phdr" /\ r.cmd = proc[p].cmd /\ r.fn_copy = proc[p].fn_copy
        /\ r.i = i + 1 /\ r.seg = proc[p].seg /\ r.kpage = proc[p].kpage /\ r.pd = proc[p].pd
    BY Zenon, <1>1, <1>2 DEF StateOK, Fields
  <2> HIDE DEF next
  <2>2. StateOK(r, pagedir[p])
    BY Zenon, <1>0, <1>1, <1>2, <2>1 DEF StateOK, HasCopy, HasDir
  <2>3. r.pc # "destroy"
    BY Zenon, <2>1
  <2> QED
    BY ZenonT(30), <1>1, <1>6, <2>1, <2>2, <2>3, Quiet
<1>7. CASE i <= Len(Elf[name].phdrs) /\ validate_segment(phdr, Elf[name].length) /\ Set(p, load)
  <2> DEFINE r == load
             s == SegmentOf(phdr)
  <2>1. /\ DOMAIN r = Fields /\ r.pc = "segment" /\ r.cmd = proc[p].cmd /\ r.fn_copy = proc[p].fn_copy
        /\ r.i = i + 1 /\ r.seg = s /\ r.kpage = proc[p].kpage /\ r.pd = proc[p].pd
    <3> HIDE DEF s
    <3>1. r = [proc[p] EXCEPT !.i = i + 1, !.pc = "segment", !.seg = s]
      BY Zenon DEF s
    <3> QED
      BY Zenon, <1>1, <1>2, <3>1 DEF StateOK, Fields
  <2>2. Fits(s)
    <3> HIDE DEF i, name
    <3> QED
      BY Zenon, <1>2, <1>7, HeaderFits
  <2> HIDE DEF load, s
  <2>3. StateOK(r, pagedir[p])
    BY ZenonT(30), <1>0, <1>1, <1>2, <2>1, <2>2 DEF StateOK, HasCopy, HasDir
  <2>4. r.pc # "destroy"
    BY Zenon, <2>1
  <2> QED
    BY Zenon, <1>1, <1>7, <2>1, <2>3, <2>4, Quiet
<1> QED
  BY ZenonT(30), <1>4, <1>5, <1>6, <1>7

\* What the actions that take a page or give one back have in common.
LEMMA Steps ==
  ASSUME Inv, NEW p \in Procs, NEW r, Set(p, r), UNCHANGED cpu, StateOK(r, pagedir[p]),
         r.pd = proc[p].pd, r.pc # "destroy"
  PROVE  /\ Tidy' /\ CpuOK' /\ Still(DirOf, DirOf')
         /\ Changed(FnOf, FnOf', p, r.fn_copy) /\ Changed(KpOf, KpOf', p, r.kpage)
         /\ FnOf[p] = proc[p].fn_copy /\ KpOf[p] = proc[p].kpage /\ DirOf[p] = Dir(p)
<1>0. Tidy /\ CpuOK /\ pagedir' = pagedir
  BY Zenon DEF Inv, cpu
<1>1. CpuOK'
  BY Zenon, <1>0, CpuStays
<1>2. /\ Tidy' /\ Still(DirOf, DirOf')
      /\ Changed(FnOf, FnOf', p, r.fn_copy) /\ Changed(KpOf, KpOf', p, r.kpage)
  BY Zenon, <1>0, Moves
<1>3. FnOf[p] = proc[p].fn_copy /\ KpOf[p] = proc[p].kpage /\ DirOf[p] = Dir(p)
  BY Zenon DEF FnOf, KpOf, DirOf
<1> QED
  BY Zenon, <1>1, <1>2, <1>3

\* The address 0 is no page of a pool.
LEMMA PoolsApart ==
  ASSUME LoaderAssumption
  PROVE  Pools
BY ZenonT(30) DEF LoaderAssumption, Pools

\* palloc_get_page finds a page in a pool that is not empty.
LEMMA PagesThere ==
  ASSUME LoaderAssumption, HasFirst, Inv
  PROVE  /\ mm.kernel # {} => KernelPage(mm) \in mm.kernel
         /\ mm.user # {} => Min(mm.user) \in mm.user
<1>1. Accounts(mm, Vals(FnOf, KernelPages), Vals(KpOf, UserPages))
  BY Zenon DEF Inv, Books
<1> QED
  BY Zenon, <1>1, FirstPages

\* process_execute has a page for the copy of the command line.
LEMMA Keeps_process_execute ==
  ASSUME LoaderAssumption, HasFirst, Inv, NEW p \in Procs, NEW cmd, process_execute(p, cmd)
  PROVE  Inv'
<1> DEFINE x == KernelPage(mm)
           r == [proc[p] EXCEPT !.pc = "load", !.cmd = cmd, !.fn_copy = x]
<1>1. /\ proc[p].pc = "idle" /\ mm.kernel # {} /\ mm' = [mm EXCEPT !.kernel = @ \ {x}] /\ Set(p, r)
      /\ UNCHANGED cpu
  BY Zenon DEF process_execute, HasKernelPage
<1>2. x \in mm.kernel
  BY Zenon, <1>1, PagesThere
<1>3. StateOK(proc[p], pagedir[p]) /\ Books(mm, FnOf, KpOf, DirOf) /\ Pools
  BY Zenon, PoolsApart DEF Inv, Tidy
<1> HIDE DEF x
<1>4. /\ DOMAIN r = Fields /\ r.pc = "load" /\ r.fn_copy = x
      /\ r.kpage = proc[p].kpage /\ r.pd = proc[p].pd
  BY Zenon, <1>3 DEF StateOK, Fields
<1> HIDE DEF r
<1>5. x \in KernelPages /\ x # NULL
  BY Zenon, <1>2, <1>3 DEF Books, Accounts, Split4, Pools
<1>6. StateOK(r, pagedir[p]) /\ r.pc # "destroy" /\ proc[p].fn_copy = NULL
  BY Zenon, <1>1, <1>3, <1>4, <1>5 DEF StateOK, HasCopy, HasDir
<1>7. /\ Tidy' /\ CpuOK' /\ Still(DirOf, DirOf')
      /\ Changed(FnOf, FnOf', p, r.fn_copy) /\ Changed(KpOf, KpOf', p, r.kpage)
      /\ FnOf[p] = proc[p].fn_copy /\ KpOf[p] = proc[p].kpage
  BY Zenon, <1>1, <1>4, <1>6, Steps
<1>8. Still(KpOf, KpOf') /\ FnOf[p] = NULL /\ Changed(FnOf, FnOf', p, x)
  BY Zenon, <1>4, <1>6, <1>7, StillIf
<1>9. Books(mm', FnOf', KpOf', DirOf')
  BY ZenonT(30), <1>1, <1>2, <1>3, <1>7, <1>8, BooksExecute
<1> QED
  BY Zenon, <1>7, <1>9 DEF Inv

\* start_process frees it, whatever load returned.
LEMMA Keeps_start_process ==
  ASSUME LoaderAssumption, Inv, NEW p \in Procs, start_process(p)
  PROVE  Inv'
<1> DEFINE label == IF proc[p].success THEN "user" ELSE "exit"
           x == proc[p].fn_copy
           r == [proc[p] EXCEPT !.pc = label, !.fn_copy = NULL]
<1>1. /\ proc[p].pc = "loaded" /\ mm' = [mm EXCEPT !.kernel = @ \cup {x}] /\ Set(p, r)
      /\ UNCHANGED cpu
  BY Zenon DEF start_process, At
<1>2. StateOK(proc[p], pagedir[p]) /\ Books(mm, FnOf, KpOf, DirOf) /\ Pools
  BY Zenon, PoolsApart DEF Inv, Tidy
<1>3. label \in {"user", "exit"}
  BY Zenon
<1> HIDE DEF label
<1>4. /\ DOMAIN r = Fields /\ r.pc = label /\ r.fn_copy = NULL
      /\ r.kpage = proc[p].kpage /\ r.pd = proc[p].pd
  BY Zenon, <1>2 DEF StateOK, Fields
<1> HIDE DEF r
<1>5. proc[p].fn_copy \in KernelPages
  BY Zenon, <1>1, <1>2 DEF StateOK, HasCopy
<1>a. label \notin HasCopy \cup HasDir \cup
               {"idle", "load", "fill", "push", "activate", "destroy", "phdr", "segment"}
  BY Zenon, <1>3 DEF HasCopy, HasDir
<1>6. StateOK(r, pagedir[p]) /\ r.pc # "destroy"
  BY ZenonT(30), <1>1, <1>2, <1>4, <1>a DEF StateOK
<1>7. /\ Tidy' /\ CpuOK' /\ Still(DirOf, DirOf')
      /\ Changed(FnOf, FnOf', p, r.fn_copy) /\ Changed(KpOf, KpOf', p, r.kpage)
      /\ FnOf[p] = proc[p].fn_copy /\ KpOf[p] = proc[p].kpage
  BY Zenon, <1>1, <1>4, <1>6, Steps
<1>8. Still(KpOf, KpOf') /\ FnOf[p] = x /\ Changed(FnOf, FnOf', p, NULL)
  BY Zenon, <1>4, <1>7, StillIf
<1>b. mm' = [mm EXCEPT !.kernel = @ \cup {FnOf[p]}] /\ FnOf[p] \in KernelPages
  BY Zenon, <1>1, <1>5, <1>8
<1>9. Books(mm', FnOf', KpOf', DirOf')
  BY ZenonT(30), <1>2, <1>7, <1>8, <1>b, BooksStart
<1> QED
  BY Zenon, <1>7, <1>9 DEF Inv

\* palloc_get_page (PAL_USER) in load_segment and in setup_stack.
LEMMA GetsPage ==
  ASSUME LoaderAssumption, HasFirst, Inv, NEW p \in Procs, NEW label,
         \/ label = "push" /\ proc[p].pc = "stack"
         \/ /\ label = "fill" /\ proc[p].pc = "segment"
            /\ proc[p].seg.read_bytes > 0 \/ proc[p].seg.zero_bytes > 0,
         GetUserPage(p, label), UNCHANGED cpu
  PROVE  Inv'
<1> DEFINE x == Min(mm.user)
           r == [proc[p] EXCEPT !.pc = label, !.kpage = x]
<1>1. StateOK(proc[p], pagedir[p]) /\ Books(mm, FnOf, KpOf, DirOf) /\ Pools
  BY Zenon, PoolsApart DEF Inv, Tidy
<1>2. pagedir[p] # NULL /\ proc[p].pc \in Early /\ proc[p].kpage = NULL
  BY Zenon, <1>1 DEF StateOK, HasDir, Early
<1>3. "done" \in Later
  BY Zenon DEF Later, HasCopy
<1>4. CASE mm.user = {}
  <2>1. Goto(p, "done") /\ UNCHANGED <<mm, cpu>>
    BY Zenon, <1>4 DEF GetUserPage
  <2> QED
    BY Zenon, <1>2, <1>3, <2>1, QuietGoto
<1>5. CASE mm.user # {}
  <2>1. x \in mm.user
    BY Zenon, <1>5, PagesThere
  <2>2. mm' = [mm EXCEPT !.user = @ \ {x}] /\ Set(p, r)
    BY Zenon, <1>5 DEF GetUserPage
  <2> HIDE DEF x
  <2>3. x \in UserPages /\ x # NULL
    BY Zenon, <1>1, <2>1 DEF Books, Accounts, Split3, Pools
  <2>4. /\ DOMAIN r = Fields /\ r.pc = label /\ r.fn_copy = proc[p].fn_copy /\ r.cmd = proc[p].cmd
        /\ r.i = proc[p].i /\ r.seg = proc[p].seg /\ r.kpage = x /\ r.pd = proc[p].pd
    BY Zenon, <1>1 DEF StateOK, Fields
  <2> HIDE DEF r
  <2>5. StateOK(r, pagedir[p]) /\ r.pc # "destroy"
    <3>1. CASE label = "push" /\ proc[p].pc = "stack"
      BY Zenon, <1>1, <1>2, <2>3, <2>4, <3>1 DEF StateOK, HasCopy, HasDir
    <3>2. CASE /\ label = "fill" /\ proc[p].pc = "segment"
               /\ proc[p].seg.read_bytes > 0 \/ proc[p].seg.zero_bytes > 0
      BY ZenonT(30), <1>1, <1>2, <2>3, <2>4, <3>2 DEF StateOK, HasCopy, HasDir
    <3> QED
      BY Zenon, <3>1, <3>2
  <2>6. /\ Tidy' /\ CpuOK' /\ Still(DirOf, DirOf')
        /\ Changed(FnOf, FnOf', p, r.fn_copy) /\ Changed(KpOf, KpOf', p, r.kpage)
        /\ FnOf[p] = proc[p].fn_copy /\ KpOf[p] = proc[p].kpage
    BY Zenon, <2>2, <2>4, <2>5, Steps
  <2>7. Still(FnOf, FnOf') /\ KpOf[p] = NULL /\ Changed(KpOf, KpOf', p, x)
    BY ZenonT(30), <1>2, <2>4, <2>6, StillIf
  <2>8. Books(mm', FnOf', KpOf', DirOf')
    BY ZenonT(30), <1>1, <2>1, <2>2, <2>6, <2>7, BooksGet
  <2> QED
    BY Zenon, <2>6, <2>8 DEF Inv
<1> QED
  BY Zenon, <1>4, <1>5

\* setup_stack allocates its page.
LEMMA Keeps_StackPage ==
  ASSUME LoaderAssumption, HasFirst, Inv, NEW p \in Procs, StackPage(p)
  PROVE  Inv'
<1>1. proc[p].pc = "stack" /\ GetUserPage(p, "push") /\ UNCHANGED cpu
  BY Zenon DEF StackPage, At
<1> QED
  BY Zenon, <1>1, GetsPage

\* load_segment allocates a page, or is at its end.
LEMMA Keeps_SegmentPage ==
  ASSUME LoaderAssumption, HasFirst, Inv, NEW p \in Procs, SegmentPage(p)
  PROVE  Inv'
<1> DEFINE r == [proc[p] EXCEPT !.pc = "phdr", !.seg = NoSegment]
<1>1. proc[p].pc = "segment" /\ UNCHANGED cpu /\ StateOK(proc[p], pagedir[p])
  BY Zenon DEF SegmentPage, At, Inv, Tidy
<1>2. CASE proc[p].seg.read_bytes > 0 \/ proc[p].seg.zero_bytes > 0
  <2>1. GetUserPage(p, "fill")
    BY Zenon, <1>2 DEF SegmentPage
  <2> QED
    BY Zenon, <1>1, <1>2, <2>1, GetsPage
<1>3. CASE ~(proc[p].seg.read_bytes > 0 \/ proc[p].seg.zero_bytes > 0)
  <2>1. Set(p, r) /\ UNCHANGED <<mm, cpu>>
    BY Zenon, <1>1, <1>3 DEF SegmentPage
  <2>2. /\ DOMAIN r = Fields /\ r.pc = "phdr" /\ r.fn_copy = proc[p].fn_copy /\ r.cmd = proc[p].cmd
        /\ r.i = proc[p].i /\ r.kpage = proc[p].kpage /\ r.pd = proc[p].pd
    BY Zenon, <1>1 DEF StateOK, Fields
  <2> HIDE DEF r
  <2>3. StateOK(r, pagedir[p]) /\ r.pc # "destroy"
    BY Zenon, <1>1, <2>2 DEF StateOK, HasCopy, HasDir
  <2> QED
    BY Zenon, <2>1, <2>2, <2>3, Quiet
<1> QED
  BY Zenon, <1>2, <1>3

\* The directory of a process is one of the directories there are.
LEMMA HasDirectory ==
  ASSUME Inv, NEW p \in Procs, Dir(p) # NULL
  PROVE  Dir(p) \in DOMAIN mm.pd /\ Dir(p) \in KernelPages
<1>1. Dir(p) \in KernelPages
  BY Zenon DEF Inv, Tidy, StateOK, Dir
<1>2. Dir(p) \in Vals(DirOf, KernelPages)
  BY Zenon, <1>1 DEF Vals, DirOf
<1> QED
  BY Zenon, <1>1, <1>2 DEF Inv, Books

\* A page is filled and installed.
LEMMA Fills ==
  ASSUME LoaderAssumption, HasFirst, Inv, NEW p \in Procs, proc[p].pc \in {"fill", "push"},
         NEW va \in 0..PHYS_BASE - 1, NEW w \in BOOLEAN, CanInstall(p, va), install_page(p, va, w),
         NEW r, Set(p, r), UNCHANGED cpu, StateOK(r, pagedir[p]), r.pd = proc[p].pd, r.pc # "destroy",
         r.fn_copy = proc[p].fn_copy, r.kpage = NULL
  PROVE  Inv'
<1>1. StateOK(proc[p], pagedir[p]) /\ Books(mm, FnOf, KpOf, DirOf) /\ Pools
  BY Zenon, PoolsApart DEF Inv, Tidy
<1>2. proc[p].kpage \in UserPages /\ pagedir[p] # NULL
  BY Zenon, <1>1 DEF StateOK, HasDir
<1>3. pagedir[p] \in DOMAIN mm.pd
  BY Zenon, <1>2, HasDirectory DEF Dir
<1>4. pd_no(va) \in PdeNos /\ pt_no(va) \in PteNos
  BY Zenon DEF LoaderAssumption, PdeNos, PteNos
<1>5. mm.kernel # {} => KernelPage(mm) \in mm.kernel
  BY Zenon, PagesThere
<1>6. /\ Tidy' /\ CpuOK' /\ Still(DirOf, DirOf')
      /\ Changed(FnOf, FnOf', p, r.fn_copy) /\ Changed(KpOf, KpOf', p, r.kpage)
      /\ FnOf[p] = proc[p].fn_copy /\ KpOf[p] = proc[p].kpage
  BY Zenon, Steps
<1>7. Still(FnOf, FnOf') /\ Changed(KpOf, KpOf', p, NULL) /\ KpOf[p] \in UserPages
  BY Zenon, <1>2, <1>6, StillIf
<1>8. /\ mm' = pagedir_set_page(mm, pagedir[p], va, KpOf[p], w)
      /\ pagedir_get_page(mm, pagedir[p], va) = NULL /\ CanSetPage(mm, pagedir[p], va)
  BY Zenon, <1>6 DEF install_page, CanInstall
<1>9. Books(mm', FnOf', KpOf', DirOf')
  BY ZenonT(30), <1>1, <1>3, <1>4, <1>5, <1>6, <1>7, <1>8, BooksInstall
<1> QED
  BY Zenon, <1>6, <1>9 DEF Inv

\* The page could not be filled or installed.
LEMMA FreesIt ==
  ASSUME LoaderAssumption, Inv, NEW p \in Procs, proc[p].pc \in {"fill", "push"},
         FreeUserPage(p), Set(p, [proc[p] EXCEPT !.pc = "done", !.kpage = NULL]), UNCHANGED cpu
  PROVE  Inv'
<1> DEFINE r == [proc[p] EXCEPT !.pc = "done", !.kpage = NULL]
<1>1. StateOK(proc[p], pagedir[p]) /\ Books(mm, FnOf, KpOf, DirOf) /\ Pools
  BY Zenon, PoolsApart DEF Inv, Tidy
<1>2. proc[p].kpage \in UserPages
  BY Zenon, <1>1 DEF StateOK
<1>3. /\ DOMAIN r = Fields /\ r.pc = "done" /\ r.fn_copy = proc[p].fn_copy
      /\ r.kpage = NULL /\ r.pd = proc[p].pd /\ Set(p, r)
  BY Zenon, <1>1 DEF StateOK, Fields
<1> HIDE DEF r
<1>4. StateOK(r, pagedir[p]) /\ r.pc # "destroy"
  BY Zenon, <1>1, <1>3 DEF StateOK, HasCopy, HasDir
<1>6. /\ Tidy' /\ CpuOK' /\ Still(DirOf, DirOf')
      /\ Changed(FnOf, FnOf', p, r.fn_copy) /\ Changed(KpOf, KpOf', p, r.kpage)
      /\ FnOf[p] = proc[p].fn_copy /\ KpOf[p] = proc[p].kpage
  BY Zenon, <1>3, <1>4, Steps
<1>7. Still(FnOf, FnOf') /\ Changed(KpOf, KpOf', p, NULL) /\ KpOf[p] \in UserPages
  BY Zenon, <1>2, <1>3, <1>6, StillIf
<1>8. mm' = [mm EXCEPT !.user = @ \cup {KpOf[p]}]
  BY Zenon, <1>6 DEF FreeUserPage
<1>9. Books(mm', FnOf', KpOf', DirOf')
  BY Zenon, <1>1, <1>6, <1>7, <1>8, BooksFree
<1> QED
  BY Zenon, <1>6, <1>9 DEF Inv

\* load_segment fills and installs the page, or frees it.
LEMMA Keeps_SegmentFill ==
  ASSUME LoaderAssumption, HasFirst, Inv, NEW p \in Procs, SegmentFill(p)
  PROVE  Inv'
<1> DEFINE s == proc[p].seg
           n == Min2(s.read_bytes, PGSIZE)
           t == Advance(s, n)
           r == [proc[p] EXCEPT !.pc = "segment", !.kpage = NULL, !.seg = t]
<1>1. proc[p].pc = "fill" /\ UNCHANGED cpu /\ StateOK(proc[p], pagedir[p])
  BY Zenon DEF SegmentFill, At, Inv, Tidy
<1>2. CASE FreeUserPage(p) /\ Set(p, [proc[p] EXCEPT !.pc = "done", !.kpage = NULL])
  BY Zenon, <1>1, <1>2, FreesIt
<1>3. CASE CanInstall(p, s.upage) /\ install_page(p, s.upage, s.writable) /\ Set(p, r)
  <2>1. Fits(s) /\ (s.read_bytes > 0 \/ s.zero_bytes > 0) /\ PGSIZE \in Nat \ {0} /\ PHYS_BASE \in Nat
    BY Zenon, <1>1 DEF StateOK, LoaderAssumption
  <2>2. s.upage \in 0..PHYS_BASE - 1 /\ Fits(t) /\ s.writable \in BOOLEAN
    <3> HIDE DEF s
    <3> QED
      BY Zenon, <2>1, StillFits DEF Fits
  <2> HIDE DEF t
  <2>3. /\ DOMAIN r = Fields /\ r.pc = "segment" /\ r.fn_copy = proc[p].fn_copy /\ r.cmd = proc[p].cmd
        /\ r.i = proc[p].i /\ r.seg = t /\ r.kpage = NULL /\ r.pd = proc[p].pd
    BY Zenon, <1>1 DEF StateOK, Fields
  <2> HIDE DEF r
  <2>4. StateOK(r, pagedir[p]) /\ r.pc # "destroy"
    BY Zenon, <1>1, <2>2, <2>3 DEF StateOK, HasCopy, HasDir
  <2>5. proc[p].pc \in {"fill", "push"}
    BY Zenon, <1>1
  <2> QED
    BY ZenonT(30), <1>1, <1>3, <2>2, <2>3, <2>4, <2>5, Fills
<1> QED
  BY Zenon, <1>2, <1>3 DEF SegmentFill

\* setup_stack installs its page, or frees it.
LEMMA Keeps_setup_stack ==
  ASSUME LoaderAssumption, HasFirst, Inv, NEW p \in Procs, setup_stack(p)
  PROVE  Inv'
<1> DEFINE va == PHYS_BASE - PGSIZE
           r == [proc[p] EXCEPT !.pc = "done", !.kpage = NULL, !.argv = text[stack_args], !.success = TRUE]
<1>1. proc[p].pc = "push" /\ UNCHANGED cpu /\ StateOK(proc[p], pagedir[p])
  BY Zenon DEF setup_stack, At, Inv, Tidy
<1>2. CASE FreeUserPage(p) /\ Set(p, [proc[p] EXCEPT !.pc = "done", !.kpage = NULL])
  BY Zenon, <1>1, <1>2, FreesIt
<1>3. CASE CanInstall(p, va) /\ install_page(p, va, TRUE) /\ Set(p, r)
  <2>1. va \in 0..PHYS_BASE - 1 /\ TRUE \in BOOLEAN
    <3> DEFINE g == PGSIZE
    <3>1. g \in Nat \ {0} /\ PHYS_BASE \in Nat /\ g <= PHYS_BASE
      BY Zenon DEF LoaderAssumption
    <3> HIDE DEF g
    <3>2. PHYS_BASE - g \in 0..PHYS_BASE - 1
      BY <3>1
    <3> QED
      BY Zenon, <3>2 DEF g
  <2> HIDE DEF va
  <2>3. /\ DOMAIN r = Fields /\ r.pc = "done" /\ r.fn_copy = proc[p].fn_copy
        /\ r.kpage = NULL /\ r.pd = proc[p].pd
    BY Zenon, <1>1 DEF StateOK, Fields
  <2> HIDE DEF r
  <2>4. StateOK(r, pagedir[p]) /\ r.pc # "destroy"
    BY Zenon, <1>1, <2>3 DEF StateOK, HasCopy, HasDir
  <2>5. proc[p].pc \in {"fill", "push"}
    BY Zenon, <1>1
  <2> QED
    BY ZenonT(30), <1>1, <1>3, <2>1, <2>3, <2>4, <2>5, Fills
<1> QED
  BY Zenon, <1>2, <1>3 DEF setup_stack

\* The end of load.
LEMMA Keeps_LoadDone ==
  ASSUME Inv, NEW p \in Procs, LoadDone(p)
  PROVE  Inv'
<1> DEFINE r == [proc[p] EXCEPT !.pc = "loaded", !.i = 0, !.seg = NoSegment]
<1>1. proc[p].pc = "done" /\ UNCHANGED <<mm, cpu>> /\ Set(p, r) /\ StateOK(proc[p], pagedir[p])
  BY Zenon DEF LoadDone, At, Inv, Tidy
<1>2. /\ DOMAIN r = Fields /\ r.pc = "loaded" /\ r.fn_copy = proc[p].fn_copy
      /\ r.kpage = proc[p].kpage /\ r.pd = proc[p].pd
  BY Zenon, <1>1 DEF StateOK, Fields
<1> HIDE DEF r
<1>3. StateOK(r, pagedir[p]) /\ r.pc # "destroy"
  BY Zenon, <1>1, <1>2 DEF StateOK, HasCopy, HasDir
<1> QED
  BY Zenon, <1>1, <1>2, <1>3, Quiet

\* The user program ends.
LEMMA Keeps_UserExit ==
  ASSUME Inv, NEW p \in Procs, UserExit(p)
  PROVE  Inv'
<1> DEFINE r == [proc[p] EXCEPT !.pc = "exit"]
<1>1. proc[p].pc = "user" /\ UNCHANGED <<mm, cpu>> /\ Set(p, r) /\ StateOK(proc[p], pagedir[p])
  BY Zenon DEF UserExit, Goto, At, Inv, Tidy
<1>2. /\ DOMAIN r = Fields /\ r.pc = "exit" /\ r.fn_copy = proc[p].fn_copy
      /\ r.kpage = proc[p].kpage /\ r.pd = proc[p].pd
  BY Zenon, <1>1 DEF StateOK, Fields
<1> HIDE DEF r
<1>3. StateOK(r, pagedir[p]) /\ r.pc # "destroy"
  BY Zenon, <1>1, <1>2 DEF StateOK, HasCopy, HasDir
<1> QED
  BY Zenon, <1>1, <1>2, <1>3, Quiet

\* One process moves, and its directory may change.
NewDir(p, d) ==
  DOMAIN pagedir' = Procs /\ pagedir'[p] = d /\ \A q \in Procs : q # p => pagedir'[q] = pagedir[q]
DirIs(r, d, x) == IF d # NULL THEN x = d ELSE x = r.pd
\* ... then the other processes keep what they have.
LEMMA MovesDir ==
  ASSUME Tidy, NEW p \in Procs, NEW r, Set(p, r), NEW d, NewDir(p, d),
         StateOK(r, d), NEW x, DirIs(r, d, x),
         r.fn_copy = proc[p].fn_copy, r.kpage = proc[p].kpage
  PROVE  /\ Tidy' /\ Changed(DirOf, DirOf', p, x) /\ Still(FnOf, FnOf') /\ Still(KpOf, KpOf')
         /\ DirOf[p] = Dir(p)
<1>1. DOMAIN proc' = Procs /\ proc'[p] = r /\ \A q \in Procs : q # p => proc'[q] = proc[q]
  BY Zenon DEF Set, Tidy
<1>2. DOMAIN pagedir' = Procs /\ pagedir'[p] = d /\ \A q \in Procs : q # p => pagedir'[q] = pagedir[q]
  BY Zenon DEF NewDir
<1>3. Tidy'
  BY Zenon, <1>1, <1>2 DEF Tidy
<1>4. Dir(p)' = x /\ \A q \in Procs : q # p => Dir(q)' = Dir(q)
  BY Zenon, <1>1, <1>2 DEF Dir, DirIs
<1>5. Changed(DirOf, DirOf', p, x) /\ DirOf[p] = Dir(p)
  BY Zenon, <1>4 DEF Changed, DirOf
<1>6. Still(FnOf, FnOf')
  BY Zenon, <1>1 DEF Still, FnOf
<1>7. Still(KpOf, KpOf')
  BY Zenon, <1>1 DEF Still, KpOf
<1> QED
  BY Zenon, <1>3, <1>5, <1>6, <1>7

\* load creates and activates the directory, or fails.
LEMMA Keeps_LoadPagedir ==
  ASSUME LoaderAssumption, HasFirst, Inv, NEW p \in Procs, LoadPagedir(p)
  PROVE  Inv'
<1> DEFINE x == KernelPage(mm)
           r == [proc[p] EXCEPT !.pc = "malloc"]
<1>1. running = p /\ running' = running /\ proc[p].pc = "load" /\ StateOK(proc[p], pagedir[p])
  BY Zenon DEF LoadPagedir, At, Inv, Tidy
<1>2. Tidy /\ CpuOK /\ Books(mm, FnOf, KpOf, DirOf) /\ Pools
  BY Zenon, PoolsApart DEF Inv
<1>3. CASE mm.kernel = {}
  <2>1. Goto(p, "done") /\ UNCHANGED <<mm, cpu>>
    BY Zenon, <1>1, <1>3 DEF LoadPagedir, HasKernelPage, cpu
  <2>2. "done" \in Later /\ "done" \notin HasDir /\ proc[p].pc \in Early
    BY Zenon, <1>1 DEF Later, HasCopy, HasDir, Early
  <2> QED
    BY Zenon, <2>1, <2>2, QuietGoto
<1>4. CASE mm.kernel # {}
  <2>1. /\ mm' = pagedir_create(mm) /\ pagedir' = [pagedir EXCEPT ![p] = x] /\ cr3' = x /\ Set(p, r)
    BY Zenon, <1>4 DEF LoadPagedir, HasKernelPage, Goto
  <2>2. x \in mm.kernel
    BY Zenon, <1>4, PagesThere
  <2> HIDE DEF x
  <2>3. x \in KernelPages /\ x # NULL
    BY Zenon, <1>2, <2>2 DEF Books, Accounts, Split4, Pools
  <2>4. /\ DOMAIN r = Fields /\ r.pc = "malloc" /\ r.fn_copy = proc[p].fn_copy
        /\ r.kpage = proc[p].kpage /\ r.pd = proc[p].pd
    BY Zenon, <1>1 DEF StateOK, Fields
  <2> HIDE DEF r
  <2>5. StateOK(r, x) /\ Dir(p) = NULL
    BY Zenon, <1>1, <2>3, <2>4 DEF StateOK, HasCopy, HasDir, Dir
  <2>6. DirIs(r, x, x) /\ NewDir(p, x)
    BY Zenon, <1>2, <2>1, <2>3 DEF DirIs, NewDir, Tidy
  <2>7. /\ Tidy' /\ Changed(DirOf, DirOf', p, x) /\ Still(FnOf, FnOf') /\ Still(KpOf, KpOf')
        /\ DirOf[p] = Dir(p)
    BY ZenonT(30), <1>2, <2>1, <2>4, <2>5, <2>6, MovesDir
  <2>a. proc'[p] = r /\ pagedir'[p] = x
    BY Zenon, <1>2, <2>1, <2>6 DEF Set, Tidy, NewDir
  <2>b. Dir(p)' = x
    BY Zenon, <2>3, <2>a DEF Dir
  <2>8. DirOf[p] = NULL /\ KernelPage(mm) \in mm.kernel /\ Changed(DirOf, DirOf', p, KernelPage(mm))
    BY Zenon, <2>2, <2>5, <2>7 DEF x
  <2>9. Books(mm', FnOf', KpOf', DirOf')
    BY ZenonT(30), <1>2, <2>1, <2>7, <2>8, BooksCreate
  <2>10. running' = p /\ cr3' = Dir(p)' /\ proc'[p].pc # "destroy" /\ cr3' = pagedir'[p]
    BY ZenonT(30), <1>1, <2>1, <2>4, <2>a, <2>b
  <2>11. CpuOK'
    BY Zenon, <2>10 DEF CpuOK
  <2> QED
    BY Zenon, <2>7, <2>9, <2>11 DEF Inv
<1> QED
  BY Zenon, <1>3, <1>4

\* A process that has not started, or has ended, has nothing.
LEMMA IdleRecord ==
  /\ DOMAIN Idle = Fields /\ Idle.fn_copy = NULL /\ Idle.kpage = NULL /\ Idle.pd = NULL /\ Idle.pc = "idle"
  /\ DOMAIN Dead = Fields /\ Dead.fn_copy = NULL /\ Dead.kpage = NULL /\ Dead.pd = NULL /\ Dead.pc = "dead"
<1>1. DOMAIN Idle = Fields /\ Idle.fn_copy = NULL /\ Idle.kpage = NULL /\ Idle.pd = NULL /\ Idle.pc = "idle"
  BY Zenon DEF Idle, Fields
<1>2. DOMAIN Dead = Fields /\ Dead.fn_copy = NULL /\ Dead.kpage = NULL /\ Dead.pd = NULL /\ Dead.pc = "dead"
  BY Zenon, <1>1 DEF Dead, Fields
<1> QED
  BY Zenon, <1>1, <1>2

\* process_exit: the directory is only in pd now, and the CPU still has it.
LEMMA Keeps_ExitForget ==
  ASSUME LoaderAssumption, Inv, NEW p \in Procs, ExitForget(p)
  PROVE  Inv'
<1> DEFINE d == pagedir[p]
           r == [proc[p] EXCEPT !.pd = d, !.pc = "activate"]
<1>1. /\ running = p /\ proc[p].pc = "exit" /\ StateOK(proc[p], pagedir[p]) /\ mm' = mm /\ cr3' = cr3
      /\ pagedir' = [pagedir EXCEPT ![p] = NULL]
  BY Zenon DEF ExitForget, At, Inv, Tidy
<1>2. Tidy /\ CpuOK /\ Books(mm, FnOf, KpOf, DirOf)
  BY Zenon DEF Inv
<1>n. NewDir(p, NULL)
  BY Zenon, <1>1, <1>2 DEF NewDir, Tidy
<1>0. proc[p].fn_copy = NULL /\ proc[p].kpage = NULL /\ proc[p].pd = NULL
  BY Zenon, <1>1 DEF StateOK, HasCopy
<1>3. CASE d = NULL
  <2>1. Set(p, Dead) /\ running' = Kernel
    BY Zenon, <1>3 DEF ExitForget
  <2>2. StateOK(Dead, NULL)
    BY Zenon, IdleRecord DEF StateOK, HasCopy, HasDir
  <2>3. DirIs(Dead, NULL, NULL) /\ Dead.fn_copy = proc[p].fn_copy /\ Dead.kpage = proc[p].kpage
    BY Zenon, IdleRecord, <1>0 DEF DirIs
  <2>4. /\ Tidy' /\ Changed(DirOf, DirOf', p, NULL) /\ Still(FnOf, FnOf') /\ Still(KpOf, KpOf')
        /\ DirOf[p] = Dir(p)
    BY Zenon, <1>2, <1>n, <2>1, <2>2, <2>3, MovesDir
  <2>5. Dir(p) = NULL
    BY Zenon, <1>0, <1>3 DEF Dir
  <2>6. Still(DirOf, DirOf')
    BY Zenon, <2>4, <2>5, StillIf
  <2>7. Books(mm', FnOf', KpOf', DirOf')
    BY Zenon, <1>1, <1>2, <2>4, <2>6, BooksSame
  <2>8. cr3' = NULL /\ running' = Kernel /\ Kernel \notin Procs
    BY Zenon, <1>1, <1>2, <2>1, <2>5 DEF CpuOK, LoaderAssumption
  <2>9. CpuOK'
    BY Zenon, <2>8 DEF CpuOK
  <2> QED
    BY Zenon, <2>4, <2>7, <2>9 DEF Inv
<1>4. CASE d # NULL
  <2>1. Set(p, r) /\ running' = p
    BY Zenon, <1>4 DEF ExitForget
  <2>2. /\ DOMAIN r = Fields /\ r.pc = "activate" /\ r.fn_copy = proc[p].fn_copy
        /\ r.kpage = proc[p].kpage /\ r.pd = d
    BY Zenon, <1>1 DEF StateOK, Fields
  <2>a. cr3 = d /\ Dir(p) = d
    BY Zenon, <1>1, <1>2, <1>4 DEF CpuOK, Dir
  <2>b. d \in KernelPages
    BY Zenon, <1>1, <1>4 DEF StateOK
  <2> HIDE DEF r, d
  <2>3. StateOK(r, NULL) /\ DirIs(r, NULL, d)
    BY Zenon, <1>0, <1>4, <2>2, <2>b DEF DirIs, StateOK, HasCopy, HasDir
  <2>4. /\ Tidy' /\ Changed(DirOf, DirOf', p, d) /\ Still(FnOf, FnOf') /\ Still(KpOf, KpOf')
        /\ DirOf[p] = Dir(p)
    BY ZenonT(30), <1>2, <1>n, <2>1, <2>2, <2>3, MovesDir
  <2>c. proc'[p] = r /\ pagedir'[p] = NULL
    BY Zenon, <1>2, <1>n, <2>1 DEF Set, Tidy, NewDir
  <2>d. Dir(p)' = d
    BY Zenon, <2>2, <2>c DEF Dir
  <2>6. Still(DirOf, DirOf')
    BY Zenon, <2>4, <2>a, StillIf
  <2>7. Books(mm', FnOf', KpOf', DirOf')
    BY Zenon, <1>1, <1>2, <2>4, <2>6, BooksSame
  <2>8. running' = p /\ cr3' = Dir(p)' /\ proc'[p].pc # "destroy" /\ pagedir'[p] = NULL
    BY Zenon, <1>1, <2>1, <2>2, <2>a, <2>c, <2>d
  <2>9. CpuOK'
    BY Zenon, <2>8 DEF CpuOK
  <2> QED
    BY Zenon, <2>4, <2>7, <2>9 DEF Inv
<1> QED
  BY Zenon, <1>3, <1>4

\* process_exit: the CPU has the directory of the kernel.
LEMMA Keeps_ExitActivate ==
  ASSUME Inv, NEW p \in Procs, ExitActivate(p)
  PROVE  Inv'
<1> DEFINE r == [proc[p] EXCEPT !.pc = "destroy"]
<1>1. /\ running = p /\ proc[p].pc = "activate" /\ StateOK(proc[p], pagedir[p]) /\ mm' = mm
      /\ cr3' = NULL /\ pagedir' = pagedir /\ running' = running /\ Set(p, r)
  BY Zenon DEF ExitActivate, At, Goto, Inv, Tidy, Base
<1>2. Tidy /\ CpuOK /\ Books(mm, FnOf, KpOf, DirOf)
  BY Zenon DEF Inv
<1>3. /\ DOMAIN r = Fields /\ r.pc = "destroy" /\ r.fn_copy = proc[p].fn_copy
      /\ r.kpage = proc[p].kpage /\ r.pd = proc[p].pd
  BY Zenon, <1>1 DEF StateOK, Fields
<1> HIDE DEF r
<1>4. StateOK(r, pagedir[p]) /\ pagedir[p] = NULL
  BY Zenon, <1>1, <1>3 DEF StateOK, HasCopy, HasDir
<1>5. /\ Tidy' /\ Still(DirOf, DirOf')
      /\ Changed(FnOf, FnOf', p, r.fn_copy) /\ Changed(KpOf, KpOf', p, r.kpage)
  BY ZenonT(30), <1>1, <1>2, <1>3, <1>4, Moves
<1>6. FnOf[p] = r.fn_copy /\ KpOf[p] = r.kpage
  BY Zenon, <1>3 DEF FnOf, KpOf
<1>7. Still(FnOf, FnOf') /\ Still(KpOf, KpOf')
  BY Zenon, <1>5, <1>6, StillIf
<1>8. Books(mm', FnOf', KpOf', DirOf')
  BY Zenon, <1>1, <1>2, <1>5, <1>7, BooksSame
<1>9. CpuOK'
  BY Zenon, <1>1, <1>4 DEF CpuOK
<1> QED
  BY Zenon, <1>5, <1>8, <1>9 DEF Inv

\* process_exit: the directory, its tables and their pages are freed.
LEMMA Keeps_ExitDestroy ==
  ASSUME LoaderAssumption, Inv, NEW p \in Procs, ExitDestroy(p)
  PROVE  Inv'
<1>1. /\ running = p /\ proc[p].pc = "destroy" /\ StateOK(proc[p], pagedir[p])
      /\ mm' = pagedir_destroy(mm, proc[p].pd) /\ cr3' = NULL /\ pagedir' = pagedir /\ running' = Kernel
      /\ Set(p, Dead)
  BY Zenon DEF ExitDestroy, At, Inv, Tidy, Base
<1>2. Tidy /\ CpuOK /\ Books(mm, FnOf, KpOf, DirOf) /\ Pools
  BY Zenon, PoolsApart DEF Inv
<1>3. /\ proc[p].fn_copy = NULL /\ proc[p].kpage = NULL /\ pagedir[p] = NULL /\ proc[p].pd \in KernelPages
  BY Zenon, <1>1 DEF StateOK, HasCopy
<1>4. StateOK(Dead, NULL)
  BY Zenon, IdleRecord DEF StateOK, HasCopy, HasDir
<1>5. DirIs(Dead, NULL, NULL) /\ Dead.fn_copy = proc[p].fn_copy /\ Dead.kpage = proc[p].kpage
  BY Zenon, IdleRecord, <1>3 DEF DirIs
<1>6. NewDir(p, NULL)
  BY Zenon, <1>1, <1>2, <1>3 DEF NewDir, Tidy
<1>7. /\ Tidy' /\ Changed(DirOf, DirOf', p, NULL) /\ Still(FnOf, FnOf') /\ Still(KpOf, KpOf')
      /\ DirOf[p] = Dir(p)
  BY Zenon, <1>1, <1>2, <1>4, <1>5, <1>6, MovesDir
<1>8. DirOf[p] = proc[p].pd
  BY Zenon, <1>3, <1>7 DEF Dir
<1>9. Books(mm', FnOf', KpOf', DirOf')
  <2>1. DirOf[p] \in KernelPages /\ mm' = pagedir_destroy(mm, DirOf[p])
    BY Zenon, <1>1, <1>3, <1>8
  <2> QED
    BY Zenon, <1>2, <1>7, <2>1, BooksDestroy
<1>10. CpuOK'
  BY Zenon, <1>1 DEF CpuOK, LoaderAssumption
<1> QED
  BY Zenon, <1>7, <1>9, <1>10 DEF Inv

\* A switch activates the directory of the thread that runs next.
LEMMA Keeps_Switch ==
  ASSUME LoaderAssumption, Inv, NEW t \in Procs \cup {Kernel}, Switch(t)
  PROVE  Inv'
<1>1. /\ running' = t /\ mm' = mm /\ pagedir' = pagedir /\ proc' = proc
      /\ cr3' = (IF t = Kernel THEN NULL ELSE pagedir[t])
  BY Zenon DEF Switch, process_activate, Base
<1>2. Tidy /\ CpuOK /\ Books(mm, FnOf, KpOf, DirOf)
  BY Zenon DEF Inv
<1>3. Tidy' /\ FnOf' = FnOf /\ KpOf' = KpOf /\ DirOf' = DirOf
  BY Zenon, <1>1, <1>2 DEF Tidy, FnOf, KpOf, DirOf, Dir
<1>4. Books(mm', FnOf', KpOf', DirOf')
  BY Zenon, <1>1, <1>2, <1>3
<1>5. CpuOK'
  <2>1. CASE t = Kernel
    BY Zenon, <1>1, <2>1 DEF CpuOK, LoaderAssumption
  <2>2. CASE t \in Procs /\ pagedir[t] = NULL
    BY Zenon, <1>1, <2>2 DEF CpuOK
  <2>3. CASE t \in Procs /\ pagedir[t] # NULL
    <3>1. proc[t].pc # "destroy"
      BY Zenon, <1>2, <2>3 DEF Tidy, StateOK
    <3>2. t # Kernel
      BY Zenon, <2>3 DEF LoaderAssumption
    <3> QED
      BY Zenon, <1>1, <2>3, <3>1, <3>2 DEF CpuOK, Dir
  <2> QED
    BY Zenon, <2>1, <2>2, <2>3
<1> QED
  BY Zenon, <1>3, <1>4, <1>5 DEF Inv

\* At first all pages are free.
LEMMA InitInv ==
  ASSUME LoaderAssumption, Init
  PROVE  Inv
<1>1. /\ mm = EmptyMm /\ proc = [p \in Procs |-> Idle] /\ pagedir = [p \in Procs |-> NULL]
      /\ cr3 = NULL /\ running = Kernel
  BY Zenon DEF Init, Base
<1>2. StateOK(Idle, NULL)
  BY Zenon, IdleRecord DEF StateOK, HasCopy, HasDir
<1>3. Tidy
  BY Zenon, <1>1, <1>2 DEF Tidy
<1>4. CpuOK
  BY Zenon, <1>1 DEF CpuOK, LoaderAssumption
<1>5. \A p \in Procs : FnOf[p] = NULL /\ KpOf[p] = NULL /\ DirOf[p] = NULL
  BY Zenon, <1>1, IdleRecord DEF FnOf, KpOf, DirOf, Dir
<1>6. Distinct(FnOf) /\ Distinct(KpOf) /\ Distinct(DirOf)
  BY Zenon, <1>5 DEF Distinct
<1>7. Vals(FnOf, KernelPages) = {} /\ Vals(KpOf, UserPages) = {} /\ Vals(DirOf, KernelPages) = {}
  BY Zenon, <1>5, PoolsApart DEF Vals, Pools
<1>8. /\ mm.pd = << >> /\ mm.pt = << >> /\ mm.kernel = KernelPages /\ mm.user = UserPages
      /\ mm = [pd |-> mm.pd, pt |-> mm.pt, kernel |-> mm.kernel, user |-> mm.user]
  BY Zenon, <1>1 DEF EmptyMm
<1>9. DOMAIN mm.pd = {} /\ DOMAIN mm.pt = {} /\ mm.pd \in [{} -> [PdeNos -> EntriesOf(KernelPages)]]
      /\ mm.pt \in [{} -> [PteNos -> EntriesOf(UserPages)]]
  BY <1>8
<1>10. Array(mm.pd, PdeNos, KernelPages) /\ Array(mm.pt, PteNos, UserPages)
  BY Zenon, <1>9 DEF Array, Once
<1>11. TablePages(mm) = {} /\ MappedPages(mm) = {}
  BY Zenon, <1>9 DEF TablePages, MappedPages, From
<1>12. Split4(KernelPages, mm.kernel, DOMAIN mm.pd, DOMAIN mm.pt, {})
  BY Zenon, <1>8, <1>9 DEF Split4
<1>13. Split3(UserPages, mm.user, MappedPages(mm), {})
  BY Zenon, <1>8, <1>11 DEF Split3
<1>14. Accounts(mm, {}, {})
  BY ZenonT(30), <1>8, <1>9, <1>10, <1>11, <1>12, <1>13 DEF Accounts
<1>15. Books(mm, FnOf, KpOf, DirOf)
  BY Zenon, <1>6, <1>7, <1>9, <1>14 DEF Books
<1> QED
  BY Zenon, <1>3, <1>4, <1>15 DEF Inv

\* A step of nothing.
LEMMA Stutters ==
  ASSUME Inv, UNCHANGED vars
  PROVE  Inv'
<1>1. mm' = mm /\ pagedir' = pagedir /\ cr3' = cr3 /\ running' = running /\ proc' = proc
  BY Zenon DEF vars
<1>2. FnOf' = FnOf /\ KpOf' = KpOf /\ DirOf' = DirOf
  BY Zenon, <1>1 DEF FnOf, KpOf, DirOf, Dir
<1>3. Tidy' /\ CpuOK'
  BY Zenon, <1>1 DEF Inv, Tidy, CpuOK, Dir
<1> QED
  BY Zenon, <1>1, <1>2, <1>3 DEF Inv

\* Every step keeps the invariant.
LEMMA NextInv ==
  ASSUME LoaderAssumption, HasFirst, Inv, [Next]_vars
  PROVE  Inv'
<1>1. CASE UNCHANGED vars
  BY Zenon, <1>1, Stutters
<1>2. CASE \E t \in Procs \cup {Kernel} : Switch(t)
  BY Zenon, <1>2, Keeps_Switch
<1>3. CASE \E p \in Procs : \E cmd \in Commands[p] : process_execute(p, cmd)
  BY Zenon, <1>3, Keeps_process_execute
<1>4. ASSUME NEW p \in Procs,
             LoadPagedir(p) \/ LoadMalloc(p) \/ LoadCopy(p) \/ LoadOpen(p) \/ LoadPhdr(p)
      PROVE  Inv'
  BY Zenon, <1>4, Keeps_LoadPagedir, Keeps_LoadMalloc, Keeps_LoadCopy, Keeps_LoadOpen, Keeps_LoadPhdr
<1>5. ASSUME NEW p \in Procs,
             SegmentPage(p) \/ SegmentFill(p) \/ StackPage(p) \/ setup_stack(p) \/ LoadDone(p)
      PROVE  Inv'
  BY Zenon, <1>5, Keeps_SegmentPage, Keeps_SegmentFill, Keeps_StackPage, Keeps_setup_stack, Keeps_LoadDone
<1>6. ASSUME NEW p \in Procs,
             start_process(p) \/ UserExit(p) \/ ExitForget(p) \/ ExitActivate(p) \/ ExitDestroy(p)
      PROVE  Inv'
  BY Zenon, <1>6, Keeps_start_process, Keeps_UserExit, Keeps_ExitForget, Keeps_ExitActivate, Keeps_ExitDestroy
<1> QED
  BY ZenonT(30), <1>1, <1>2, <1>3, <1>4, <1>5, <1>6 DEF Next
-----------------------------------------------------------------------------
(* What follows                                                              *)

\* The directory of the CPU is one the running process has, and another one than
\* any that is about to be freed.
LEMMA ImpliesActive ==
  ASSUME LoaderAssumption, Inv
  PROVE  ActiveDirectoryLives
<1>1. Tidy /\ CpuOK /\ Distinct(DirOf)
  BY Zenon DEF Inv, Books
<1>2. ASSUME cr3 # Base PROVE cr3 \in DOMAIN mm.pd
  <2>1. running \in Procs /\ cr3 = Dir(running) /\ Dir(running) # NULL
    BY Zenon, <1>1, <1>2 DEF CpuOK, Base
  <2> QED
    BY Zenon, <2>1, HasDirectory
<1>3. ASSUME running # Kernel, pagedir[running] # NULL PROVE cr3 = pagedir[running]
  BY Zenon, <1>1, <1>3 DEF CpuOK
<1>4. ASSUME NEW p \in Procs, proc[p].pc = "destroy", cr3 = proc[p].pd PROVE FALSE
  <2>1. pagedir[p] = NULL /\ proc[p].pd # NULL
    BY Zenon, <1>1, <1>4 DEF Tidy, StateOK
  <2>2. running \in Procs /\ cr3 = Dir(running) /\ proc[running].pc # "destroy"
    BY Zenon, <1>1, <1>4, <2>1 DEF CpuOK
  <2>3. DirOf[p] = proc[p].pd /\ DirOf[running] = cr3
    BY Zenon, <2>1, <2>2 DEF DirOf, Dir
  <2>4. p = running
    BY Zenon, <1>1, <1>4, <2>1, <2>2, <2>3 DEF Distinct
  <2> QED
    BY Zenon, <1>4, <2>2, <2>4
<1> QED
  BY Zenon, <1>2, <1>3, <1>4 DEF ActiveDirectoryLives

\* Different rows point to different pages.
LEMMA FromApart ==
  ASSUME NEW f, NEW N, NEW pool, Once(f, N), NEW R \in SUBSET DOMAIN f, NEW S \in SUBSET DOMAIN f,
         R \cap S = {}
  PROVE  From(f, R, N, pool) \cap From(f, S, N, pool) = {}
<1> SUFFICES ASSUME NEW x \in From(f, R, N, pool), x \in From(f, S, N, pool) PROVE FALSE
  BY Zenon
<1>1. PICK a \in R, i \in N : f[a][i] # ZeroEntry /\ f[a][i].page = x
  BY Zenon DEF From
<1>2. PICK b \in S, j \in N : f[b][j] # ZeroEntry /\ f[b][j].page = x
  BY Zenon DEF From
<1>3. a \in DOMAIN f /\ b \in DOMAIN f /\ a # b
  BY Zenon
<1>4. f[a][i].page = f[b][j].page
  BY Zenon, <1>1, <1>2
<1>5. f[a][i] # ZeroEntry /\ f[b][j] # ZeroEntry
  BY Zenon, <1>1, <1>2
<1>6. a = b
  BY SMT, <1>3, <1>4, <1>5 DEF Once
<1> QED
  BY Zenon, <1>3, <1>6

\* The pages that the tables of two directories, or of one, map.
LEMMA HeldApart ==
  ASSUME Inv, NEW p \in Procs, NEW q \in Procs, p # q
  PROVE  Tables(p) \cap Tables(q) = {} /\ Mapped(p) \cap Mapped(q) = {}
<1> DEFINE a == Dir(p)
           b == Dir(q)
<1>1. Accounts(mm, Vals(FnOf, KernelPages), Vals(KpOf, UserPages)) /\ Distinct(DirOf)
  BY Zenon DEF Inv, Books
<1>2. CASE a = NULL \/ b = NULL
  BY Zenon, <1>2 DEF Tables, Mapped
<1>3. CASE a # NULL /\ b # NULL
  <2>1. a # b
    BY Zenon, <1>1, <1>3 DEF Distinct, DirOf
  <2>2. a \in DOMAIN mm.pd /\ b \in DOMAIN mm.pd
    BY Zenon, <1>3, HasDirectory
  <2>3. /\ Tables(p) = TablesOf(mm, a) /\ Tables(q) = TablesOf(mm, b)
        /\ Mapped(p) = PagesOf(mm, a) /\ Mapped(q) = PagesOf(mm, b)
    BY Zenon, <1>3 DEF Tables, Mapped
  <2> HIDE DEF a, b
  <2> DEFINE S == TablesOf(mm, a)
             T == TablesOf(mm, b)
  <2>4. /\ S = From(mm.pd, {a}, PdeNos, KernelPages) /\ T = From(mm.pd, {b}, PdeNos, KernelPages)
        /\ S \subseteq DOMAIN mm.pt /\ T \subseteq DOMAIN mm.pt
    BY Zenon, <1>1, <2>2, TablesAre
  <2>5. /\ PagesOf(mm, a) = From(mm.pt, S, PteNos, UserPages)
        /\ PagesOf(mm, b) = From(mm.pt, T, PteNos, UserPages)
    BY Zenon, <1>1, <2>2, PagesAre
  <2>6. Once(mm.pd, PdeNos) /\ Once(mm.pt, PteNos)
    BY Zenon, <1>1 DEF Accounts, Array
  <2> HIDE DEF S, T
  <2>7. From(mm.pd, {a}, PdeNos, KernelPages) \cap From(mm.pd, {b}, PdeNos, KernelPages) = {}
    <3>1. {a} \in SUBSET DOMAIN mm.pd /\ {b} \in SUBSET DOMAIN mm.pd /\ {a} \cap {b} = {}
      BY Zenon, <2>1, <2>2
    <3> QED
      BY Zenon, <2>6, <3>1, FromApart
  <2>8. S \cap T = {} /\ S \in SUBSET DOMAIN mm.pt /\ T \in SUBSET DOMAIN mm.pt
    BY Zenon, <2>4, <2>7
  <2>9. From(mm.pt, S, PteNos, UserPages) \cap From(mm.pt, T, PteNos, UserPages) = {}
    BY Zenon, <2>6, <2>8, FromApart
  <2> QED
    BY Zenon, <2>3, <2>5, <2>8, <2>9 DEF S, T
<1> QED
  BY Zenon, <1>2, <1>3

\* All the tables there are, and all the pages mapped, are of processes.
LEMMA HeldAll ==
  ASSUME Inv, Pools
  PROVE  /\ \A p \in Procs : Tables(p) \subseteq DOMAIN mm.pt /\ Mapped(p) \subseteq MappedPages(mm)
         /\ \A t \in DOMAIN mm.pt : \E p \in Procs : t \in Tables(p)
         /\ \A x \in MappedPages(mm) : \E p \in Procs : x \in Mapped(p)
<1>1. Accounts(mm, Vals(FnOf, KernelPages), Vals(KpOf, UserPages)) /\ Vals(DirOf, KernelPages) = DOMAIN mm.pd
  BY Zenon DEF Inv, Books
<1>2. ASSUME NEW p \in Procs
      PROVE  Tables(p) \subseteq DOMAIN mm.pt /\ Mapped(p) \subseteq MappedPages(mm)
  <2>1. CASE Dir(p) = NULL
    BY Zenon, <2>1 DEF Tables, Mapped
  <2>2. CASE Dir(p) # NULL
    <3>1. Dir(p) \in DOMAIN mm.pd
      BY Zenon, <2>2, HasDirectory
    <3>2. TablesOf(mm, Dir(p)) \subseteq DOMAIN mm.pt
      BY Zenon, <1>1, <3>1, TablesAre
    <3>3. PagesOf(mm, Dir(p)) \subseteq MappedPages(mm)
      BY Zenon, <1>1, <3>1, PagesAre
    <3> QED
      BY Zenon, <2>2, <3>2, <3>3 DEF Tables, Mapped
  <2> QED
    BY Zenon, <2>1, <2>2
<1>3. ASSUME NEW t \in DOMAIN mm.pt PROVE \E p \in Procs : t \in Tables(p)
  <2>1. t \in TablePages(mm)
    BY Zenon, <1>1 DEF Accounts
  <2>2. PICK d \in DOMAIN mm.pd : t \in From(mm.pd, {d}, PdeNos, KernelPages)
    BY Zenon, <2>1 DEF TablePages, From
  <2>3. t \in TablesOf(mm, d)
    BY Zenon, <1>1, <2>2, TablesAre
  <2>4. d \in Vals(DirOf, KernelPages)
    BY Zenon, <1>1
  <2>5. PICK p \in Procs : Dir(p) = d /\ d \in KernelPages
    BY Zenon, <2>4 DEF Vals, DirOf
  <2>6. d # NULL
    BY Zenon, <2>5 DEF Pools
  <2> QED
    BY Zenon, <2>3, <2>5, <2>6 DEF Tables
<1>4. ASSUME NEW x \in MappedPages(mm) PROVE \E p \in Procs : x \in Mapped(p)
  <2>1. PICK t \in DOMAIN mm.pt : x \in From(mm.pt, {t}, PteNos, UserPages)
    BY Zenon DEF MappedPages, From
  <2>2. PICK p \in Procs : t \in Tables(p)
    BY Zenon, <1>3
  <2>3. Dir(p) # NULL /\ t \in TablesOf(mm, Dir(p))
    BY Zenon, <2>2 DEF Tables
  <2>4. Dir(p) \in DOMAIN mm.pd
    BY Zenon, <2>3, HasDirectory
  <2>5. PagesOf(mm, Dir(p)) = From(mm.pt, TablesOf(mm, Dir(p)), PteNos, UserPages)
    BY Zenon, <1>1, <2>4, PagesAre
  <2>6. x \in From(mm.pt, TablesOf(mm, Dir(p)), PteNos, UserPages)
    BY Zenon, <2>1, <2>3 DEF From
  <2> QED
    BY Zenon, <2>3, <2>5, <2>6 DEF Mapped
<1> QED
  BY Zenon, <1>2, <1>3, <1>4

\* The pages of the pools by what they are used for.
Uses(K, U, D, T, M, k, u) ==
  /\ K \cup D \cup T \cup k = KernelPages /\ U \cup M \cup u = UserPages
  /\ K \cap D = {} /\ K \cap T = {} /\ K \cap k = {} /\ D \cap T = {} /\ D \cap k = {} /\ T \cap k = {}
  /\ U \cap M = {} /\ U \cap u = {} /\ M \cap u = {}
  /\ KernelPages \cap UserPages = {} /\ NULL \notin KernelPages /\ NULL \notin UserPages
Uses0 == Uses(Vals(FnOf, KernelPages), Vals(KpOf, UserPages), DOMAIN mm.pd, DOMAIN mm.pt,
              MappedPages(mm), mm.kernel, mm.user)

\* The uses are disjoint, and no page is without.
LEMMA UsesAre ==
  ASSUME LoaderAssumption, Inv
  PROVE  Uses0
<1> DEFINE K == Vals(FnOf, KernelPages)
           U == Vals(KpOf, UserPages)
           D == DOMAIN mm.pd
           T == DOMAIN mm.pt
           M == MappedPages(mm)
<1>1. Split4(KernelPages, mm.kernel, D, T, K) /\ Split3(UserPages, mm.user, M, U)
  BY Zenon DEF Inv, Books, Accounts
<1>2. KernelPages \cap UserPages = {} /\ NULL \notin KernelPages /\ NULL \notin UserPages
  BY Zenon DEF LoaderAssumption
<1>3. Uses(K, U, D, T, M, mm.kernel, mm.user)
  <2> HIDE DEF K, U, D, T, M
  <2> QED
    BY Zenon, <1>1, <1>2 DEF Split3, Split4, Uses
<1> QED
  BY Zenon, <1>3 DEF Uses0

\* What a process holds is in use for what the process holds it for.
HeldFor(p, K, U, D, T, M) ==
  /\ proc[p].fn_copy # NULL => proc[p].fn_copy \in K
  /\ proc[p].kpage # NULL => proc[p].kpage \in U
  /\ Dir(p) # NULL => Dir(p) \in D
  /\ Tables(p) \subseteq T /\ Mapped(p) \subseteq M
HeldFor0(p) ==
  HeldFor(p, Vals(FnOf, KernelPages), Vals(KpOf, UserPages), DOMAIN mm.pd, DOMAIN mm.pt, MappedPages(mm))

\* Each process holds only pages in use.
LEMMA HeldIs ==
  ASSUME LoaderAssumption, Inv, NEW p \in Procs
  PROVE  HeldFor0(p)
<1>1. StateOK(proc[p], pagedir[p])
  BY Zenon DEF Inv, Tidy
<1>2. proc[p].fn_copy # NULL => proc[p].fn_copy \in Vals(FnOf, KernelPages)
  BY Zenon, <1>1 DEF StateOK, Vals, FnOf
<1>3. proc[p].kpage # NULL => proc[p].kpage \in Vals(KpOf, UserPages)
  BY Zenon, <1>1 DEF StateOK, Vals, KpOf
<1>4. Dir(p) # NULL => Dir(p) \in DOMAIN mm.pd
  BY Zenon, HasDirectory
<1>5. Tables(p) \subseteq DOMAIN mm.pt /\ Mapped(p) \subseteq MappedPages(mm)
  BY Zenon, HeldAll, PoolsApart
<1> QED
  BY Zenon, <1>2, <1>3, <1>4, <1>5 DEF HeldFor0, HeldFor

\* A process holds no page in two ways.
LEMMA HoldsOnce ==
  ASSUME LoaderAssumption, Inv, NEW p \in Procs
  PROVE  HeldOnce(p)
<1> DEFINE K == Vals(FnOf, KernelPages)
           U == Vals(KpOf, UserPages)
           D == DOMAIN mm.pd
           T == DOMAIN mm.pt
           M == MappedPages(mm)
           fn == proc[p].fn_copy
           kp == proc[p].kpage
           d == Dir(p)
           t == Tables(p)
           m == Mapped(p)
<1>1. Uses(K, U, D, T, M, mm.kernel, mm.user)
  BY Zenon, UsesAre DEF Uses0
<1>2. /\ (fn # NULL => fn \in K) /\ (kp # NULL => kp \in U) /\ (d # NULL => d \in D)
      /\ t \subseteq T /\ m \subseteq M
  BY Zenon, HeldIs DEF HeldFor0, HeldFor
<1>3. /\ fn # NULL => fn \notin {kp, d} \cup t \cup m
      /\ kp # NULL => kp \notin {d} \cup t \cup m
      /\ d \notin t \cup m /\ t \cap m = {}
  <2> HIDE DEF K, U, D, T, M, fn, kp, d, t, m
  <2>1. /\ K \subseteq KernelPages /\ D \subseteq KernelPages /\ T \subseteq KernelPages
        /\ U \subseteq UserPages /\ M \subseteq UserPages
        /\ NULL \notin KernelPages /\ NULL \notin UserPages /\ KernelPages \cap UserPages = {}
        /\ K \cap D = {} /\ K \cap T = {} /\ D \cap T = {} /\ U \cap M = {}
    BY Zenon, <1>1 DEF Uses
  <2>2. fn # NULL => fn # kp /\ fn # d /\ fn \notin t /\ fn \notin m
    BY Zenon, <1>2, <2>1
  <2>3. kp # NULL => kp # d /\ kp \notin t /\ kp \notin m
    BY Zenon, <1>2, <2>1
  <2>4. d \notin t /\ d \notin m /\ t \cap m = {}
    BY Zenon, <1>2, <2>1
  <2> QED
    BY Zenon, <2>2, <2>3, <2>4
<1>4. ASSUME d # NULL PROVE PointOnce(mm.pd, {d}) /\ PointOnce(mm.pt, t)
  <2>1. Array(mm.pd, PdeNos, KernelPages) /\ Array(mm.pt, PteNos, UserPages)
    BY Zenon DEF Inv, Books, Accounts
  <2>2. d \in D /\ t \subseteq T
    BY Zenon, <1>2, <1>4
  <2>3. ASSUME NEW f, NEW N, NEW pool, Array(f, N, pool), NEW rows \in SUBSET DOMAIN f
        PROVE  PointOnce(f, rows)
    <3>1. ASSUME NEW a \in rows PROVE DOMAIN f[a] = N /\ \A i \in N : f[a][i] \in EntriesOf(pool)
      BY Zenon, <2>3 DEF Array
    <3>2. ASSUME NEW a \in rows, NEW i \in DOMAIN f[a], present(f[a][i]) PROVE i \in N /\ f[a][i] # ZeroEntry
      BY Zenon, <3>1, <3>2, Presents
    <3> SUFFICES ASSUME NEW a \in rows, NEW b \in rows, NEW i \in DOMAIN f[a], NEW j \in DOMAIN f[b],
                        present(f[a][i]), present(f[b][j]), f[a][i].page = f[b][j].page
                 PROVE  a = b /\ i = j
      BY Zenon DEF PointOnce
    <3>3. i \in N /\ f[a][i] # ZeroEntry /\ j \in N /\ f[b][j] # ZeroEntry /\ a \in DOMAIN f /\ b \in DOMAIN f
      BY Zenon, <3>2
    <3> QED
      BY ZenonT(30), <2>3, <3>3 DEF Array, Once
  <2> HIDE DEF d, t
  <2>4. {d} \in SUBSET DOMAIN mm.pd /\ t \in SUBSET DOMAIN mm.pt
    BY Zenon, <2>2
  <2> QED
    BY Zenon, <2>1, <2>3, <2>4
<1> QED
  BY Zenon, <1>3, <1>4 DEF HeldOnce

\* No two processes hold one page.
LEMMA HoldApart ==
  ASSUME LoaderAssumption, Inv, NEW p \in Procs, NEW q \in Procs, p # q
  PROVE  HeldPages(p) \cap HeldPages(q) = {}
<1> DEFINE K == Vals(FnOf, KernelPages)
           U == Vals(KpOf, UserPages)
           D == DOMAIN mm.pd
           T == DOMAIN mm.pt
           M == MappedPages(mm)
           f1 == proc[p].fn_copy
           k1 == proc[p].kpage
           d1 == Dir(p)
           t1 == Tables(p)
           m1 == Mapped(p)
           f2 == proc[q].fn_copy
           k2 == proc[q].kpage
           d2 == Dir(q)
           t2 == Tables(q)
           m2 == Mapped(q)
<1>1. Uses(K, U, D, T, M, mm.kernel, mm.user)
  BY Zenon, UsesAre DEF Uses0
<1>2. /\ (f1 # NULL => f1 \in K) /\ (k1 # NULL => k1 \in U) /\ (d1 # NULL => d1 \in D)
      /\ t1 \subseteq T /\ m1 \subseteq M
  BY Zenon, HeldIs DEF HeldFor0, HeldFor
<1>3. /\ (f2 # NULL => f2 \in K) /\ (k2 # NULL => k2 \in U) /\ (d2 # NULL => d2 \in D)
      /\ t2 \subseteq T /\ m2 \subseteq M
  BY Zenon, HeldIs DEF HeldFor0, HeldFor
<1>4. Distinct(FnOf) /\ Distinct(KpOf) /\ Distinct(DirOf)
  BY Zenon DEF Inv, Books
<1>5. (f1 # NULL => f1 # f2) /\ (k1 # NULL => k1 # k2) /\ (d1 # NULL => d1 # d2)
  BY Zenon, <1>4 DEF Distinct, FnOf, KpOf, DirOf
<1>6. t1 \cap t2 = {} /\ m1 \cap m2 = {}
  BY Zenon, HeldApart
<1>7. /\ HeldPages(p) = ({f1, k1, d1} \ {NULL}) \cup t1 \cup m1 
      /\ HeldPages(q) = ({f2, k2, d2} \ {NULL}) \cup t2 \cup m2
  BY Zenon DEF HeldPages
<1> HIDE DEF K, U, D, T, M, f1, k1, d1, t1, m1, f2, k2, d2, t2, m2
<1>8. /\ K \subseteq KernelPages /\ D \subseteq KernelPages /\ T \subseteq KernelPages
      /\ U \subseteq UserPages /\ M \subseteq UserPages /\ KernelPages \cap UserPages = {}
      /\ K \cap D = {} /\ K \cap T = {} /\ D \cap T = {} /\ U \cap M = {}
  BY Zenon, <1>1 DEF Uses
<1>9. ASSUME NEW x, x # NULL, x = f1 \/ x = k1 \/ x = d1 \/ x \in t1 \/ x \in m1,
             x = f2 \/ x = k2 \/ x = d2 \/ x \in t2 \/ x \in m2
      PROVE  FALSE
  <2>0. /\ x \in K => x \notin U /\ x \notin D /\ x \notin T /\ x \notin M
        /\ x \in U => x \notin D /\ x \notin T /\ x \notin M
        /\ x \in D => x \notin T /\ x \notin M
        /\ x \in T => x \notin M
    BY ZenonT(30), <1>8
  <2>1. CASE x = f1
    BY SMTT(30), <1>2, <1>3, <1>5, <1>9, <2>0, <2>1
  <2>2. CASE x = k1
    BY SMTT(30), <1>2, <1>3, <1>5, <1>9, <2>0, <2>2
  <2>3. CASE x = d1
    BY SMTT(30), <1>2, <1>3, <1>5, <1>9, <2>0, <2>3
  <2>4. CASE x \in t1
    BY SMTT(30), <1>2, <1>3, <1>6, <1>9, <2>0, <2>4
  <2>5. CASE x \in m1
    BY SMTT(30), <1>2, <1>3, <1>6, <1>9, <2>0, <2>5
  <2> QED
    BY ZenonT(30), <1>9, <2>1, <2>2, <2>3, <2>4, <2>5
<1>10. NULL \notin t1 /\ NULL \notin m1
  BY Zenon, <1>1, <1>2, <1>8 DEF Uses
<1>11. ASSUME NEW x, x \in ({f1, k1, d1} \ {NULL}) \cup t1 \cup m1,
              x \in ({f2, k2, d2} \ {NULL}) \cup t2 \cup m2
       PROVE  FALSE
  <2>1. /\ x # NULL /\ (x = f1 \/ x = k1 \/ x = d1 \/ x \in t1 \/ x \in m1)
        /\ (x = f2 \/ x = k2 \/ x = d2 \/ x \in t2 \/ x \in m2)
    BY Zenon, <1>10, <1>11
  <2> QED
    BY Zenon, <1>9, <2>1
<1> QED
  BY Zenon, <1>7, <1>11

\* The pages in use are the ones that processes hold.
LEMMA ImpliesAccounted ==
  ASSUME LoaderAssumption, Inv
  PROVE  PagesAccounted
<1> DEFINE K == Vals(FnOf, KernelPages)
           U == Vals(KpOf, UserPages)
           D == DOMAIN mm.pd
           T == DOMAIN mm.pt
           M == MappedPages(mm)
           held == UNION {HeldPages(p) : p \in Procs}
           free == mm.kernel \cup mm.user
<1>1. Uses(K, U, D, T, M, mm.kernel, mm.user)
  BY Zenon, UsesAre DEF Uses0
<1>2. ASSUME NEW p \in Procs PROVE HeldPages(p) \subseteq K \cup U \cup D \cup T \cup M
  <2>1. /\ proc[p].fn_copy # NULL => proc[p].fn_copy \in K
        /\ proc[p].kpage # NULL => proc[p].kpage \in U
        /\ Dir(p) # NULL => Dir(p) \in D
        /\ Tables(p) \subseteq T /\ Mapped(p) \subseteq M
    BY Zenon, HeldIs DEF HeldFor0, HeldFor
  <2> HIDE DEF K, U, D, T, M
  <2> QED
    BY Zenon, <2>1 DEF HeldPages
<1>3. ASSUME NEW x \in K \cup U \cup D \cup T \cup M PROVE \E p \in Procs : x \in HeldPages(p)
  <2>0. Pools /\ Vals(DirOf, KernelPages) = D
    BY Zenon, PoolsApart DEF Inv, Books
  <2>1. CASE x \in K
    <3>1. PICK p \in Procs : proc[p].fn_copy = x /\ x # NULL
      BY Zenon, <2>0, <2>1 DEF Vals, FnOf, Pools
    <3> QED
      BY Zenon, <3>1 DEF HeldPages
  <2>2. CASE x \in U
    <3>1. PICK p \in Procs : proc[p].kpage = x /\ x # NULL
      BY Zenon, <2>0, <2>2 DEF Vals, KpOf, Pools
    <3> QED
      BY Zenon, <3>1 DEF HeldPages
  <2>3. CASE x \in D
    <3>0. x \in Vals(DirOf, KernelPages)
      BY Zenon, <2>0, <2>3
    <3>1. PICK p \in Procs : Dir(p) = x /\ x # NULL
      BY Zenon, <2>0, <3>0 DEF Vals, DirOf, Pools
    <3> QED
      BY Zenon, <3>1 DEF HeldPages
  <2>4. CASE x \in T
    BY Zenon, <2>0, <2>4, HeldAll DEF HeldPages
  <2>5. CASE x \in M
    BY Zenon, <2>0, <2>5, HeldAll DEF HeldPages
  <2> QED
    BY ZenonT(30), <1>3, <2>1, <2>2, <2>3, <2>4, <2>5
<1>4. held = K \cup U \cup D \cup T \cup M
  <2> HIDE DEF K, U, D, T, M
  <2> QED
    BY Zenon, <1>2, <1>3
<1>5. /\ held \cap free = {} /\ held \cup free = KernelPages \cup UserPages
      /\ mm.kernel \subseteq KernelPages /\ mm.user \subseteq UserPages
  <2> HIDE DEF K, U, D, T, M, held
  <2>1. (K \cup U \cup D \cup T \cup M) \cup free = KernelPages \cup UserPages
    BY Zenon, <1>1 DEF Uses
  <2>2. (K \cup U \cup D \cup T \cup M) \cap free = {}
    BY Zenon, <1>1 DEF Uses
  <2>3. mm.kernel \subseteq KernelPages /\ mm.user \subseteq UserPages
    BY Zenon, <1>1 DEF Uses
  <2> QED
    BY Zenon, <1>4, <2>1, <2>2, <2>3
<1>6. \A p \in Procs : HeldOnce(p)
  BY Zenon, HoldsOnce
<1>7. \A p, q \in Procs : p # q => HeldPages(p) \cap HeldPages(q) = {}
  BY Zenon, HoldApart
<1> HIDE DEF held, free
<1> QED
  BY Zenon, <1>5, <1>6, <1>7 DEF PagesAccounted, held, free
-----------------------------------------------------------------------------
(* Theorems                                                                  *)

INSTANCE WellFoundedInduction

\* A set of numbers that is not empty has a smallest one.
LEMMA FirstPage == HasFirst
<1> SUFFICES ASSUME NEW S \in SUBSET Nat, S # {} PROVE Min(S) \in S
  BY Zenon DEF HasFirst
<1>1. PICK x \in S : \A y \in S : <<y, x>> \notin OpToRel(<, Nat)
  BY Zenon, WFMin, NatLessThanWellFounded
<1>2. ASSUME NEW y \in S PROVE x <= y
  <2>1. x \in Nat /\ y \in Nat
    BY Zenon
  <2>2. y < x => <<y, x>> \in OpToRel(<, Nat)
    BY Zenon, <2>1 DEF OpToRel
  <2>3. ~(y < x)
    BY Zenon, <1>1, <2>2
  <2> QED
    BY SMTT(30), <2>1, <2>3
<1> QED
  BY Zenon, <1>2 DEF Min

\* A segment that validate_segment accepts is loaded to whole user pages that hold
\* all of it and no page more, for a program header of any words and pages of any
\* size: the assertions at the start of load_segment hold.
THEOREM SegmentsInUserSpace ==
  ASSUME LoaderAssumption, NEW length, NEW phdr,
         phdr.p_offset \in Nat, phdr.p_vaddr \in 0..AddressSpace - 1,
         phdr.p_filesz \in Nat, phdr.p_memsz \in 0..AddressSpace - 1
  PROVE  SegmentInUserSpace(phdr, length)
<1> DEFINE s == SegmentOf(phdr)
           v == phdr.p_vaddr
           n == phdr.p_memsz
<1> SUFFICES ASSUME validate_segment(phdr, length)
             PROVE  /\ (s.read_bytes + s.zero_bytes) % PGSIZE = 0
                    /\ PGSIZE <= s.upage /\ s.upage <= v
                    /\ v + n <= s.upage + s.read_bytes + s.zero_bytes
                    /\ s.upage + s.read_bytes + s.zero_bytes < v + n + PGSIZE
                    /\ s.upage + s.read_bytes + s.zero_bytes <= PHYS_BASE
  BY Zenon DEF SegmentInUserSpace
<1>0. Sizes /\ PGSIZE \in Nat \ {0}
  BY Zenon DEF LoaderAssumption, Sizes
<1>1. s = SegmentOf(phdr)
  BY Zenon
<1> HIDE DEF s
<1>2. /\ s.upage \in Nat /\ s.read_bytes \in Nat /\ s.zero_bytes \in Nat
      /\ PGSIZE <= s.upage /\ s.upage <= v
      /\ \E k \in Nat : /\ s.read_bytes + s.zero_bytes = k * PGSIZE
                        /\ v + n <= s.upage + k * PGSIZE
                        /\ s.upage + k * PGSIZE < v + n + PGSIZE
                        /\ s.upage + k * PGSIZE <= PHYS_BASE
  BY ZenonT(30), <1>0, <1>1, SegmentFits
<1>3. PICK k \in Nat : /\ s.read_bytes + s.zero_bytes = k * PGSIZE
                       /\ v + n <= s.upage + k * PGSIZE
                       /\ s.upage + k * PGSIZE < v + n + PGSIZE
                       /\ s.upage + k * PGSIZE <= PHYS_BASE
  BY Zenon, <1>2
<1>4. s.upage + s.read_bytes + s.zero_bytes = s.upage + (s.read_bytes + s.zero_bytes)
  BY <1>2
<1>5. (k * PGSIZE) % PGSIZE = 0
  <2> DEFINE g == PGSIZE
  <2>1. g \in Nat \ {0}
    BY Zenon, <1>0
  <2> HIDE DEF g
  <2>2. (k * g) % g = 0
    BY <2>1
  <2> QED
    BY Zenon, <2>2 DEF g
<1> QED
  BY ZenonT(30), <1>2, <1>3, <1>4, <1>5

\* For any processes, executables and pools, every page of the pools is free in
\* its pool or held by one process in one way, however loads that fail anywhere,
\* exits and switches interleave: the error paths of load, install_page and
\* process_exit leak no page and free none twice.
THEOREM PagesStayAccounted ==
  ASSUME LoaderAssumption
  PROVE  Spec => []PagesAccounted
<1>1. Init => Inv
  BY Zenon, InitInv
<1>2. Inv /\ [Next]_vars => Inv'
  BY Zenon, NextInv, FirstPage
<1>3. Inv => PagesAccounted
  BY Zenon, ImpliesAccounted
<1> QED
  BY <1>1, <1>2, <1>3, PTL DEF Spec

\* The CPU's page directory is the running thread's or the kernel's, and never one
\* that is freed or that process_exit is about to free: the order of the
\* assignments in process_exit suffices, a switch between any two included.
THEOREM DirectoryStaysAlive ==
  ASSUME LoaderAssumption
  PROVE  Spec => []ActiveDirectoryLives
<1>1. Init => Inv
  BY Zenon, InitInv
<1>2. Inv /\ [Next]_vars => Inv'
  BY Zenon, NextInv, FirstPage
<1>3. Inv => ActiveDirectoryLives
  BY Zenon, ImpliesActive
<1> QED
  BY <1>1, <1>2, <1>3, PTL DEF Spec
=============================================================================
