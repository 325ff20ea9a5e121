----------------------------- MODULE CpuProofs -----------------------------
(***************************************************************************)
(* Proofs about what the kernel and the CPU tell each other.  Interrupt,   *)
(* for any threads and any interrupt lines: the interrupt context is what  *)
(* intr_context() says, whatever is nested and whichever threads are       *)
(* switched in and out by the handlers.  Pagedir, for any number of pages  *)
(* and tables of any size: what the CPU did to a page is in the page's     *)
(* entry until the kernel clears it.                                       *)
(***************************************************************************)
EXTENDS Interrupt, Pagedir, FiniteSetTheorems, TLAPS

-----------------------------------------------------------------------------
(* Page directories                                                          *)

PdeNos == DOMAIN init_page_dir
PteNos == DOMAIN ZeroTable
Flags == {"P", "U", "W", "A", "D"}
Ptes == [page : UserPages \cup {NULL}, flags : SUBSET Flags]
Pdes == {ZeroEntry} \cup {pde_create(t) : t \in KernelPages}

\* No table is in two places.
OnePlace(dirs) ==
  \A pd, qd \in DOMAIN dirs, i, j \in PdeNos :
    /\ dirs[pd][i] # ZeroEntry /\ dirs[qd][j] # ZeroEntry
    /\ pde_get_pt(dirs[pd][i]) = pde_get_pt(dirs[qd][j])
    => pd = qd /\ i = j

\* A directory has tables of its own, none of them free.
WellFormed(mm) ==
  /\ mm = [pd |-> mm.pd, pt |-> mm.pt, kernel |-> mm.kernel, user |-> mm.user]
  /\ mm.kernel \subseteq KernelPages
  /\ mm.pd \in [DOMAIN mm.pd -> [PdeNos -> Pdes]]
  /\ mm.pt \in [DOMAIN mm.pt -> [PteNos -> Ptes]]
  /\ DOMAIN mm.pt \cap mm.kernel = {}
  /\ \A pd \in DOMAIN mm.pd, i \in PdeNos :
       mm.pd[pd][i] # ZeroEntry => pde_get_pt(mm.pd[pd][i]) \in DOMAIN mm.pt
  /\ OnePlace(mm.pd)

\* An entry the CPU has cached was walked to when it was present, and has at
\* least the flags of the copy.
CacheOK ==
  /\ DOMAIN tlb \subseteq Vpages
  /\ \A va \in DOMAIN tlb : "P" \in tlb[va] /\ tlb[va] \subseteq lookup_page(tables, cr3, va).flags

\* The bits of what was done are in the entry.
TouchedOK ==
  /\ touched \in [Dirs -> [Vpages -> SUBSET {"A", "D"}]]
  /\ \A pd \in Dirs, va \in Vpages : touched[pd][va] \subseteq lookup_page(tables, pd, va).flags

TablesOK == WellFormed(tables) /\ cr3 \in Dirs /\ CacheOK /\ TouchedOK

\* palloc_get_page returns a page of the pool.
HasFirst == \A S \in SUBSET Nat : S # {} => Min(S) \in S

-----------------------------------------------------------------------------
(* Page tables                                                               *)

\* What With does.
LEMMA WithIs ==
  ASSUME NEW f, NEW x, NEW y
  PROVE  /\ DOMAIN With(f, x, y) = DOMAIN f \cup {x}
         /\ With(f, x, y)[x] = y
         /\ \A z \in DOMAIN f : z # x => With(f, x, y)[z] = f[z]
         /\ With(f, x, y) = [z \in DOMAIN With(f, x, y) |-> With(f, x, y)[z]]
BY Zenon DEF With

\* An entry that is not there has no flags.
LEMMA EntryTypes ==
  ASSUME NEW mm, WellFormed(mm), NEW pd \in DOMAIN mm.pd, NEW va,
         pd_no(va) \in PdeNos, pt_no(va) \in PteNos
  PROVE  /\ lookup_page(mm, pd, va) \in Ptes
         /\ lookup_page(mm, pd, va).flags # {} => HasTable(mm, pd, va)
<1>1. ZeroEntry \in Ptes /\ ZeroEntry.flags = {}
  BY Zenon DEF ZeroEntry, Ptes, NULL
<1>2. HasTable(mm, pd, va) => pde_get_pt(mm.pd[pd][pd_no(va)]) \in DOMAIN mm.pt
  BY Zenon DEF WellFormed, HasTable
<1>3. HasTable(mm, pd, va) => lookup_page(mm, pd, va) \in Ptes
  BY Zenon, <1>2 DEF WellFormed, lookup_page
<1> QED
  BY Zenon, <1>1, <1>3 DEF lookup_page

\* Where the entry of a page is.
Place(mm, pd, va) == pde_get_pt(mm.pd[pd][pd_no(va)])

\* SetEntry changes that entry and no other.
LEMMA SetsEntry ==
  ASSUME PagedirAssumption,
         NEW mm, WellFormed(mm), NEW pd \in DOMAIN mm.pd, NEW va \in Vpages,
         HasTable(mm, pd, va), NEW pte \in Ptes, NEW m, m = SetEntry(mm, pd, va, pte)
  PROVE  /\ WellFormed(m) /\ m.pd = mm.pd
         /\ lookup_page(m, pd, va) = pte
         /\ \A qd \in DOMAIN mm.pd, vb \in Vpages : qd # pd \/ vb # va =>
              lookup_page(m, qd, vb) = lookup_page(mm, qd, vb)
<1> DEFINE t == Place(mm, pd, va)
           i == pt_no(va)
<1>1. pd_no(va) \in PdeNos /\ i \in PteNos
  BY Zenon DEF PagedirAssumption, PdeNos, PteNos
<1>2. t \in DOMAIN mm.pt
  BY Zenon, <1>1 DEF HasTable, WellFormed, Place
<1>3. m = [mm EXCEPT !.pt[t][i] = pte]
  BY Zenon DEF SetEntry, Place
<1> HIDE DEF t, i
<1>4. /\ m = [pd |-> m.pd, pt |-> m.pt, kernel |-> m.kernel, user |-> m.user]
      /\ m.pd = mm.pd /\ m.kernel = mm.kernel
      /\ m.pt = [mm.pt EXCEPT ![t][i] = pte]
  BY ZenonT(30), <1>3 DEF WellFormed
<1>5. /\ DOMAIN m.pt = DOMAIN mm.pt
      /\ m.pt \in [DOMAIN m.pt -> [PteNos -> Ptes]]
      /\ m.pt[t][i] = pte
      /\ \A u \in DOMAIN mm.pt, j \in PteNos : u # t \/ j # i => m.pt[u][j] = mm.pt[u][j]
  BY <1>1, <1>2, <1>4 DEF WellFormed
<1>6. WellFormed(m)
  <2>1. OnePlace(m.pd)
    BY Zenon, <1>4 DEF WellFormed
  <2>2. DOMAIN m.pt \cap m.kernel = {} /\ m.kernel \subseteq KernelPages
    BY Zenon, <1>4, <1>5 DEF WellFormed
  <2>3. m.pd \in [DOMAIN m.pd -> [PdeNos -> Pdes]]
    BY Zenon, <1>4 DEF WellFormed
  <2>4. \A qd \in DOMAIN m.pd, j \in PdeNos :
          m.pd[qd][j] # ZeroEntry => pde_get_pt(m.pd[qd][j]) \in DOMAIN m.pt
    BY ZenonT(90), <1>4, <1>5 DEF WellFormed
  <2> QED
    BY ZenonT(30), <1>4, <1>5, <2>1, <2>2, <2>3, <2>4 DEF WellFormed
<1>7. lookup_page(m, pd, va) = pte
  BY Zenon, <1>4, <1>5 DEF lookup_page, HasTable, t, i, Place
<1>8. ASSUME NEW qd \in DOMAIN mm.pd, NEW vb \in Vpages, qd # pd \/ vb # va
      PROVE  lookup_page(m, qd, vb) = lookup_page(mm, qd, vb)
  <2>1. pd_no(vb) \in PdeNos /\ pt_no(vb) \in PteNos
    BY Zenon DEF PagedirAssumption, PdeNos, PteNos
  <2>2. CASE HasTable(mm, qd, vb)
    <3>1. Place(mm, qd, vb) \in DOMAIN mm.pt
      BY Zenon, <2>1, <2>2 DEF HasTable, WellFormed, Place
    <3>2. Place(mm, qd, vb) # t \/ pt_no(vb) # i
      <4>1. Place(mm, qd, vb) = t => qd = pd /\ pd_no(vb) = pd_no(va)
        <5>1. OnePlace(mm.pd)
          BY Zenon DEF WellFormed
        <5> QED
          BY ZenonT(90), <1>1, <2>1, <2>2, <5>1 DEF HasTable, OnePlace, Place, t
      <4>2. pd_no(vb) = pd_no(va) /\ pt_no(vb) = i => vb = va
        BY Zenon DEF PagedirAssumption, i
      <4> QED
        BY Zenon, <1>8, <4>1, <4>2
    <3>3. m.pt[Place(mm, qd, vb)][pt_no(vb)] = mm.pt[Place(mm, qd, vb)][pt_no(vb)]
      BY Zenon, <1>5, <2>1, <3>1, <3>2
    <3> QED
      BY Zenon, <1>4, <2>2, <3>3 DEF HasTable, lookup_page, Place
  <2>3. CASE ~HasTable(mm, qd, vb)
    BY Zenon, <1>4, <2>3 DEF HasTable, lookup_page
  <2> QED
    BY Zenon, <2>2, <2>3
<1> QED
  BY Zenon, <1>4, <1>6, <1>7, <1>8

\* A new table is one that no directory has.
LEMMA CreatesTable ==
  ASSUME PagedirAssumption, HasFirst,
         NEW mm, WellFormed(mm), NEW pd \in DOMAIN mm.pd, NEW va \in Vpages,
         ~HasTable(mm, pd, va), HasKernelPage(mm), NEW m, m = CreateTable(mm, pd, va)
  PROVE  /\ WellFormed(m) /\ DOMAIN m.pd = DOMAIN mm.pd
         /\ HasTable(m, pd, va)
         /\ \A qd \in DOMAIN mm.pd, vb \in Vpages :
              lookup_page(m, qd, vb) = lookup_page(mm, qd, vb)
<1> DEFINE t == KernelPage(mm)
           n == pd_no(va)
<1>1. n \in PdeNos
  BY Zenon DEF PagedirAssumption, PdeNos, PteNos
<1>2. t \in mm.kernel /\ t \in KernelPages /\ t \notin DOMAIN mm.pt
  BY Zenon DEF HasFirst, PagedirAssumption, WellFormed, KernelPage, HasKernelPage
<1>3. m = [mm EXCEPT !.kernel = mm.kernel \ {t}, !.pt = With(mm.pt, t, ZeroTable),
                     !.pd[pd][n] = pde_create(t)]
  BY Zenon DEF CreateTable
<1> HIDE DEF t, n
<1>4. /\ m = [pd |-> m.pd, pt |-> m.pt, kernel |-> m.kernel, user |-> m.user]
      /\ m.kernel = mm.kernel \ {t}
      /\ m.pt = With(mm.pt, t, ZeroTable)
      /\ m.pd = [mm.pd EXCEPT ![pd][n] = pde_create(t)]
  BY ZenonT(30), <1>3 DEF WellFormed
<1>5. pde_create(t) \in Pdes /\ pde_create(t) # ZeroEntry /\ pde_get_pt(pde_create(t)) = t
  BY ZenonT(30), <1>2 DEF Pdes, pde_create, ZeroEntry, pde_get_pt
<1>6. ZeroTable \in [PteNos -> Ptes] /\ \A j \in PteNos : ZeroTable[j] = ZeroEntry
  BY Zenon DEF ZeroTable, PteNos, Ptes, ZeroEntry, NULL
<1>7. /\ DOMAIN m.pd = DOMAIN mm.pd
      /\ m.pd \in [DOMAIN m.pd -> [PdeNos -> Pdes]]
      /\ m.pd[pd][n] = pde_create(t)
      /\ \A qd \in DOMAIN mm.pd, j \in PdeNos : qd # pd \/ j # n => m.pd[qd][j] = mm.pd[qd][j]
  BY <1>1, <1>4, <1>5 DEF WellFormed
<1>8. /\ DOMAIN m.pt = DOMAIN mm.pt \cup {t} /\ m.pt[t] = ZeroTable
      /\ \A u \in DOMAIN mm.pt : m.pt[u] = mm.pt[u]
      /\ m.pt = [u \in DOMAIN m.pt |-> m.pt[u]]
  <2>1. \A u \in DOMAIN mm.pt : u # t
    BY Zenon, <1>2
  <2> QED
    <3> DEFINE f == With(mm.pt, t, ZeroTable)
    <3>1. /\ DOMAIN f = DOMAIN mm.pt \cup {t} /\ f[t] = ZeroTable
          /\ \A u \in DOMAIN mm.pt : u # t => f[u] = mm.pt[u]
          /\ f = [u \in DOMAIN f |-> f[u]]
      BY Zenon DEF With
    <3>2. m.pt = f
      BY Zenon, <1>4
    <3> HIDE DEF f
    <3> QED
      BY Zenon, <2>1, <3>1, <3>2
<1>9. m.pt \in [DOMAIN m.pt -> [PteNos -> Ptes]]
  <2>1. \A u \in DOMAIN mm.pt : mm.pt[u] \in [PteNos -> Ptes]
    BY Zenon DEF WellFormed
  <2>2. \A u \in DOMAIN m.pt : m.pt[u] \in [PteNos -> Ptes]
    BY Zenon, <1>6, <1>8, <2>1
  <2> HIDE <1>3, <1>4
  <2> QED
    BY ZenonT(30), <1>8, <2>2
<1>10. DOMAIN m.pt \cap m.kernel = {} /\ m.kernel \subseteq KernelPages
  BY Zenon, <1>4, <1>8 DEF WellFormed
<1>11. \A qd \in DOMAIN mm.pd, j \in PdeNos : m.pd[qd][j] # ZeroEntry =>
         \/ qd = pd /\ j = n /\ pde_get_pt(m.pd[qd][j]) = t
         \/ /\ mm.pd[qd][j] # ZeroEntry /\ m.pd[qd][j] = mm.pd[qd][j]
            /\ pde_get_pt(m.pd[qd][j]) \in DOMAIN mm.pt
  BY ZenonT(90), <1>5, <1>7 DEF WellFormed
<1>12. \A qd \in DOMAIN m.pd, j \in PdeNos :
         m.pd[qd][j] # ZeroEntry => pde_get_pt(m.pd[qd][j]) \in DOMAIN m.pt
  BY Zenon, <1>7, <1>8, <1>11
<1>13. ASSUME NEW qd \in DOMAIN m.pd, NEW rd \in DOMAIN m.pd, NEW j \in PdeNos, NEW k \in PdeNos,
              m.pd[qd][j] # ZeroEntry, m.pd[rd][k] # ZeroEntry,
              pde_get_pt(m.pd[qd][j]) = pde_get_pt(m.pd[rd][k])
       PROVE  qd = rd /\ j = k
  <2>1. OnePlace(mm.pd) /\ qd \in DOMAIN mm.pd /\ rd \in DOMAIN mm.pd
    BY Zenon, <1>7 DEF WellFormed
  <2>2. CASE pde_get_pt(m.pd[qd][j]) = t
    <3>1. /\ pde_get_pt(m.pd[qd][j]) \notin DOMAIN mm.pt
          /\ pde_get_pt(m.pd[rd][k]) \notin DOMAIN mm.pt
      BY Zenon, <1>2, <1>13, <2>2
    <3> QED
      BY ZenonT(90), <1>11, <1>13, <2>1, <3>1
  <2>3. CASE pde_get_pt(m.pd[qd][j]) # t
    <3>1. /\ mm.pd[qd][j] # ZeroEntry /\ m.pd[qd][j] = mm.pd[qd][j]
          /\ mm.pd[rd][k] # ZeroEntry /\ m.pd[rd][k] = mm.pd[rd][k]
      BY Zenon, <1>11, <1>13, <2>1, <2>3
    <3>2. pde_get_pt(mm.pd[qd][j]) = pde_get_pt(mm.pd[rd][k])
      BY Zenon, <1>13, <3>1
    <3> QED
      BY Zenon, <2>1, <3>1, <3>2 DEF OnePlace
  <2> QED
    BY Zenon, <2>2, <2>3
<1>14. WellFormed(m)
  <2>1. OnePlace(m.pd)
    <3> SUFFICES ASSUME NEW qd \in DOMAIN m.pd, NEW rd \in DOMAIN m.pd,
                        NEW j \in PdeNos, NEW k \in PdeNos,
                        m.pd[qd][j] # ZeroEntry, m.pd[rd][k] # ZeroEntry,
                        pde_get_pt(m.pd[qd][j]) = pde_get_pt(m.pd[rd][k])
                 PROVE  qd = rd /\ j = k
      BY SMT DEF OnePlace
    <3> QED
      BY Zenon, <1>13
  <2> QED
    BY Zenon, <1>4, <1>7, <1>9, <1>10, <1>12, <2>1 DEF WellFormed
<1>15. HasTable(m, pd, va)
  BY Zenon, <1>5, <1>7 DEF HasTable, n
<1>16. ASSUME NEW qd \in DOMAIN mm.pd, NEW vb \in Vpages
       PROVE  lookup_page(m, qd, vb) = lookup_page(mm, qd, vb)
  <2>1. pd_no(vb) \in PdeNos /\ pt_no(vb) \in PteNos
    BY Zenon DEF PagedirAssumption, PdeNos, PteNos
  <2>2. CASE qd = pd /\ pd_no(vb) = n
    <3>1. ~HasTable(mm, qd, vb) /\ HasTable(m, qd, vb)
      BY Zenon, <1>15, <2>2 DEF HasTable, n
    <3>2. lookup_page(mm, qd, vb) = ZeroEntry
      BY Zenon, <3>1 DEF lookup_page
    <3>3. lookup_page(m, qd, vb) = m.pt[t][pt_no(vb)]
      BY Zenon, <1>5, <1>7, <2>2, <3>1 DEF lookup_page
    <3> QED
      BY Zenon, <1>6, <1>8, <2>1, <3>2, <3>3
  <2>3. CASE ~(qd = pd /\ pd_no(vb) = n)
    <3>1. m.pd[qd][pd_no(vb)] = mm.pd[qd][pd_no(vb)]
      BY Zenon, <1>7, <2>1, <2>3
    <3>2. HasTable(mm, qd, vb) => m.pt[Place(mm, qd, vb)] = mm.pt[Place(mm, qd, vb)]
      BY Zenon, <1>8, <2>1 DEF HasTable, WellFormed, Place
    <3> QED
      BY Zenon, <3>1, <3>2 DEF HasTable, lookup_page, Place
  <2> QED
    BY Zenon, <2>2, <2>3
<1> QED
  BY Zenon, <1>7, <1>14, <1>15, <1>16

\* pagedir_set_page changes the entry of its page and no other.
LEMMA SetsPage ==
  ASSUME PagedirAssumption, HasFirst,
         NEW mm, WellFormed(mm), NEW pd \in DOMAIN mm.pd, NEW va \in Vpages,
         CanSetPage(mm, pd, va), NEW kpage \in UserPages, NEW writable \in BOOLEAN,
         NEW m, m = pagedir_set_page(mm, pd, va, kpage, writable)
  PROVE  /\ WellFormed(m) /\ DOMAIN m.pd = DOMAIN mm.pd
         /\ \A qd \in DOMAIN mm.pd, vb \in Vpages : qd # pd \/ vb # va =>
              lookup_page(m, qd, vb) = lookup_page(mm, qd, vb)
<1> DEFINE n == IF HasTable(mm, pd, va) THEN mm ELSE CreateTable(mm, pd, va)
           pte == pte_create_user(kpage, writable)
<1>1. m = SetEntry(n, pd, va, pte)
  BY Zenon DEF pagedir_set_page
<1>2. pte \in Ptes
  BY Zenon DEF pte_create_user, Ptes, Flags
<1>3. /\ WellFormed(n) /\ DOMAIN n.pd = DOMAIN mm.pd /\ HasTable(n, pd, va)
      /\ \A qd \in DOMAIN mm.pd, vb \in Vpages :
           lookup_page(n, qd, vb) = lookup_page(mm, qd, vb)
  <2>1. CASE HasTable(mm, pd, va)
    BY Zenon, <2>1
  <2>2. CASE ~HasTable(mm, pd, va)
    <3>1. HasKernelPage(mm)
      BY Zenon, <2>2 DEF CanSetPage
    <3>2. n = CreateTable(mm, pd, va)
      BY Zenon, <2>2
    <3> HIDE DEF n
    <3> QED
      BY SMTT(30), <2>2, <3>1, <3>2, CreatesTable
  <2> QED
    BY Zenon, <2>1, <2>2
<1> HIDE DEF n, pte
<1>4. /\ WellFormed(m) /\ m.pd = n.pd
      /\ \A qd \in DOMAIN n.pd, vb \in Vpages : qd # pd \/ vb # va =>
           lookup_page(m, qd, vb) = lookup_page(n, qd, vb)
  <2>1. pd \in DOMAIN n.pd
    BY Zenon, <1>3
  <2> QED
    BY SMTT(30), <1>1, <1>2, <1>3, <2>1, SetsEntry
<1> QED
  BY Zenon, <1>3, <1>4

-----------------------------------------------------------------------------
(* Steps                                                                     *)

\* The entries and the places of the pages the machine uses.
LEMMA Entries ==
  ASSUME PagedirAssumption, TablesOK, NEW pd \in Dirs, NEW va \in Vpages
  PROVE  /\ lookup_page(tables, pd, va) \in Ptes
         /\ lookup_page(tables, pd, va).flags # {} => HasTable(tables, pd, va)
         /\ pd \in DOMAIN tables.pd
<1>1. pd_no(va) \in PdeNos /\ pt_no(va) \in PteNos
  BY Zenon DEF PagedirAssumption, PdeNos, PteNos
<1>2. WellFormed(tables) /\ pd \in DOMAIN tables.pd
  BY Zenon DEF TablesOK, Dirs
<1> QED
  BY Zenon, <1>1, <1>2, EntryTypes

\* A step of the kernel on the entry of va in pd: the TLB is emptied, or it
\* has no copy of that entry, or the entry loses no flag.
LEMMA KernelStep ==
  ASSUME TablesOK, NEW pd \in Dirs, NEW va \in Vpages,
         WellFormed(tables)', Dirs' = Dirs, cr3' = cr3,
         \A qd \in Dirs, vb \in Vpages : qd # pd \/ vb # va =>
           lookup_page(tables', qd, vb) = lookup_page(tables, qd, vb),
         \/ tlb' = << >>
         \/ tlb' = tlb /\ (cr3 = pd => va \notin DOMAIN tlb)
         \/ tlb' = tlb /\ lookup_page(tables, pd, va).flags \subseteq lookup_page(tables', pd, va).flags,
         touched' \in [Dirs -> [Vpages -> SUBSET {"A", "D"}]],
         \A qd \in Dirs, vb \in Vpages : qd # pd \/ vb # va =>
           touched'[qd][vb] = touched[qd][vb],
         touched'[pd][va] \subseteq lookup_page(tables', pd, va).flags
  PROVE  TablesOK'
<1>1. TouchedOK'
  <2>1. \A qd \in Dirs, vb \in Vpages : touched'[qd][vb] \subseteq lookup_page(tables', qd, vb).flags
    BY ZenonT(30) DEF TablesOK, TouchedOK
  <2> QED
    BY Zenon, <2>1 DEF TouchedOK
<1>2. CacheOK'
  <2>1. CASE tlb' = << >>
    BY <2>1 DEF CacheOK
  <2>2. CASE /\ tlb' = tlb
             /\ \/ cr3 = pd => va \notin DOMAIN tlb
                \/ lookup_page(tables, pd, va).flags \subseteq lookup_page(tables', pd, va).flags
    <3>1. ASSUME NEW vb \in DOMAIN tlb
          PROVE  "P" \in tlb[vb] /\ tlb[vb] \subseteq lookup_page(tables', cr3', vb).flags
      <4>1. /\ vb \in Vpages /\ cr3 \in Dirs
            /\ "P" \in tlb[vb] /\ tlb[vb] \subseteq lookup_page(tables, cr3, vb).flags
        BY Zenon DEF TablesOK, CacheOK
      <4>2. CASE cr3 = pd /\ vb = va
        BY Zenon, <2>2, <4>1, <4>2
      <4>3. CASE cr3 # pd \/ vb # va
        <5>1. lookup_page(tables', cr3, vb) = lookup_page(tables, cr3, vb)
          BY Zenon, <4>1, <4>3
        <5> QED
          BY Zenon, <4>1, <5>1
      <4> QED
        BY Zenon, <4>2, <4>3
    <3> QED
      BY Zenon, <2>2, <3>1 DEF TablesOK, CacheOK
  <2> QED
    BY Zenon, <2>1, <2>2
<1> QED
  BY Zenon, <1>1, <1>2 DEF TablesOK

\* The parts of the invariant.
LEMMA TablesParts ==
  TablesOK =>
         /\ WellFormed(tables) /\ cr3 \in Dirs /\ CacheOK /\ TouchedOK
         /\ DOMAIN tlb \subseteq Vpages
         /\ \A va \in DOMAIN tlb : "P" \in tlb[va] /\ tlb[va] \subseteq lookup_page(tables, cr3, va).flags
         /\ touched \in [Dirs -> [Vpages -> SUBSET {"A", "D"}]]
         /\ \A pd \in Dirs, va \in Vpages : touched[pd][va] \subseteq lookup_page(tables, pd, va).flags
BY Zenon DEF TablesOK, CacheOK, TouchedOK

\* pagedir_activate empties the TLB.
LEMMA Keeps_Activate ==
  ASSUME TablesOK, NEW pd \in Dirs, Activate(pd)
  PROVE  TablesOK'
<1>1. tables' = tables /\ touched' = touched /\ tlb' = << >> /\ cr3' = pd
  BY Zenon DEF Activate, pagedir_activate
<1>2. Dirs' = Dirs
  BY Zenon, <1>1 DEF Dirs
<1>3. TouchedOK'
  BY Zenon, <1>1, <1>2, TablesParts DEF TouchedOK
<1>4. CacheOK'
  BY SMTT(30), <1>1 DEF CacheOK
<1> QED
  BY ZenonT(30), <1>1, <1>2, <1>3, <1>4, TablesParts DEF TablesOK

\* pagedir_set_page puts in an entry that was not present, so that the TLB has
\* no copy of it.
LEMMA Keeps_SetPage ==
  ASSUME PagedirAssumption, HasFirst, TablesOK, NEW pd \in Dirs, NEW va \in Vpages,
         NEW kpage \in UserPages, NEW writable \in BOOLEAN, SetPage(pd, va, kpage, writable)
  PROVE  TablesOK'
<1>1. /\ "P" \notin lookup_page(tables, pd, va).flags /\ CanSetPage(tables, pd, va)
      /\ tables' = pagedir_set_page(tables, pd, va, kpage, writable)
      /\ touched' = [touched EXCEPT ![pd][va] = {}]
      /\ cr3' = cr3 /\ tlb' = tlb
  BY Zenon DEF SetPage, Entry, present
<1>2. /\ WellFormed(tables') /\ DOMAIN tables'.pd = DOMAIN tables.pd
      /\ \A qd \in DOMAIN tables.pd, vb \in Vpages : qd # pd \/ vb # va =>
           lookup_page(tables', qd, vb) = lookup_page(tables, qd, vb)
  <2>1. pd \in DOMAIN tables.pd /\ WellFormed(tables)
    BY Zenon, TablesParts DEF Dirs
  <2> QED
    BY SMT, <1>1, <2>1, SetsPage
<1>3. Dirs' = Dirs /\ Dirs = DOMAIN tables.pd
  BY Zenon, <1>2 DEF Dirs
<1>4. cr3 = pd => va \notin DOMAIN tlb
  BY Zenon, <1>1, TablesParts
<1>5. /\ touched' \in [Dirs -> [Vpages -> SUBSET {"A", "D"}]]
      /\ touched'[pd][va] = {}
      /\ \A qd \in Dirs, vb \in Vpages : qd # pd \/ vb # va => touched'[qd][vb] = touched[qd][vb]
  <2>1. touched \in [Dirs -> [Vpages -> SUBSET {"A", "D"}]]
    BY Zenon, TablesParts
  <2> QED
    BY Zenon, <1>1, <2>1
<1>6. touched'[pd][va] \subseteq lookup_page(tables', pd, va).flags
  BY Zenon, <1>5
<1>7. WellFormed(tables)' /\ cr3' = cr3 /\ tlb' = tlb /\ (cr3 = pd => va \notin DOMAIN tlb)
  BY Zenon, <1>1, <1>2, <1>4
<1>8. \A qd \in Dirs, vb \in Vpages : qd # pd \/ vb # va =>
        lookup_page(tables', qd, vb) = lookup_page(tables, qd, vb)
  BY Zenon, <1>2, <1>3
<1> QED
  BY SMTT(30), <1>1, <1>3, <1>5, <1>6, <1>7, <1>8, KernelStep

\* invalidate_pagedir leaves the active directory alone, and no copy of an
\* entry of pd.
LEMMA Invalidates ==
  ASSUME NEW pd, invalidate_pagedir(pd)
  PROVE  cr3' = cr3 /\ (tlb' = << >> \/ (tlb' = tlb /\ cr3 # pd))
BY Zenon DEF invalidate_pagedir, pagedir_activate

\* pagedir_clear_page makes an entry absent and has the TLB forget it.
LEMMA Keeps_pagedir_clear_page ==
  ASSUME PagedirAssumption, TablesOK, NEW pd \in Dirs, NEW va \in Vpages, pagedir_clear_page(pd, va),
         ~UNCHANGED tableVars
  PROVE  TablesOK'
<1> DEFINE old == lookup_page(tables, pd, va)
           pte == [old EXCEPT !.flags = @ \ {"P"}]
<1>1. /\ "P" \in old.flags /\ tables' = SetEntry(tables, pd, va, pte)
      /\ invalidate_pagedir(pd) /\ touched' = touched
  BY Zenon DEF pagedir_clear_page, Entry, present
<1>2. old \in Ptes /\ HasTable(tables, pd, va) /\ pd \in DOMAIN tables.pd
  BY Zenon, <1>1, Entries
<1>3. pte \in Ptes /\ pte.flags = old.flags \ {"P"}
  BY Zenon, <1>2 DEF Ptes
<1> HIDE DEF pte, old
<1>4. /\ WellFormed(tables') /\ tables'.pd = tables.pd /\ lookup_page(tables', pd, va) = pte
      /\ \A qd \in DOMAIN tables.pd, vb \in Vpages : qd # pd \/ vb # va =>
           lookup_page(tables', qd, vb) = lookup_page(tables, qd, vb)
  <2>1. WellFormed(tables)
    BY Zenon, TablesParts
  <2> QED
    BY SMT, <1>1, <1>2, <1>3, <2>1, SetsEntry
<1>5. Dirs' = Dirs /\ Dirs = DOMAIN tables.pd
  BY Zenon, <1>4 DEF Dirs
<1>6. cr3' = cr3 /\ (tlb' = << >> \/ (tlb' = tlb /\ cr3 # pd))
  BY Zenon, <1>1, Invalidates
<1>7. touched'[pd][va] \subseteq lookup_page(tables', pd, va).flags
  <2>1. touched[pd][va] \in SUBSET {"A", "D"} /\ touched[pd][va] \subseteq old.flags
    BY ZenonT(30), TablesParts DEF old
  <2> QED
    BY Zenon, <1>1, <1>3, <1>4, <2>1
<1>8. touched' \in [Dirs -> [Vpages -> SUBSET {"A", "D"}]]
  BY Zenon, <1>1, TablesParts
<1> QED
  BY ZenonT(30), <1>1, <1>4, <1>5, <1>6, <1>7, <1>8, KernelStep

\* pagedir_set_dirty and pagedir_set_accessed: a flag that is set takes
\* nothing away, one that is cleared is cleared in the TLB too.
LEMMA Keeps_pagedir_set_flag ==
  ASSUME PagedirAssumption, TablesOK, NEW pd \in Dirs, NEW va \in Vpages, NEW on \in BOOLEAN,
         NEW flag \in {"A", "D"}, pagedir_set_flag(flag, pd, va, on)
  PROVE  TablesOK'
<1> DEFINE old == lookup_page(tables, pd, va)
           pte == [old EXCEPT !.flags = IF on THEN @ \cup {flag} ELSE @ \ {flag}]
<1>1. /\ HasTable(tables, pd, va) /\ tables' = SetEntry(tables, pd, va, pte)
      /\ on => cr3' = cr3 /\ tlb' = tlb /\ touched' = touched
      /\ ~on => invalidate_pagedir(pd) /\ touched' = [touched EXCEPT ![pd][va] = @ \ {flag}]
  BY Zenon DEF pagedir_set_flag, Entry
<1>2. old \in Ptes /\ pd \in DOMAIN tables.pd
  BY Zenon, Entries
<1>3. /\ pte \in Ptes
      /\ on => pte.flags = old.flags \cup {flag}
      /\ ~on => pte.flags = old.flags \ {flag}
  BY Zenon, <1>2 DEF Ptes, Flags
<1> HIDE DEF pte, old
<1>4. /\ WellFormed(tables') /\ tables'.pd = tables.pd /\ lookup_page(tables', pd, va) = pte
      /\ \A qd \in DOMAIN tables.pd, vb \in Vpages : qd # pd \/ vb # va =>
           lookup_page(tables', qd, vb) = lookup_page(tables, qd, vb)
  <2>1. WellFormed(tables)
    BY Zenon, TablesParts
  <2> QED
    BY SMTT(30), <1>1, <1>2, <1>3, <2>1, SetsEntry
<1>5. Dirs' = Dirs /\ Dirs = DOMAIN tables.pd
  BY Zenon, <1>4 DEF Dirs
<1>6. /\ touched \in [Dirs -> [Vpages -> SUBSET {"A", "D"}]]
      /\ touched[pd][va] \in SUBSET {"A", "D"} /\ touched[pd][va] \subseteq old.flags
  BY ZenonT(30), TablesParts DEF old
<1>7. CASE on
  <2>1. /\ lookup_page(tables, pd, va).flags \subseteq lookup_page(tables', pd, va).flags
        /\ touched'[pd][va] \subseteq lookup_page(tables', pd, va).flags
    BY Zenon, <1>1, <1>3, <1>4, <1>6, <1>7 DEF old
  <2> QED
    <3>1. cr3' = cr3 /\ tlb' = tlb
      BY Zenon, <1>1, <1>7
    <3>2. /\ touched' \in [Dirs -> [Vpages -> SUBSET {"A", "D"}]]
          /\ \A qd \in Dirs, vb \in Vpages : qd # pd \/ vb # va => touched'[qd][vb] = touched[qd][vb]
      BY ZenonT(30), <1>1, <1>6, <1>7
    <3>3. \A qd \in Dirs, vb \in Vpages : qd # pd \/ vb # va =>
            lookup_page(tables', qd, vb) = lookup_page(tables, qd, vb)
      BY Zenon, <1>4, <1>5
    <3> QED
      BY ZenonT(90), <1>4, <1>5, <2>1, <3>1, <3>2, <3>3, KernelStep
<1>8. CASE ~on
  <2>1. cr3' = cr3 /\ (tlb' = << >> \/ (tlb' = tlb /\ cr3 # pd))
    BY Zenon, <1>1, <1>8, Invalidates
  <2>2. /\ touched' \in [Dirs -> [Vpages -> SUBSET {"A", "D"}]]
        /\ touched'[pd][va] = touched[pd][va] \ {flag}
        /\ \A qd \in Dirs, vb \in Vpages : qd # pd \/ vb # va => touched'[qd][vb] = touched[qd][vb]
    BY SMT, <1>1, <1>6, <1>8
  <2>3. touched'[pd][va] \subseteq lookup_page(tables', pd, va).flags
    BY Zenon, <1>3, <1>4, <1>6, <1>8, <2>2
  <2> QED
    BY ZenonT(90), <1>4, <1>5, <2>1, <2>2, <2>3, KernelStep
<1> QED
  BY Zenon, <1>7, <1>8

\* The CPU sets the bits in its copy and, unless the copy had them, in the
\* entry.
LEMMA Keeps_CpuAccess ==
  ASSUME PagedirAssumption, TablesOK, NEW va \in Vpages, NEW write \in BOOLEAN, CpuAccess(va, write)
  PROVE  TablesOK'
<1> DEFINE bits == IF write THEN {"A", "D"} ELSE {"A"}
           old == lookup_page(tables, cr3, va)
           cached == IF va \in DOMAIN tlb THEN tlb[va] ELSE old.flags
           pte == [old EXCEPT !.flags = @ \cup bits]
<1>1. /\ "P" \in cached
      /\ tlb' = With(tlb, va, cached \cup bits)
      /\ touched' = [touched EXCEPT ![cr3][va] = @ \cup bits]
      /\ cr3' = cr3
      /\ \/ tables' = SetEntry(tables, cr3, va, pte)
         \/ tables' = tables /\ bits \subseteq cached
  BY Zenon DEF CpuAccess, Entry
<1>2. bits \subseteq {"A", "D"}
  BY Zenon
<1>3. cached \subseteq old.flags
  BY Zenon, TablesParts
<1>4. /\ old \in Ptes /\ HasTable(tables, cr3, va) /\ cr3 \in DOMAIN tables.pd /\ cr3 \in Dirs
      /\ WellFormed(tables)
  BY Zenon, <1>1, <1>3, Entries, TablesParts
<1> HIDE DEF bits, cached
<1>5. pte \in Ptes /\ pte.flags = old.flags \cup bits
  BY Zenon, <1>2, <1>4 DEF Ptes, Flags
<1> HIDE DEF pte
<1>6. /\ WellFormed(tables') /\ tables'.pd = tables.pd
      /\ old.flags \cup bits \subseteq lookup_page(tables', cr3, va).flags
      /\ \A qd \in DOMAIN tables.pd, vb \in Vpages : qd # cr3 \/ vb # va =>
           lookup_page(tables', qd, vb) = lookup_page(tables, qd, vb)
  <2>1. CASE tables' = SetEntry(tables, cr3, va, pte)
    <3>1. /\ WellFormed(tables') /\ tables'.pd = tables.pd /\ lookup_page(tables', cr3, va) = pte
          /\ \A qd \in DOMAIN tables.pd, vb \in Vpages : qd # cr3 \/ vb # va =>
               lookup_page(tables', qd, vb) = lookup_page(tables, qd, vb)
      BY SMT, <1>4, <1>5, <2>1, SetsEntry
    <3> QED
      BY Zenon, <1>5, <3>1
  <2>2. CASE tables' = tables /\ bits \subseteq cached
    BY Zenon, <1>3, <1>4, <2>2
  <2> QED
    BY Zenon, <1>1, <2>1, <2>2
<1>7. Dirs' = Dirs /\ Dirs = DOMAIN tables.pd
  BY Zenon, <1>6 DEF Dirs
<1>8. TouchedOK'
  <2>1. /\ touched \in [Dirs -> [Vpages -> SUBSET {"A", "D"}]]
        /\ touched[cr3][va] \subseteq old.flags
    BY Zenon, <1>4, TablesParts
  <2>2. /\ touched' \in [Dirs -> [Vpages -> SUBSET {"A", "D"}]]
        /\ touched'[cr3][va] = touched[cr3][va] \cup bits
        /\ \A qd \in Dirs, vb \in Vpages : qd # cr3 \/ vb # va => touched'[qd][vb] = touched[qd][vb]
    <3>1. touched' = [touched EXCEPT ![cr3] = [touched[cr3] EXCEPT ![va] = touched[cr3][va] \cup bits]]
      BY Zenon, <1>1
    <3>2. /\ touched[cr3] \in [Vpages -> SUBSET {"A", "D"}]
          /\ touched[cr3][va] \cup bits \in SUBSET {"A", "D"}
      <4>1. touched[cr3] \in [Vpages -> SUBSET {"A", "D"}]
        BY Zenon, <1>4, <2>1
      <4>2. touched[cr3][va] \subseteq {"A", "D"}
        BY Zenon, <4>1
      <4> QED
        BY Zenon, <1>2, <4>1, <4>2
    <3> DEFINE row == [touched[cr3] EXCEPT ![va] = touched[cr3][va] \cup bits]
    <3>3. /\ row \in [Vpages -> SUBSET {"A", "D"}] /\ row[va] = touched[cr3][va] \cup bits
          /\ \A vb \in Vpages : vb # va => row[vb] = touched[cr3][vb]
      BY Zenon, <3>2
    <3> HIDE DEF row
    <3>4. touched' = [touched EXCEPT ![cr3] = row]
      BY Zenon, <3>1 DEF row
    <3> QED
      BY Zenon, <1>4, <2>1, <3>3, <3>4
  <2>3. touched'[cr3][va] \subseteq lookup_page(tables', cr3, va).flags
    BY Zenon, <1>6, <2>1, <2>2
  <2>4. ASSUME NEW qd \in Dirs, NEW vb \in Vpages
        PROVE  touched'[qd][vb] \subseteq lookup_page(tables', qd, vb).flags
    <3>1. CASE qd = cr3 /\ vb = va
      BY Zenon, <2>3, <3>1
    <3>2. CASE qd # cr3 \/ vb # va
      BY Zenon, <1>6, <1>7, <2>2, <3>2, TablesParts
    <3> QED
      BY Zenon, <3>1, <3>2
  <2> QED
    BY Zenon, <1>7, <2>2, <2>4 DEF TouchedOK
<1>9. CacheOK'
  <2>1. /\ DOMAIN tlb' = DOMAIN tlb \cup {va} /\ tlb'[va] = cached \cup bits
        /\ \A vb \in DOMAIN tlb : vb # va => tlb'[vb] = tlb[vb]
    BY Zenon, <1>1 DEF With
  <2>2. ASSUME NEW vb \in DOMAIN tlb'
        PROVE  /\ vb \in Vpages /\ "P" \in tlb'[vb]
               /\ tlb'[vb] \subseteq lookup_page(tables', cr3', vb).flags
    <3>1. CASE vb = va
      <4>1. "P" \in tlb'[va] /\ tlb'[va] \subseteq lookup_page(tables', cr3, va).flags
        BY Zenon, <1>1, <1>3, <1>6, <2>1
      <4> QED
        BY Zenon, <1>1, <3>1, <4>1
    <3>2. CASE vb # va
      <4>1. vb \in DOMAIN tlb /\ tlb'[vb] = tlb[vb]
        BY Zenon, <2>1, <3>2
      <4>2. /\ vb \in Vpages /\ "P" \in tlb[vb]
            /\ tlb[vb] \subseteq lookup_page(tables, cr3, vb).flags
        BY Zenon, <4>1, TablesParts
      <4>3. lookup_page(tables', cr3', vb) = lookup_page(tables, cr3, vb)
        BY Zenon, <1>1, <1>4, <1>6, <3>2, <4>2
      <4> QED
        BY Zenon, <4>1, <4>2, <4>3
    <3> QED
      BY Zenon, <3>1, <3>2
  <2> QED
    BY Zenon, <2>2 DEF CacheOK
<1>10. cr3' \in Dirs'
  BY Zenon, <1>1, <1>4, <1>7
<1> QED
  BY Zenon, <1>6, <1>8, <1>9, <1>10 DEF TablesOK

\* A new directory is empty.
LEMMA CreatesDir ==
  ASSUME PagedirAssumption, HasFirst, NEW mm, WellFormed(mm), HasKernelPage(mm),
         KernelPage(mm) \notin DOMAIN mm.pd, NEW m, m = pagedir_create(mm)
  PROVE  /\ WellFormed(m) /\ m.kernel = mm.kernel \ {KernelPage(mm)}
         /\ DOMAIN m.pd = DOMAIN mm.pd \cup {KernelPage(mm)}
<1> DEFINE p == KernelPage(mm)
<1>1. m = [mm EXCEPT !.kernel = mm.kernel \ {p}, !.pd = With(mm.pd, p, init_page_dir)]
  BY Zenon DEF pagedir_create
<1> HIDE DEF p
<1>2. /\ m = [pd |-> m.pd, pt |-> m.pt, kernel |-> m.kernel, user |-> m.user]
      /\ m.kernel = mm.kernel \ {p} /\ m.pt = mm.pt
      /\ m.pd = With(mm.pd, p, init_page_dir)
  BY ZenonT(30), <1>1 DEF WellFormed
<1>3. /\ DOMAIN m.pd = DOMAIN mm.pd \cup {p} /\ m.pd[p] = init_page_dir
      /\ \A d \in DOMAIN mm.pd : m.pd[d] = mm.pd[d]
      /\ m.pd = [d \in DOMAIN m.pd |-> m.pd[d]]
  BY Zenon, <1>2 DEF With, p
<1>4. init_page_dir \in [PdeNos -> Pdes] /\ \A i \in PdeNos : init_page_dir[i] = ZeroEntry
  BY Zenon DEF init_page_dir, PdeNos, Pdes
<1>5. m.pd \in [DOMAIN m.pd -> [PdeNos -> Pdes]]
  <2>1. \A d \in DOMAIN mm.pd : mm.pd[d] \in [PdeNos -> Pdes]
    BY Zenon DEF WellFormed
  <2>2. \A d \in DOMAIN m.pd : m.pd[d] \in [PdeNos -> Pdes]
    BY Zenon, <1>3, <1>4, <2>1
  <2> QED
    BY Zenon, <1>3, <2>2
<1>6. \A d \in DOMAIN m.pd, i \in PdeNos : m.pd[d][i] # ZeroEntry =>
        d \in DOMAIN mm.pd /\ m.pd[d] = mm.pd[d]
  BY Zenon, <1>3, <1>4
<1>7. \A d \in DOMAIN m.pd, i \in PdeNos :
        m.pd[d][i] # ZeroEntry => pde_get_pt(m.pd[d][i]) \in DOMAIN m.pt
  BY SMTT(30), <1>2, <1>6 DEF WellFormed
<1>8. OnePlace(m.pd)
  <2>1. OnePlace(mm.pd)
    BY Zenon DEF WellFormed
  <2> QED
    BY SMTT(30), <1>6, <2>1 DEF OnePlace
<1>9. DOMAIN m.pt \cap m.kernel = {} /\ m.kernel \subseteq KernelPages
  BY Zenon, <1>2 DEF WellFormed
<1>10. m.pt \in [DOMAIN m.pt -> [PteNos -> Ptes]]
  BY Zenon, <1>2 DEF WellFormed
<1> QED
  BY Zenon, <1>2, <1>3, <1>5, <1>7, <1>8, <1>9, <1>10 DEF WellFormed, p

\* Two empty directories.
LEMMA TablesInitOK ==
  ASSUME PagedirAssumption, HasFirst, TablesInit
  PROVE  TablesOK
<1> DEFINE one == pagedir_create(EmptyMm)
           both == pagedir_create(one)
<1>1. /\ tables = both /\ cr3 \in DOMAIN both.pd /\ tlb = << >>
      /\ touched = [pd \in DOMAIN both.pd |-> [va \in Vpages |-> {}]]
  BY Zenon DEF TablesInit
<1>2. /\ WellFormed(EmptyMm) /\ EmptyMm.kernel = KernelPages /\ DOMAIN EmptyMm.pd = {}
  BY Z3 DEF EmptyMm, WellFormed, OnePlace
<1>3. /\ HasKernelPage(EmptyMm) /\ KernelPage(EmptyMm) \in KernelPages
      /\ KernelPages \ {KernelPage(EmptyMm)} # {}
  BY <1>2 DEF PagedirAssumption, HasKernelPage, KernelPage, HasFirst
<1> HIDE DEF one, both
<1>4. /\ WellFormed(one) /\ one.kernel = KernelPages \ {KernelPage(EmptyMm)}
      /\ DOMAIN one.pd = {KernelPage(EmptyMm)}
  BY Zenon, <1>2, <1>3, CreatesDir DEF one
<1>5. HasKernelPage(one) /\ KernelPage(one) \in one.kernel
  <2>1. one.kernel \in SUBSET Nat /\ one.kernel # {}
    <3>1. KernelPages \subseteq Nat
      BY Zenon DEF PagedirAssumption
    <3> QED
      BY Zenon, <1>3, <1>4, <3>1
  <2> QED
    BY Zenon, <2>1 DEF HasKernelPage, KernelPage, HasFirst
<1>6. KernelPage(one) \notin DOMAIN one.pd
  BY Zenon, <1>4, <1>5
<1>7. WellFormed(both)
  BY Zenon, <1>4, <1>5, <1>6, CreatesDir DEF both
<1>8. CacheOK
  BY <1>1 DEF CacheOK
<1>9. Dirs = DOMAIN both.pd
  BY Zenon, <1>1 DEF Dirs
<1>10. TouchedOK
  BY Zenon, <1>1, <1>9 DEF TouchedOK
<1> QED
  BY Zenon, <1>1, <1>7, <1>8, <1>9, <1>10 DEF TablesOK

\* Every step keeps the invariant.
LEMMA TablesNextOK ==
  ASSUME PagedirAssumption, HasFirst, TablesOK, [TablesNext]_tableVars
  PROVE  TablesOK'
<1>1. CASE UNCHANGED tableVars
  <2>1. tables' = tables /\ cr3' = cr3 /\ tlb' = tlb /\ touched' = touched
    BY Zenon, <1>1 DEF tableVars
  <2> QED
    BY Zenon, <2>1 DEF TablesOK, CacheOK, TouchedOK, Dirs
<1>2. CASE TablesNext /\ ~UNCHANGED tableVars
  <2>1. CASE \E pd \in Dirs : Activate(pd)
    BY Zenon, <2>1, Keeps_Activate
  <2>2. CASE \E pd \in Dirs, va \in Vpages, on \in BOOLEAN :
               \E kpage \in UserPages : SetPage(pd, va, kpage, on)
    BY Zenon, <2>2, Keeps_SetPage
  <2>3. CASE \E pd \in Dirs, va \in Vpages, on \in BOOLEAN :
               pagedir_set_dirty(pd, va, on) \/ pagedir_set_accessed(pd, va, on)
    <3>1. "A" \in {"A", "D"} /\ "D" \in {"A", "D"}
      BY Zenon
    <3> QED
      BY Zenon, <2>3, <3>1, Keeps_pagedir_set_flag DEF pagedir_set_dirty, pagedir_set_accessed
  <2>4. CASE \E pd \in Dirs, va \in Vpages : pagedir_clear_page(pd, va)
    BY Zenon, <1>2, <2>4, Keeps_pagedir_clear_page
  <2>5. CASE \E va \in Vpages, write \in BOOLEAN : CpuAccess(va, write)
    BY Zenon, <2>5, Keeps_CpuAccess
  <2> QED
    BY Zenon, <1>2, <2>1, <2>2, <2>3, <2>4, <2>5 DEF TablesNext
<1> QED
  BY Zenon, <1>1, <1>2

-----------------------------------------------------------------------------
(* The theorem about page directories                                        *)

INSTANCE WellFoundedInduction

\* A set of numbers has a least one, which palloc_get_page takes.
LEMMA FirstPage == HasFirst
<1> SUFFICES ASSUME NEW S \in SUBSET Nat, S # {} PROVE Min(S) \in S
  BY Zenon DEF HasFirst
<1>1. PICK x \in S : \A y \in S : <<y, x>> \notin OpToRel(<, Nat)
  BY Zenon, WFMin, NatLessThanWellFounded
<1>2. ASSUME NEW y \in S PROVE x <= y
  <2>1. x \in Nat /\ y \in Nat
    BY Zenon
  <2>2. y < x => <<y, x>> \in OpToRel(<, Nat)
    BY Zenon, <2>1 DEF OpToRel
  <2>3. ~(y < x)
    BY Zenon, <1>1, <2>2
  <2> QED
    BY <2>1, <2>3
<1> QED
  BY Zenon, <1>2 DEF Min

\* pagedir_is_dirty and pagedir_is_accessed tell of every access since the bit
\* was cleared, and no stale entry of the TLB survives a change of the tables
\* or of the directory, for any pages, tables and pools: the invalidations of
\* pagedir.c suffice.
THEOREM AccessesStayRecorded ==
  ASSUME PagedirAssumption
  PROVE  TablesSpec => []AccessesRecorded
<1>1. TablesInit => TablesOK
  BY Zenon, TablesInitOK, FirstPage
<1>2. TablesOK /\ [TablesNext]_tableVars => TablesOK'
  BY Zenon, TablesNextOK, FirstPage
<1>3. TablesOK => AccessesRecorded
  BY Zenon, TablesParts DEF AccessesRecorded, pagedir_is_dirty, pagedir_is_accessed, Entry
<1> QED
  BY <1>1, <1>2, <1>3, PTL DEF TablesSpec

-----------------------------------------------------------------------------
(* Interrupts                                                                *)

TypeOK ==
  /\ ready_list \in Seq(Threads)
  /\ running \in AllThreads
  /\ stack \in [AllThreads -> Seq(Frame)]
  /\ iflag \in BOOLEAN
  /\ old_level \in [AllThreads -> BOOLEAN]
  /\ in_external_intr \in BOOLEAN
  /\ isr \in [0 .. 1 -> SUBSET Int]

\* A frame whose external interrupt, if it is one, has been acknowledged.
Acked(frame) == External(frame.vec) => frame.stage = "exit"

\* The stages a frame goes through: only a page fault enters with the flag off
\* to turn it on, only an external interrupt has to be completed.
StageOK(frame) ==
  /\ frame.stage = "enter" => frame.vec = PageFault
  /\ frame.stage = "complete" => External(frame.vec)

\* All frames are acknowledged but, perhaps, the innermost of the running thread.
FramesOK ==
  /\ \A t \in AllThreads : \A i \in 1 .. Len(stack[t]) :
       /\ StageOK(stack[t][i])
       /\ Acked(stack[t][i]) \/ (t = running /\ i = Len(stack[t]))

\* The running thread serves an external interrupt.
Serving == InFrame /\ ~Acked(Top)

\* The lines in service.
LinesOK ==
  /\ isr[0] = (IF in_external_intr THEN {MasterLine(Top.vec)} ELSE {})
  /\ isr[1] = (IF in_external_intr /\ Top.vec >= 40 THEN {Top.vec} ELSE {})

\* The inductive invariant.
Inv ==
  /\ TypeOK
  /\ FramesOK
  /\ in_external_intr <=> Serving
  /\ in_external_intr => ~iflag
  /\ LinesOK

-----------------------------------------------------------------------------
(* What the operators the steps are built from do.                         *)

\* The innermost frame moves on.
LEMMA SetStageEffect ==
  ASSUME TypeOK, InFrame, NEW stage \in Stages, SetStage(stage)
  PROVE  /\ stack' \in [AllThreads -> Seq(Frame)]
         /\ \A t \in AllThreads : t # running => stack'[t] = stack[t]
         /\ Len(stack'[running]) = Len(stack[running])
         /\ \A i \in 1 .. Len(stack[running]) - 1 : stack'[running][i] = stack[running][i]
         /\ stack'[running][Len(stack[running])].vec = Top.vec
         /\ stack'[running][Len(stack[running])].stage = stage
<1> DEFINE seq == stack[running]
           frame == [Top EXCEPT !.stage = stage]
<1>1. seq \in Seq(Frame) /\ seq # <<>> /\ Len(seq) \in 1 .. Len(seq)
  BY DEF TypeOK, InFrame
<1>2. Top \in Frame
  BY <1>1 DEF Top
<1>3. frame \in Frame /\ frame.vec = Top.vec /\ frame.stage = stage
  BY Zenon, <1>2 DEF Frame
<1>4. stack' = [stack EXCEPT ![running] = [seq EXCEPT ![Len(seq)] = frame]]
  BY Zenon DEF SetStage, Top
<1> HIDE DEF frame
<1>5. [seq EXCEPT ![Len(seq)] = frame] \in Seq(Frame)
  BY <1>1, <1>3
<1>6. QED
  BY SMTT(30), <1>1, <1>3, <1>4, <1>5 DEF TypeOK

\* An interrupt pushes a frame.
LEMMA PushEffect ==
  ASSUME TypeOK, NEW vec \in Irqs \cup {Syscall, PageFault}, NEW stage \in Stages, Push(vec, stage)
  PROVE  /\ stack' \in [AllThreads -> Seq(Frame)]
         /\ \A t \in AllThreads : t # running => stack'[t] = stack[t]
         /\ Len(stack'[running]) = Len(stack[running]) + 1
         /\ \A i \in 1 .. Len(stack[running]) : stack'[running][i] = stack[running][i]
         /\ stack'[running][Len(stack[running]) + 1].vec = vec
         /\ stack'[running][Len(stack[running]) + 1].stage = stage
<1> DEFINE seq == stack[running]
           frame == [vec |-> vec, iflag |-> iflag, stage |-> stage]
<1>1. seq \in Seq(Frame)
  BY Zenon DEF TypeOK
<1>2. frame \in Frame /\ frame.vec = vec /\ frame.stage = stage
  BY Zenon DEF TypeOK, Frame
<1>3. stack' = [stack EXCEPT ![running] = Append(seq, frame)]
  BY Zenon DEF Push
<1> HIDE DEF frame
<1>4. QED
  BY <1>1, <1>2, <1>3 DEF TypeOK

\* iret pops the innermost frame.
LEMMA PopEffect ==
  ASSUME TypeOK, InFrame,
         stack' = [stack EXCEPT ![running] = SubSeq(@, 1, Len(@) - 1)]
  PROVE  /\ stack' \in [AllThreads -> Seq(Frame)]
         /\ \A t \in AllThreads : t # running => stack'[t] = stack[t]
         /\ Len(stack'[running]) = Len(stack[running]) - 1
         /\ \A i \in 1 .. Len(stack[running]) - 1 : stack'[running][i] = stack[running][i]
<1> DEFINE seq == stack[running]
           rest == SubSeq(seq, 1, Len(seq) - 1)
<1>1. seq \in Seq(Frame) /\ Len(seq) \in Nat \ {0}
  BY DEF TypeOK, InFrame
<1>2. /\ rest \in Seq(Frame) /\ Len(rest) = Len(seq) - 1
      /\ \A i \in 1 .. Len(seq) - 1 : rest[i] = seq[i]
  BY <1>1
<1>3. stack' = [stack EXCEPT ![running] = rest]
  BY Zenon
<1> HIDE DEF rest
<1>4. QED
  BY Zenon, <1>1, <1>2, <1>3 DEF TypeOK

\* The scheduler switches to a thread, or to idle.
LEMMA ScheduleEffect ==
  ASSUME NEW s, NEW list \in Seq(Threads), schedule(s, list)
  PROVE  running' \in AllThreads /\ ready_list' \in Seq(Threads)
BY DEF schedule, next_thread_to_run, Popped, AllThreads

\* thread_yield, with the level it restores.
LEMMA SwitchEffect ==
  ASSUME TypeOK, NEW level \in BOOLEAN, Switch(level)
  PROVE  /\ running' \in AllThreads /\ ready_list' \in Seq(Threads)
         /\ old_level' \in [AllThreads -> BOOLEAN] /\ iflag' \in BOOLEAN
<1> DEFINE list == IF running = idle_thread THEN ready_list ELSE Append(ready_list, running)
<1>1. list \in Seq(Threads)
  BY DEF TypeOK, AllThreads
<1>2. schedule("READY", list)
  BY Zenon DEF Switch, thread_yield
<1> HIDE DEF list
<1>3. running' \in AllThreads /\ ready_list' \in Seq(Threads)
  BY Zenon, <1>1, <1>2, ScheduleEffect
<1>4. old_level' \in [AllThreads -> BOOLEAN]
  BY Zenon DEF Switch, TypeOK
<1>5. QED
  BY Zenon, <1>3, <1>4 DEF Switch

\* The innermost frame is a frame.
LEMMA TopFrame ==
  ASSUME Inv, InFrame
  PROVE  Top \in Frame /\ StageOK(Top) /\ Len(stack[running]) \in 1 .. Len(stack[running])
<1>1. stack[running] \in Seq(Frame) /\ Len(stack[running]) \in 1 .. Len(stack[running])
  BY DEF Inv, TypeOK, InFrame
<1>2. QED
  BY <1>1 DEF Inv, TypeOK, FramesOK, Top
-----------------------------------------------------------------------------
(* Outside the interrupt context every frame is acknowledged and nothing is *)
(* in service.                                                             *)

AllAcked ==
  \A t \in AllThreads : \A i \in 1 .. Len(stack[t]) : StageOK(stack[t][i]) /\ Acked(stack[t][i])

\* Before a step that starts outside.
LEMMA CalmBefore ==
  ASSUME Inv, ~in_external_intr
  PROVE  AllAcked /\ isr[0] = {} /\ isr[1] = {}
<1>1. isr[0] = {} /\ isr[1] = {}
  BY Zenon DEF Inv, LinesOK
<1>2. ASSUME NEW t \in AllThreads, NEW i \in 1 .. Len(stack[t])
      PROVE  StageOK(stack[t][i]) /\ Acked(stack[t][i])
  <2>1. /\ StageOK(stack[t][i])
        /\ Acked(stack[t][i]) \/ (t = running /\ i = Len(stack[t]))
    BY Zenon DEF Inv, FramesOK
  <2>2. CASE t = running /\ i = Len(stack[t])
    <3>1. InFrame /\ Top = stack[t][i]
      BY <2>2 DEF InFrame, Top
    <3>2. QED
      BY Zenon, <2>1, <3>1 DEF Inv, Serving
  <2>3. QED
    BY Zenon, <2>1, <2>2
<1>3. QED
  BY Zenon, <1>1, <1>2 DEF AllAcked

\* After a step that ends outside.
LEMMA CalmAfter ==
  ASSUME TypeOK', AllAcked', in_external_intr' = FALSE, isr'[0] = {}, isr'[1] = {}
  PROVE  Inv'
<1>1. FramesOK'
  BY Zenon DEF AllAcked, FramesOK
<1>2. ~Serving'
  <2>1. SUFFICES ASSUME InFrame'
                 PROVE  Acked(Top)'
    BY Zenon DEF Serving
  <2>2. stack'[running'] \in Seq(Frame) /\ running' \in AllThreads
    BY Zenon DEF TypeOK
  <2>3. Len(stack'[running']) \in 1 .. Len(stack'[running'])
    BY <2>1, <2>2 DEF InFrame
  <2>4. QED
    BY Zenon, <2>2, <2>3 DEF AllAcked, Top
<1>3. QED
  BY Zenon, <1>1, <1>2 DEF Inv, LinesOK

\* A step outside the interrupt context that leaves the stacks alone.
LEMMA CalmStep ==
  ASSUME Inv, ~in_external_intr, TypeOK',
         UNCHANGED <<stack, in_external_intr, isr>>
  PROVE  Inv'
<1>1. AllAcked /\ isr[0] = {} /\ isr[1] = {}
  BY Zenon, CalmBefore
<1>2. AllAcked'
  BY Zenon, <1>1 DEF AllAcked
<1>3. QED
  BY ZenonT(30), <1>1, <1>2, CalmAfter DEF Inv, TypeOK

-----------------------------------------------------------------------------
(* The steps *)

\* No interrupt yet.
LEMMA InitInv == Init => Inv
<1> SUFFICES ASSUME Init
             PROVE  Inv
  BY Zenon
<1>1. ready_list \in Seq(Threads)
  <2>1. PICK n \in Nat : n = Cardinality(Threads) - 1
    <3>1. Cardinality(Threads) \in Nat /\ Cardinality(Threads) # 0
      BY Zenon, ThreadAssumption, FS_CardinalityType, FS_EmptySet
    <3>2. QED
      BY <3>1
  <2>2. ready_list \in [1 .. n -> Threads]
    BY Zenon, <2>1 DEF Init
  <2>3. QED
    BY <2>2
<1>2. /\ stack = [t \in AllThreads |-> <<>>] /\ ~in_external_intr
      /\ isr = [c \in 0 .. 1 |-> {}]
  BY Zenon DEF Init
<1>3. TypeOK
  <2>1. stack \in [AllThreads -> Seq(Frame)] /\ isr \in [0 .. 1 -> SUBSET Int]
    BY <1>2
  <2>2. /\ running \in AllThreads /\ iflag \in BOOLEAN /\ in_external_intr \in BOOLEAN
        /\ old_level \in [AllThreads -> BOOLEAN]
    BY ZenonT(30), ThreadAssumption DEF Init, AllThreads
  <2>3. QED
    BY ZenonT(30), <1>1, <2>1, <2>2 DEF TypeOK
<1>4. FramesOK /\ ~Serving
  BY <1>2, <1>3 DEF FramesOK, Serving, InFrame, TypeOK
<1>5. QED
  BY SMTT(30), <1>2, <1>3, <1>4 DEF Inv, LinesOK

\* A device raises its line.
LEMMA RaiseInv ==
  ASSUME Inv, NEW vec \in Irqs, Raise(vec)
  PROVE  Inv'
<1>1. UNCHANGED <<ready_list, running, stack, iflag, old_level, in_external_intr, isr>>
  BY Zenon DEF Raise, schedVars
<1>2. QED
  BY Zenon, <1>1 DEF Inv, TypeOK, FramesOK, Serving, InFrame, Top, LinesOK

\* An external interrupt is taken only outside the context: the flag is on.
LEMMA IntrEntryInv ==
  ASSUME Inv, NEW vec \in Irqs, IntrEntry(vec)
  PROVE  Inv'
<1>1. TypeOK /\ ~in_external_intr /\ External(vec) /\ vec \in Int
  BY InterruptAssumption DEF Inv, IntrEntry, External
<1>2. AllAcked /\ isr[0] = {} /\ isr[1] = {}
  BY Zenon, <1>1, CalmBefore
<1>3. /\ stack' \in [AllThreads -> Seq(Frame)]
      /\ \A t \in AllThreads : t # running => stack'[t] = stack[t]
      /\ Len(stack'[running]) = Len(stack[running]) + 1
      /\ \A i \in 1 .. Len(stack[running]) : stack'[running][i] = stack[running][i]
      /\ stack'[running][Len(stack[running]) + 1].vec = vec
      /\ stack'[running][Len(stack[running]) + 1].stage = "handler"
  <2>1. Push(vec, "handler") /\ "handler" \in Stages
    BY Zenon DEF IntrEntry, Stages
  <2>2. QED
    BY Zenon, <1>1, <2>1, PushEffect
<1>4. /\ in_external_intr' = TRUE /\ iflag' = FALSE /\ running' = running
      /\ ready_list' = ready_list /\ old_level' = old_level
      /\ isr' = Acknowledged(vec)
  BY Zenon DEF IntrEntry, schedVars
<1>5. isr' \in [0 .. 1 -> SUBSET Int] /\ isr'[0] = {MasterLine(vec)}
      /\ isr'[1] = (IF vec >= 40 THEN {vec} ELSE {})
  <2>1. MasterLine(vec) \in Int
    BY <1>1 DEF MasterLine
  <2>2. QED
    BY SMTT(30), <1>1, <1>2, <1>4, <2>1 DEF Acknowledged, TypeOK
<1>6. TypeOK'
  BY ZenonT(30), <1>1, <1>3, <1>4, <1>5 DEF TypeOK
<1>7. stack[running] \in Seq(Frame) /\ Len(stack[running]) \in Nat
  BY <1>1 DEF TypeOK
<1>8. InFrame' /\ Top' = stack'[running][Len(stack[running]) + 1]
  BY SMTT(30), <1>3, <1>4, <1>7 DEF InFrame, Top
<1>9. FramesOK'
  <2>1. ASSUME NEW t \in AllThreads, NEW i \in 1 .. Len(stack'[t])
        PROVE  /\ StageOK(stack'[t][i])
               /\ Acked(stack'[t][i]) \/ (t = running' /\ i = Len(stack'[t]))
    <3>1. CASE t = running /\ i = Len(stack[running]) + 1
      BY Zenon, <1>3, <1>4, <3>1 DEF StageOK
    <3>2. CASE ~(t = running /\ i = Len(stack[running]) + 1)
      <4>1. i \in 1 .. Len(stack[t]) /\ stack'[t][i] = stack[t][i]
        BY SMTT(30), <1>3, <1>7, <3>2
      <4>2. QED
        BY Zenon, <1>2, <4>1 DEF AllAcked
    <3>3. QED
      BY Zenon, <3>1, <3>2
  <2>2. QED
    BY Zenon, <2>1 DEF FramesOK
<1>10. Serving' /\ Top'.vec = vec
  BY Zenon, <1>1, <1>3, <1>8 DEF Serving, Acked
<1>11. QED
  BY ZenonT(30), <1>4, <1>5, <1>6, <1>9, <1>10 DEF Inv, LinesOK
\* The handler runs: the context stays.
LEMMA HandlerInv ==
  ASSUME Inv, Handler
  PROVE  Inv'
<1>1. TypeOK /\ InFrame /\ Serving /\ in_external_intr /\ External(Top.vec)
  BY Zenon DEF Inv, Handler, AtStage, Serving, Acked
<1>2. /\ stack' \in [AllThreads -> Seq(Frame)]
      /\ \A t \in AllThreads : t # running => stack'[t] = stack[t]
      /\ Len(stack'[running]) = Len(stack[running])
      /\ \A i \in 1 .. Len(stack[running]) - 1 : stack'[running][i] = stack[running][i]
      /\ stack'[running][Len(stack[running])].vec = Top.vec
      /\ stack'[running][Len(stack[running])].stage = "complete"
  <2>1. SetStage("complete") /\ "complete" \in Stages
    BY Zenon DEF Handler, Stages
  <2>2. QED
    BY Zenon, <1>1, <2>1, SetStageEffect
<1>3. UNCHANGED <<ready_list, running, iflag, old_level, in_external_intr, isr>>
  BY Zenon DEF Handler
<1>4. TypeOK'
  BY ZenonT(30), <1>1, <1>2, <1>3 DEF TypeOK
<1>5. stack[running] \in Seq(Frame) /\ Len(stack[running]) \in 1 .. Len(stack[running])
  BY Zenon, <1>1, TopFrame DEF TypeOK
<1>6. InFrame' /\ Top'.vec = Top.vec /\ Top'.stage = "complete"
  BY <1>2, <1>3, <1>5 DEF InFrame, Top
<1>7. FramesOK'
  <2>1. ASSUME NEW t \in AllThreads, NEW i \in 1 .. Len(stack'[t])
        PROVE  /\ StageOK(stack'[t][i])
               /\ Acked(stack'[t][i]) \/ (t = running' /\ i = Len(stack'[t]))
    <3>1. CASE t = running /\ i = Len(stack[running])
      BY ZenonT(30), <1>1, <1>2, <1>3, <3>1 DEF StageOK
    <3>2. CASE ~(t = running /\ i = Len(stack[running]))
      <4>1. i \in 1 .. Len(stack[t]) /\ stack'[t][i] = stack[t][i]
        BY SMTT(30), <1>2, <1>5, <3>2
      <4>2. QED
        BY Zenon, <3>2, <4>1 DEF Inv, FramesOK
    <3>3. QED
      BY Zenon, <3>1, <3>2
  <2>2. QED
    BY Zenon, <2>1 DEF FramesOK
<1>8. Serving'
  BY Zenon, <1>1, <1>6 DEF Serving, Acked
<1>9. LinesOK'
  BY Zenon, <1>1, <1>3, <1>6 DEF Inv, LinesOK
<1>10. QED
  BY ZenonT(30), <1>1, <1>3, <1>4, <1>7, <1>8, <1>9 DEF Inv

\* The line served is the only one in service, and so the one that the end of
\* interrupt takes out.
LEMMA ServedOne ==
  ASSUME NEW n \in Int
  PROVE  Served({n}) = {} /\ Served({}) = {}
<1>1. Min({n}) = n
  BY DEF Min
<1>2. QED
  BY Zenon, <1>1 DEF Served

\* The innermost frame moves on, and is acknowledged, outside the context.
LEMMA AckedSet ==
  ASSUME Inv, InFrame, NEW stage \in Stages, SetStage(stage),
         \A t \in AllThreads : \A i \in 1 .. Len(stack[t]) :
           t # running \/ i # Len(stack[t]) => StageOK(stack[t][i]) /\ Acked(stack[t][i]),
         stage \in {"handler", "exit"}, External(Top.vec) => stage = "exit"
  PROVE  AllAcked' /\ stack' \in [AllThreads -> Seq(Frame)]
<1>1. TypeOK /\ stack[running] \in Seq(Frame) /\ Len(stack[running]) \in 1 .. Len(stack[running])
  BY Zenon, TopFrame DEF Inv, TypeOK
<1>2. /\ stack' \in [AllThreads -> Seq(Frame)]
      /\ \A t \in AllThreads : t # running => stack'[t] = stack[t]
      /\ Len(stack'[running]) = Len(stack[running])
      /\ \A i \in 1 .. Len(stack[running]) - 1 : stack'[running][i] = stack[running][i]
      /\ stack'[running][Len(stack[running])].vec = Top.vec
      /\ stack'[running][Len(stack[running])].stage = stage
  BY Zenon, <1>1, SetStageEffect
<1>3. ASSUME NEW t \in AllThreads, NEW i \in 1 .. Len(stack'[t])
      PROVE  StageOK(stack'[t][i]) /\ Acked(stack'[t][i])
  <2>1. CASE t = running /\ i = Len(stack[running])
    BY Zenon, <1>2, <2>1 DEF StageOK, Acked
  <2>2. CASE ~(t = running /\ i = Len(stack[running]))
    <3>1. i \in 1 .. Len(stack[t]) /\ stack'[t][i] = stack[t][i]
      BY SMTT(30), <1>1, <1>2, <2>2
    <3>2. QED
      BY Zenon, <2>2, <3>1
  <2>3. QED
    BY Zenon, <2>1, <2>2
<1>4. QED
  BY Zenon, <1>2, <1>3 DEF AllAcked

\* The interrupt is acknowledged and the context left, before any switch.
LEMMA CompleteInv ==
  ASSUME Inv, Complete
  PROVE  Inv'
<1>1. TypeOK /\ InFrame /\ Top \in Frame /\ StageOK(Top) /\ Top.stage = "complete"
  BY Zenon, TopFrame DEF Inv, Complete, AtStage
<1>2. External(Top.vec) /\ in_external_intr /\ Top.vec \in Int
  <2>1. External(Top.vec)
    BY Zenon, <1>1 DEF StageOK
  <2>2. in_external_intr
    BY Zenon, <1>1, <2>1 DEF Inv, Serving, Acked
  <2>3. Top.vec \in Int
    <3>1. Top.vec \in Irqs \cup {Syscall, PageFault}
      BY Zenon, <1>1 DEF Frame
    <3>2. Irqs \cup {Syscall, PageFault} \subseteq Int
      BY InterruptAssumption DEF Syscall, PageFault
    <3>3. QED
      BY Zenon, <3>1, <3>2
  <2>4. QED
    BY Zenon, <2>1, <2>2, <2>3
<1>3. AllAcked' /\ stack' \in [AllThreads -> Seq(Frame)]
  <2>1. SetStage("exit") /\ "exit" \in Stages
    BY Zenon DEF Complete, Stages
  <2>2. \A t \in AllThreads : \A i \in 1 .. Len(stack[t]) :
          t # running \/ i # Len(stack[t]) => StageOK(stack[t][i]) /\ Acked(stack[t][i])
    BY Zenon DEF Inv, FramesOK
  <2>3. QED
    BY Zenon, <1>1, <2>1, <2>2, AckedSet
<1>4. isr' \in [0 .. 1 -> SUBSET Int] /\ isr'[0] = {} /\ isr'[1] = {}
  <2>1. isr[0] = {MasterLine(Top.vec)} /\ isr[1] = (IF Top.vec >= 40 THEN {Top.vec} ELSE {})
    BY Zenon, <1>2 DEF Inv, LinesOK
  <2>2. MasterLine(Top.vec) \in Int
    BY <1>2 DEF MasterLine
  <2>3. Served(isr[0]) = {} /\ (IF Top.vec >= 40 THEN Served(isr[1]) ELSE isr[1]) = {}
    BY Zenon, <1>2, <2>1, <2>2, ServedOne
  <2>4. isr' = [isr EXCEPT ![0] = Served(@), ![1] = IF Top.vec >= 40 THEN Served(@) ELSE @]
    BY Zenon DEF Complete, pic_end_of_interrupt
  <2>5. QED
    BY SMTT(30), <1>1, <2>3, <2>4 DEF TypeOK
<1>5. in_external_intr' = FALSE
  BY Zenon DEF Complete
<1>6. /\ running' \in AllThreads /\ ready_list' \in Seq(Threads)
      /\ old_level' \in [AllThreads -> BOOLEAN] /\ iflag' \in BOOLEAN
  <2>1. CASE yield_on_return
    <3>1. Switch(FALSE)
      BY ZenonT(30), <2>1 DEF Complete
    <3>2. QED
      BY ZenonT(30), <1>1, <3>1, SwitchEffect
  <2>2. CASE ~yield_on_return
    BY Zenon, <1>1, <2>2 DEF Complete, TypeOK, schedVars
  <2>3. QED
    BY Zenon, <2>1, <2>2
<1>7. TypeOK'
  BY ZenonT(30), <1>3, <1>4, <1>5, <1>6 DEF TypeOK
<1>8. QED
  BY ZenonT(30), <1>3, <1>4, <1>5, <1>7, CalmAfter
\* iret: the frame popped was acknowledged, and so are those below it.
LEMMA IntrExitInv ==
  ASSUME Inv, intr_exit
  PROVE  Inv'
<1>1. TypeOK /\ InFrame /\ Top \in Frame /\ Top.stage = "exit" /\ ~in_external_intr
  BY Zenon, TopFrame DEF Inv, intr_exit, AtStage, Serving, Acked
<1>2. AllAcked /\ isr[0] = {} /\ isr[1] = {}
  BY Zenon, <1>1, CalmBefore
<1>3. stack' = [stack EXCEPT ![running] = SubSeq(@, 1, Len(@) - 1)]
  BY Zenon DEF intr_exit
<1>4. /\ stack' \in [AllThreads -> Seq(Frame)]
      /\ \A t \in AllThreads : t # running => stack'[t] = stack[t]
      /\ Len(stack'[running]) = Len(stack[running]) - 1
      /\ \A i \in 1 .. Len(stack[running]) - 1 : stack'[running][i] = stack[running][i]
  BY Zenon, <1>1, <1>3, PopEffect
<1>5. AllAcked'
  <2>1. ASSUME NEW t \in AllThreads, NEW i \in 1 .. Len(stack'[t])
        PROVE  StageOK(stack'[t][i]) /\ Acked(stack'[t][i])
    <3>1. Len(stack[running]) \in Nat /\ running \in AllThreads
      BY <1>1 DEF TypeOK
    <3>2. i \in 1 .. Len(stack[t]) /\ stack'[t][i] = stack[t][i]
      BY SMTT(30), <1>4, <3>1
    <3>3. QED
      BY Zenon, <1>2, <3>2 DEF AllAcked
  <2>2. QED
    BY Zenon, <2>1 DEF AllAcked
<1>6. /\ UNCHANGED <<ready_list, running, old_level, in_external_intr, isr>>
      /\ iflag' = Top.iflag
  BY Zenon DEF intr_exit, schedVars
<1>7. Top.iflag \in BOOLEAN
  BY Zenon, <1>1 DEF Frame
<1>8. TypeOK'
  BY Zenon, <1>1, <1>4, <1>6, <1>7 DEF TypeOK
<1>9. QED
  BY ZenonT(30), <1>1, <1>2, <1>5, <1>6, <1>8, CalmAfter DEF TypeOK

\* A system call or a fault in thread context.
LEMMA TrapInv ==
  ASSUME Inv, NEW vec \in {Syscall, PageFault}, Trap(vec)
  PROVE  Inv'
<1> DEFINE stage == IF vec = PageFault THEN "enter" ELSE "handler"
<1>1. TypeOK /\ ~InFrame /\ ~in_external_intr /\ Push(vec, stage) /\ stage \in Stages
  BY Zenon DEF Inv, Trap, Serving, Stages
<1>2. AllAcked /\ isr[0] = {} /\ isr[1] = {}
  BY Zenon, <1>1, CalmBefore
<1>3. /\ stack' \in [AllThreads -> Seq(Frame)]
      /\ \A t \in AllThreads : t # running => stack'[t] = stack[t]
      /\ Len(stack'[running]) = Len(stack[running]) + 1
      /\ \A i \in 1 .. Len(stack[running]) : stack'[running][i] = stack[running][i]
      /\ stack'[running][Len(stack[running]) + 1].vec = vec
      /\ stack'[running][Len(stack[running]) + 1].stage = stage
  BY ZenonT(30), <1>1, PushEffect
<1>4. ~External(vec) /\ (stage = "enter" => vec = PageFault) /\ stage # "complete"
  BY DEF External, Syscall, PageFault
<1> HIDE DEF stage
<1>5. AllAcked'
  <2>1. ASSUME NEW t \in AllThreads, NEW i \in 1 .. Len(stack'[t])
        PROVE  StageOK(stack'[t][i]) /\ Acked(stack'[t][i])
    <3>1. Len(stack[running]) \in Nat /\ running \in AllThreads
      BY <1>1 DEF TypeOK
    <3>2. CASE t = running /\ i = Len(stack[running]) + 1
      BY Zenon, <1>3, <1>4, <3>2 DEF StageOK, Acked
    <3>3. CASE ~(t = running /\ i = Len(stack[running]) + 1)
      <4>1. i \in 1 .. Len(stack[t]) /\ stack'[t][i] = stack[t][i]
        BY SMTT(30), <1>3, <3>1, <3>3
      <4>2. QED
        BY ZenonT(30), <1>2, <4>1 DEF AllAcked
    <3>4. QED
      BY Zenon, <3>2, <3>3
  <2>2. QED
    BY Zenon, <2>1 DEF AllAcked
<1>6. /\ UNCHANGED <<ready_list, running, old_level, in_external_intr, isr>>
      /\ iflag' \in BOOLEAN
  BY Zenon DEF Trap, schedVars
<1>7. TypeOK'
  BY Zenon, <1>1, <1>3, <1>6 DEF TypeOK
<1>8. QED
  BY ZenonT(30), <1>1, <1>2, <1>5, <1>6, <1>7, CalmAfter DEF TypeOK

\* A system call in its handler, and a fault in its own, are no external
\* interrupts.
LEMMA Internal ==
  ASSUME Inv, InFrame, Top.vec \in {Syscall, PageFault}
  PROVE  TypeOK /\ ~in_external_intr /\ AllAcked /\ isr[0] = {} /\ isr[1] = {} /\ ~External(Top.vec)
<1>1. ~External(Top.vec)
  BY DEF External, Syscall, PageFault
<1>2. TypeOK /\ ~in_external_intr
  BY Zenon, <1>1 DEF Inv, Serving, Acked
<1>3. QED
  BY Zenon, <1>1, <1>2, CalmBefore

\* page_fault turns interrupts on.
LEMMA PageFaultInv ==
  ASSUME Inv, page_fault
  PROVE  Inv'
<1>1. InFrame /\ Top.stage = "enter"
  BY Zenon DEF page_fault, AtStage
<1>2. Top.vec \in {Syscall, PageFault}
  BY Zenon, <1>1, TopFrame DEF StageOK
<1>3. TypeOK /\ ~in_external_intr /\ AllAcked /\ isr[0] = {} /\ isr[1] = {} /\ ~External(Top.vec)
  BY Zenon, <1>1, <1>2, Internal
<1>4. AllAcked' /\ stack' \in [AllThreads -> Seq(Frame)]
  <2>1. SetStage("handler") /\ "handler" \in Stages
    BY Zenon DEF page_fault, Stages
  <2>2. QED
    BY Zenon, <1>1, <1>3, <2>1, AckedSet DEF AllAcked
<1>5. UNCHANGED <<ready_list, running, old_level, in_external_intr, isr>> /\ iflag' = TRUE
  BY Zenon DEF page_fault, schedVars
<1>6. TypeOK'
  BY Zenon, <1>3, <1>4, <1>5 DEF TypeOK
<1>7. QED
  BY ZenonT(30), <1>3, <1>4, <1>5, <1>6, CalmAfter DEF TypeOK

\* A system call returns.
LEMMA SyscallReturnInv ==
  ASSUME Inv, SyscallReturn
  PROVE  Inv'
<1>1. InFrame /\ Top.vec \in {Syscall, PageFault}
  BY Zenon DEF SyscallReturn, AtStage
<1>2. TypeOK /\ ~in_external_intr /\ AllAcked /\ isr[0] = {} /\ isr[1] = {} /\ ~External(Top.vec)
  BY Zenon, <1>1, Internal
<1>3. AllAcked' /\ stack' \in [AllThreads -> Seq(Frame)]
  <2>1. SetStage("exit") /\ "exit" \in Stages
    BY Zenon DEF SyscallReturn, Stages
  <2>2. QED
    BY Zenon, <1>1, <1>2, <2>1, AckedSet DEF AllAcked
<1>4. UNCHANGED <<ready_list, running, iflag, old_level, in_external_intr, isr>>
  BY Zenon DEF SyscallReturn, schedVars
<1>5. TypeOK'
  BY Zenon, <1>2, <1>3, <1>4 DEF TypeOK
<1>6. QED
  BY ZenonT(30), <1>2, <1>3, <1>4, <1>5, CalmAfter DEF TypeOK

\* The process of a fault is gone, with the frames of its thread.
LEMMA KillInv ==
  ASSUME Inv, kill
  PROVE  Inv'
<1>1. InFrame /\ Top.vec \in {Syscall, PageFault}
  BY Zenon DEF kill, AtStage
<1>2. TypeOK /\ ~in_external_intr /\ AllAcked /\ isr[0] = {} /\ isr[1] = {} /\ ~External(Top.vec)
  BY Zenon, <1>1, Internal
<1>3. stack' = [stack EXCEPT ![running] = <<>>]
  BY Zenon DEF kill
<1>4. stack' \in [AllThreads -> Seq(Frame)] /\ AllAcked'
  BY <1>2, <1>3 DEF TypeOK, AllAcked
<1>5. running' \in AllThreads /\ ready_list' \in Seq(Threads)
  <2>1. schedule("DYING", ready_list) /\ ready_list \in Seq(Threads)
    BY Zenon, <1>2 DEF kill, thread_exit, TypeOK
  <2>2. QED
    BY Zenon, <2>1, ScheduleEffect
<1>6. UNCHANGED <<old_level, in_external_intr, isr>> /\ iflag' = old_level[running']
  BY Zenon DEF kill
<1>7. TypeOK'
  BY ZenonT(30), <1>2, <1>4, <1>5, <1>6 DEF TypeOK
<1>8. QED
  BY ZenonT(30), <1>2, <1>4, <1>6, <1>7, CalmAfter DEF TypeOK

\* A system call turns interrupts off or on.
LEMMA IntrLevelInv ==
  ASSUME Inv, intr_disable \/ intr_set_level
  PROVE  Inv'
<1>1. /\ InFrame /\ Top.vec \in {Syscall, PageFault}
      /\ UNCHANGED <<ready_list, running, stack, old_level, in_external_intr, isr>>
      /\ iflag' \in BOOLEAN
  BY ZenonT(30) DEF intr_disable, intr_set_level, AtStage, schedVars
<1>2. TypeOK /\ ~in_external_intr
  BY Zenon, <1>1, Internal
<1>3. TypeOK'
  BY Zenon, <1>1, <1>2 DEF TypeOK
<1>4. QED
  BY ZenonT(30), <1>1, <1>2, <1>3, CalmStep

\* A system call gives up the CPU.
LEMMA YieldInv ==
  ASSUME Inv, Yield
  PROVE  Inv'
<1>1. /\ InFrame /\ Top.vec \in {Syscall, PageFault} /\ Switch(iflag)
      /\ UNCHANGED <<stack, in_external_intr, isr>>
  BY Zenon DEF Yield, AtStage
<1>2. TypeOK /\ ~in_external_intr
  BY Zenon, <1>1, Internal
<1>3. TypeOK'
  <2>1. iflag \in BOOLEAN
    BY Zenon, <1>2 DEF TypeOK
  <2>2. QED
    BY ZenonT(30), <1>1, <1>2, <2>1, SwitchEffect DEF TypeOK
<1>4. QED
  BY Zenon, <1>1, <1>2, <1>3, CalmStep

\* A kernel thread outside any frame: it goes to sleep, loops, or is idle.
LEMMA KernelThreadInv ==
  ASSUME Inv, (\E n \in 1 .. MaxSleep : timer_sleep(n)) \/ SleepLoop \/ Idle
  PROVE  Inv'
<1>1. TypeOK /\ ~in_external_intr
  BY Zenon DEF Inv, timer_sleep, SleepLoop, Idle, Serving
<1>2. UNCHANGED <<stack, in_external_intr, isr>>
  BY Zenon DEF timer_sleep, SleepLoop, Idle
<1>3. /\ running' \in AllThreads /\ ready_list' \in Seq(Threads)
      /\ old_level' \in [AllThreads -> BOOLEAN] /\ iflag' \in BOOLEAN
  <2>1. iflag \in BOOLEAN
    BY Zenon, <1>1 DEF TypeOK
  <2>2. CASE Switch(iflag)
    BY ZenonT(30), <1>1, <2>1, <2>2, SwitchEffect
  <2>3. CASE UNCHANGED <<schedVars, iflag, old_level>>
    BY Zenon, <1>1, <2>3 DEF TypeOK, schedVars
  <2>4. CASE Idle
    <3>1. schedule("BLOCKED", ready_list) /\ ready_list \in Seq(Threads)
      BY Zenon, <1>1, <2>4 DEF Idle, idle, thread_block, TypeOK
    <3>2. running' \in AllThreads /\ ready_list' \in Seq(Threads)
      BY Zenon, <3>1, ScheduleEffect
    <3>3. old_level' \in [AllThreads -> BOOLEAN] /\ iflag' = old_level'[running']
      BY ZenonT(30), <1>1, <2>4 DEF Idle, TypeOK
    <3>4. QED
      BY Zenon, <3>2, <3>3
  <2>5. QED
    BY Zenon, <2>2, <2>3, <2>4 DEF timer_sleep, SleepLoop
<1>4. TypeOK'
  BY Zenon, <1>1, <1>2, <1>3 DEF TypeOK
<1>5. QED
  BY Zenon, <1>1, <1>2, <1>4, CalmStep

\* Every step keeps the invariant.
LEMMA NextInv ==
  ASSUME Inv, [Next]_vars
  PROVE  Inv'
<1>1. CASE UNCHANGED vars
  BY Zenon, <1>1 DEF vars, schedVars, intrVars, Inv, TypeOK, FramesOK, Serving, InFrame, Top, LinesOK
<1>2. CASE Next
  BY ZenonT(30), <1>2, RaiseInv, IntrEntryInv, TrapInv, HandlerInv, CompleteInv, IntrExitInv,
     PageFaultInv, KillInv, IntrLevelInv, YieldInv, SyscallReturnInv, KernelThreadInv DEF Next
<1>3. QED
  BY Zenon, <1>1, <1>2

\* The invariant holds throughout.
THEOREM Invariance == Spec => []Inv
<1>1. Inv /\ [Next]_vars => Inv'
  BY Zenon, NextInv
<1>2. QED
  BY InitInv, <1>1, PTL DEF Spec

-----------------------------------------------------------------------------
\* intr_context() is accurate, interrupts are off throughout an external
\* interrupt, the controllers serve exactly that one, and no thread is switched
\* out before it is acknowledged (interrupt.c, intr_handler).
THEOREM ContextStaysAccurate == Spec => []ContextAccurate
<1>1. ASSUME Inv
      PROVE  ContextAccurate
  <2>1. in_external_intr <=> InFrame /\ External(Top.vec) /\ Top.stage # "exit"
    BY Zenon, <1>1 DEF Inv, Serving, Acked
  <2>2. in_external_intr => ~iflag
    BY Zenon, <1>1 DEF Inv
  <2>3. ASSUME NEW t \in Threads \ {running}, NEW i \in 1 .. Len(stack[t])
        PROVE  External(stack[t][i].vec) => stack[t][i].stage = "exit"
    BY Zenon, <1>1 DEF Inv, FramesOK, Acked, AllThreads
  <2>4. QED
    BY Zenon, <1>1, <2>1, <2>2, <2>3 DEF Inv, LinesOK, ContextAccurate
<1>2. QED
  BY <1>1, Invariance, PTL
=============================================================================
