------------------------------ MODULE Pagedir ------------------------------
(***************************************************************************)
(* The operations of userprog/pagedir.c on page directories that a CPU     *)
(* uses.  The CPU caches entries of the active directory in its TLB, the   *)
(* flags included, and sets A and D in memory only when its copy lacks     *)
(* them.                                                                   *)
(***************************************************************************)
EXTENDS PageTable

CONSTANT Vpages     \* addresses of the user pages that the machine uses

\* The pages are user pages, and no two have their entry in one place.
PagedirAssumption ==
  /\ \A va \in Vpages : pd_no(va) \in DOMAIN init_page_dir /\ pt_no(va) \in DOMAIN ZeroTable
  /\ \A va, vb \in Vpages : pd_no(va) = pd_no(vb) /\ pt_no(va) = pt_no(vb) => va = vb
  /\ KernelPages \subseteq Nat \ {NULL} /\ \E a, b \in KernelPages : a # b

VARIABLES tables,   \* an mm
          cr3,      \* the active directory
          tlb,      \* page address -> flags, for the cached ones
          touched   \* directory -> page address -> what was done to the page since the
                    \* bit for it was last cleared: subset of {"A", "D"}
tableVars == <<tables, cr3, tlb, touched>>

Dirs == DOMAIN tables.pd
TablesInit ==
  LET one == pagedir_create(EmptyMm)
      both == pagedir_create(one)
  IN /\ tables = both
     /\ cr3 \in DOMAIN both.pd
     /\ tlb = << >>
     /\ touched = [pd \in DOMAIN both.pd |-> [va \in Vpages |-> {}]]

Entry(pd, va) == lookup_page(tables, pd, va)
\* Loading cr3 empties the TLB.
pagedir_activate(pd) == cr3' = pd /\ tlb' = << >>

\* Fault: the TLB is emptied when the directory is not the active one.
invalidate_pagedir_inactive(pd) == IF cr3 # pd THEN pagedir_activate(cr3) ELSE UNCHANGED <<cr3, tlb>>
invalidate_pagedir(pd) == IF cr3 = pd THEN pagedir_activate(pd) ELSE UNCHANGED <<cr3, tlb>>

Activate(pd) == pagedir_activate(pd) /\ UNCHANGED <<tables, touched>>

SetPage(pd, upage, kpage, writable) ==
  /\ ~present(Entry(pd, upage)) /\ CanSetPage(tables, pd, upage)
  /\ tables' = pagedir_set_page(tables, pd, upage, kpage, writable)
  /\ touched' = [touched EXCEPT ![pd][upage] = {}]
  /\ UNCHANGED <<cr3, tlb>>

pagedir_clear_page(pd, upage) ==
  LET pte == Entry(pd, upage)
  IN IF present(pte)
     THEN /\ tables' = SetEntry(tables, pd, upage, [pte EXCEPT !.flags = @ \ {"P"}])
          /\ invalidate_pagedir(pd)
          /\ UNCHANGED touched
     ELSE UNCHANGED tableVars

\* pagedir_set_dirty and pagedir_set_accessed, for the flag of each.
pagedir_set_flag(flag, pd, vpage, on) ==
  LET pte == Entry(pd, vpage)
  IN /\ HasTable(tables, pd, vpage)
     /\ tables' = SetEntry(tables, pd, vpage,
                    [pte EXCEPT !.flags = IF on THEN @ \cup {flag} ELSE @ \ {flag}])
     /\ IF on THEN UNCHANGED <<cr3, tlb, touched>>
        ELSE /\ invalidate_pagedir(pd)
             /\ touched' = [touched EXCEPT ![pd][vpage] = @ \ {flag}]
pagedir_set_dirty(pd, vpage, dirty) == pagedir_set_flag("D", pd, vpage, dirty)
pagedir_set_accessed(pd, vpage, accessed) == pagedir_set_flag("A", pd, vpage, accessed)
pagedir_is_dirty(pd, vpage) == "D" \in Entry(pd, vpage).flags
pagedir_is_accessed(pd, vpage) == "A" \in Entry(pd, vpage).flags

\* The CPU reads or writes page va of the active directory.
CpuAccess(va, write) ==
  LET bits == IF write THEN {"A", "D"} ELSE {"A"}
      cached == IF va \in DOMAIN tlb THEN tlb[va] ELSE Entry(cr3, va).flags
      walk == va \notin DOMAIN tlb \/ ~(bits \subseteq cached)
  IN /\ "P" \in cached /\ (write => "W" \in cached)
     /\ tlb' = With(tlb, va, cached \cup bits)
     /\ tables' = IF walk THEN SetEntry(tables, cr3, va, [Entry(cr3, va) EXCEPT !.flags = @ \cup bits])
                  ELSE tables
     /\ touched' = [touched EXCEPT ![cr3][va] = @ \cup bits]
     /\ UNCHANGED cr3

TablesNext ==
  \/ \E pd \in Dirs : Activate(pd)
  \/ \E pd \in Dirs, va \in Vpages, on \in BOOLEAN :
       \/ \E kpage \in UserPages : SetPage(pd, va, kpage, on)
       \/ pagedir_set_dirty(pd, va, on)
       \/ pagedir_set_accessed(pd, va, on)
  \/ \E pd \in Dirs, va \in Vpages : pagedir_clear_page(pd, va)
  \/ \E va \in Vpages, write \in BOOLEAN : CpuAccess(va, write)
TablesSpec == TablesInit /\ [][TablesNext]_tableVars

\* What the CPU did to a page of any directory since its bit was last cleared,
\* pagedir_is_dirty and pagedir_is_accessed report; and the CPU never uses an
\* entry that has been cleared or is another directory's: no stale entry of the
\* TLB survives pagedir_clear_page, pagedir_set_dirty, pagedir_set_accessed or
\* a switch of directories.
AccessesRecorded ==
  /\ \A pd \in Dirs, va \in Vpages :
       /\ "D" \in touched[pd][va] => pagedir_is_dirty(pd, va)
       /\ "A" \in touched[pd][va] => pagedir_is_accessed(pd, va)
  /\ \A va \in DOMAIN tlb : tlb[va] \subseteq Entry(cr3, va).flags
=============================================================================
