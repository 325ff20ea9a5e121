----------------------------- MODULE PageTable -----------------------------
(***************************************************************************)
(* x86 page tables (threads/pte.h, threads/vaddr.h) and the operations on  *)
(* them (userprog/pagedir.c).  mm holds the page directories and the page  *)
(* tables by the page each occupies, and the free pages of the two pools;  *)
(* an operation that allocates or frees is an operator from mm to mm.      *)
(***************************************************************************)
EXTENDS Integers, FiniteSets, FiniteSetsExt

CONSTANTS PGBITS, PTBITS, PDBITS,   \* 12, 10 and 10 in the source
          PHYS_BASE,                \* first kernel address, a multiple of a page table's span
          KernelPages, UserPages    \* the pools, sets of positive numbers

NULL == 0

\* f with the value y at x, which may be new.
With(f, x, y) == [z \in DOMAIN f \cup {x} |-> IF z = x THEN y ELSE f[z]]

PGSIZE == 2 ^ PGBITS
PDSHIFT == PGBITS + PTBITS
AddressSpace == 2 ^ (PDSHIFT + PDBITS)
pg_ofs(va) == va % PGSIZE
pg_round_down(va) == va - pg_ofs(va)
pt_no(va) == (va \div PGSIZE) % 2 ^ PTBITS
pd_no(va) == va \div 2 ^ PDSHIFT
is_user_vaddr(va) == va < PHYS_BASE

\* An entry: the page it points to and the flags that are set.
ZeroEntry == [page |-> NULL, flags |-> {}]
pte_create_user(page, writable) ==
  [page |-> page, flags |-> {"P", "U"} \cup IF writable THEN {"W"} ELSE {}]
pde_create(pt) == [page |-> pt, flags |-> {"P", "U", "W"}]
pde_get_pt(pde) == pde.page
pte_get_page(pte) == pte.page
present(entry) == "P" \in entry.flags

\* The user part of init_page_dir is empty; the kernel part is not modelled.
init_page_dir == [i \in 0..pd_no(PHYS_BASE) - 1 |-> ZeroEntry]
ZeroTable == [i \in 0..2 ^ PTBITS - 1 |-> ZeroEntry]
EmptyMm == [pd |-> << >>, pt |-> << >>, kernel |-> KernelPages, user |-> UserPages]

\* palloc_get_page from the kernel pool; the pages are scanned from the lowest.
HasKernelPage(mm) == mm.kernel # {}
KernelPage(mm) == Min(mm.kernel)

pagedir_create(mm) ==
  LET pd == KernelPage(mm)
  IN [mm EXCEPT !.kernel = @ \ {pd}, !.pd = With(@, pd, init_page_dir)]

TablesOf(mm, pd) == {pde_get_pt(mm.pd[pd][i]) : i \in {j \in DOMAIN mm.pd[pd] : present(mm.pd[pd][j])}}
PagesOf(mm, pd) ==
  UNION {{pte_get_page(mm.pt[t][i]) : i \in {j \in DOMAIN mm.pt[t] : present(mm.pt[t][j])}} :
           t \in TablesOf(mm, pd)}

pagedir_destroy(mm, pd) ==
  LET tables == TablesOf(mm, pd)
  IN [pd |-> [p \in DOMAIN mm.pd \ {pd} |-> mm.pd[p]],
      pt |-> [t \in DOMAIN mm.pt \ tables |-> mm.pt[t]],
      kernel |-> mm.kernel \cup tables \cup {pd},
      user |-> mm.user \cup PagesOf(mm, pd)]

\* Fault: the pages are freed and the page tables kept.
pagedir_destroy_pages(mm, pd) ==
  [mm EXCEPT !.pd = [p \in DOMAIN mm.pd \ {pd} |-> mm.pd[p]],
             !.kernel = @ \cup {pd}, !.user = @ \cup PagesOf(mm, pd)]

\* lookup_page: whether pd has a table for va, its entry, and the entry's change.
HasTable(mm, pd, va) == mm.pd[pd][pd_no(va)] # ZeroEntry
lookup_page(mm, pd, va) ==
  IF HasTable(mm, pd, va) THEN mm.pt[pde_get_pt(mm.pd[pd][pd_no(va)])][pt_no(va)] ELSE ZeroEntry
SetEntry(mm, pd, va, pte) ==
  [mm EXCEPT !.pt[pde_get_pt(mm.pd[pd][pd_no(va)])][pt_no(va)] = pte]
\* lookup_page with CREATE, of an address without a table: needs HasKernelPage.
CreateTable(mm, pd, va) ==
  LET pt == KernelPage(mm)
  IN [mm EXCEPT !.kernel = @ \ {pt}, !.pt = With(@, pt, ZeroTable),
                !.pd[pd][pd_no(va)] = pde_create(pt)]

\* pagedir_set_page fails when the table is missing and there is no page for it.
CanSetPage(mm, pd, upage) == HasTable(mm, pd, upage) \/ HasKernelPage(mm)
pagedir_set_page(mm, pd, upage, kpage, writable) ==
  LET m == IF HasTable(mm, pd, upage) THEN mm ELSE CreateTable(mm, pd, upage)
  IN SetEntry(m, pd, upage, pte_create_user(kpage, writable))

pagedir_get_page(mm, pd, uaddr) ==
  LET pte == lookup_page(mm, pd, uaddr) IN IF present(pte) THEN pte_get_page(pte) ELSE NULL
=============================================================================
