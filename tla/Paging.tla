------------------------------- MODULE Paging -------------------------------
(***************************************************************************)
(* The page tables of src/src/memory/paging/paging.c: a directory of tables *)
(* of entries, each a page-aligned physical address and flags.  The number  *)
(* of entries and the page size are parameters; the machine word is the     *)
(* address space they span.                                                 *)
(***************************************************************************)
EXTENDS Integers

CONSTANTS PAGING_TOTAL_ENTRIES_PER_TABLE,
          PAGING_PAGE_SIZE

ASSUME PagingAssumption == /\ PAGING_TOTAL_ENTRIES_PER_TABLE \in Nat \ {0}
                           /\ PAGING_PAGE_SIZE \in Nat \ {0}

Entries == 0 .. PAGING_TOTAL_ENTRIES_PER_TABLE - 1
TableSpan == PAGING_TOTAL_ENTRIES_PER_TABLE * PAGING_PAGE_SIZE
WordSize == PAGING_TOTAL_ENTRIES_PER_TABLE * TableSpan
Address == 0 .. WordSize - 1

Flag == {"IS_PRESENT", "IS_WRITEABLE", "ACCESS_FROM_ALL"}

\* Every page of the address space at its own address.
paging_new_4gb(flags) ==
  [i \in Entries |-> [j \in Entries |->
     [phys |-> i * TableSpan + j * PAGING_PAGE_SIZE, flags |-> flags]]]

paging_is_aligned(addr) == addr % PAGING_PAGE_SIZE = 0

\* The indexes of an aligned address in the directory and in the table.
paging_get_indexes(virt) == <<virt \div TableSpan, (virt % TableSpan) \div PAGING_PAGE_SIZE>>

\* Up to a page boundary; in the last page the sum wraps around to 0.
paging_align_address(ptr) ==
  IF ptr % PAGING_PAGE_SIZE # 0
    THEN (ptr + PAGING_PAGE_SIZE - (ptr % PAGING_PAGE_SIZE)) % WordSize
    ELSE ptr

paging_align_to_lower_page(addr) == addr - (addr % PAGING_PAGE_SIZE)

\* An operation that may fail answers the tables and whether it succeeded.
Done(dir) == [ok |-> TRUE, dir |-> dir]
Fail(dir) == [ok |-> FALSE, dir |-> dir]

\* The page at address 0 can never be set.
paging_set(dir, virt, entry) ==
  IF virt = 0 \/ ~paging_is_aligned(virt) THEN Fail(dir)
  ELSE LET at == paging_get_indexes(virt)
       IN  Done([dir EXCEPT ![at[1]][at[2]] = entry])

paging_map(dir, virt, phys, flags) ==
  IF paging_is_aligned(virt) /\ paging_is_aligned(phys)
    THEN paging_set(dir, virt, [phys |-> phys, flags |-> flags])
    ELSE Fail(dir)

\* Page after page; the first failure ends it and leaves the pages before it mapped.
paging_map_range(dir, virt, phys, count, flags) ==
  LET after[i \in 0 .. count] ==
        IF i = 0 THEN Done(dir)
        ELSE LET by == (i - 1) * PAGING_PAGE_SIZE
             IN  IF after[i - 1].ok
                   THEN paging_map(after[i - 1].dir, (virt + by) % WordSize,
                                   (phys + by) % WordSize, flags)
                   ELSE after[i - 1]
  IN  after[count]

paging_map_to(dir, virt, phys, phys_end, flags) ==
  IF /\ paging_is_aligned(virt) /\ paging_is_aligned(phys) /\ paging_is_aligned(phys_end)
     /\ phys_end >= phys
    THEN paging_map_range(dir, virt, phys, (phys_end - phys) \div PAGING_PAGE_SIZE, flags)
    ELSE Fail(dir)

\* The entry of the page at virt, which is aligned.
paging_get(dir, virt) == LET at == paging_get_indexes(virt) IN dir[at[1]][at[2]]

\* The null pointer has no physical address: the answer is null again.
paging_get_physical_address(dir, virt) ==
  IF virt = 0 THEN 0
  ELSE LET page == paging_align_to_lower_page(virt)
       IN  paging_get(dir, page).phys + (virt - page)
=============================================================================
