----------------------------- MODULE KernelHeap -----------------------------
(***************************************************************************)
(* The kernel heap as its callers see it (kheap.c over heap.c), as          *)
(* functions of the block table, for handlers that allocate and free several *)
(* times in one step.  Module Heap has the same table as a state machine.   *)
(*                                                                          *)
(* The table lies in memory right after other bytes.  An address below the  *)
(* heap, such as NULL, has a negative block number, and free then starts at *)
(* one of those bytes: they are the entries below 0.                        *)
(***************************************************************************)
EXTENDS Paging

CONSTANTS TOYOS_HEAP_ADDRESS,   \* where the heap starts, a multiple of the page size
          Total                 \* kernel_heap_table.total

ASSUME KernelHeapAssumption ==
  /\ TOYOS_HEAP_ADDRESS % PAGING_PAGE_SIZE = 0
  /\ Total \in Nat \ {0}
  /\ TOYOS_HEAP_ADDRESS \div PAGING_PAGE_SIZE >= 2
  /\ TOYOS_HEAP_ADDRESS + Total * PAGING_PAGE_SIZE < WordSize

NULL == 0

\* A block of the heap is as large as a page (config.h).
BlockSize == PAGING_PAGE_SIZE
Block == 0 .. Total - 1
Below == -(TOYOS_HEAP_ADDRESS \div BlockSize) .. -1

\* HEAP_BLOCK_TABLE_ENTRY_FREE is the absence of every flag.
FREE == {}
BlockFlag == {"TAKEN", "IS_FIRST", "HAS_NEXT"}

(* kheap_init and heap_create: the entries are free.  The bytes below the   *)
(* table end with the boot sector, whose last two are 0x55 and 0xaa: of the *)
(* two only the last has the bit of HAS_NEXT.  The bytes before are unknown. *)
kheap_init ==
  {[i \in Below \cup Block |-> IF i \in Block \/ i = -2 THEN FREE
                               ELSE IF i = -1 THEN {"HAS_NEXT"} ELSE low]
   : low \in {FREE, {"HAS_NEXT"}}}

heap_block_to_address(block) == TOYOS_HEAP_ADDRESS + block * BlockSize
heap_address_to_block(address) == (address - TOYOS_HEAP_ADDRESS) \div BlockSize

\* The blocks of an allocation: its size up to a multiple of the block size.
total_blocks(size) == (size + BlockSize - 1) \div BlockSize

FreeRun(t, i, n) == i + n <= Total /\ \A j \in i .. i + n - 1 : t[j] = FREE

\* The starts of the runs of n > 0 free blocks.
Starts(t, n) == {i \in Block : FreeRun(t, i, n)}

\* The flags of block i of an allocation of n blocks from s.
TakenFlags(s, n, i) == {"TAKEN"} \cup (IF i = s THEN {"IS_FIRST"} ELSE {})
                                 \cup (IF i < s + n - 1 THEN {"HAS_NEXT"} ELSE {})

heap_mark_blocks_taken(t, s, n) ==
  [i \in DOMAIN t |-> IF i \in s .. s + n - 1 THEN TakenFlags(s, n, i) ELSE t[i]]

\* First fit; the answer is the new table and the address, or NULL.
kzalloc(t, size) ==
  LET n == total_blocks(size)
      found == Starts(t, n)
  IN  IF found = {} THEN [t |-> t, ptr |-> NULL]
      ELSE LET s == CHOOSE i \in found : \A j \in found : i <= j
           IN  [t |-> heap_mark_blocks_taken(t, s, n), ptr |-> heap_block_to_address(s)]

\* From entry s on as long as HAS_NEXT leads.
heap_mark_blocks_free(t, s) ==
  LET last == CHOOSE e \in s .. Total :
                /\ e = Total \/ "HAS_NEXT" \notin t[e]
                /\ \A j \in s .. e - 1 : "HAS_NEXT" \in t[j]
  IN  [i \in DOMAIN t |-> IF i \in s .. last THEN FREE ELSE t[i]]

kfree(t, ptr) == heap_mark_blocks_free(t, heap_address_to_block(ptr))
=============================================================================
