-------------------------------- MODULE Heap --------------------------------
(***************************************************************************)
(* The kernel heap of src/src/memory/heap: a table with one byte of flags   *)
(* per block, a first-fit search, and free, which follows the HAS_NEXT      *)
(* flags from the block it is given.  Addresses are block numbers; sizes    *)
(* are in bytes, in a machine word of WordSize values.                      *)
(***************************************************************************)
EXTENDS Integers

CONSTANTS Total,       \* table->total
          BlockSize,   \* TOYOS_HEAP_BLOCK_SIZE
          WordSize,    \* 2^32: size_t and uint32_t
          Size         \* the sizes that callers ask for

ASSUME HeapAssumption == /\ Total \in Nat \ {0}
                         /\ BlockSize \in Nat \ {0}
                         /\ WordSize \in Nat
                         /\ Size \subseteq 0 .. WordSize - 1

VARIABLES entries,     \* table->entries: the flags of each block
          held         \* the allocations callers hold: first block, blocks, size asked for

vars == <<entries, held>>

Block == 0 .. Total - 1

\* HEAP_BLOCK_TABLE_ENTRY_FREE is the absence of every flag.
FREE == {}

TypeOK ==
  /\ entries \in [Block -> SUBSET {"TAKEN", "IS_FIRST", "HAS_NEXT"}]
  /\ held \subseteq [start : Block, blocks : Nat, size : Size]

\* heap_create
Init == entries = [i \in Block |-> FREE] /\ held = {}
-----------------------------------------------------------------------------
\* Mutant: rounds down.
heap_align_value_to_lower(val) == val - (val % BlockSize)

\* heap_align_value_to_upper: the sum wraps around at the word size.
heap_align_value_to_upper(val) ==
  IF val % BlockSize = 0 THEN val
  ELSE (val - (val % BlockSize) + BlockSize) % WordSize

\* The number of blocks malloc asks heap_malloc_blocks for.
total_blocks(size) == heap_align_value_to_upper(size) \div BlockSize

FreeRun(i, n) == i + n <= Total /\ \A j \in i .. i + n - 1 : entries[j] = FREE

(* heap_get_start_block finds i: the lowest run of n free blocks.  With     *)
(* n = 0 its count never meets n, the scan runs to the end of the table and *)
(* answers the start of the free blocks there.                              *)
heap_get_start_block(i, n) ==
  IF n > 0
  THEN FreeRun(i, n) /\ \A j \in Block : FreeRun(j, n) => i <= j
  ELSE FreeRun(i, Total - i) /\ (i > 0 => entries[i - 1] # FREE)

\* heap_mark_blocks_taken: the flags of the block at i of a run of n from s.
TakenFlags(s, n, i) ==
  {"TAKEN"} \cup (IF i = s THEN {"IS_FIRST"} ELSE {})
            \cup (IF i < s + n - 1 THEN {"HAS_NEXT"} ELSE {})

heap_mark_blocks_taken(s, n) ==
  entries' = [i \in Block |-> IF i \in s .. s + n - 1 THEN TakenFlags(s, n, i)
                              ELSE entries[i]]

\* Mutant: only the first block is freed.
heap_mark_first_free(s) == entries' = [entries EXCEPT ![s] = FREE]

\* Mutant: one block more than the flags say.
heap_mark_one_more_free(s) ==
  entries' = [i \in Block |->
                IF i >= s /\ \A j \in s .. i - 2 : "HAS_NEXT" \in entries[j]
                THEN FREE ELSE entries[i]]

\* heap_mark_blocks_free: block s and on as long as HAS_NEXT leads.
heap_mark_blocks_free(s) ==
  entries' = [i \in Block |->
                IF i >= s /\ \A j \in s .. i - 1 : "HAS_NEXT" \in entries[j]
                THEN FREE ELSE entries[i]]
-----------------------------------------------------------------------------
\* malloc that returns an address; one that returns NULL changes nothing.
malloc(size) ==
  \E i \in Block :
    /\ heap_get_start_block(i, total_blocks(size))
    /\ heap_mark_blocks_taken(i, total_blocks(size))
    /\ held' = held \cup {[start |-> i, blocks |-> total_blocks(size), size |-> size]}

\* free of a pointer that malloc gave out.
free(a) == heap_mark_blocks_free(a.start) /\ held' = held \ {a}

Next == \/ \E size \in Size : malloc(size)
        \/ \E a \in held : free(a)

Spec == Init /\ [][Next]_vars
-----------------------------------------------------------------------------
Span(a) == a.start .. a.start + a.blocks - 1

(* The flags in the table spell out exactly the allocations that callers    *)
(* hold: free finds the whole of the allocation it is given and nothing of  *)
(* its neighbour.                                                           *)
TableMatchesHeld ==
  /\ \A a \in held : /\ Span(a) \subseteq Block
                     /\ \A i \in Span(a) : entries[i] = TakenFlags(a.start, a.blocks, i)
  /\ \A i \in Block : entries[i] # FREE => \E a \in held : i \in Span(a)

(* No block belongs to two allocations.                                     *)
Disjoint == \A a, b \in held : a # b => Span(a) \cap Span(b) = {}

\* The number of blocks of the allocation that starts at block i, as free follows them.
RunLength(i) == CHOOSE n \in 1 .. Total :
                  /\ i + n <= Total
                  /\ \A j \in i .. i + n - 2 : "HAS_NEXT" \in entries[j]
                  /\ "HAS_NEXT" \notin entries[i + n - 1]

\* The allocations that the flags alone spell out.
Spelled == {<<i, RunLength(i)>> : i \in {j \in Block : "IS_FIRST" \in entries[j]}}

A == INSTANCE Allocator WITH out <- Spelled

(* The allocations that can be read back from the flags alone implement the *)
(* abstract allocator: malloc adds a run of unused blocks to them, free     *)
(* takes one away, and no other changes.                                    *)
ImplementsAllocator == A!Spec

(* The loop of heap_get_start_block: its variables free_blocks and          *)
(* start_block before the first round, and whether it has left with break.  *)
ScanStart == [free |-> 0, start |-> -1, done |-> FALSE]

\* Mutant: the start of a run that was too short is kept.
ScanRound_stale(before, i, n) ==
  LET start == IF before.start = -1 THEN i ELSE before.start
  IN  IF before.done THEN before
      ELSE IF entries[i] # FREE THEN [free |-> 0, start |-> before.start, done |-> FALSE]
      ELSE [free |-> before.free + 1, start |-> start, done |-> before.free + 1 = n]

\* One round of it, at block i.
ScanRound(before, i, n) ==
  LET start == IF before.start = -1 THEN i ELSE before.start
  IN  IF before.done THEN before
      ELSE IF entries[i] # FREE THEN ScanStart
      ELSE [free |-> before.free + 1, start |-> start, done |-> before.free + 1 = n]

\* The variables after each number of rounds.
Rounds(n) ==
  LET scan[i \in 0 .. Total] ==
        IF i = 0 THEN ScanStart ELSE ScanRound(scan[i - 1], i - 1, n)
  IN  scan

\* What the search answers; -1 stands for -ENOMEM.
Scan(n) == IF Rounds(n)[Total].free < n THEN -1 ELSE Rounds(n)[Total].start

(* The loop finds what the declarative form of heap_get_start_block says,   *)
(* for every number of blocks: the first fit, also at the end of the table. *)
ScanFindsFirstFit ==
  \A n \in 0 .. Total + 1 :
    LET found == {i \in Block : heap_get_start_block(i, n)}
    IN  IF found = {} THEN Scan(n) = -1 ELSE found = {Scan(n)}

(* malloc returns a block of the specified size (heap.h).  This holds for   *)
(* the sizes of the run; a size within a block of WordSize wraps to zero    *)
(* blocks, and malloc succeeds.                                             *)
AsLargeAsAsked == \A a \in held : a.size <= a.blocks * BlockSize
=============================================================================
