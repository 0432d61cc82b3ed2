----------------------------- MODULE HeapProofs -----------------------------
(***************************************************************************)
(* The safety of module Heap for a heap of any size, as long as callers ask *)
(* for sizes that round to at least one block: neither 0 nor so large that  *)
(* rounding up wraps around.                                                *)
(***************************************************************************)
EXTENDS Heap, Induction

LegalSizes == \A size \in Size : total_blocks(size) \in Nat \ {0}

\* Two allocations start at different blocks.
DistinctPointers == \A a, b \in held : a.start = b.start => a = b

IInv == /\ TypeOK
        /\ TableMatchesHeld
        /\ \A a \in held : a.blocks # 0
        /\ DistinctPointers

(* Every allocation starts with a block that is marked IS_FIRST, and no     *)
(* later block of it is: two of them cannot overlap.                        *)
LEMMA IInvDisjoint == IInv => Disjoint
<1> SUFFICES ASSUME IInv, NEW a \in held, NEW b \in held, a # b,
                    NEW i \in Span(a) \cap Span(b)
             PROVE  FALSE
  BY DEF Disjoint
<1> USE HeapAssumption
<1>1. /\ a.start \in Int /\ a.blocks \in Int /\ b.start \in Int /\ b.blocks \in Int
      /\ a.start # b.start
      /\ i \in Int /\ a.start <= i /\ i <= a.start + a.blocks - 1
      /\ b.start <= i /\ i <= b.start + b.blocks - 1
  BY DEF IInv, TypeOK, DistinctPointers, Span, Block
<1>2. /\ \A j \in Span(a) : entries[j] = TakenFlags(a.start, a.blocks, j)
      /\ \A j \in Span(b) : entries[j] = TakenFlags(b.start, b.blocks, j)
  BY DEF IInv, TableMatchesHeld
<1>3. CASE a.start < b.start
  <2>1. b.start \in Span(a) /\ b.start \in Span(b)
    BY <1>1, <1>3 DEF Span
  <2>2. "IS_FIRST" \notin TakenFlags(a.start, a.blocks, b.start)
    BY <1>1, <1>3 DEF TakenFlags
  <2>3. "IS_FIRST" \in TakenFlags(b.start, b.blocks, b.start)
    BY DEF TakenFlags
  <2> QED
    BY <1>2, <2>1, <2>2, <2>3
<1>4. CASE b.start < a.start
  <2>1. a.start \in Span(a) /\ a.start \in Span(b)
    BY <1>1, <1>4 DEF Span
  <2>2. "IS_FIRST" \notin TakenFlags(b.start, b.blocks, a.start)
    BY <1>1, <1>4 DEF TakenFlags
  <2>3. "IS_FIRST" \in TakenFlags(a.start, a.blocks, a.start)
    BY DEF TakenFlags
  <2> QED
    BY <1>2, <2>1, <2>2, <2>3
<1> QED
  BY <1>1, <1>3, <1>4

(* The empty table of heap_create satisfies the invariant.                  *)
LEMMA InitIInv == Init => IInv
  BY HeapAssumption DEF Init, IInv, TypeOK, TableMatchesHeld, DistinctPointers, Block, FREE

(* malloc takes blocks that were free, so no allocation that is out sees    *)
(* its flags change.                                                        *)
LEMMA MallocIInv ==
  ASSUME IInv, NEW size \in Size, total_blocks(size) \in Nat \ {0}, malloc(size)
  PROVE  IInv'
<1> DEFINE n == total_blocks(size)
<1> USE HeapAssumption
<1>1. PICK i \in Block :
        /\ heap_get_start_block(i, n)
        /\ heap_mark_blocks_taken(i, n)
        /\ held' = held \cup {[start |-> i, blocks |-> n, size |-> size]}
  BY DEF malloc
<1> DEFINE new == [start |-> i, blocks |-> n, size |-> size]
<1>2. n \in Nat /\ n > 0 /\ i \in Int /\ 0 <= i /\ i + n <= Total
      /\ \A j \in i .. i + n - 1 : entries[j] = FREE
  BY <1>1 DEF heap_get_start_block, FreeRun, Block
<1> HIDE DEF n
<1>3. Span(new) = i .. i + n - 1 /\ Span(new) \subseteq Block
  BY <1>2 DEF Span, Block
<1>4. /\ \A j \in Block : entries'[j] = IF j \in Span(new) THEN TakenFlags(i, n, j)
                                        ELSE entries[j]
      /\ entries' \in [Block -> SUBSET {"TAKEN", "IS_FIRST", "HAS_NEXT"}]
  <2>1. entries \in [Block -> SUBSET {"TAKEN", "IS_FIRST", "HAS_NEXT"}]
    BY DEF IInv, TypeOK
  <2>2. \A j \in Block : TakenFlags(i, n, j) \in SUBSET {"TAKEN", "IS_FIRST", "HAS_NEXT"}
    BY DEF TakenFlags
  <2> QED
    BY <1>1, <1>3, <2>1, <2>2 DEF heap_mark_blocks_taken
<1>5. ASSUME NEW a \in held
      PROVE  /\ Span(a) \subseteq Block
             /\ \A j \in Span(a) : /\ j \notin Span(new)
                                   /\ entries[j] = TakenFlags(a.start, a.blocks, j)
  <2>1. /\ Span(a) \subseteq Block
        /\ \A j \in Span(a) : entries[j] = TakenFlags(a.start, a.blocks, j)
    BY DEF IInv, TableMatchesHeld
  <2>2. \A j \in Span(a) : entries[j] # FREE
    BY <2>1 DEF TakenFlags, FREE
  <2>3. \A j \in Span(new) : entries[j] = FREE
    BY <1>2, <1>3
  <2> QED
    BY <2>1, <2>2, <2>3
<1>6. TypeOK'
  BY <1>1, <1>2, <1>4 DEF IInv, TypeOK
<1>7. TableMatchesHeld'
  <2>1. ASSUME NEW a \in held'
        PROVE  Span(a) \subseteq Block
               /\ \A j \in Span(a) : entries'[j] = TakenFlags(a.start, a.blocks, j)
    <3>1. CASE a = new
      BY <3>1, <1>3, <1>4
    <3>2. CASE a \in held
      BY <3>2, <1>4, <1>5
    <3> QED
      BY <3>1, <3>2, <1>1
  <2>2. ASSUME NEW j \in Block, entries'[j] # FREE
        PROVE  \E a \in held' : j \in Span(a)
    <3>1. CASE j \in Span(new)
      BY <3>1, <1>1
    <3>2. CASE j \notin Span(new)
      BY <2>2, <3>2, <1>1, <1>4 DEF IInv, TableMatchesHeld
    <3> QED
      BY <3>1, <3>2
  <2> QED
    BY <2>1, <2>2 DEF TableMatchesHeld
<1>8. \A a \in held' : a.blocks # 0
  BY <1>1, <1>2 DEF IInv
<1>9. DistinctPointers'
  <2>1. ASSUME NEW a \in held
        PROVE  a.start # i
    <3>1. a.start \in Span(a)
      BY DEF Span, IInv, TypeOK, Block
    <3>2. i \in Span(new)
      BY <1>2, <1>3
    <3> QED
      BY <3>1, <3>2, <1>5
  <2> QED
    BY <2>1, <1>1 DEF IInv, DistinctPointers
<1> QED
  BY <1>6, <1>7, <1>8, <1>9 DEF IInv

(* free clears exactly the blocks of the allocation it is given.            *)
LEMMA FreeIInv ==
  ASSUME IInv, NEW a \in held, free(a)
  PROVE  IInv'
<1> USE HeapAssumption
<1>1. /\ a.start \in Int /\ 0 <= a.start /\ a.blocks \in Nat /\ a.blocks > 0
      /\ a.start + a.blocks <= Total
      /\ \A i \in Span(a) : entries[i] = TakenFlags(a.start, a.blocks, i)
  <2>1. a.start \in Int /\ 0 <= a.start /\ a.blocks \in Nat /\ a.blocks > 0
    BY DEF IInv, TypeOK, Block
  <2>2. /\ Span(a) \subseteq Block
        /\ \A i \in Span(a) : entries[i] = TakenFlags(a.start, a.blocks, i)
    BY DEF IInv, TableMatchesHeld
  <2>3. a.start + a.blocks - 1 \in Span(a)
    BY <2>1 DEF Span
  <2> QED
    BY <2>1, <2>2, <2>3 DEF Block
<1>2. ASSUME NEW i \in Block
      PROVE  i \in Span(a) <=>
               i >= a.start /\ \A j \in a.start .. i - 1 : "HAS_NEXT" \in entries[j]
  <2>1. ASSUME i \in Span(a), NEW j \in a.start .. i - 1
        PROVE  "HAS_NEXT" \in entries[j]
    <3>1. j \in Span(a) /\ j < a.start + a.blocks - 1
      BY <1>1, <2>1 DEF Span
    <3>2. "HAS_NEXT" \in TakenFlags(a.start, a.blocks, j)
      BY <3>1 DEF TakenFlags
    <3> QED
      BY <1>1, <3>1, <3>2
  <2>2. ASSUME i >= a.start, i \notin Span(a)
        PROVE  \E j \in a.start .. i - 1 : "HAS_NEXT" \notin entries[j]
    <3> DEFINE last == a.start + a.blocks - 1
    <3>1. last \in Span(a) /\ last \in a.start .. i - 1
      BY <1>1, <2>2 DEF Span, Block
    <3>2. "HAS_NEXT" \notin TakenFlags(a.start, a.blocks, last)
      BY <1>1 DEF TakenFlags
    <3> QED
      BY <1>1, <3>1, <3>2
  <2> QED
    BY <2>1, <2>2, <1>1 DEF Span, Block
<1>3. /\ \A i \in Block : entries'[i] = IF i \in Span(a) THEN FREE ELSE entries[i]
      /\ entries' \in [Block -> SUBSET {"TAKEN", "IS_FIRST", "HAS_NEXT"}]
  <2>1. entries \in [Block -> SUBSET {"TAKEN", "IS_FIRST", "HAS_NEXT"}]
    BY DEF IInv, TypeOK
  <2> QED
    BY <1>2, <2>1 DEF free, heap_mark_blocks_free, FREE
<1>4. held' = held \ {a} /\ \A b \in held' : Span(b) \cap Span(a) = {}
  BY IInvDisjoint DEF free, Disjoint
<1>5. TypeOK'
  BY <1>3, <1>4 DEF IInv, TypeOK
<1>6. TableMatchesHeld'
  <2>1. ASSUME NEW b \in held'
        PROVE  Span(b) \subseteq Block
               /\ \A j \in Span(b) : entries'[j] = TakenFlags(b.start, b.blocks, j)
    <3>1. /\ b \in held
          /\ Span(b) \subseteq Block
          /\ \A j \in Span(b) : entries[j] = TakenFlags(b.start, b.blocks, j)
      BY <1>4 DEF IInv, TableMatchesHeld
    <3> QED
      BY <1>3, <1>4, <3>1
  <2>2. ASSUME NEW j \in Block, entries'[j] # FREE
        PROVE  \E b \in held' : j \in Span(b)
    <3>1. j \notin Span(a) /\ entries[j] # FREE
      BY <1>3, <2>2
    <3>2. PICK b \in held : j \in Span(b)
      BY <3>1 DEF IInv, TableMatchesHeld
    <3> QED
      BY <1>4, <3>1, <3>2
  <2> QED
    BY <2>1, <2>2 DEF TableMatchesHeld
<1> QED
  BY <1>4, <1>5, <1>6 DEF IInv, DistinctPointers

(* Every malloc and every free keeps the invariant.                         *)
LEMMA NextIInv == LegalSizes /\ IInv /\ [Next]_vars => IInv'
<1> SUFFICES ASSUME LegalSizes, IInv, [Next]_vars PROVE IInv'
  OBVIOUS
<1>1. CASE UNCHANGED vars
  BY <1>1 DEF vars, IInv, TypeOK, TableMatchesHeld, DistinctPointers
<1>2. ASSUME NEW size \in Size, malloc(size) PROVE IInv'
  BY <1>2, MallocIInv DEF LegalSizes
<1>3. ASSUME NEW a \in held, free(a) PROVE IInv'
  BY <1>3, FreeIInv
<1> QED
  BY <1>1, <1>2, <1>3 DEF Next

(* With legal sizes, the table of a heap of any size always spells out      *)
(* exactly the allocations that callers hold.                               *)
THEOREM TableIsExact ==
  ASSUME LegalSizes
  PROVE  Spec => []TableMatchesHeld
<1>1. IInv /\ [Next]_vars => IInv'
  BY NextIInv
<1>2. IInv => TableMatchesHeld
  BY DEF IInv
<1> QED
  BY <1>1, <1>2, InitIInv, PTL DEF Spec

(* With legal sizes, no block of the heap is ever in two allocations.       *)
THEOREM NoOverlap ==
  ASSUME LegalSizes
  PROVE  Spec => []Disjoint
<1>1. IInv /\ [Next]_vars => IInv'
  BY NextIInv
<1> QED
  BY <1>1, IInvDisjoint, InitIInv, PTL DEF Spec
-----------------------------------------------------------------------------
\* The allocations callers hold, as the abstract allocator sees them.
HeldRuns == {<<a.start, a.blocks>> : a \in held}

FlagsTell == Spelled = HeldRuns

(* Following HAS_NEXT from its first block measures an allocation.          *)
LEMMA RunLengthIs ==
  ASSUME IInv, NEW a \in held
  PROVE  RunLength(a.start) = a.blocks
<1> USE HeapAssumption
<1>1. /\ a.start \in Int /\ 0 <= a.start /\ a.blocks \in Nat /\ a.blocks > 0
      /\ a.start + a.blocks <= Total
      /\ \A i \in Span(a) : entries[i] = TakenFlags(a.start, a.blocks, i)
  <2>1. a.start \in Int /\ 0 <= a.start /\ a.blocks \in Nat /\ a.blocks > 0
    BY DEF IInv, TypeOK, Block
  <2>2. /\ Span(a) \subseteq Block
        /\ \A i \in Span(a) : entries[i] = TakenFlags(a.start, a.blocks, i)
    BY DEF IInv, TableMatchesHeld
  <2>3. a.start + a.blocks - 1 \in Span(a)
    BY <2>1 DEF Span
  <2> QED
    BY <2>1, <2>2, <2>3 DEF Block
<1>2. \A i \in Span(a) : "HAS_NEXT" \in entries[i] <=> i < a.start + a.blocks - 1
  BY <1>1 DEF TakenFlags
<1> DEFINE s == a.start
           m == a.blocks
           P(n) == /\ s + n <= Total
                   /\ \A j \in s .. s + n - 2 : "HAS_NEXT" \in entries[j]
                   /\ "HAS_NEXT" \notin entries[s + n - 1]
<1>3. /\ s \in Int /\ 0 <= s /\ m \in Nat /\ m > 0 /\ s + m <= Total
      /\ \A i \in s .. s + m - 1 : "HAS_NEXT" \in entries[i] <=> i < s + m - 1
  BY <1>1, <1>2 DEF Span
<1>4. RunLength(s) = CHOOSE n \in 1 .. Total : P(n)
  BY DEF RunLength
<1> HIDE DEF s, m
<1>5. m \in 1 .. Total /\ P(m)
  BY <1>3
<1>6. ASSUME NEW n \in 1 .. Total, P(n) PROVE n = m
  <2>1. CASE n < m
    <3>1. s + n - 1 \in s .. s + m - 1 /\ s + n - 1 < s + m - 1
      BY <1>3, <2>1
    <3> QED
      BY <1>3, <1>6, <3>1
  <2>2. CASE n > m
    <3>1. s + m - 1 \in s .. s + n - 2 /\ s + m - 1 \in s .. s + m - 1
      BY <1>3, <2>2
    <3> QED
      BY <1>3, <1>6, <3>1
  <2> QED
    BY <1>3, <2>1, <2>2
<1> HIDE DEF P
<1>7. (CHOOSE n \in 1 .. Total : P(n)) = m
  BY <1>5, <1>6
<1> QED
  BY <1>4, <1>7 DEF s, m

(* What the flags spell out is what callers hold.                           *)
LEMMA FlagsTellAll == IInv => FlagsTell
<1> SUFFICES ASSUME IInv PROVE Spelled = HeldRuns
  BY DEF FlagsTell
<1> USE HeapAssumption
<1>1. ASSUME NEW a \in held
      PROVE  /\ a.start \in Block /\ "IS_FIRST" \in entries[a.start]
             /\ \A i \in Span(a) : "IS_FIRST" \in entries[i] => i = a.start
  <2>1. /\ a.start \in Block /\ a.start \in Span(a)
        /\ \A i \in Span(a) : entries[i] = TakenFlags(a.start, a.blocks, i)
    BY DEF IInv, TypeOK, TableMatchesHeld, Span, Block
  <2> QED
    BY <2>1 DEF TakenFlags
<1>2. ASSUME NEW i \in Block, "IS_FIRST" \in entries[i]
      PROVE  \E a \in held : a.start = i
  <2>1. PICK a \in held : i \in Span(a)
    BY <1>2 DEF IInv, TableMatchesHeld, FREE
  <2> QED
    BY <1>1, <1>2, <2>1
<1>3. \A a \in held : RunLength(a.start) = a.blocks
  BY RunLengthIs
<1>4. HeldRuns \subseteq Spelled
  BY <1>1, <1>3 DEF HeldRuns, Spelled
<1>5. Spelled \subseteq HeldRuns
  <2> SUFFICES ASSUME NEW i \in Block, "IS_FIRST" \in entries[i]
               PROVE  <<i, RunLength(i)>> \in HeldRuns
    BY DEF Spelled
  <2>1. PICK a \in held : a.start = i
    BY <1>2
  <2> QED
    BY <1>3, <2>1 DEF HeldRuns
<1> QED
  BY <1>4, <1>5

(* malloc is an allocation of the abstract allocator: the run it marks      *)
(* meets no run that is out.                                                *)
LEMMA MapMalloc ==
  ASSUME IInv, IInv', FlagsTell, FlagsTell', NEW size \in Size,
         total_blocks(size) \in Nat \ {0}, malloc(size)
  PROVE  A!Allocate
<1> DEFINE n == total_blocks(size)
<1> USE HeapAssumption
<1>1. PICK i \in Block :
        /\ heap_get_start_block(i, n)
        /\ held' = held \cup {[start |-> i, blocks |-> n, size |-> size]}
  BY DEF malloc
<1>2. n \in Nat /\ n > 0 /\ i \in Int /\ 0 <= i /\ i + n <= Total
      /\ \A j \in i .. i + n - 1 : entries[j] = FREE
  BY <1>1 DEF heap_get_start_block, FreeRun, Block
<1> HIDE DEF n
<1>3. <<i, n>> \in (0 .. Total - 1) \X (1 .. Total) /\ A!Span(<<i, n>>) \subseteq 0 .. Total - 1
  BY <1>2 DEF A!Span
<1>4. ASSUME NEW b \in Spelled PROVE A!Span(<<i, n>>) \cap A!Span(b) = {}
  <2>1. PICK a \in held : b = <<a.start, a.blocks>>
    BY DEF FlagsTell, HeldRuns
  <2>2. \A j \in Span(a) : entries[j] = TakenFlags(a.start, a.blocks, j)
    BY DEF IInv, TableMatchesHeld
  <2>3. \A j \in Span(a) : entries[j] # FREE
    BY <2>2 DEF TakenFlags, FREE
  <2>4. A!Span(b) = Span(a) /\ A!Span(<<i, n>>) = i .. i + n - 1
    BY <2>1 DEF A!Span, Span
  <2> QED
    BY <1>2, <2>3, <2>4
<1>5. HeldRuns' = HeldRuns \cup {<<i, n>>}
  <2> DEFINE new == [start |-> i, blocks |-> n, size |-> size]
             Run(a) == <<a.start, a.blocks>>
  <2>1. Run(new) = <<i, n>> /\ held' = held \cup {new}
    BY <1>1
  <2>2. HeldRuns = {Run(a) : a \in held} /\ HeldRuns' = {Run(a) : a \in held'}
    BY DEF HeldRuns
  <2> HIDE DEF new, Run
  <2> QED
    BY <2>1, <2>2
<1> QED
  BY <1>3, <1>4, <1>5 DEF A!Allocate, FlagsTell

(* free is a release of the abstract allocator: it takes one run away.      *)
LEMMA MapFree ==
  ASSUME IInv, FlagsTell, FlagsTell', NEW a \in held, free(a)
  PROVE  A!Release
<1>1. <<a.start, a.blocks>> \in Spelled
  BY DEF FlagsTell, HeldRuns
<1>2. HeldRuns' = HeldRuns \ {<<a.start, a.blocks>>}
  BY DEF HeldRuns, free, IInv, DistinctPointers
<1> QED
  BY <1>1, <1>2 DEF A!Release, FlagsTell

(* With legal sizes, a heap of any size implements the abstract allocator,  *)
(* and the flags in its table are all it needs to know.                     *)
THEOREM HeapImplementsAllocator ==
  ASSUME LegalSizes
  PROVE  Spec => ImplementsAllocator
<1>1. IInv /\ [Next]_vars => IInv'
  BY NextIInv
<1>2. Init => A!Init
  BY DEF Init, A!Init, Spelled, FREE
<1>3. IInv /\ IInv' /\ FlagsTell /\ FlagsTell' /\ [Next]_vars => [A!Next]_Spelled
  <2> SUFFICES ASSUME IInv, IInv', FlagsTell, FlagsTell', [Next]_vars
               PROVE  [A!Next]_Spelled
    OBVIOUS
  <2>1. CASE UNCHANGED vars
    BY <2>1 DEF vars, Spelled, RunLength
  <2>2. ASSUME NEW size \in Size, malloc(size) PROVE A!Next
    BY <2>2, MapMalloc DEF LegalSizes, A!Next
  <2>3. ASSUME NEW a \in held, free(a) PROVE A!Next
    BY <2>3, MapFree DEF A!Next
  <2> QED
    BY <2>1, <2>2, <2>3 DEF Next
<1> QED
  BY <1>1, <1>2, <1>3, InitIInv, FlagsTellAll, PTL DEF Spec, ImplementsAllocator, A!Spec

-----------------------------------------------------------------------------
(* The loop of heap_get_start_block.  ScanState is the set of the values    *)
(* its variables can have.                                                  *)
ScanState == [free : Int, start : Int, done : BOOLEAN]

(* Every round follows from the one before.                                 *)
LEMMA RoundsStep ==
  ASSUME NEW n \in Int
  PROVE  /\ Rounds(n) \in [0 .. Total -> ScanState]
         /\ Rounds(n)[0] = ScanStart
         /\ \A i \in 0 .. Total - 1 : Rounds(n)[i + 1] = ScanRound(Rounds(n)[i], i, n)
<1> USE HeapAssumption
<1> DEFINE Round == [i \in 1 .. Total |-> [v \in ScanState |-> ScanRound(v, i - 1, n)]]
<1>1. ScanStart \in ScanState
  BY DEF ScanStart, ScanState
<1>2. \A v \in ScanState, i \in Int : ScanRound(v, i, n) \in ScanState
  BY <1>1 DEF ScanState, ScanRound
<1>3. Round \in [1 .. Total -> [ScanState -> ScanState]]
  BY <1>2
<1>4. PICK g : IsLoop(g, Total, ScanState, ScanStart, Round)
  <2>1. Total \in Nat /\ Round \in Bodies(Total, ScanState)
    BY <1>3 DEF Bodies
  <2> HIDE DEF Round
  <2> QED
    BY <1>1, <2>1, LoopExists
<1>5. \A i \in 0 .. Total : g[i] = IF i = 0 THEN ScanStart ELSE ScanRound(g[i - 1], i - 1, n)
  <2>1. \A i \in 1 .. Total : g[i - 1] \in ScanState
    <3> HIDE DEF Round
    <3> QED
      BY <1>4 DEF IsLoop
  <2>2. \A i \in 1 .. Total : Round[i][g[i - 1]] = ScanRound(g[i - 1], i - 1, n)
    BY <2>1
  <2> HIDE DEF Round
  <2> QED
    BY <1>4, <2>2 DEF IsLoop
<1>6. g = [i \in 0 .. Total |-> IF i = 0 THEN ScanStart ELSE ScanRound(g[i - 1], i - 1, n)]
  <2>1. g \in [0 .. Total -> ScanState]
    BY <1>4 DEF IsLoop
  <2> HIDE DEF Round
  <2> QED
    BY <1>5, <2>1
<1>7. Rounds(n) = [i \in 0 .. Total |->
                     IF i = 0 THEN ScanStart ELSE ScanRound(Rounds(n)[i - 1], i - 1, n)]
  BY <1>6, Zenon DEF Rounds
<1> DEFINE r == Rounds(n)
<1> HIDE DEF r
<1>8. \A i \in 0 .. Total : r[i] = IF i = 0 THEN ScanStart ELSE ScanRound(r[i - 1], i - 1, n)
  BY <1>7 DEF r
<1>9. r[0] = ScanStart /\ \A i \in 0 .. Total - 1 : r[i + 1] = ScanRound(r[i], i, n)
  BY <1>8
<1>10. \A i \in 0 .. Total : r[i] \in ScanState
  <2> DEFINE S == {i \in 0 .. Total : r[i] \in ScanState}
  <2>1. 0 \in S
    BY <1>1, <1>9
  <2>2. \A i \in 0 .. Total - 1 : i \in S => i + 1 \in S
    BY <1>2, <1>9
  <2>3. \A i \in 0 .. Total : i \in S
    <3> HIDE DEF S
    <3> QED
      BY <2>1, <2>2, InductUpTo
  <2> QED
    BY <2>3
<1>11. r = [i \in 0 .. Total |-> r[i]]
  BY <1>7 DEF r
<1> QED
  BY <1>9, <1>10, <1>11 DEF r

(* The loop's invariant after i rounds of a search for n blocks, with f and *)
(* s the values of free_blocks and start_block.  A search that has ended    *)
(* with break has found the first fit.  One that goes on has counted the    *)
(* free blocks that end at i, and has passed no fit.                        *)
ScanInv(i, n, f, s, d) ==
  IF d
  THEN /\ n > 0 /\ f = n /\ s \in Block
       /\ FreeRun(s, n)
       /\ \A j \in 0 .. s - 1 : ~FreeRun(j, n)
  ELSE /\ f \in 0 .. i
       /\ s = IF f = 0 THEN -1 ELSE i - f
       /\ \A k \in i - f .. i - 1 : entries[k] = FREE
       /\ i - f > 0 => entries[i - f - 1] # FREE
       /\ n > 0 => f < n /\ \A j \in 0 .. i - n : ~FreeRun(j, n)

(* A taken block resets the count: no run of n blocks ends here.            *)
LEMMA ScanTaken ==
  ASSUME NEW n \in Nat, NEW i \in Block, NEW f, NEW s,
         ScanInv(i, n, f, s, FALSE), entries[i] # FREE
  PROVE  ScanInv(i + 1, n, 0, -1, FALSE)
<1> USE HeapAssumption
<1>1. ASSUME n > 0, NEW j \in 0 .. i + 1 - n PROVE ~FreeRun(j, n)
  <2>1. CASE j \in 0 .. i - n
    BY <1>1, <2>1 DEF ScanInv
  <2>2. CASE j = i + 1 - n
    BY <1>1, <2>2 DEF FreeRun, Block
  <2> QED
    BY <1>1, <2>1, <2>2 DEF Block
<1> QED
  BY <1>1 DEF ScanInv, Block

(* A free block that completes the run ends the search with the first fit.  *)
LEMMA ScanFound ==
  ASSUME NEW n \in Nat, NEW i \in Block, NEW f, NEW s,
         ScanInv(i, n, f, s, FALSE), entries[i] = FREE, f + 1 = n
  PROVE  ScanInv(i + 1, n, n, IF s = -1 THEN i ELSE s, TRUE)
<1> USE HeapAssumption
<1>1. f \in 0 .. i /\ (IF s = -1 THEN i ELSE s) = i - f /\ n > 0
  BY DEF ScanInv, Block
<1>2. FreeRun(i - f, n)
  <2>1. \A k \in i - f .. i - f + n - 1 : entries[k] = FREE
    BY <1>1 DEF ScanInv, Block
  <2> QED
    BY <1>1, <2>1 DEF FreeRun, Block
<1>3. \A j \in 0 .. i - f - 1 : ~FreeRun(j, n)
  BY <1>1 DEF ScanInv, Block
<1>4. ScanInv(i + 1, n, n, i - f, TRUE)
  BY <1>1, <1>2, <1>3 DEF ScanInv, Block
<1> QED
  BY <1>1, <1>4

(* A free block that does not complete it is counted: a run of n blocks     *)
(* that ended here would hold the taken block before the ones counted.      *)
LEMMA ScanCounted ==
  ASSUME NEW n \in Nat, NEW i \in Block, NEW f, NEW s,
         ScanInv(i, n, f, s, FALSE), entries[i] = FREE, f + 1 # n
  PROVE  ScanInv(i + 1, n, f + 1, IF s = -1 THEN i ELSE s, FALSE)
<1> USE HeapAssumption
<1>1. /\ f \in 0 .. i /\ (IF s = -1 THEN i ELSE s) = i - f
      /\ n > 0 => f + 1 < n
  BY DEF ScanInv, Block
<1>2. \A k \in i - f .. i : entries[k] = FREE
  BY <1>1 DEF ScanInv, Block
<1>3. ASSUME n > 0, NEW j \in 0 .. i + 1 - n PROVE ~FreeRun(j, n)
  <2>1. CASE j \in 0 .. i - n
    BY <1>3, <2>1 DEF ScanInv
  <2>2. CASE j = i + 1 - n
    <3>1. i - f - 1 \in j .. j + n - 1 /\ entries[i - f - 1] # FREE
      BY <1>1, <1>3, <2>2 DEF ScanInv, Block
    <3> QED
      BY <3>1 DEF FreeRun
  <2> QED
    BY <1>3, <2>1, <2>2 DEF Block
<1>4. i + 1 - (f + 1) > 0 => entries[i + 1 - (f + 1) - 1] # FREE
  <2>1. i + 1 - (f + 1) = i - f /\ i + 1 - (f + 1) - 1 = i - f - 1
    BY <1>1 DEF Block
  <2>2. i - f > 0 => entries[i - f - 1] # FREE
    BY DEF ScanInv
  <2> QED
    BY <2>1, <2>2
<1>5. ScanInv(i + 1, n, f + 1, i - f, FALSE)
  BY <1>1, <1>2, <1>3, <1>4 DEF ScanInv, Block
<1> QED
  BY <1>1, <1>5

(* The invariant holds after every round.                                   *)
LEMMA ScanInvariant ==
  ASSUME NEW n \in Nat
  PROVE  \A i \in 0 .. Total :
           ScanInv(i, n, Rounds(n)[i].free, Rounds(n)[i].start, Rounds(n)[i].done)
<1> USE HeapAssumption
<1> DEFINE r == Rounds(n)
           S == {i \in 0 .. Total : ScanInv(i, n, r[i].free, r[i].start, r[i].done)}
<1>1. /\ r \in [0 .. Total -> ScanState]
      /\ r[0] = ScanStart
      /\ \A i \in 0 .. Total - 1 : r[i + 1] = ScanRound(r[i], i, n)
  BY RoundsStep
<1> HIDE DEF r
<1>2. 0 \in S
  <2>1. ScanInv(0, n, 0, -1, FALSE)
    BY DEF ScanInv
  <2>2. r[0].free = 0 /\ r[0].start = -1 /\ r[0].done = FALSE
    BY <1>1 DEF ScanStart
  <2>3. ScanInv(0, n, r[0].free, r[0].start, r[0].done)
    BY <2>1, <2>2, Zenon
  <2> QED
    BY <2>3
<1>3. ASSUME NEW i \in 0 .. Total - 1, i \in S
      PROVE  i + 1 \in S
  <2> SUFFICES ScanInv(i + 1, n, r[i + 1].free, r[i + 1].start, r[i + 1].done)
    OBVIOUS
  <2> DEFINE f == r[i].free
             s == r[i].start
             d == r[i].done
  <2>1. /\ i \in Block /\ d \in BOOLEAN /\ ScanInv(i, n, f, s, d)
        /\ r[i + 1] = ScanRound(r[i], i, n)
    BY <1>1, <1>3 DEF Block, ScanState
  <2>2. CASE d
    <3>1. r[i + 1] = r[i]
      BY <2>1, <2>2 DEF ScanRound
    <3>2. ScanInv(i + 1, n, f, s, d)
      BY <2>1, <2>2 DEF ScanInv
    <3> QED
      BY <3>1, <3>2, Zenon
  <2>3. CASE ~d /\ entries[i] # FREE
    <3>1. /\ r[i + 1].free = 0 /\ r[i + 1].start = -1 /\ r[i + 1].done = FALSE
      BY <2>1, <2>3 DEF ScanRound, ScanStart
    <3>2. d = FALSE
      BY <2>1, <2>3
    <3>3. ScanInv(i + 1, n, 0, -1, FALSE)
      <4> HIDE DEF f, s, d
      <4> QED
        BY <2>1, <2>3, <3>2, ScanTaken
    <3> QED
      BY <3>1, <3>3, Zenon
  <2>4. CASE ~d /\ entries[i] = FREE
    <3>1. /\ r[i + 1].free = f + 1
          /\ r[i + 1].start = (IF s = -1 THEN i ELSE s)
          /\ r[i + 1].done = (f + 1 = n)
      BY <2>1, <2>4 DEF ScanRound
    <3>2. d = FALSE
      BY <2>1, <2>4
    <3>3. CASE f + 1 = n
      <4>1. ScanInv(i + 1, n, n, IF s = -1 THEN i ELSE s, TRUE)
        <5> HIDE DEF f, s, d
        <5> QED
          BY <2>1, <2>4, <3>2, <3>3, ScanFound
      <4>2. r[i + 1].done = TRUE /\ r[i + 1].free = n
        BY <3>1, <3>3, Zenon
      <4> QED
        BY <3>1, <4>1, <4>2, Zenon
    <3>4. CASE f + 1 # n
      <4>1. ScanInv(i + 1, n, f + 1, IF s = -1 THEN i ELSE s, FALSE)
        <5> HIDE DEF f, s, d
        <5> QED
          BY <2>1, <2>4, <3>2, <3>4, ScanCounted
      <4>2. r[i + 1].done = FALSE
        BY <3>1, <3>4
      <4> QED
        BY <3>1, <4>1, <4>2, Zenon
    <3> QED
      BY <3>3, <3>4
  <2> QED
    BY <2>2, <2>3, <2>4
<1>4. \A i \in 0 .. Total : i \in S
  <2> HIDE DEF S
  <2> QED
    BY <1>2, <1>3, InductUpTo
<1> QED
  BY <1>4 DEF r

(* The search that runs to the end of the table without a count to meet:    *)
(* it answers the first of the free blocks at the end.                      *)
LEMMA ScanNone ==
  ASSUME NEW f, NEW s, ScanInv(Total, 0, f, s, FALSE)
  PROVE  /\ f \in Nat
         /\ s = -1 => {i \in Block : heap_get_start_block(i, 0)} = {}
         /\ s # -1 => {i \in Block : heap_get_start_block(i, 0)} = {s}
<1> USE HeapAssumption
<1>1. /\ f \in 0 .. Total
      /\ s = IF f = 0 THEN -1 ELSE Total - f
      /\ \A k \in Total - f .. Total - 1 : entries[k] = FREE
      /\ Total - f > 0 => entries[Total - f - 1] # FREE
  BY DEF ScanInv
<1>2. \A i \in Block : heap_get_start_block(i, 0)
                         <=> /\ \A k \in i .. Total - 1 : entries[k] = FREE
                             /\ i > 0 => entries[i - 1] # FREE
  <2> SUFFICES ASSUME NEW i \in Block
               PROVE  heap_get_start_block(i, 0)
                         <=> /\ \A k \in i .. Total - 1 : entries[k] = FREE
                             /\ i > 0 => entries[i - 1] # FREE
    OBVIOUS
  <2>1. i + (Total - i) <= Total /\ i + (Total - i) - 1 = Total - 1
    BY DEF Block
  <2> QED
    BY <2>1 DEF heap_get_start_block, FreeRun
<1>3. CASE f = 0
  <2>1. Total - 1 \in Block /\ entries[Total - 1] # FREE /\ s = -1
    BY <1>1, <1>3 DEF Block
  <2>2. \A i \in Block : Total - 1 \in i .. Total - 1
    BY DEF Block
  <2> QED
    BY <1>1, <1>2, <2>1, <2>2
<1>4. CASE f # 0
  <2>1. s = Total - f /\ s \in Block /\ s # -1
    BY <1>1, <1>4 DEF Block
  <2>2. heap_get_start_block(s, 0)
    BY <1>1, <1>2, <2>1
  <2>3. ASSUME NEW i \in Block, heap_get_start_block(i, 0) PROVE i = s
    <3>1. CASE i < s
      <4>1. s - 1 \in i .. Total - 1 /\ entries[s - 1] # FREE
        BY <1>1, <2>1, <3>1 DEF Block
      <4> QED
        BY <1>2, <2>3, <4>1
    <3>2. CASE s < i
      <4>1. i - 1 \in s .. Total - 1 /\ entries[i - 1] # FREE
        BY <1>2, <2>1, <2>3, <3>2 DEF Block
      <4> QED
        BY <1>1, <2>1, <4>1
    <3> QED
      BY <2>1, <3>1, <3>2 DEF Block
  <2>4. {i \in Block : heap_get_start_block(i, 0)} = {s}
    BY <2>1, <2>2, <2>3
  <2> QED
    BY <1>1, <2>1, <2>4
<1> QED
  BY <1>3, <1>4

(* A search that was left with break answers the only first fit.            *)
LEMMA ScanDone ==
  ASSUME NEW n \in Nat, NEW f, NEW s, ScanInv(Total, n, f, s, TRUE)
  PROVE  f = n /\ {i \in Block : heap_get_start_block(i, n)} = {s}
<1> USE HeapAssumption
<1>1. /\ n > 0 /\ f = n /\ s \in Block /\ FreeRun(s, n)
      /\ \A j \in 0 .. s - 1 : ~FreeRun(j, n)
  BY DEF ScanInv
<1>2. \A j \in Block : FreeRun(j, n) => s <= j
  BY <1>1 DEF Block
<1>3. \A i \in Block : heap_get_start_block(i, n)
                         <=> FreeRun(i, n) /\ \A j \in Block : FreeRun(j, n) => i <= j
  BY <1>1 DEF heap_get_start_block
<1>4. heap_get_start_block(s, n)
  BY <1>1, <1>2, <1>3
<1>5. ASSUME NEW i \in Block, heap_get_start_block(i, n) PROVE i = s
  <2>1. i <= s /\ s <= i
    BY <1>1, <1>2, <1>3, <1>5
  <2> QED
    BY <2>1, <1>1 DEF Block
<1> QED
  BY <1>1, <1>4, <1>5

(* A search that ran to the end without enough blocks: there is no fit.     *)
LEMMA ScanFailed ==
  ASSUME NEW n \in Nat \ {0}, NEW f, NEW s, ScanInv(Total, n, f, s, FALSE)
  PROVE  f < n /\ {i \in Block : heap_get_start_block(i, n)} = {}
<1> USE HeapAssumption
<1>1. f < n /\ \A j \in 0 .. Total - n : ~FreeRun(j, n)
  BY DEF ScanInv
<1>2. \A i \in Block : FreeRun(i, n) => i \in 0 .. Total - n
  BY DEF FreeRun, Block
<1> QED
  BY <1>1, <1>2 DEF heap_get_start_block

(* The loop of heap_get_start_block finds the first fit in a table of any   *)
(* size and content, for every number of blocks: also when the run of free  *)
(* blocks at the end of the table is too short, the case its comment is in  *)
(* doubt about.                                                             *)
LEMMA LoopFindsFirstFit == ScanFindsFirstFit
<1> SUFFICES ASSUME NEW n \in 0 .. Total + 1
             PROVE  LET found == {i \in Block : heap_get_start_block(i, n)}
                    IN  IF found = {} THEN Scan(n) = -1 ELSE found = {Scan(n)}
  BY DEF ScanFindsFirstFit
<1> USE HeapAssumption
<1> DEFINE last == Rounds(n)[Total]
           f == last.free
           s == last.start
           d == last.done
           found == {i \in Block : heap_get_start_block(i, n)}
<1>1. n \in Nat /\ ScanInv(Total, n, f, s, d) /\ f \in Int /\ s \in Int /\ d \in BOOLEAN
  <2>1. n \in Nat /\ n \in Int /\ Total \in 0 .. Total
    OBVIOUS
  <2>2. last \in ScanState
    BY <2>1, RoundsStep
  <2>3. ScanInv(Total, n, f, s, d)
    BY <2>1, ScanInvariant, Zenon
  <2> QED
    BY <2>1, <2>2, <2>3 DEF ScanState
<1>2. Scan(n) = IF f < n THEN -1 ELSE s
  BY DEF Scan
<1> HIDE DEF f, s, d, last
<1>3. CASE d = TRUE
  <2>1. f = n /\ found = {s}
    BY <1>1, <1>3, ScanDone, Zenon
  <2> QED
    BY <1>1, <1>2, <2>1
<1>4. CASE d = FALSE /\ n = 0
  <2>1. f \in Nat /\ (s = -1 => found = {}) /\ (s # -1 => found = {s})
    <3>1. ScanInv(Total, 0, f, s, FALSE)
      BY <1>1, <1>4, Zenon
    <3> QED
      BY <1>4, <3>1, ScanNone
  <2> QED
    BY <1>2, <1>4, <2>1
<1>5. CASE d = FALSE /\ n # 0
  <2>1. ScanInv(Total, n, f, s, FALSE) /\ n \in Nat \ {0}
    BY <1>1, <1>5, Zenon
  <2>2. f < n /\ found = {}
    BY <2>1, ScanFailed
  <2> QED
    BY <1>2, <2>2
<1> QED
  BY <1>1, <1>3, <1>4, <1>5

(* As the search is made by malloc: in every state of the heap it answers   *)
(* the first fit or that there is none.                                     *)
THEOREM FirstFit == Spec => []ScanFindsFirstFit
  BY LoopFindsFirstFit, PTL

-----------------------------------------------------------------------------
(* Rounding a value up gives a multiple of the block size that is not less, *)
(* or wraps around to less than one block.                                  *)
LEMMA RoundsUp ==
  ASSUME NEW v \in Nat, v < WordSize, total_blocks(v) # 0
  PROVE  v <= total_blocks(v) * BlockSize
<1> USE HeapAssumption
<1> DEFINE B == BlockSize
           W == WordSize
           q == v \div B
           r == v % B
<1>1. v = B * q + r /\ r \in 0 .. B - 1 /\ q \in Nat
  OBVIOUS
<1>2. CASE r = 0
  <2>1. total_blocks(v) = q
    BY <1>2 DEF total_blocks, heap_align_value_to_upper
  <2> QED
    BY <1>1, <1>2, <2>1
<1>3. CASE r # 0
  <2> DEFINE up == B * q + B
  <2>1. v - r + B = up
    BY <1>1
  <2>2. total_blocks(v) = (up % W) \div B
    BY <1>3, <2>1 DEF total_blocks, heap_align_value_to_upper
  <2>3. CASE up < W
    <3>1. up % W = up
      BY <1>1, <2>3
    <3>2. up \div B = q + 1
      BY <1>1
    <3> QED
      BY <1>1, <2>2, <3>1, <3>2
  <2>4. CASE up >= W
    <3>1. up % W < B /\ up % W \in Nat
      BY <1>1, <2>4
    <3>2. (up % W) \div B = 0
      BY <3>1
    <3> QED
      BY <2>2, <3>2
  <2> QED
    BY <1>1, <2>3, <2>4
<1> QED
  BY <1>2, <1>3

(* Every allocation has the number of blocks its size was rounded to.       *)
BlocksOfSize == \A a \in held : a.size \in Size /\ a.blocks = total_blocks(a.size)

(* Callers get at least what they asked for, for a heap and sizes of any    *)
(* kind, as long as no size rounds to zero blocks.                          *)
THEOREM LargeEnough ==
  ASSUME LegalSizes
  PROVE  Spec => []AsLargeAsAsked
<1>1. Init => BlocksOfSize
  BY DEF Init, BlocksOfSize
<1>2. BlocksOfSize /\ [Next]_vars => BlocksOfSize'
  BY DEF BlocksOfSize, Next, vars, malloc, free
<1>3. BlocksOfSize => AsLargeAsAsked
  <2> SUFFICES ASSUME BlocksOfSize, NEW a \in held
               PROVE  a.size <= a.blocks * BlockSize
    BY DEF AsLargeAsAsked
  <2> DEFINE v == a.size
  <2>1. v \in Size /\ a.blocks = total_blocks(v)
    BY DEF BlocksOfSize
  <2> HIDE DEF v
  <2>2. v \in Nat /\ v < WordSize /\ total_blocks(v) # 0
    BY <2>1, HeapAssumption DEF LegalSizes
  <2>3. v <= total_blocks(v) * BlockSize
    BY <2>2, RoundsUp
  <2> QED
    BY <2>1, <2>3 DEF v
<1> QED
  BY <1>1, <1>2, <1>3, PTL DEF Spec
=============================================================================
