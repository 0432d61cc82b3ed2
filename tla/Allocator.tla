------------------------------ MODULE Allocator -----------------------------
(***************************************************************************)
(* What a heap promises its callers: the allocations that are out are runs  *)
(* of whole blocks of the heap and no block is in two of them; an           *)
(* allocation stays as it is until it is freed, and freeing it affects no   *)
(* other.                                                                   *)
(***************************************************************************)
EXTENDS Integers

CONSTANT Total      \* blocks of the heap

VARIABLE out        \* the allocations, as <<first block, number of blocks>>

Span(a) == a[1] .. a[1] + a[2] - 1

Init == out = {}

Allocate == \E a \in (0 .. Total - 1) \X (1 .. Total) :
              /\ Span(a) \subseteq 0 .. Total - 1
              /\ \A b \in out : Span(a) \cap Span(b) = {}
              /\ out' = out \cup {a}

Release == \E a \in out : out' = out \ {a}

Next == Allocate \/ Release

Spec == Init /\ [][Next]_out
=============================================================================
