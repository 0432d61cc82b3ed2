----------------------------- MODULE Induction ------------------------------
(***************************************************************************)
(* Induction over the naturals without an operator parameter: the property  *)
(* is given by the set of the numbers that have it.  The proofs of the      *)
(* loops of the kernel (the heap's scan, the Internet checksum) rest on it. *)
(***************************************************************************)
EXTENDS Naturals, WellFoundedInduction, TLAPS

(* Every non-empty set of naturals has a least element.                     *)
LEMMA LeastElement ==
  ASSUME NEW T, T \subseteq Nat, T # {}
  PROVE  \E x \in T : \A y \in T : x <= y
<1> DEFINE R == {ss \in Nat \X Nat : ss[1] < ss[2]}
<1>1. IsWellFoundedOn(R, Nat)
  BY NatLessThanWellFounded DEF OpToRel
<1>2. PICK x \in T : \A y \in T : ~(<<y, x>> \in R)
  <2> HIDE DEF R
  <2> QED
    BY <1>1, WFMin
<1>3. \A y \in T : ~(y < x)
  BY <1>2
<1> QED
  BY <1>3

(* A set that has 0, and with every number its successor, has every number. *)
LEMMA Induct ==
  ASSUME NEW S, 0 \in S, \A n \in Nat : n \in S => n + 1 \in S
  PROVE  \A n \in Nat : n \in S
<1> DEFINE T == Nat \ S
<1> SUFFICES ASSUME T # {} PROVE FALSE
  OBVIOUS
<1>1. PICK x \in T : \A y \in T : x <= y
  BY LeastElement
<1>2. x - 1 \in Nat /\ x - 1 \in S
  BY <1>1
<1> QED
  BY <1>2

(* The same up to a bound: the counter of a loop.                           *)
LEMMA InductUpTo ==
  ASSUME NEW N \in Nat, NEW S, 0 \in S, \A n \in 0 .. N - 1 : n \in S => n + 1 \in S
  PROVE  \A n \in 0 .. N : n \in S
<1> DEFINE T == {n \in Nat : n <= N => n \in S}
<1>1. 0 \in T
  OBVIOUS
<1>2. \A n \in Nat : n \in T => n + 1 \in T
  OBVIOUS
<1>3. \A n \in Nat : n \in T
  <2> HIDE DEF T
  <2> QED
    BY <1>1, <1>2, Induct
<1> QED
  BY <1>3

\* The bodies of loops of N rounds over variables with values in V.
Bodies(N, V) == [1 .. N -> [V -> V]]

(* The values g of such a loop: it starts with a and goes from v to F[i][v] *)
(* in its i-th round.                                                       *)
IsLoop(g, N, V, a, F) ==
  /\ g \in [0 .. N -> V]
  /\ g[0] = a
  /\ \A i \in 1 .. N : g[i] = F[i][g[i - 1]]

(* A loop has a value after every round: the function that its recursive    *)
(* definition names exists.                                                 *)
LEMMA LoopExists ==
  ASSUME NEW N \in Nat, NEW V, NEW a \in V, NEW F \in Bodies(N, V)
  PROVE  \E g : IsLoop(g, N, V, a, F)
<1> USE DEF Bodies
<1> DEFINE Values(m) == {g \in [0 .. m -> V] :
                           g[0] = a /\ \A i \in 1 .. m : g[i] = F[i][g[i - 1]]}
           S == {m \in 0 .. N : Values(m) # {}}
<1>1. 0 \in S
  <2>1. [i \in 0 .. 0 |-> a] \in Values(0)
    OBVIOUS
  <2> QED
    BY <2>1
<1>2. ASSUME NEW m \in 0 .. N - 1, m \in S
      PROVE  m + 1 \in S
  <2>1. PICK g \in [0 .. m -> V] : g[0] = a /\ \A i \in 1 .. m : g[i] = F[i][g[i - 1]]
    BY <1>2
  <2> DEFINE h == [i \in 0 .. m + 1 |-> IF i = m + 1 THEN F[m + 1][g[m]] ELSE g[i]]
  <2>2. g[m] \in V /\ m + 1 \in 1 .. N
    OBVIOUS
  <2>3. h \in [0 .. m + 1 -> V]
    BY <2>2
  <2>4. h[m + 1] = F[m + 1][h[m]] /\ \A i \in 0 .. m : h[i] = g[i]
    OBVIOUS
  <2> HIDE DEF h
  <2>5. h[0] = a /\ \A i \in 1 .. m + 1 : h[i] = F[i][h[i - 1]]
    BY <2>1, <2>4
  <2>6. h \in Values(m + 1) /\ m + 1 \in 0 .. N
    BY <2>3, <2>5
  <2> HIDE DEF Values
  <2> QED
    BY <2>6
<1>3. \A m \in 0 .. N : m \in S
  <2> HIDE DEF S
  <2> QED
    BY <1>1, <1>2, InductUpTo
<1>4. PICK g \in [0 .. N -> V] : g[0] = a /\ \A i \in 1 .. N : g[i] = F[i][g[i - 1]]
  BY <1>3
<1> QED
  BY <1>4 DEF IsLoop
=============================================================================
