------------------------------ MODULE IpProofs ------------------------------
(***************************************************************************)
(* The Internet checksum of module Ip, for any words and any header.  All of*)
(* it is arithmetic modulo Mod, one less than the number of words: folding a*)
(* sum does not change its remainder, and exchanging the bytes of a word    *)
(* multiplies it by BYTE.                                                   *)
(***************************************************************************)
EXTENDS Ip, Induction, SequenceTheorems

Mod == WORD - 1

(* The numbers below n.                                                     *)
LEMMA Below ==
  ASSUME NEW n \in Nat
  PROVE  \A x : x \in 0 .. n - 1 <=> x \in Nat /\ x < n
  OBVIOUS

(* The words, by their bound.                                               *)
LEMMA WordIs == \A x : x \in Word <=> x \in Nat /\ x < WORD
<1>1. WORD \in Nat
  BY DEF WORD, BYTE
<1> QED
  BY <1>1, Below, Zenon DEF Word

(* Exchanging the bytes of a word twice gives the word.                     *)
LEMMA SwapTwice ==
  ASSUME NEW x \in Word
  PROVE  htons(x) \in Word /\ ntohs(htons(x)) = x
<1>1. x \in Nat /\ x < WORD
  BY WordIs
<1>2. htons(x) \in Nat /\ htons(x) < WORD
  BY <1>1 DEF WORD, BYTE, htons
<1>3. htons(htons(x)) = x
  BY <1>1 DEF WORD, BYTE, htons
<1> QED
  BY <1>2, <1>3, WordIs DEF ntohs

(* Exchanging the bytes of a word multiplies its remainder by BYTE.         *)
LEMMA SwapMultiplies ==
  ASSUME NEW x \in Word
  PROVE  \E k \in Int : ntohs(x) = (BYTE * x) - (k * Mod)
<1>0. x \in Nat /\ x < WORD
  BY WordIs
<1>1. ntohs(x) = (BYTE * x) - ((x \div BYTE) * Mod)
  BY <1>0 DEF WORD, BYTE, htons, ntohs, Mod
<1>2. x \div BYTE \in Int
  BY <1>0 DEF BYTE
<1> QED
  BY <1>1, <1>2
-----------------------------------------------------------------------------
(* Fold.                                                                    *)

\* The remainder that folding leaves: 0 only for 0.
Rest(s) == IF s = 0 THEN 0 ELSE ((s - 1) % Mod) + 1

(* One round of the fold keeps it.                                          *)
LEMMA RestOnce ==
  ASSUME NEW s \in Nat, s >= WORD
  PROVE  /\ (s % WORD) + (s \div WORD) \in Nat
         /\ (s % WORD) + (s \div WORD) < s
         /\ Rest((s % WORD) + (s \div WORD)) = Rest(s)
  BY DEF WORD, BYTE, Rest, Mod

(* A sum that fits a word is its own remainder.                             *)
LEMMA RestWord ==
  ASSUME NEW s \in Nat, s < WORD
  PROVE  Rest(s) = s
  BY DEF WORD, BYTE, Rest, Mod

(* The loop of ip_checksum ends with that remainder.                        *)
LEMMA FoldIsRest ==
  ASSUME NEW s \in Nat
  PROVE  Fold(s) = Rest(s)
<1> DEFINE g == [t \in Nat |-> Rest(t)]
           f == CHOOSE f : f = [t \in Nat |->
                  IF t < WORD THEN t ELSE f[(t % WORD) + (t \div WORD)]]
<1>1. g = [t \in Nat |-> IF t < WORD THEN t ELSE g[(t % WORD) + (t \div WORD)]]
  <2>1. \A t \in Nat : Rest(t) = IF t < WORD THEN t ELSE g[(t % WORD) + (t \div WORD)]
    BY RestOnce, RestWord DEF WORD, BYTE
  <2> QED
    BY <2>1
<1>2. f = [t \in Nat |-> IF t < WORD THEN t ELSE f[(t % WORD) + (t \div WORD)]]
  <2> HIDE DEF g
  <2> QED
    BY <1>1, Zenon
<1>3. Fold(s) = f[s]
  BY Zenon DEF Fold
<1> HIDE DEF f, g
<1> DEFINE T == {t \in Nat : f[t] # Rest(t)}
<1> SUFFICES T = {}
  BY <1>3
<1> SUFFICES ASSUME T # {} PROVE FALSE
  OBVIOUS
<1>4. PICK t \in T : \A u \in T : t <= u
  BY LeastElement
<1>5. CASE t < WORD
  BY <1>2, <1>4, <1>5, RestWord
<1>6. CASE t >= WORD
  <2> DEFINE u == (t % WORD) + (t \div WORD)
  <2>1. u \in Nat /\ u < t /\ Rest(u) = Rest(t)
    BY <1>6, RestOnce
  <2>2. f[t] = f[u]
    BY <1>2, <1>6, <2>1 DEF WORD, BYTE
  <2> HIDE DEF u
  <2>3. u \notin T
    BY <1>4, <2>1
  <2> QED
    BY <1>4, <2>1, <2>2, <2>3
<1> QED
  BY <1>5, <1>6 DEF WORD, BYTE

-----------------------------------------------------------------------------
(* Sum.                                                                     *)

\* g[i] is the sum of the first i words.
PartialSums(g, words) ==
  /\ g \in [0 .. Len(words) -> Nat]
  /\ g[0] = 0
  /\ \A i \in 1 .. Len(words) : g[i] = g[i - 1] + words[i]

(* The loop of ip_checksum ends with the last of the partial sums.          *)
LEMMA SumIs ==
  ASSUME NEW words \in Seq(Nat)
  PROVE  \E g : PartialSums(g, words) /\ Sum(words) = g[Len(words)]
<1> DEFINE n == Len(words)
           F == [i \in 1 .. n |-> [v \in Nat |-> v + words[i]]]
           f == CHOOSE f : f = [i \in 0 .. Len(words) |->
                  IF i = 0 THEN 0 ELSE f[i - 1] + words[i]]
<1>1. n \in Nat /\ \A i \in 1 .. n : words[i] \in Nat
  OBVIOUS
<1>2. F \in Bodies(n, Nat)
  BY <1>1 DEF Bodies
<1>3. PICK g : IsLoop(g, n, Nat, 0, F)
  <2> HIDE DEF F, n
  <2> QED
    BY <1>1, <1>2, LoopExists
<1>4. PartialSums(g, words)
  <2>1. \A i \in 1 .. n : F[i][g[i - 1]] = g[i - 1] + words[i]
    <3>1. \A i \in 1 .. n : g[i - 1] \in Nat
      <4> HIDE DEF F, n
      <4>1. g \in [0 .. n -> Nat]
        BY <1>3 DEF IsLoop
      <4> QED
        BY <1>1, <4>1
    <3> QED
      BY <3>1
  <2> HIDE DEF F
  <2> QED
    BY <1>3, <2>1 DEF IsLoop, PartialSums
<1>5. g = [i \in 0 .. Len(words) |-> IF i = 0 THEN 0 ELSE g[i - 1] + words[i]]
  BY <1>1, <1>4 DEF PartialSums
<1>6. f = [i \in 0 .. Len(words) |-> IF i = 0 THEN 0 ELSE f[i - 1] + words[i]]
  BY <1>5, Zenon
<1>7. Sum(words) = f[Len(words)]
  BY Zenon DEF Sum
<1> HIDE DEF f, F
<1> DEFINE S == {i \in 0 .. n : f[i] = g[i]}
<1>8. 0 \in S
  BY <1>1, <1>4, <1>6 DEF PartialSums
<1>9. ASSUME NEW i \in 0 .. n - 1, i \in S
      PROVE  i + 1 \in S
  <2>1. f[i + 1] = f[i] + words[i + 1]
    BY <1>1, <1>6
  <2>2. g[i + 1] = g[i] + words[i + 1]
    BY <1>1, <1>4 DEF PartialSums
  <2> QED
    BY <1>1, <1>9, <2>1, <2>2
<1>10. \A i \in 0 .. n : i \in S
  <2> HIDE DEF S, n
  <2> QED
    BY <1>1, <1>8, <1>9, InductUpTo
<1>11. f[n] = g[n]
  BY <1>1, <1>10
<1> QED
  BY <1>4, <1>7, <1>11

(* A sum is a natural number.                                               *)
LEMMA SumNat ==
  ASSUME NEW words \in Seq(Nat)
  PROVE  Sum(words) \in Nat
  BY SumIs DEF PartialSums

(* The sum of two sequences behind each other.                              *)
LEMMA SumBoth ==
  ASSUME NEW a \in Seq(Nat), NEW b \in Seq(Nat)
  PROVE  Sum(a \o b) = Sum(a) + Sum(b)
<1> DEFINE c == a \o b
<1>1. /\ c \in Seq(Nat) /\ Len(c) = Len(a) + Len(b)
      /\ Len(a) \in Nat /\ Len(b) \in Nat
      /\ \A i \in 1 .. Len(a) : c[i] = a[i] /\ a[i] \in Nat
      /\ \A i \in 1 .. Len(b) : c[Len(a) + i] = b[i] /\ b[i] \in Nat
  OBVIOUS
<1> HIDE DEF c
<1>2. PICK f : PartialSums(f, a) /\ Sum(a) = f[Len(a)]
  BY SumIs
<1>3. PICK g : PartialSums(g, b) /\ Sum(b) = g[Len(b)]
  BY SumIs
<1>4. PICK h : PartialSums(h, c) /\ Sum(c) = h[Len(c)]
  BY <1>1, SumIs
<1>a. f[Len(a)] \in Nat /\ g[0] = 0 /\ \A i \in 0 .. Len(b) : g[i] \in Nat
  <2>1. Len(a) \in 0 .. Len(a)
    BY <1>1
  <2> QED
    BY <1>2, <1>3, <2>1 DEF PartialSums
<1> DEFINE S == {i \in 0 .. Len(a) : h[i] = f[i]}
           T == {i \in 0 .. Len(b) : h[Len(a) + i] = f[Len(a)] + g[i]}
<1>5. \A i \in 0 .. Len(a) : i \in S
  <2>1. 0 \in S
    BY <1>1, <1>2, <1>4 DEF PartialSums
  <2>2. ASSUME NEW i \in 0 .. Len(a) - 1, i \in S
        PROVE  i + 1 \in S
    <3>1. h[i + 1] = h[i] + c[i + 1] /\ f[i + 1] = f[i] + a[i + 1] /\ c[i + 1] = a[i + 1]
      BY <1>1, <1>2, <1>4 DEF PartialSums
    <3> QED
      BY <1>1, <2>2, <3>1
  <2> HIDE DEF S
  <2> QED
    BY <1>1, <2>1, <2>2, InductUpTo
<1>6. \A i \in 0 .. Len(b) : i \in T
  <2>1. 0 \in T
    <3>1. h[Len(a)] = f[Len(a)] /\ Len(a) + 0 = Len(a)
      BY <1>1, <1>5
    <3> QED
      BY <1>1, <1>a, <3>1
  <2>2. ASSUME NEW i \in 0 .. Len(b) - 1, i \in T
        PROVE  i + 1 \in T
    <3> DEFINE j == Len(a) + i + 1
    <3>1. j \in 1 .. Len(c) /\ j - 1 = Len(a) + i /\ j = Len(a) + (i + 1)
      BY <1>1
    <3>2. h[j] = h[j - 1] + c[j]
      BY <1>4, <3>1 DEF PartialSums
    <3>3. g[i + 1] = g[i] + b[i + 1] /\ c[j] = b[i + 1] /\ b[i + 1] \in Nat
      BY <1>1, <1>3, <3>1 DEF PartialSums
    <3>4. f[Len(a)] \in Nat /\ g[i] \in Nat
      BY <1>1, <1>a
    <3> HIDE DEF j
    <3>5. h[Len(a) + (i + 1)] = f[Len(a)] + g[i + 1]
      BY <2>2, <3>1, <3>2, <3>3, <3>4
    <3> QED
      BY <1>1, <3>5
  <2> HIDE DEF T
  <2> QED
    BY <1>1, <2>1, <2>2, InductUpTo
<1>7. h[Len(a) + Len(b)] = f[Len(a)] + g[Len(b)]
  BY <1>1, <1>6
<1> QED
  BY <1>1, <1>2, <1>3, <1>4, <1>7 DEF c

(* Replacing one word changes the sum by the difference.                    *)
LEMMA SumReplace ==
  ASSUME NEW a \in Seq(Nat), NEW b \in Seq(Nat), Len(a) = Len(b),
         NEW k \in 1 .. Len(a), \A i \in 1 .. Len(a) : i # k => a[i] = b[i]
  PROVE  Sum(b) = (Sum(a) - a[k]) + b[k]
<1> DEFINE n == Len(a)
<1>1. n \in Nat /\ \A i \in 1 .. n : a[i] \in Nat /\ b[i] \in Nat
  OBVIOUS
<1> HIDE DEF n
<1>2. PICK f : PartialSums(f, a) /\ Sum(a) = f[n]
  BY SumIs DEF n
<1>3. PICK g : PartialSums(g, b) /\ Sum(b) = g[n]
  BY SumIs DEF n
<1>4. /\ \A i \in 0 .. n : f[i] \in Nat /\ g[i] \in Nat
      /\ f[0] = 0 /\ g[0] = 0
      /\ \A i \in 1 .. n : f[i] = f[i - 1] + a[i] /\ g[i] = g[i - 1] + b[i]
  BY <1>1, <1>2, <1>3 DEF PartialSums, n
<1>5. k \in 1 .. n /\ \A i \in 1 .. n : i # k => a[i] = b[i]
  BY DEF n
<1> DEFINE S == {i \in 0 .. n : g[i] = IF i < k THEN f[i] ELSE (f[i] - a[k]) + b[k]}
<1>6. 0 \in S
  BY <1>1, <1>4, <1>5
<1>7. ASSUME NEW i \in 0 .. n - 1, i \in S
      PROVE  i + 1 \in S
  <2>1. f[i + 1] = f[i] + a[i + 1] /\ g[i + 1] = g[i] + b[i + 1]
    BY <1>1, <1>4
  <2>2. i + 1 # k => a[i + 1] = b[i + 1]
    BY <1>1, <1>5
  <2>3. /\ a[i + 1] \in Nat /\ b[i + 1] \in Nat /\ f[i] \in Nat /\ g[i] \in Nat
        /\ a[k] \in Nat /\ b[k] \in Nat
    BY <1>1, <1>4, <1>5
  <2>4. g[i] = IF i < k THEN f[i] ELSE (f[i] - a[k]) + b[k]
    BY <1>7
  <2>5. g[i + 1] = IF i + 1 < k THEN f[i + 1] ELSE (f[i + 1] - a[k]) + b[k]
    <3> HIDE DEF S
    <3>1. CASE i + 1 = k
      <4>1. i < k /\ ~(i + 1 < k) /\ g[i] = f[i]
        BY <1>5, <2>4, <3>1
      <4>2. f[k] = f[i] + a[k] /\ g[k] = g[i] + b[k]
        BY <2>1, <3>1
      <4>3. g[k] = (f[k] - a[k]) + b[k]
        BY <2>3, <4>1, <4>2
      <4> QED
        BY <3>1, <4>1, <4>3
    <3>2. CASE i + 1 # k
      <4>1. (i + 1 < k <=> i < k) /\ g[i + 1] = g[i] + a[i + 1]
        BY <1>5, <2>1, <2>2, <3>2
      <4>2. CASE i < k
        BY <2>1, <2>4, <4>1, <4>2
      <4>3. CASE ~(i < k)
        <5>1. g[i] = (f[i] - a[k]) + b[k]
          BY <2>4, <4>3
        <5>2. g[i + 1] = (f[i + 1] - a[k]) + b[k]
          <6> DEFINE p == f[i]
                     q == a[k]
                     r == b[k]
                     t == a[i + 1]
          <6>1. p \in Nat /\ q \in Nat /\ r \in Nat /\ t \in Nat
            BY <2>3
          <6> HIDE DEF p, q, r, t
          <6>2. ((p - q) + r) + t = ((p + t) - q) + r
            BY <6>1
          <6> QED
            BY <2>1, <4>1, <5>1, <6>2, Zenon DEF p, q, r, t
        <5> QED
          BY <4>1, <4>3, <5>2
      <4> QED
        BY <4>2, <4>3
    <3> QED
      BY <3>1, <3>2
  <2> QED
    BY <1>1, <2>5
<1>8. \A i \in 0 .. n : i \in S
  <2> HIDE DEF S
  <2> QED
    BY <1>1, <1>6, <1>7, InductUpTo
<1>9. g[n] = (f[n] - a[k]) + b[k]
  BY <1>1, <1>5, <1>8
<1> QED
  BY <1>2, <1>3, <1>9

(* The sum of the words in network order is BYTE times their sum, up to     *)
(* multiples of Mod: why the code may add the words as the CPU loads them.  *)
LEMMA SumSwapped ==
  ASSUME NEW words \in Seq(Word)
  PROVE  /\ SumInNetworkOrder(words) \in Nat
         /\ \E k \in Int : SumInNetworkOrder(words) = (BYTE * Sum(words)) - (k * Mod)
<1> DEFINE n == Len(words)
           swapped == [i \in DOMAIN words |-> ntohs(words[i])]
<1>1. n \in Nat /\ DOMAIN words = 1 .. n /\ \A i \in 1 .. n : words[i] \in Word
  OBVIOUS
<1> HIDE DEF n
<1>2. \A x \in Word : x \in Nat /\ ntohs(x) \in Nat
  BY SwapTwice, WordIs DEF ntohs
<1>3. /\ words \in Seq(Nat)
      /\ swapped \in Seq(Nat) /\ Len(swapped) = n
      /\ \A i \in 1 .. n : swapped[i] = ntohs(words[i])
  BY <1>1, <1>2
<1> HIDE DEF swapped
<1>4. PICK f : PartialSums(f, words) /\ Sum(words) = f[n]
  BY <1>3, SumIs DEF n
<1>5. PICK g : PartialSums(g, swapped) /\ Sum(swapped) = g[n]
  BY <1>3, SumIs
<1>6. /\ \A i \in 0 .. n : f[i] \in Nat /\ g[i] \in Nat
      /\ f[0] = 0 /\ g[0] = 0
      /\ \A i \in 1 .. n : f[i] = f[i - 1] + words[i] /\ g[i] = g[i - 1] + swapped[i]
  BY <1>1, <1>3, <1>4, <1>5 DEF PartialSums, n
<1> DEFINE S == {i \in 0 .. n : \E k \in Int : g[i] = (BYTE * f[i]) - (k * Mod)}
<1>7. 0 \in S
  <2>1. g[0] = (BYTE * f[0]) - (0 * Mod)
    BY <1>6 DEF BYTE, Mod, WORD
  <2> QED
    BY <1>1, <2>1
<1>8. ASSUME NEW i \in 0 .. n - 1, i \in S
      PROVE  i + 1 \in S
  <2>1. PICK k \in Int : g[i] = (BYTE * f[i]) - (k * Mod)
    BY <1>8
  <2>2. i + 1 \in 1 .. n /\ words[i + 1] \in Word /\ swapped[i + 1] = ntohs(words[i + 1])
    BY <1>1, <1>3
  <2>3. PICK j \in Int : swapped[i + 1] = (BYTE * words[i + 1]) - (j * Mod)
    BY <2>2, SwapMultiplies
  <2>4. f[i + 1] = f[i] + words[i + 1] /\ g[i + 1] = g[i] + swapped[i + 1]
    BY <1>1, <1>6
  <2>5. f[i] \in Nat /\ words[i + 1] \in Nat
    BY <1>1, <1>2, <1>6, <2>2
  <2>6. g[i + 1] = (BYTE * f[i + 1]) - ((k + j) * Mod) /\ k + j \in Int
    BY <2>1, <2>3, <2>4, <2>5 DEF BYTE, Mod, WORD
  <2> QED
    BY <1>1, <2>6
<1>9. \A i \in 0 .. n : i \in S
  <2> HIDE DEF S
  <2> QED
    BY <1>1, <1>7, <1>8, InductUpTo
<1>10. g[n] \in Nat /\ \E k \in Int : g[n] = (BYTE * f[n]) - (k * Mod)
  BY <1>1, <1>6, <1>9
<1>11. SumInNetworkOrder(words) = Sum(swapped)
  BY DEF SumInNetworkOrder, swapped
<1> QED
  BY <1>4, <1>5, <1>10, <1>11
-----------------------------------------------------------------------------
(* The checksum.                                                            *)

(* Words whose sum has no remainder are valid for a correct receiver.       *)
LEMMA SumValid ==
  ASSUME NEW words \in Seq(Word), Sum(words) % Mod = 0
  PROVE  Valid(words)
<1>1. Sum(words) \in Nat
  BY SumNat, WordIs
<1>2. PICK k \in Int : SumInNetworkOrder(words) = (BYTE * Sum(words)) - (k * Mod)
  BY SumSwapped
<1>3. SumInNetworkOrder(words) \in Nat
  BY SumSwapped
<1>4. SumInNetworkOrder(words) % Mod = 0
  BY <1>1, <1>2, <1>3 DEF BYTE, WORD, Mod
<1> QED
  BY <1>4 DEF Valid, Mod

(* The remainder of a sum and what its fold leaves agree.                   *)
LEMMA RestRemainder ==
  ASSUME NEW s \in Nat
  PROVE  /\ Rest(s) \in Nat /\ Rest(s) <= Mod
         /\ Rest(s) = Mod => s % Mod = 0
         /\ (s + (Mod - Rest(s))) % Mod = 0
  BY DEF Rest, Mod, WORD, BYTE

(* What a receive path of the stack accepts is valid.                       *)
LEMMA AcceptedIsValid ==
  ASSUME NEW words \in Seq(Word), NEW odd \in Seq(Word), ip_checksum(words, odd) = 0
  PROVE  Valid(words \o odd)
<1>1. words \in Seq(Nat) /\ odd \in Seq(Nat) /\ words \o odd \in Seq(Word)
  BY WordIs
<1>2. Sum(words \o odd) \in Nat /\ Sum(words \o odd) = Sum(words) + Sum(odd)
  BY <1>1, SumBoth, SumNat
<1>3. Mod - Rest(Sum(words \o odd)) = 0
  BY <1>2, FoldIsRest DEF ip_checksum, Mod
<1>4. Sum(words \o odd) % Mod = 0
  BY <1>2, <1>3, RestRemainder DEF Mod, WORD, BYTE
<1> QED
  BY <1>1, <1>4, SumValid

(* Filling the checksum, computed over a zero, in for that zero makes the   *)
(* words valid.                                                             *)
LEMMA FilledIsValid ==
  ASSUME NEW a \in Seq(Word), NEW b \in Seq(Word), NEW odd \in Seq(Word),
         Len(a) = Len(b), NEW k \in 1 .. Len(a), a[k] = 0,
         \A i \in 1 .. Len(a) : i # k => a[i] = b[i],
         b[k] = ip_checksum(a, odd)
  PROVE  Valid(b \o odd)
<1>1. a \in Seq(Nat) /\ b \in Seq(Nat) /\ odd \in Seq(Nat) /\ b \o odd \in Seq(Word)
  BY WordIs
<1>2. Sum(a) \in Nat /\ Sum(b) \in Nat /\ Sum(odd) \in Nat
  BY <1>1, SumNat
<1>3. Sum(b) = (Sum(a) - a[k]) + b[k] /\ Sum(b \o odd) = Sum(b) + Sum(odd)
  BY <1>1, SumBoth, SumReplace
<1> DEFINE s == Sum(a) + Sum(odd)
<1>4. s \in Nat /\ b[k] = Mod - Rest(s)
  BY <1>2, FoldIsRest DEF ip_checksum, Mod
<1>5. Rest(s) \in Nat /\ (s + (Mod - Rest(s))) % Mod = 0
  BY <1>4, RestRemainder
<1>6. Sum(b \o odd) = s + (Mod - Rest(s))
  <2> HIDE DEF s
  <2>1. Mod \in Nat
    BY DEF Mod, WORD, BYTE
  <2> QED
    BY <1>2, <1>3, <1>4, <1>5, <2>1 DEF s
<1> QED
  BY <1>1, <1>5, <1>6, SumValid

(* A checksum is a word.                                                    *)
LEMMA ChecksumWord ==
  ASSUME NEW words \in Seq(Word), NEW odd \in Seq(Word)
  PROVE  ip_checksum(words, odd) \in Word
<1>1. words \in Seq(Nat) /\ odd \in Seq(Nat)
  BY WordIs
<1>2. Sum(words) + Sum(odd) \in Nat
  BY <1>1, SumNat
<1> DEFINE r == Rest(Sum(words) + Sum(odd))
<1>3. ip_checksum(words, odd) = Mod - r
  BY <1>2, FoldIsRest DEF ip_checksum, Mod
<1>a. r \in Nat /\ r <= Mod
  BY <1>2, RestRemainder
<1> HIDE DEF r
<1>4. ip_checksum(words, odd) \in Nat /\ ip_checksum(words, odd) < WORD
  BY <1>3, <1>a DEF Mod, WORD, BYTE
<1> QED
  BY <1>4, WordIs

(* Multiplying by BYTE keeps having no remainder, both ways.                *)
LEMMA SwapRemainder ==
  ASSUME NEW s \in Nat, NEW t \in Nat, \E k \in Int : t = (BYTE * s) - (k * Mod)
  PROVE  t % Mod = 0 <=> s % Mod = 0
<1>1. BYTE = 256 /\ Mod = 65535
  BY DEF BYTE, Mod, WORD
<1>2. PICK k \in Int : t = (256 * s) - (k * 65535)
  BY <1>1
<1>3. t % 65535 = 0 => s % 65535 = 0
  BY <1>2
<1>4. s % 65535 = 0 => t % 65535 = 0
  BY <1>2
<1> QED
  BY <1>1, <1>3, <1>4

(* The fold leaves Mod for the multiples of Mod other than 0.               *)
LEMMA RestZero ==
  ASSUME NEW s \in Nat
  PROVE  Mod - Rest(s) = 0 <=> s % Mod = 0 /\ s # 0
<1>1. CASE s = 0
  BY <1>1 DEF Rest, Mod, WORD, BYTE
<1>2. CASE s # 0
  BY <1>2 DEF Rest, Mod, WORD, BYTE
<1> QED
  BY <1>1, <1>2

(* ip_checksum, on words as the CPU loads them, accepts exactly what the    *)
(* definition of RFC 1071 accepts on words in network order, but for data   *)
(* that is all zero.                                                        *)
THEOREM ChecksumIsRfc1071 ==
  ASSUME NEW words \in Seq(Word), NEW odd \in Seq(Word)
  PROVE  ip_checksum(words, odd) = 0 <=> Valid(words \o odd) /\ Sum(words \o odd) # 0
<1> DEFINE all == words \o odd
           s == Sum(all)
           t == SumInNetworkOrder(all)
<1>1. words \in Seq(Nat) /\ odd \in Seq(Nat) /\ all \in Seq(Word) /\ all \in Seq(Nat)
  BY WordIs
<1>2. s \in Nat /\ s = Sum(words) + Sum(odd)
  BY <1>1, SumBoth, SumNat
<1>3. ip_checksum(words, odd) = Mod - Rest(s)
  BY <1>2, FoldIsRest DEF ip_checksum, Mod
<1>4. t \in Nat /\ \E k \in Int : t = (BYTE * s) - (k * Mod)
  BY <1>1, SumSwapped
<1>5. Valid(all) <=> t % Mod = 0
  BY DEF Valid, Mod
<1> HIDE DEF s, t
<1>6. t % Mod = 0 <=> s % Mod = 0
  BY <1>2, <1>4, SwapRemainder
<1>7. Mod - Rest(s) = 0 <=> s % Mod = 0 /\ s # 0
  BY <1>2, RestZero
<1> QED
  BY <1>3, <1>5, <1>6, <1>7 DEF s
-----------------------------------------------------------------------------
(* The headers.                                                             *)

\* The words are the same but for the k-th, which is x in a and y in b.
SameBut(a, b, k, x, y) ==
  /\ a \in Seq(Word) /\ b \in Seq(Word) /\ Len(a) = Len(b) /\ k \in 1 .. Len(a)
  /\ a[k] = x /\ b[k] = y
  /\ \A i \in 1 .. Len(a) : i # k => a[i] = b[i]

(* So they are with the same words behind them.                             *)
LEMMA SameButMore ==
  ASSUME NEW a, NEW b, NEW k, NEW x, NEW y, SameBut(a, b, k, x, y), NEW c \in Seq(Word)
  PROVE  SameBut(a \o c, b \o c, k, x, y)
<1>1. /\ a \o c \in Seq(Word) /\ b \o c \in Seq(Word)
      /\ Len(a \o c) = Len(a) + Len(c) /\ Len(b \o c) = Len(a) + Len(c)
      /\ Len(a) \in Nat /\ Len(c) \in Nat /\ k \in 1 .. Len(a)
  BY DEF SameBut
<1>2. ASSUME NEW i \in 1 .. Len(a) + Len(c)
      PROVE  /\ i \in 1 .. Len(a) => (a \o c)[i] = a[i] /\ (b \o c)[i] = b[i]
             /\ i \notin 1 .. Len(a) => (a \o c)[i] = (b \o c)[i]
  BY <1>1 DEF SameBut
<1>3. a[k] = x /\ b[k] = y /\ \A i \in 1 .. Len(a) : i # k => a[i] = b[i]
  BY DEF SameBut
<1> QED
  BY <1>1, <1>2, <1>3 DEF SameBut

(* Words with a checksum of 0 and with the real one.                        *)
LEMMA SameButValid ==
  ASSUME NEW a, NEW b, NEW k, NEW odd \in Seq(Word),
         SameBut(a, b, k, 0, ip_checksum(a, odd))
  PROVE  Valid(b \o odd)
  BY FilledIsValid DEF SameBut

(* An address is two words.                                                 *)
LEMMA AddressIs ==
  ASSUME NEW x \in Address
  PROVE  x \in Seq(Word) /\ Len(x) = 2
<1>1. PICK a \in Word, b \in Word : x = <<a, b>>
  BY DEF Address
<1>2. <<a, b>> \in Seq(Word) /\ Len(<<a, b>>) = 2
  OBVIOUS
<1> QED
  BY <1>1, <1>2, Zenon

(* The fields that share a word.                                            *)
LEMMA TwoInAWord ==
  ASSUME NEW lo \in Byte, NEW hi \in Byte
  PROVE  lo + (hi * BYTE) \in Word
<1>1. BYTE \in Nat
  BY DEF BYTE
<1>2. lo \in Nat /\ lo < BYTE /\ hi \in Nat /\ hi < BYTE
  BY <1>1, Below, Zenon DEF Byte
<1>3. lo + (hi * BYTE) \in Nat /\ lo + (hi * BYTE) < WORD
  BY <1>2 DEF BYTE, WORD
<1> QED
  BY <1>3, WordIs

(* The version and the length of a header share one, too.                   *)
LEMMA VersionInAWord ==
  ASSUME NEW v \in 0 .. 15, NEW l \in 0 .. 15
  PROVE  (v * 16) + l \in Word
<1>1. (v * 16) + l \in Nat /\ (v * 16) + l < WORD
  BY DEF BYTE, WORD
<1> QED
  BY <1>1, WordIs

(* The words of a header, and what changing its checksum does to them.      *)
LEMMA HeaderWordsAre ==
  ASSUME NEW h \in HeaderType, NEW c \in Word
  PROVE  LET g == [h EXCEPT !.checksum = c]
         IN  SameBut(HeaderWords(h), HeaderWords(g), 6, h.checksum, c)
<1> DEFINE g == [h EXCEPT !.checksum = c]
           front(x) == <<(h.version * 16) + h.ihl, h.total_length, h.id, h.flags_frag,
                         h.ttl + (h.protocol * BYTE), x>>
           words(x) == front(x) \o h.src_ip \o h.dst_ip
<1>1. /\ h.version \in 0 .. 15 /\ h.ihl \in 0 .. 15 /\ h.total_length \in Word
      /\ h.id \in Word /\ h.flags_frag \in Word /\ h.ttl \in Byte /\ h.protocol \in Byte
      /\ h.checksum \in Word /\ h.src_ip \in Address /\ h.dst_ip \in Address
  BY Zenon DEF HeaderType
<1>2. HeaderWords(h) = words(h.checksum)
  BY DEF HeaderWords
<1>3. HeaderWords(g) = words(c)
  <2>1. /\ g.version = h.version /\ g.ihl = h.ihl /\ g.total_length = h.total_length
        /\ g.id = h.id /\ g.flags_frag = h.flags_frag /\ g.ttl = h.ttl
        /\ g.protocol = h.protocol /\ g.src_ip = h.src_ip /\ g.dst_ip = h.dst_ip
        /\ g.checksum = c
    BY Zenon DEF HeaderType
  <2> HIDE DEF g
  <2> QED
    BY <2>1, Zenon DEF HeaderWords
<1> HIDE DEF g
<1> DEFINE v == (h.version * 16) + h.ihl
           t == h.ttl + (h.protocol * BYTE)
<1>4. v \in Word /\ t \in Word
  BY <1>1, TwoInAWord, VersionInAWord
<1> HIDE DEF v, t
<1> DEFINE a == front(h.checksum)
           b == front(c)
<1>5. ASSUME NEW x \in Word
      PROVE  front(x) \in Seq(Word) /\ Len(front(x)) = 6 /\ front(x)[6] = x
  BY <1>1, <1>4 DEF v, t
<1>6. SameBut(a, b, 6, h.checksum, c)
  <2>1. \A i \in 1 .. 6 : i # 6 => a[i] = b[i]
    OBVIOUS
  <2>2. /\ a \in Seq(Word) /\ Len(a) = 6 /\ a[6] = h.checksum
        /\ b \in Seq(Word) /\ Len(b) = 6 /\ b[6] = c
    BY <1>1, <1>5
  <2> HIDE DEF a, b
  <2> QED
    BY <2>1, <2>2 DEF SameBut
<1> HIDE DEF a, b
<1> DEFINE aa == (a \o h.src_ip) \o h.dst_ip
           bb == (b \o h.src_ip) \o h.dst_ip
<1>7. HeaderWords(h) = aa /\ HeaderWords(g) = bb
  BY <1>2, <1>3, Zenon DEF a, b, v, t
<1>8. SameBut(aa, bb, 6, h.checksum, c)
  <2>1. h.src_ip \in Seq(Word) /\ h.dst_ip \in Seq(Word)
    BY <1>1, AddressIs
  <2>2. SameBut(a \o h.src_ip, b \o h.src_ip, 6, h.checksum, c)
    BY <1>6, <2>1, SameButMore
  <2> QED
    BY <2>1, <2>2, SameButMore
<1> HIDE DEF aa, bb
<1> QED
  BY <1>7, <1>8, Zenon DEF g

(* No words behind words.                                                   *)
LEMMA NoneBehind ==
  ASSUME NEW words \in Seq(Word)
  PROVE  words \o <<>> = words /\ <<>> \in Seq(Word)
  OBVIOUS

(* The words of a header are words.                                         *)
LEMMA HeaderWordsSeq ==
  ASSUME NEW h \in HeaderType
  PROVE  HeaderWords(h) \in Seq(Word)
<1>1. h.checksum \in Word
  BY Zenon DEF HeaderType
<1> QED
  BY <1>1, HeaderWordsAre, Zenon DEF SameBut

(* A header that ip_rx accepts is valid.                                    *)
LEMMA HeaderAcceptedIsValid ==
  ASSUME NEW h \in HeaderType, NEW len, HeaderAccepted(len, h)
  PROVE  Valid(HeaderWords(h))
<1>1. HeaderWords(h) \in Seq(Word)
  BY HeaderWordsSeq
<1>2. ip_checksum(HeaderWords(h), <<>>) = 0
  BY Zenon DEF HeaderAccepted
<1> QED
  BY <1>1, <1>2, AcceptedIsValid, NoneBehind

(* The header that ip_tx fills in.                                          *)
LEMMA BuiltHeader ==
  ASSUME NEW id \in Word, NEW protocol \in Byte, NEW dst \in Address,
         NEW length \in Nat, IP_HEADER + length < WORD
  PROVE  LET h == BuildHeader(id, protocol, dst, length)
         IN  /\ Valid(HeaderWords(h))
             /\ h.src_ip = our_ip /\ h.dst_ip = dst /\ h.protocol = protocol
             /\ ntohs(h.total_length) = IP_HEADER + length
<1> DEFINE flags == htons(16384)
           g == [version |-> 4, ihl |-> 5, total_length |-> htons(IP_HEADER + length),
                 id |-> htons(id), flags_frag |-> flags, ttl |-> 64,
                 protocol |-> protocol, checksum |-> 0, src_ip |-> our_ip, dst_ip |-> dst]
           c == ip_checksum(HeaderWords(g), <<>>)
           h == [g EXCEPT !.checksum = c]
<1>1. IP_HEADER + length \in Word /\ 16384 \in Word /\ 0 \in Word
  BY WordIs DEF IP_HEADER, WORD, BYTE
<1>2. 4 \in 0 .. 15 /\ 5 \in 0 .. 15 /\ 64 \in Byte
  BY DEF Byte, BYTE
<1>5. BuildHeader(id, protocol, dst, length) = h
  BY DEF BuildHeader
<1>a. flags \in Word
  BY <1>1, SwapTwice
<1> HIDE DEF flags
<1>3. g \in HeaderType
  <2>1. htons(IP_HEADER + length) \in Word /\ htons(id) \in Word
    BY <1>1, SwapTwice
  <2> QED
    BY <1>1, <1>2, <1>a, <2>1, AddressAssumption DEF HeaderType
<1>4. /\ g.checksum = 0 /\ g.src_ip = our_ip /\ g.dst_ip = dst /\ g.protocol = protocol
      /\ g.total_length = htons(IP_HEADER + length)
  BY Zenon
<1> HIDE DEF g
<1>6. HeaderWords(g) \in Seq(Word)
  BY <1>3, HeaderWordsSeq
<1>7. c \in Word
  BY <1>6, ChecksumWord, NoneBehind
<1>8. SameBut(HeaderWords(g), HeaderWords(h), 6, 0, c)
  <2> HIDE DEF c
  <2> QED
    BY <1>3, <1>4, <1>7, HeaderWordsAre
<1>9. /\ h.src_ip = our_ip /\ h.dst_ip = dst /\ h.protocol = protocol
      /\ h.total_length = htons(IP_HEADER + length)
  <2> HIDE DEF c
  <2> QED
    BY <1>3, <1>4, Zenon DEF HeaderType
<1>10. ntohs(h.total_length) = IP_HEADER + length
  <2> HIDE DEF h
  <2> QED
    BY <1>1, <1>9, SwapTwice
<1> HIDE DEF h
<1>11. HeaderWords(h) \in Seq(Word)
  BY <1>8 DEF SameBut
<1>12. Valid(HeaderWords(h))
  BY <1>8, <1>11, SameButValid, NoneBehind
<1> QED
  BY <1>5, <1>9, <1>10, <1>12

(* The byte that is left over is a word, too.                               *)
LEMMA OddWords ==
  ASSUME NEW c \in IcmpType
  PROVE  c.odd \in Seq(Word)
<1>1. c.odd \in {<<>>} \cup {<<b>> : b \in Byte}
  BY Zenon DEF IcmpType
<1>2. \A b \in Byte : b \in Word
  <2>1. BYTE \in Nat
    BY DEF BYTE
  <2>2. \A b \in Byte : b \in Nat /\ b < BYTE
    BY <2>1, Below, Zenon DEF Byte
  <2> QED
    BY <2>2, WordIs DEF BYTE, WORD
<1>3. <<>> \in Seq(Word) /\ \A b \in Byte : <<b>> \in Seq(Word)
  BY <1>2
<1> QED
  BY <1>1, <1>3, Zenon

(* The words of an ICMP message, and what changing its checksum does.       *)
LEMMA IcmpWordsAre ==
  ASSUME NEW c \in IcmpType, NEW x \in Word
  PROVE  LET d == [c EXCEPT !.checksum = x]
         IN  SameBut(IcmpWords(c), IcmpWords(d), 2, c.checksum, x)
<1> DEFINE d == [c EXCEPT !.checksum = x]
           front(y) == <<c.type + (c.code * BYTE), y, c.id, c.sequence>>
           a == front(c.checksum)
           b == front(x)
<1>1. /\ c.type \in Byte /\ c.code \in Byte /\ c.checksum \in Word /\ c.id \in Word
      /\ c.sequence \in Word /\ c.data \in Seq(Word)
  BY Zenon DEF IcmpType
<1>2. IcmpWords(c) = a \o c.data
  BY DEF IcmpWords
<1>3. IcmpWords(d) = b \o c.data
  <2>1. /\ d.type = c.type /\ d.code = c.code /\ d.checksum = x /\ d.id = c.id
        /\ d.sequence = c.sequence /\ d.data = c.data
    BY Zenon DEF IcmpType
  <2> HIDE DEF d
  <2> QED
    BY <2>1, Zenon DEF IcmpWords
<1> HIDE DEF d
<1> DEFINE t == c.type + (c.code * BYTE)
<1>4. t \in Word
  BY <1>1, TwoInAWord
<1> HIDE DEF t
<1>5. ASSUME NEW y \in Word
      PROVE  front(y) \in Seq(Word) /\ Len(front(y)) = 4 /\ front(y)[2] = y
  BY <1>1, <1>4 DEF t
<1>6. SameBut(a, b, 2, c.checksum, x)
  <2>1. \A i \in 1 .. 4 : i # 2 => a[i] = b[i]
    OBVIOUS
  <2>2. /\ a \in Seq(Word) /\ Len(a) = 4 /\ a[2] = c.checksum
        /\ b \in Seq(Word) /\ Len(b) = 4 /\ b[2] = x
    BY <1>1, <1>5
  <2> HIDE DEF a, b
  <2> QED
    BY <2>1, <2>2 DEF SameBut
<1> HIDE DEF a, b
<1>7. SameBut(a \o c.data, b \o c.data, 2, c.checksum, x)
  BY <1>1, <1>6, SameButMore
<1> QED
  BY <1>2, <1>3, <1>7, Zenon DEF d

(* The words of an ICMP message are words.                                  *)
LEMMA IcmpWordsSeq ==
  ASSUME NEW c \in IcmpType
  PROVE  IcmpWords(c) \in Seq(Word)
<1>1. c.checksum \in Word
  BY Zenon DEF IcmpType
<1> QED
  BY <1>1, IcmpWordsAre, Zenon DEF SameBut

(* A message that icmp_rx accepts is valid.                                 *)
LEMMA IcmpAcceptedIsValid ==
  ASSUME NEW c \in IcmpType, NEW len, IcmpAccepted(len, c)
  PROVE  Valid(IcmpWords(c) \o c.odd)
<1>1. ip_checksum(IcmpWords(c), c.odd) = 0
  BY Zenon DEF IcmpAccepted
<1> QED
  BY <1>1, IcmpWordsSeq, OddWords, AcceptedIsValid

(* The echo reply is valid and keeps what the request carried.              *)
LEMMA ReplyIs ==
  ASSUME NEW c \in IcmpType
  PROVE  LET r == EchoReply(c)
         IN  /\ Valid(IcmpWords(r) \o r.odd)
             /\ r.id = c.id /\ r.sequence = c.sequence /\ r.data = c.data /\ r.odd = c.odd
<1> DEFINE q == [c EXCEPT !.type = ICMP_TYPE_ECHO_REPLY, !.code = 0, !.checksum = 0]
           x == ip_checksum(IcmpWords(q), q.odd)
           r == [q EXCEPT !.checksum = x]
<1>1. ICMP_TYPE_ECHO_REPLY \in Byte /\ 0 \in Byte /\ 0 \in Word
  BY WordIs DEF Byte, BYTE, WORD, ICMP_TYPE_ECHO_REPLY
<1>2. q \in IcmpType
  BY <1>1, Zenon DEF IcmpType
<1>3. /\ q.checksum = 0 /\ q.id = c.id /\ q.sequence = c.sequence /\ q.data = c.data
      /\ q.odd = c.odd
  BY Zenon DEF IcmpType
<1>4. EchoReply(c) = r
  BY DEF EchoReply
<1> HIDE DEF q
<1>5. x \in Word
  BY <1>2, IcmpWordsSeq, OddWords, ChecksumWord
<1>6. SameBut(IcmpWords(q), IcmpWords(r), 2, 0, x)
  <2> HIDE DEF x
  <2> QED
    BY <1>2, <1>3, <1>5, IcmpWordsAre
<1>7. Valid(IcmpWords(r) \o q.odd)
  BY <1>2, <1>6, OddWords, SameButValid
<1>8. /\ r.id = c.id /\ r.sequence = c.sequence /\ r.data = c.data
      /\ r.odd = c.odd /\ r.odd = q.odd
  <2> HIDE DEF x
  <2> QED
    BY <1>2, <1>3, Zenon DEF IcmpType
<1> HIDE DEF r
<1> QED
  BY <1>4, <1>7, <1>8

=============================================================================
