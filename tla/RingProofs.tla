----------------------------- MODULE RingProofs -----------------------------
(***************************************************************************)
(* The two rings of the network card's driver: the transmit ring of TxRing, *)
(* for any number of descriptors, any width of the counters that is a       *)
(* multiple of it, and any set of buffers; and the receive ring of RxRing,  *)
(* for any length and frames of any size that fit in it.                    *)
(***************************************************************************)
EXTENDS TxRing, RxRing, Induction, TLAPS
-----------------------------------------------------------------------------
(* The transmit ring.                                                       *)

(* Division with remainder, and that quotient and remainder are unique.     *)
LEMMA DivMod ==
  ASSUME NEW N \in Nat \ {0}, NEW x \in Nat
  PROVE  x % N \in 0 .. N - 1 /\ x = N * (x \div N) + (x % N) /\ x \div N \in Nat
BY SMT

(* A number has one remainder.                                              *)
LEMMA RemainderUnique ==
  ASSUME NEW N \in Nat \ {0}, NEW q \in Nat, NEW p \in Nat,
         NEW r \in 0 .. N - 1, NEW s \in 0 .. N - 1, N * q + r = N * p + s
  PROVE  r = s
<1>1. CASE q = p
  BY <1>1, SMT
<1>2. CASE q < p
  <2>1. N * p >= N * (q + 1)
    BY <1>2, SMT
  <2>2. N * (q + 1) = N * q + N
    BY SMT
  <2> QED
    BY <2>1, <2>2, SMT
<1>3. CASE q > p
  <2>1. N * q >= N * (p + 1)
    BY <1>3, SMT
  <2>2. N * (p + 1) = N * p + N
    BY SMT
  <2> QED
    BY <2>1, <2>2, SMT
<1> QED
  BY <1>1, <1>2, <1>3, SMT

(* The entry after x % N is the next one, or the first again.               *)
LEMMA RemainderOfNext ==
  ASSUME NEW N \in Nat \ {0}, NEW x \in Nat
  PROVE  (x + 1) % N = IF (x % N) + 1 = N THEN 0 ELSE (x % N) + 1
<1> DEFINE q == x \div N
           r == x % N
<1>1. r \in 0 .. N - 1 /\ x = N * q + r /\ q \in Nat
  BY DivMod
<1>2. x + 1 \in Nat
  BY SMT
<1>3. /\ (x + 1) % N \in 0 .. N - 1
      /\ x + 1 = N * ((x + 1) \div N) + ((x + 1) % N)
      /\ (x + 1) \div N \in Nat
  BY <1>2, DivMod
<1> HIDE DEF q, r
<1>4. CASE r + 1 = N
  <2>1. x + 1 = N * (q + 1) + 0
    BY <1>1, <1>4, SMT
  <2>2. 0 \in 0 .. N - 1 /\ q + 1 \in Nat
    BY <1>1, SMT
  <2>3. (x + 1) % N = 0
    BY <2>1, <2>2, <1>3, RemainderUnique
  <2> QED
    BY <2>3, <1>4 DEF r
<1>5. CASE r + 1 # N
  <2>1. x + 1 = N * q + (r + 1)
    BY <1>1, SMT
  <2>2. r + 1 \in 0 .. N - 1
    BY <1>1, <1>5, SMT
  <2>3. (x + 1) % N = r + 1
    BY <2>1, <2>2, <1>1, <1>3, RemainderUnique
  <2> QED
    BY <2>3, <1>5 DEF r
<1> QED
  BY <1>4, <1>5

\* Entry e of the ring and the one after it.
After(e) == IF e + 1 = NUM_TX_DESC THEN 0 ELSE e + 1

(* A counter and the descriptor it leads to wrap together, because the      *)
(* counter's width is a multiple of the number of descriptors.              *)
LEMMA EntryOfNext ==
  ASSUME NEW x \in 0 .. Wrap - 1
  PROVE  /\ x % NUM_TX_DESC \in Desc
         /\ Plus1(x) \in 0 .. Wrap - 1
         /\ Plus1(x) % NUM_TX_DESC = After(x % NUM_TX_DESC)
<1>1. x \in Nat /\ NUM_TX_DESC \in Nat \ {0} /\ Wrap \in Nat /\ Wrap > NUM_TX_DESC
  BY TxAssumption, SMT
<1>2. x % NUM_TX_DESC \in Desc
  BY <1>1, DivMod DEF Desc
<1>3. (x + 1) % NUM_TX_DESC = After(x % NUM_TX_DESC)
  BY <1>1, RemainderOfNext DEF After
<1>4. Plus1(x) \in 0 .. Wrap - 1
  BY <1>1, SMT DEF Plus1
<1>5. CASE x = Wrap - 1
  <2>1. x + 1 = Wrap
    BY <1>1, <1>5, SMT
  <2>2. Plus1(x) = 0 /\ 0 % NUM_TX_DESC = 0
    BY <1>1, <1>5, SMT DEF Plus1
  <2>3. Wrap % NUM_TX_DESC = 0
    BY TxAssumption
  <2> QED
    BY <2>1, <2>2, <2>3, <1>2, <1>3, <1>4
<1>6. CASE x # Wrap - 1
  <2>1. Plus1(x) = x + 1
    BY <1>6 DEF Plus1
  <2> QED
    BY <2>1, <1>2, <1>3, <1>4
<1> QED
  BY <1>5, <1>6

\* The entry n places, at most a whole turn, past entry d.
Place(d, n) == IF d + n >= NUM_TX_DESC THEN d + n - NUM_TX_DESC ELSE d + n

\* How many descriptors are sent and not cleared.
SentCount == Pending - Len(outgoing)

(* The inductive invariant: besides what RingHoldsPending says, cur_tx      *)
(* lies Pending places and the card SentCount places past dirty_tx, and     *)
(* the descriptors the card has still to send, the last of the pending      *)
(* ones, hold the outgoing frames in order.                                 *)
TxInv ==
  /\ TxTypeOK
  /\ RingHoldsPending
  /\ Pending \in Nat /\ Len(outgoing) <= Pending
  /\ cur_tx % NUM_TX_DESC = Place(dirty_tx % NUM_TX_DESC, Pending)
  /\ dev_tx = Place(dirty_tx % NUM_TX_DESC, SentCount)
  /\ \A e \in Desc : tx_status[e] = "started" <=> (SentCount <= Ahead(e) /\ Ahead(e) < Pending)
  /\ \A e \in Desc : tx_status[e] = "started" => tx_buffer[e] = outgoing[Ahead(e) - SentCount + 1]

(* The empty ring satisfies the invariant.                                  *)
LEMMA TxInit == rtl8139_init_ring => TxInv
<1> SUFFICES ASSUME rtl8139_init_ring PROVE TxInv
  OBVIOUS
<1> USE TxAssumption
<1>1. 0 \in 0 .. Wrap - 1 /\ 0 % NUM_TX_DESC = 0 /\ 0 \in Desc
  BY SMT DEF Desc
<1>a. Pending = 0
  BY SMT DEF rtl8139_init_ring, Pending, Minus
<1>b. Len(outgoing) = 0
  BY DEF rtl8139_init_ring
<1>c. SentCount = 0
  BY <1>a, <1>b, SMT DEF SentCount
<1>2. Pending = 0 /\ Len(outgoing) = 0 /\ SentCount = 0
  BY <1>a, <1>b, <1>c
<1>3. TxTypeOK
  BY <1>1, SMT DEF rtl8139_init_ring, TxTypeOK
<1>4. \A e \in Desc : Ahead(e) = e
  BY <1>1, SMT DEF rtl8139_init_ring, Ahead, Desc
<1>5. RingHoldsPending
  BY <1>2, <1>4, SMT DEF rtl8139_init_ring, RingHoldsPending, Desc
<1>6. Place(0, 0) = 0
  BY SMT DEF Place
<1> QED
  BY <1>1, <1>2, <1>3, <1>4, <1>5, <1>6, SMT DEF rtl8139_init_ring, TxInv, Desc

(* Ahead numbers the entries from dirty_tx on; Place is its inverse.        *)
LEMMA AheadFacts ==
  ASSUME dirty_tx % NUM_TX_DESC \in Desc, NEW e \in Desc
  PROVE  /\ Ahead(e) \in 0 .. NUM_TX_DESC - 1
         /\ \A n \in 0 .. NUM_TX_DESC - 1 :
              Ahead(e) = n <=> e = Place(dirty_tx % NUM_TX_DESC, n)
<1> DEFINE d == dirty_tx % NUM_TX_DESC
<1>1. d \in Desc /\ NUM_TX_DESC \in Nat \ {0}
  BY TxAssumption
<1>2. Ahead(e) = IF e >= d THEN e - d ELSE e - d + NUM_TX_DESC
  BY DEF Ahead
<1> HIDE DEF d
<1>3. /\ Ahead(e) \in 0 .. NUM_TX_DESC - 1
      /\ \A n \in 0 .. NUM_TX_DESC - 1 : Ahead(e) = n <=> e = Place(d, n)
  BY <1>1, <1>2, SMT DEF Desc, Place
<1> QED
  BY <1>3 DEF d

(* The distance of the two counters follows their steps, wrap included.     *)
LEMMA PendingSteps ==
  ASSUME NEW x \in 0 .. Wrap - 1, NEW y \in 0 .. Wrap - 1
  PROVE  /\ Minus(x, y) \in 0 .. Wrap - 1
         /\ Minus(x, y) < NUM_TX_DESC => Minus(Plus1(x), y) = Minus(x, y) + 1
         /\ Minus(x, y) > 0 => Minus(x, Plus1(y)) = Minus(x, y) - 1
BY TxAssumption, SMT DEF Minus, Plus1

(* What the invariant says in terms of d, the entry of dirty_tx.            *)
LEMMA TxFacts ==
  ASSUME TxInv
  PROVE  /\ dirty_tx % NUM_TX_DESC \in Desc
         /\ cur_tx % NUM_TX_DESC \in Desc
         /\ Pending \in 0 .. NUM_TX_DESC
         /\ Len(outgoing) \in 0 .. Pending
         /\ SentCount \in 0 .. Pending
<1> USE TxAssumption
<1>1. cur_tx \in 0 .. Wrap - 1 /\ dirty_tx \in 0 .. Wrap - 1 /\ outgoing \in Seq(Buf)
  BY DEF TxInv, TxTypeOK
<1>2. dirty_tx % NUM_TX_DESC \in Desc /\ cur_tx % NUM_TX_DESC \in Desc
  BY <1>1, EntryOfNext
<1>3. Len(outgoing) \in Nat
  BY <1>1
<1>4. Pending \in 0 .. NUM_TX_DESC /\ Len(outgoing) <= Pending
  BY SMT DEF TxInv, RingHoldsPending
<1> QED
  BY <1>2, <1>3, <1>4, SMT DEF SentCount

(* Buffers that the ring does not hold may come and go.                     *)
LEMMA TxSpareStep ==
  ASSUME TxInv, NEW held \in SUBSET Buf, KeepsRing(held), allocated' = held,
         UNCHANGED <<cur_tx, dirty_tx, tx_bufs, tx_buffer, tx_status, dev_tx, outgoing>>
  PROVE  TxInv'
<1>1. Pending' = Pending /\ SentCount' = SentCount /\ \A e \in Desc : Ahead(e)' = Ahead(e)
  BY DEF Pending, SentCount, Ahead
<1>2. TxTypeOK'
  BY DEF TxInv, TxTypeOK
<1>3. RingHoldsPending'
  BY <1>1 DEF TxInv, RingHoldsPending, KeepsRing
<1> QED
  BY <1>1, <1>2, <1>3 DEF TxInv

(* A frame is taken: the entry of cur_tx, Pending places ahead, is the one  *)
(* entry that changes.                                                      *)
LEMMA TxAcceptStep ==
  ASSUME TxInv, NEW b \in Buf, NEW held \in SUBSET Buf,
         b \in held \ allocated, KeepsRing(held),
         Pending < NUM_TX_DESC, rtl8139_transmit(b, held)
  PROVE  TxInv'
<1> DEFINE entry == cur_tx % NUM_TX_DESC
           d == dirty_tx % NUM_TX_DESC
<1> USE TxAssumption
<1>1. /\ d \in Desc /\ entry \in Desc /\ Pending \in 0 .. NUM_TX_DESC
      /\ Len(outgoing) \in 0 .. Pending /\ SentCount \in 0 .. Pending
  BY TxFacts
<1>2. /\ tx_bufs' = [tx_bufs EXCEPT ![entry] = b]
      /\ tx_buffer' = [tx_buffer EXCEPT ![entry] = b]
      /\ tx_status' = [tx_status EXCEPT ![entry] = "started"]
      /\ cur_tx' = Plus1(cur_tx)
      /\ outgoing' = Append(outgoing, b)
      /\ allocated' = held
      /\ dirty_tx' = dirty_tx /\ dev_tx' = dev_tx
  <2>1. ~(Pending >= NUM_TX_DESC)
    BY <1>1, SMT
  <2> QED
    BY <2>1 DEF rtl8139_transmit
<1>3. TxTypeOK /\ TxTypeOK'
  <2>1. TxTypeOK
    BY DEF TxInv
  <2>2. cur_tx' \in 0 .. Wrap - 1
    BY <2>1, <1>2, EntryOfNext DEF TxTypeOK
  <2>3. outgoing' \in Seq(Buf)
    BY <2>1, <1>2, SMT DEF TxTypeOK
  <2> QED
    BY <2>1, <2>2, <2>3, <1>1, <1>2 DEF TxTypeOK
<1>4. Pending' = Pending + 1
  BY <1>2, <1>3, PendingSteps DEF Pending, TxTypeOK
<1>5. Len(outgoing') = Len(outgoing) + 1 /\ SentCount' = SentCount
  <2>1. Len(outgoing') = Len(outgoing) + 1
    BY <1>2, <1>3, SMT DEF TxTypeOK
  <2> QED
    BY <2>1, <1>1, <1>4, SMT DEF SentCount
<1>6. \A e \in Desc : /\ Ahead(e)' = Ahead(e) /\ Ahead(e) \in 0 .. NUM_TX_DESC - 1
                      /\ Ahead(e) = Pending <=> e = entry
  <2> SUFFICES ASSUME NEW e \in Desc
               PROVE  /\ Ahead(e)' = Ahead(e) /\ Ahead(e) \in 0 .. NUM_TX_DESC - 1
                      /\ Ahead(e) = Pending <=> e = entry
    OBVIOUS
  <2>1. Ahead(e)' = Ahead(e)
    BY <1>2 DEF Ahead
  <2>2. Pending \in 0 .. NUM_TX_DESC - 1
    BY <1>1, SMT
  <2>3. entry = Place(d, Pending)
    BY DEF TxInv
  <2> QED
    BY <2>1, <2>2, <2>3, <1>1, AheadFacts
<1>7. RingHoldsPending'
  <2>1. Pending' <= NUM_TX_DESC
    BY <1>1, <1>4, SMT
  <2>2. NULL \notin Buf
    BY SMT DEF NULL
  <2>3. \A e \in Desc : (tx_bufs'[e] # NULL) <=> (Ahead(e)' < Pending')
    <3> SUFFICES ASSUME NEW e \in Desc PROVE (tx_bufs'[e] # NULL) <=> (Ahead(e)' < Pending')
      OBVIOUS
    <3>1. CASE e = entry
      <4>1. tx_bufs'[e] # NULL
        BY <3>1, <2>2, <1>1, <1>2, <1>3 DEF TxTypeOK
      <4> QED
        BY <4>1, <3>1, <1>1, <1>4, <1>6, SMT
    <3>2. CASE e # entry
      <4>1. tx_bufs'[e] = tx_bufs[e]
        BY <3>2, <1>1, <1>2, <1>3 DEF TxTypeOK
      <4>2. (tx_bufs[e] # NULL) <=> (Ahead(e) < Pending)
        BY DEF TxInv, RingHoldsPending
      <4>3. Ahead(e) < Pending <=> Ahead(e)' < Pending'
        BY <3>2, <1>1, <1>4, <1>6, SMT
      <4> QED
        BY <4>1, <4>2, <4>3
    <3> QED
      BY <3>1, <3>2
  <2>4. \A e \in Desc : tx_bufs'[e] # NULL => tx_bufs'[e] \in allocated'
    BY <1>1, <1>2, <1>3 DEF TxTypeOK, KeepsRing
  <2>5. \A e, f \in Desc : tx_bufs'[e] = tx_bufs'[f] /\ tx_bufs'[e] # NULL => e = f
    BY <1>1, <1>2, <1>3 DEF TxTypeOK, TxInv, RingHoldsPending
  <2> QED
    BY <2>1, <2>3, <2>4, <2>5 DEF RingHoldsPending
<1>8. cur_tx' % NUM_TX_DESC = Place(d, Pending')
  <2>1. cur_tx' % NUM_TX_DESC = After(entry)
    BY <1>2, <1>3, EntryOfNext DEF TxTypeOK
  <2>2. entry = Place(d, Pending)
    BY DEF TxInv
  <2> HIDE DEF entry, d
  <2> QED
    BY <2>1, <2>2, <1>1, <1>4, SMT DEF After, Place, Desc
<1>9. \A e \in Desc : tx_status'[e] = "started" <=> (SentCount' <= Ahead(e)' /\ Ahead(e)' < Pending')
  <2> SUFFICES ASSUME NEW e \in Desc
               PROVE tx_status'[e] = "started" <=> (SentCount' <= Ahead(e)' /\ Ahead(e)' < Pending')
    OBVIOUS
  <2>1. CASE e = entry
    <3>1. tx_status'[e] = "started"
      BY <2>1, <1>1, <1>2, <1>3 DEF TxTypeOK
    <3> QED
      BY <3>1, <2>1, <1>1, <1>4, <1>5, <1>6, SMT
  <2>2. CASE e # entry
    <3>1. tx_status'[e] = tx_status[e]
      BY <2>2, <1>1, <1>2, <1>3 DEF TxTypeOK
    <3>2. tx_status[e] = "started" <=> (SentCount <= Ahead(e) /\ Ahead(e) < Pending)
      BY DEF TxInv
    <3>3. Ahead(e) < Pending <=> Ahead(e)' < Pending'
      BY <2>2, <1>1, <1>4, <1>6, SMT
    <3> QED
      BY <3>1, <3>2, <3>3, <1>5, <1>6
  <2> QED
    BY <2>1, <2>2
<1>10. \A e \in Desc : tx_status'[e] = "started" =>
                         tx_buffer'[e] = outgoing'[Ahead(e)' - SentCount' + 1]
  <2> SUFFICES ASSUME NEW e \in Desc, tx_status'[e] = "started"
               PROVE  tx_buffer'[e] = outgoing'[Ahead(e) - SentCount + 1]
    BY <1>5, <1>6
  <2>1. CASE e = entry
    <3>1. tx_buffer'[e] = b
      BY <2>1, <1>1, <1>2, <1>3 DEF TxTypeOK
    <3>2. Ahead(e) - SentCount + 1 = Len(outgoing) + 1
      BY <2>1, <1>1, <1>6, SMT DEF SentCount
    <3>3. outgoing'[Len(outgoing) + 1] = b
      BY <1>2, <1>3, SMT DEF TxTypeOK
    <3> QED
      BY <3>1, <3>2, <3>3
  <2>2. CASE e # entry
    <3>1. tx_status[e] = "started" /\ tx_buffer'[e] = tx_buffer[e]
      BY <2>2, <1>1, <1>2, <1>3 DEF TxTypeOK
    <3>2. SentCount <= Ahead(e) /\ Ahead(e) < Pending
      BY <3>1 DEF TxInv
    <3>3. Ahead(e) - SentCount + 1 \in 1 .. Len(outgoing)
      BY <3>2, <1>1, <1>6, SMT DEF SentCount
    <3>4. outgoing'[Ahead(e) - SentCount + 1] = outgoing[Ahead(e) - SentCount + 1]
      BY <3>3, <1>2, <1>3, SMT DEF TxTypeOK
    <3> QED
      BY <3>1, <3>4 DEF TxInv
  <2> QED
    BY <2>1, <2>2
<1>11. Pending' \in Nat /\ Len(outgoing') <= Pending'
  BY <1>1, <1>4, <1>5, SMT
<1>12. dev_tx' = Place(d, SentCount')
  BY <1>2, <1>5 DEF TxInv
<1> QED
  BY <1>2, <1>3, <1>7, <1>8, <1>9, <1>10, <1>11, <1>12 DEF TxInv

(* The card sends: the entry SentCount places ahead, which holds the oldest *)
(* outgoing frame, is no longer to be sent.                                 *)
LEMMA TxCardStep ==
  ASSUME TxInv, CardSends
  PROVE  TxInv'
<1> DEFINE d == dirty_tx % NUM_TX_DESC
<1> USE TxAssumption
<1>1. /\ d \in Desc /\ Pending \in 0 .. NUM_TX_DESC
      /\ Len(outgoing) \in 0 .. Pending /\ SentCount \in 0 .. Pending
  BY TxFacts
<1>2. /\ tx_status[dev_tx] = "started"
      /\ tx_status' = [tx_status EXCEPT ![dev_tx] = "sent"]
      /\ dev_tx' = (dev_tx + 1) % NUM_TX_DESC
      /\ outgoing' = Tail(outgoing)
      /\ UNCHANGED <<cur_tx, dirty_tx, tx_bufs, tx_buffer, allocated>>
  BY DEF CardSends
<1>3. TxTypeOK /\ dev_tx \in Desc /\ dev_tx = Place(d, SentCount)
  BY DEF TxInv, TxTypeOK
<1>4. \A e \in Desc : Ahead(e)' = Ahead(e) /\ Ahead(e) \in 0 .. NUM_TX_DESC - 1
  BY <1>1, <1>2, AheadFacts DEF Ahead
<1>5. Ahead(dev_tx) < Pending /\ SentCount <= Ahead(dev_tx)
  BY <1>2, <1>3 DEF TxInv
<1>6. SentCount \in 0 .. NUM_TX_DESC - 1 /\ SentCount < Pending /\ Len(outgoing) > 0
  BY <1>1, <1>3, <1>4, <1>5, SMT DEF SentCount
<1>7. \A e \in Desc : Ahead(e) = SentCount <=> e = dev_tx
  BY <1>1, <1>3, <1>6, AheadFacts
<1>8. /\ outgoing \in Seq(Buf) /\ outgoing' \in Seq(Buf)
      /\ Len(outgoing') = Len(outgoing) - 1
      /\ \A i \in 1 .. Len(outgoing) - 1 : outgoing'[i] = outgoing[i + 1]
  <2>1. outgoing \in Seq(Buf) /\ outgoing # <<>>
    BY <1>3, <1>6 DEF TxTypeOK
  <2> QED
    BY <2>1, <1>2, SMT
<1>9. Pending' = Pending
  BY <1>2 DEF Pending
<1>10. SentCount' = SentCount + 1
  BY <1>1, <1>8, <1>9, SMT DEF SentCount
<1>11. dev_tx' = After(dev_tx) /\ dev_tx' \in Desc
  <2>1. dev_tx \in Nat /\ dev_tx % NUM_TX_DESC = dev_tx
    BY <1>3, SMT DEF Desc
  <2>2. (dev_tx + 1) % NUM_TX_DESC = IF (dev_tx % NUM_TX_DESC) + 1 = NUM_TX_DESC THEN 0
                                     ELSE (dev_tx % NUM_TX_DESC) + 1
    BY <2>1, RemainderOfNext
  <2>3. dev_tx' = After(dev_tx)
    BY <2>1, <2>2, <1>2 DEF After
  <2> QED
    BY <2>3, <1>3, SMT DEF After, Desc
<1>12. TxTypeOK'
  BY <1>2, <1>3, <1>8, <1>11 DEF TxTypeOK
<1>13. RingHoldsPending'
  BY <1>2, <1>4, <1>9 DEF TxInv, RingHoldsPending
<1>14. dev_tx' = Place(d, SentCount')
  <2> HIDE DEF d
  <2> QED
    BY <1>1, <1>3, <1>6, <1>10, <1>11, SMT DEF After, Place, Desc
<1>15. \A e \in Desc : tx_status'[e] = "started" <=> (SentCount' <= Ahead(e)' /\ Ahead(e)' < Pending')
  <2> SUFFICES ASSUME NEW e \in Desc
               PROVE tx_status'[e] = "started" <=> (SentCount' <= Ahead(e)' /\ Ahead(e)' < Pending')
    OBVIOUS
  <2>1. CASE e = dev_tx
    <3>1. tx_status'[e] = "sent"
      BY <2>1, <1>2, <1>3 DEF TxTypeOK
    <3>2. ~(SentCount' <= Ahead(e)')
      BY <2>1, <1>1, <1>4, <1>7, <1>10, SMT
    <3> QED
      BY <3>1, <3>2
  <2>2. CASE e # dev_tx
    <3>1. tx_status'[e] = tx_status[e]
      BY <2>2, <1>2, <1>3 DEF TxTypeOK
    <3>2. tx_status[e] = "started" <=> (SentCount <= Ahead(e) /\ Ahead(e) < Pending)
      BY DEF TxInv
    <3>3. SentCount <= Ahead(e) <=> SentCount' <= Ahead(e)'
      BY <2>2, <1>1, <1>4, <1>7, <1>10, SMT
    <3> QED
      BY <3>1, <3>2, <3>3, <1>4, <1>9
  <2> QED
    BY <2>1, <2>2
<1>16. \A e \in Desc : tx_status'[e] = "started" =>
                         tx_buffer'[e] = outgoing'[Ahead(e)' - SentCount' + 1]
  <2> SUFFICES ASSUME NEW e \in Desc, tx_status'[e] = "started"
               PROVE  tx_buffer'[e] = outgoing'[Ahead(e)' - SentCount' + 1]
    OBVIOUS
  <2>1. e # dev_tx /\ tx_status[e] = "started"
    BY <1>2, <1>3 DEF TxTypeOK
  <2>2. SentCount <= Ahead(e) /\ Ahead(e) < Pending /\ Ahead(e) # SentCount
    BY <2>1, <1>7 DEF TxInv
  <2>3. /\ Ahead(e)' - SentCount' + 1 \in 1 .. Len(outgoing) - 1
        /\ (Ahead(e)' - SentCount' + 1) + 1 = Ahead(e) - SentCount + 1
    BY <2>2, <1>1, <1>4, <1>10, SMT DEF SentCount
  <2>4. outgoing'[Ahead(e)' - SentCount' + 1] = outgoing[Ahead(e) - SentCount + 1]
    BY <2>3, <1>8
  <2> QED
    BY <2>1, <2>4, <1>2 DEF TxInv
<1>17. Pending' \in Nat /\ Len(outgoing') <= Pending'
  BY <1>1, <1>8, <1>9, SMT
<1>18. cur_tx' % NUM_TX_DESC = Place(d, Pending')
  BY <1>2, <1>9 DEF TxInv
<1> QED
  BY <1>2, <1>12, <1>13, <1>14, <1>15, <1>16, <1>17, <1>18 DEF TxInv

(* A sent descriptor is cleared: every other entry moves one place nearer   *)
(* to dirty_tx.                                                             *)
LEMMA TxClearStep ==
  ASSUME TxInv, rtl8139_tx_clear
  PROVE  TxInv'
<1> DEFINE d == dirty_tx % NUM_TX_DESC
<1> USE TxAssumption
<1>1. /\ d \in Desc /\ Pending \in 0 .. NUM_TX_DESC
      /\ Len(outgoing) \in 0 .. Pending /\ SentCount \in 0 .. Pending
  BY TxFacts
<1>2. /\ Pending > 0 /\ tx_status[d] = "sent"
      /\ tx_bufs' = [tx_bufs EXCEPT ![d] = NULL]
      /\ tx_buffer' = [tx_buffer EXCEPT ![d] = NULL]
      /\ dirty_tx' = Plus1(dirty_tx)
      /\ allocated' = IF tx_bufs[d] = NULL THEN allocated ELSE allocated \ {tx_bufs[d]}
      /\ UNCHANGED <<cur_tx, tx_status, dev_tx, outgoing>>
  BY DEF rtl8139_tx_clear, ClearGoesOn, netbuf_free
<1>3. TxTypeOK
  BY DEF TxInv
<1>4. dirty_tx' \in 0 .. Wrap - 1 /\ dirty_tx' % NUM_TX_DESC = After(d) /\ After(d) \in Desc
  <2>1. dirty_tx' \in 0 .. Wrap - 1 /\ dirty_tx' % NUM_TX_DESC = After(d)
    BY <1>2, <1>3, EntryOfNext DEF TxTypeOK
  <2> HIDE DEF d
  <2>2. After(d) \in Desc
    BY <1>1, SMT DEF After, Desc
  <2> QED
    BY <2>1, <2>2
<1>5. TxTypeOK'
  BY <1>1, <1>2, <1>3, <1>4 DEF TxTypeOK
<1>6. Pending' = Pending - 1
  BY <1>2, <1>3, PendingSteps DEF Pending, TxTypeOK
<1>7. SentCount' = SentCount - 1
  BY <1>1, <1>2, <1>6, SMT DEF SentCount
<1>8. \A e \in Desc : /\ Ahead(e) \in 0 .. NUM_TX_DESC - 1
                      /\ Ahead(e) = 0 <=> e = d
                      /\ Ahead(e)' = IF e = d THEN NUM_TX_DESC - 1 ELSE Ahead(e) - 1
  <2> SUFFICES ASSUME NEW e \in Desc
               PROVE  /\ Ahead(e) \in 0 .. NUM_TX_DESC - 1
                      /\ Ahead(e) = 0 <=> e = d
                      /\ Ahead(e)' = IF e = d THEN NUM_TX_DESC - 1 ELSE Ahead(e) - 1
    OBVIOUS
  <2>1. Ahead(e) = IF e >= d THEN e - d ELSE e - d + NUM_TX_DESC
    BY DEF Ahead
  <2>2. Ahead(e)' = IF e >= After(d) THEN e - After(d) ELSE e - After(d) + NUM_TX_DESC
    BY <1>4 DEF Ahead
  <2> HIDE DEF d
  <2> QED
    BY <2>1, <2>2, <1>1, SMT DEF After, Desc
<1>9. SentCount > 0
  <2>1. ~(SentCount <= Ahead(d) /\ Ahead(d) < Pending)
    BY <1>1, <1>2 DEF TxInv
  <2> QED
    BY <2>1, <1>1, <1>2, <1>8, SMT
<1>10. RingHoldsPending'
  <2>1. Pending' <= NUM_TX_DESC
    BY <1>1, <1>6, SMT
  <2>2. \A e \in Desc : (tx_bufs'[e] # NULL) <=> (Ahead(e)' < Pending')
    <3> SUFFICES ASSUME NEW e \in Desc PROVE (tx_bufs'[e] # NULL) <=> (Ahead(e)' < Pending')
      OBVIOUS
    <3>1. CASE e = d
      <4>1. tx_bufs'[e] = NULL
        BY <3>1, <1>1, <1>2, <1>3 DEF TxTypeOK
      <4>2. ~(Ahead(e)' < Pending')
        BY <3>1, <1>1, <1>6, <1>8, SMT
      <4> QED
        BY <4>1, <4>2
    <3>2. CASE e # d
      <4>1. tx_bufs'[e] = tx_bufs[e]
        BY <3>2, <1>1, <1>2, <1>3 DEF TxTypeOK
      <4>2. (tx_bufs[e] # NULL) <=> (Ahead(e) < Pending)
        BY DEF TxInv, RingHoldsPending
      <4>3. Ahead(e) < Pending <=> Ahead(e)' < Pending'
        BY <3>2, <1>1, <1>6, <1>8, SMT
      <4> QED
        BY <4>1, <4>2, <4>3
    <3> QED
      BY <3>1, <3>2
  <2>3. \A e \in Desc : tx_bufs'[e] # NULL => tx_bufs'[e] \in allocated'
    <3> SUFFICES ASSUME NEW e \in Desc, tx_bufs'[e] # NULL PROVE tx_bufs'[e] \in allocated'
      OBVIOUS
    <3>1. e # d /\ tx_bufs'[e] = tx_bufs[e]
      BY <1>1, <1>2, <1>3 DEF TxTypeOK
    <3>2. tx_bufs[e] \in allocated /\ (tx_bufs[e] = tx_bufs[d] => e = d)
      BY <3>1, <1>1 DEF TxInv, RingHoldsPending
    <3> QED
      BY <3>1, <3>2, <1>2
  <2>4. \A e, f \in Desc : tx_bufs'[e] = tx_bufs'[f] /\ tx_bufs'[e] # NULL => e = f
    BY <1>1, <1>2, <1>3 DEF TxTypeOK, TxInv, RingHoldsPending
  <2> QED
    BY <2>1, <2>2, <2>3, <2>4 DEF RingHoldsPending
<1>11. cur_tx' % NUM_TX_DESC = Place(After(d), Pending')
  <2>1. cur_tx' % NUM_TX_DESC = Place(d, Pending)
    BY <1>2 DEF TxInv
  <2> HIDE DEF d
  <2>2. Place(d, Pending) = Place(After(d), Pending')
    BY <1>1, <1>2, <1>6, SMT DEF Place, After, Desc
  <2> QED
    BY <2>1, <2>2
<1>12. dev_tx' = Place(After(d), SentCount')
  <2>1. dev_tx' = Place(d, SentCount)
    BY <1>2 DEF TxInv
  <2> HIDE DEF d
  <2>2. Place(d, SentCount) = Place(After(d), SentCount')
    BY <1>1, <1>7, <1>9, SMT DEF Place, After, Desc
  <2> QED
    BY <2>1, <2>2
<1>13. \A e \in Desc : tx_status'[e] = "started" <=> (SentCount' <= Ahead(e)' /\ Ahead(e)' < Pending')
  <2> SUFFICES ASSUME NEW e \in Desc
               PROVE tx_status'[e] = "started" <=> (SentCount' <= Ahead(e)' /\ Ahead(e)' < Pending')
    OBVIOUS
  <2>1. tx_status'[e] = "started" <=> (SentCount <= Ahead(e) /\ Ahead(e) < Pending)
    BY <1>2 DEF TxInv
  <2>2. (SentCount <= Ahead(e) /\ Ahead(e) < Pending) <=> (SentCount' <= Ahead(e)' /\ Ahead(e)' < Pending')
    <3> HIDE DEF d
    <3> QED
      BY <1>1, <1>6, <1>7, <1>8, <1>9, SMT
  <2> QED
    BY <2>1, <2>2
<1>14. \A e \in Desc : tx_status'[e] = "started" =>
                         tx_buffer'[e] = outgoing'[Ahead(e)' - SentCount' + 1]
  <2> SUFFICES ASSUME NEW e \in Desc, tx_status'[e] = "started"
               PROVE  tx_buffer'[e] = outgoing'[Ahead(e)' - SentCount' + 1]
    OBVIOUS
  <2>1. e # d /\ tx_status[e] = "started"
    BY <1>2
  <2>2. tx_buffer'[e] = tx_buffer[e]
    BY <2>1, <1>1, <1>2, <1>3 DEF TxTypeOK
  <2>3. Ahead(e)' - SentCount' + 1 = Ahead(e) - SentCount + 1
    <3> HIDE DEF d
    <3> QED
      BY <2>1, <1>1, <1>7, <1>8, SMT
  <2> QED
    BY <2>1, <2>2, <2>3, <1>2 DEF TxInv
<1>15. Pending' \in Nat /\ Len(outgoing') <= Pending'
  <2>1. outgoing' = outgoing
    BY <1>2
  <2>2. SentCount = Pending - Len(outgoing)
    BY DEF SentCount
  <2> QED
    BY <2>1, <2>2, <1>1, <1>2, <1>6, <1>9, SMT
<1> QED
  BY <1>4, <1>5, <1>10, <1>11, <1>12, <1>13, <1>14, <1>15 DEF TxInv

(* Every step of the ring keeps the invariant.                              *)
LEMMA TxStep == TxInv /\ [TxNext]_tx_vars => TxInv'
<1> SUFFICES ASSUME TxInv, [TxNext]_tx_vars PROVE TxInv'
  OBVIOUS
<1>1. ASSUME NEW b \in Buf, NEW held \in SUBSET Buf,
             b \in held \ allocated, KeepsRing(held), rtl8139_transmit(b, held)
      PROVE  TxInv'
  <2>1. Pending \in 0 .. NUM_TX_DESC
    BY TxFacts
  <2>2. CASE Pending < NUM_TX_DESC
    BY <2>2, <1>1, TxAcceptStep
  <2>3. CASE Pending >= NUM_TX_DESC
    <3>1. allocated' = held /\ UNCHANGED <<cur_tx, dirty_tx, tx_bufs, tx_buffer, tx_status,
                                           dev_tx, outgoing>>
      BY <2>3, <1>1 DEF rtl8139_transmit
    <3> QED
      BY <3>1, <1>1, TxSpareStep
  <2> QED
    BY <2>1, <2>2, <2>3, TxAssumption, SMT
<1>2. CASE CardSends
  BY <1>2, TxCardStep
<1>3. CASE rtl8139_tx_clear
  BY <1>3, TxClearStep
<1>4. CASE OtherBuffers
  BY <1>4, TxSpareStep DEF OtherBuffers
<1>5. CASE UNCHANGED tx_vars
  <2>1. allocated \in SUBSET Buf /\ KeepsRing(allocated)
    BY DEF TxInv, TxTypeOK, RingHoldsPending, KeepsRing
  <2>2. /\ allocated' = allocated
        /\ UNCHANGED <<cur_tx, dirty_tx, tx_bufs, tx_buffer, tx_status, dev_tx, outgoing>>
    BY <1>5 DEF tx_vars
  <2> QED
    BY <2>1, <2>2, TxSpareStep
<1> QED
  BY <1>1, <1>2, <1>3, <1>4, <1>5 DEF TxNext

(* The ring always satisfies it.                                            *)
LEMMA TxInvariant == TxSpec => []TxInv
<1>1. rtl8139_init_ring => TxInv
  BY TxInit
<1>2. TxInv /\ [TxNext]_tx_vars => TxInv'
  BY TxStep
<1> QED
  BY <1>1, <1>2, PTL DEF TxSpec

(* The ring's bookkeeping is right for every number of descriptors and      *)
(* every counter width: the entries between dirty_tx and cur_tx are the     *)
(* ones that hold a buffer, each its own and still in use.                  *)
THEOREM RingHoldsPendingAlways == TxSpec => []RingHoldsPending
<1>1. TxInv => RingHoldsPending
  BY DEF TxInv
<1> QED
  BY <1>1, TxInvariant, PTL

(* Frames leave the card in the order rtl8139_transmit took them.           *)
THEOREM WireInOrderAlways == TxSpec => []WireInOrder
<1>1. ASSUME TxInv PROVE WireInOrder
  <2> DEFINE d == dirty_tx % NUM_TX_DESC
  <2> USE TxAssumption
  <2>1. /\ d \in Desc /\ Pending \in 0 .. NUM_TX_DESC
        /\ Len(outgoing) \in 0 .. Pending /\ SentCount \in 0 .. Pending
    BY <1>1, TxFacts
  <2>2. dev_tx \in Desc /\ dev_tx = Place(d, SentCount) /\ outgoing \in Seq(Buf)
    BY <1>1 DEF TxInv, TxTypeOK
  <2>3. /\ Ahead(dev_tx) \in 0 .. NUM_TX_DESC - 1
        /\ tx_status[dev_tx] = "started" <=> (SentCount <= Ahead(dev_tx) /\ Ahead(dev_tx) < Pending)
    BY <1>1, <2>1, <2>2, AheadFacts DEF TxInv
  <2>4. CASE outgoing = <<>>
    <3>1. Len(outgoing) = 0
      BY <2>4
    <3>2. SentCount = Pending
      BY <3>1, <2>1, SMT DEF SentCount
    <3>3. tx_status[dev_tx] # "started"
      BY <3>2, <2>1, <2>3, SMT
    <3> QED
      BY <3>3, <2>4 DEF WireInOrder
  <2>5. CASE outgoing # <<>>
    <3>1. Len(outgoing) > 0 /\ Head(outgoing) = outgoing[1]
      BY <2>2, <2>5, SMT
    <3>2. SentCount \in 0 .. NUM_TX_DESC - 1 /\ SentCount < Pending
      BY <3>1, <2>1, SMT DEF SentCount
    <3>3. Ahead(dev_tx) = SentCount
      BY <3>2, <2>1, <2>2, AheadFacts
    <3>4. tx_status[dev_tx] = "started"
      BY <3>2, <3>3, <2>3, SMT
    <3>5. tx_buffer[dev_tx] = outgoing[Ahead(dev_tx) - SentCount + 1]
      BY <3>4, <2>2, <1>1 DEF TxInv
    <3>6. Ahead(dev_tx) - SentCount + 1 = 1
      BY <3>2, <3>3, SMT
    <3> QED
      BY <3>1, <3>4, <3>5, <3>6, <2>5 DEF WireInOrder
  <2> QED
    BY <2>4, <2>5
<1> QED
  BY <1>1, TxInvariant, PTL

(* No step changes a bounce buffer, or drops the buffer behind it, while    *)
(* the card may still read it.                                              *)
THEOREM BounceBufferStableAlways == TxSpec => BounceBufferStable
<1> DEFINE Stable == \A e \in Desc : tx_status[e] = "started" =>
                        tx_buffer'[e] = tx_buffer[e] /\ tx_bufs'[e] = tx_bufs[e]
<1>1. ASSUME TxInv, [TxNext]_tx_vars PROVE [Stable]_tx_vars
  <2> USE TxAssumption
  <2>1. /\ dirty_tx % NUM_TX_DESC \in Desc /\ cur_tx % NUM_TX_DESC \in Desc
        /\ Pending \in 0 .. NUM_TX_DESC /\ SentCount \in 0 .. Pending
    BY <1>1, TxFacts
  <2>2. ASSUME NEW b \in Buf, NEW held \in SUBSET Buf, rtl8139_transmit(b, held)
        PROVE  Stable
    <3>1. CASE Pending >= NUM_TX_DESC
      BY <3>1, <2>2 DEF rtl8139_transmit
    <3>2. CASE ~(Pending >= NUM_TX_DESC)
      <4> DEFINE entry == cur_tx % NUM_TX_DESC
      <4>1. entry = Place(dirty_tx % NUM_TX_DESC, Pending) /\ Pending \in 0 .. NUM_TX_DESC - 1
        BY <1>1, <3>2, <2>1, SMT DEF TxInv
      <4>2. Ahead(entry) = Pending
        BY <4>1, <2>1, AheadFacts
      <4>3. tx_status[entry] # "started"
        BY <1>1, <4>2, <2>1, SMT DEF TxInv
      <4>4. /\ tx_bufs' = [tx_bufs EXCEPT ![entry] = b]
            /\ tx_buffer' = [tx_buffer EXCEPT ![entry] = b]
        BY <3>2, <2>2 DEF rtl8139_transmit
      <4> QED
        BY <1>1, <4>3, <4>4 DEF TxInv, TxTypeOK
    <3> QED
      BY <3>1, <3>2
  <2>3. CASE CardSends
    BY <2>3 DEF CardSends
  <2>4. CASE rtl8139_tx_clear
    <3>1. tx_status[dirty_tx % NUM_TX_DESC] = "sent"
      BY <2>4 DEF rtl8139_tx_clear, ClearGoesOn
    <3> QED
      BY <1>1, <2>4, <3>1 DEF rtl8139_tx_clear, TxInv, TxTypeOK
  <2>5. CASE OtherBuffers
    BY <2>5 DEF OtherBuffers
  <2> QED
    BY <1>1, <2>2, <2>3, <2>4, <2>5 DEF TxNext
<1>2. TxSpec => [][Stable]_tx_vars
  BY <1>1, TxInvariant, PTL DEF TxSpec
<1> QED
  BY <1>2 DEF BounceBufferStable

-----------------------------------------------------------------------------
(* The receive ring.                                                        *)

\* An address of a ring of length L, at most one turn too far.
Round(L, x) == IF x >= L THEN x - L ELSE x

\* How far past address r the address a lies.
Dist(L, r, a) == IF a >= r THEN a - r ELSE a - r + L

\* What a frame takes in the ring: header, frame and checksum, in words.
Room(f) == Aligned(f.size + 8)

\* The frames of a ring of length L.
Queued(L) ==
  {f \in [at : 0 .. L - 1, size : Nat, multicast : {g.multicast : g \in Frame}] :
     f.size + 12 <= RX_BUF_LEN}

\* Where the k-th frame of q starts; behind the last one the card writes, at w.
StartOf(w, q, k) == IF k <= Len(q) THEN q[k].at ELSE w

(* The frames q lie in the ring one behind the other, from where the driver *)
(* reads to where the card writes, and do not reach round to the first one. *)
LaidOut(L, r, w, q) ==
  /\ StartOf(w, q, 1) = r
  /\ \A k \in 1 .. Len(q) :
       Dist(L, r, StartOf(w, q, k + 1)) = Dist(L, r, StartOf(w, q, k)) + Room(q[k])
  /\ \A j, k \in 1 .. Len(q) + 1 :
       j < k => Dist(L, r, StartOf(w, q, j)) + Room(q[j]) <= Dist(L, r, StartOf(w, q, k))

\* Every byte of every frame is where its header says.
InPlace(L, ring, q) ==
  \A k \in 1 .. Len(q) :
    \A i \in 0 .. q[k].size + 7 : ring[Round(L, q[k].at + i)] = <<q[k], i - 4>>

(* The inductive invariant: driver and card have the same ring, the card's  *)
(* read pointer is 16 below the driver's in 16-bit arithmetic, and the      *)
(* frames that arrived fill the ring from the one to the other.             *)
RxInv ==
  /\ rx_config \in 0 .. 2 /\ rx_buf_len = RxLength(rx_config)
  /\ cur_rx \in 0 .. U16 - 1 /\ cur_rx % 4 = 0
  /\ RxBufPtr = (cur_rx - 16) % U16
  /\ RxBufAddr \in 0 .. rx_buf_len - 1
  /\ arrived \in Seq(Queued(rx_buf_len))
  /\ LaidOut(rx_buf_len, ring_offset, RxBufAddr, arrived)
  /\ DOMAIN rx_ring = 0 .. rx_buf_len - 1
  /\ \A o \in 0 .. rx_buf_len - 1 :
       rx_ring[o] = NoByte \/ rx_ring[o][1].at \in 0 .. rx_buf_len - 1
  /\ InPlace(rx_buf_len, rx_ring, arrived)

(* A remainder after a step of less than a turn.                            *)
LEMMA RemainderOfSum ==
  ASSUME NEW L \in Nat \ {0}, NEW x \in Nat, NEW a \in 0 .. L
  PROVE  (x + a) % L = Round(L, (x % L) + a)
<1> DEFINE q == x \div L
           r == x % L
           y == x + a
<1>1. r \in 0 .. L - 1 /\ x = L * q + r /\ q \in Nat
  BY DivMod
<1>2. y \in Nat
  BY SMT
<1>3. y % L \in 0 .. L - 1 /\ y = L * (y \div L) + (y % L) /\ y \div L \in Nat
  BY <1>2, DivMod
<1>4. y = x + a
  OBVIOUS
<1> HIDE DEF q, r, y
<1>5. CASE r + a >= L
  <2>1. L * (q + 1) = L * q + L
    BY <1>1, SMT
  <2>2. y = L * (q + 1) + (r + a - L)
    BY <1>1, <1>4, <1>5, <2>1, SMT
  <2>3. r + a - L \in 0 .. L - 1 /\ q + 1 \in Nat
    BY <1>1, <1>5, SMT
  <2>4. y % L = r + a - L
    BY <2>2, <2>3, <1>3, RemainderUnique
  <2> QED
    BY <2>4, <1>5 DEF Round, r, y
<1>6. CASE ~(r + a >= L)
  <2>1. y = L * q + (r + a)
    BY <1>1, <1>4, SMT
  <2>2. r + a \in 0 .. L - 1
    BY <1>1, <1>6, SMT
  <2>3. y % L = r + a
    BY <2>1, <2>2, <1>1, <1>3, RemainderUnique
  <2> QED
    BY <2>3, <1>6 DEF Round, r, y
<1> QED
  BY <1>5, <1>6

(* An address at most one turn too far.                                     *)
LEMMA RemainderRound ==
  ASSUME NEW L \in Nat \ {0}, NEW x \in 0 .. 2 * L - 1
  PROVE  x % L = Round(L, x) /\ Round(L, x) \in 0 .. L - 1
<1>1. Round(L, x) \in 0 .. L - 1
  BY SMT DEF Round
<1>2. x = L * 0 + x /\ x = L * 1 + (x - L) /\ 0 \in Nat /\ 1 \in Nat /\ x \in Nat
  BY SMT
<1>3. x % L \in 0 .. L - 1 /\ x = L * (x \div L) + (x % L) /\ x \div L \in Nat
  BY <1>2, DivMod
<1>4. CASE x >= L
  <2>1. x - L \in 0 .. L - 1
    BY <1>4, SMT
  <2>2. x % L = x - L
    BY <1>2, <1>3, <2>1, RemainderUnique
  <2> QED
    BY <1>1, <1>4, <2>2 DEF Round
<1>5. CASE ~(x >= L)
  <2>1. x \in 0 .. L - 1
    BY <1>5, SMT
  <2>2. x % L = x
    BY <1>2, <1>3, <2>1, RemainderUnique
  <2> QED
    BY <1>1, <1>5, <2>2 DEF Round
<1> QED
  BY <1>4, <1>5

(* A pointer that wraps at a multiple of the ring's length leads to the     *)
(* same place of the ring.                                                  *)
LEMMA RemainderOfRemainder ==
  ASSUME NEW L \in Nat \ {0}, NEW m \in Nat \ {0}, NEW x \in Nat
  PROVE  (x % (m * L)) % L = x % L
<1> DEFINE U == m * L
<1>1. U \in Nat \ {0}
  BY SMT
<1>2. U = m * L
  OBVIOUS
<1> HIDE DEF U
<1>3. PICK y \in Nat, p \in Nat : y = x % U /\ x = U * p + y
  <2>1. x % U \in 0 .. U - 1 /\ x = U * (x \div U) + (x % U) /\ x \div U \in Nat
    BY <1>1, DivMod
  <2>2. x % U \in Nat
    BY <2>1, <1>1
  <2> QED
    BY <2>1, <2>2, Zenon
<1>4. PICK r \in 0 .. L - 1, q \in Nat : r = y % L /\ y = L * q + r
  BY DivMod
<1>5. PICK s \in 0 .. L - 1, t \in Nat : s = x % L /\ x = L * t + s
  BY DivMod
<1>6. U * p = L * (m * p) /\ m * p \in Nat
  BY <1>2, SMT
<1>7. PICK n \in Nat : n = m * p
  BY <1>6
<1>8. L * (n + q) = L * n + L * q
  BY SMT
<1>9. x = L * (n + q) + r /\ n + q \in Nat
  BY <1>3, <1>4, <1>6, <1>7, <1>8, SMT
<1>10. r = s
  BY <1>5, <1>9, RemainderUnique
<1> QED
  BY <1>2, <1>3, <1>4, <1>5, <1>10

(* Remainders of words are words.                                           *)
LEMMA RemainderOfWord ==
  ASSUME NEW L \in Nat \ {0}, L % 4 = 0, NEW x \in Nat, x % 4 = 0
  PROVE  (x % L) % 4 = 0
<1>1. PICK r \in 0 .. L - 1, q \in Nat : r = x % L /\ x = L * q + r
  BY DivMod
<1>2. PICK l \in Nat : L = 4 * l
  <2>1. L = 4 * (L \div 4) /\ L \div 4 \in Nat
    BY SMT
  <2> QED
    BY <2>1
<1>3. PICK n \in Nat : n = l * q
  BY SMT
<1>4. L * q = 4 * n
  BY <1>2, <1>3, SMT
<1>5. x = 4 * n + r
  BY <1>1, <1>4
<1>6. r % 4 = 0
  BY <1>5, SMT
<1> QED
  BY <1>1, <1>6

(* Aligning rounds up to the next word, and steps over whole words.         *)
LEMMA AlignedIs ==
  ASSUME NEW n \in Nat
  PROVE  /\ Aligned(n) \in Nat /\ n <= Aligned(n) /\ Aligned(n) <= n + 3
         /\ Aligned(n) % 4 = 0
         /\ \A x \in Nat : x % 4 = 0 => Aligned(x + n) = x + Aligned(n)
BY SMT DEF Aligned

(* The three lengths of the ring are whole words that divide the range of   *)
(* the 16-bit pointers.                                                     *)
LEMMA RingLength ==
  ASSUME NEW c \in 0 .. 2
  PROVE  /\ RxLength(c) \in Nat \ {0} /\ RX_BUF_LEN <= RxLength(c)
         /\ RxLength(c) % 4 = 0
         /\ U16 % 4 = 0 /\ 16 <= U16
         /\ \E m \in Nat \ {0} : U16 = m * RxLength(c)
<1> DEFINE R == RX_BUF_LEN
           Q == 4 * R
<1>1. R \in Nat \ {0} /\ R % 4 = 0 /\ U16 \in Nat \ {0} /\ U16 % Q = 0
  BY RxAssumption
<1>2. Q \in Nat \ {0} /\ R >= 4
  BY <1>1, SMT
<1>3. \/ RxLength(c) = R /\ Q = 4 * RxLength(c)
      \/ RxLength(c) = 2 * R /\ Q = 2 * RxLength(c)
      \/ RxLength(c) = 4 * R /\ Q = 1 * RxLength(c)
  <2>1. c = 0 \/ c = 1 \/ c = 2
    BY SMT
  <2> QED
    BY <2>1, <1>1, SMT DEF RxLength
<1>4. RxLength(c) \in Nat \ {0} /\ R <= RxLength(c) /\ RxLength(c) % 4 = 0
  BY <1>1, <1>3, SMT
<1>5. PICK q \in Nat : U16 = Q * q
  <2>1. U16 = Q * (U16 \div Q) + (U16 % Q) /\ U16 \div Q \in Nat
    BY <1>1, <1>2, DivMod
  <2>2. U16 = Q * (U16 \div Q)
    BY <2>1, <1>1, <1>2, SMT
  <2> QED
    BY <2>1, <2>2, Zenon
<1>6. q # 0
  BY <1>1, <1>2, <1>5, SMT
<1>7. PICK n \in Nat : n = R * q
  BY <1>1, SMT
<1>8. U16 = 4 * n /\ n >= R
  BY <1>1, <1>5, <1>6, <1>7, SMT
<1>9. U16 % 4 = 0 /\ 16 <= U16
  BY <1>8, <1>2, <1>1, SMT
<1>10. ASSUME NEW e \in {1, 2, 4}, Q = e * RxLength(c)
       PROVE  \E m \in Nat \ {0} : U16 = m * RxLength(c)
  <2> DEFINE L == RxLength(c)
  <2>1. L \in Nat /\ Q = e * L
    BY <1>4, <1>10
  <2> HIDE DEF L, Q
  <2>2. U16 = (e * q) * L
    BY <2>1, <1>5, SMT
  <2>3. e * q \in Nat \ {0}
    BY <1>6, SMT
  <2>4. U16 = (e * q) * RxLength(c)
    BY <2>2 DEF L
  <2> QED
    BY <2>3, <2>4, Zenon
<1>11. \E m \in Nat \ {0} : U16 = m * RxLength(c)
  BY <1>3, <1>10
<1> QED
  BY <1>4, <1>9, <1>11

(* The card's read pointer, 16 below the driver's in 16-bit arithmetic,     *)
(* leads to the driver's place in the ring.                                 *)
LEMMA CardReadsThere ==
  ASSUME NEW c \in 0 .. 2, NEW x \in 0 .. U16 - 1
  PROVE  /\ (x - 16) % U16 \in 0 .. U16 - 1
         /\ (((x - 16) % U16) + 16) % RxLength(c) = x % RxLength(c)
<1> DEFINE L == RxLength(c)
           p == (x - 16) % U16
<1>1. L \in Nat \ {0} /\ U16 \in Nat \ {0} /\ 16 <= U16 /\ x \in Nat
  BY RingLength, RxAssumption
<1>2. PICK m \in Nat \ {0} : U16 = m * L
  BY RingLength
<1>3. p = IF x >= 16 THEN x - 16 ELSE x - 16 + U16
  BY <1>1, SMT
<1>4. p \in 0 .. U16 - 1
  BY <1>1, <1>3, SMT
<1> HIDE DEF p
<1>5. CASE x >= 16
  <2>1. p + 16 = x
    BY <1>1, <1>3, <1>5, SMT
  <2> QED
    BY <2>1, <1>4 DEF p
<1>6. CASE ~(x >= 16)
  <2>1. p + 16 = x + U16
    BY <1>1, <1>3, <1>6, SMT
  <2> HIDE DEF L
  <2>2. PICK r \in 0 .. L - 1, q \in Nat : r = x % L /\ x = L * q + r
    BY <1>1, DivMod
  <2> DEFINE y == x + U16
  <2>3. y \in Nat
    BY <1>1
  <2>4. PICK s \in 0 .. L - 1, t \in Nat : s = y % L /\ y = L * t + s
    <3> HIDE DEF y
    <3> QED
      BY <2>3, <1>1, DivMod
  <2>5. L * (q + m) = L * q + m * L
    BY <1>1, SMT
  <2>6. y = L * (q + m) + r /\ q + m \in Nat
    BY <1>1, <1>2, <2>2, <2>5, SMT
  <2> HIDE DEF y
  <2>7. r = s
    BY <2>4, <2>6, <1>1, RemainderUnique
  <2> QED
    BY <2>1, <2>2, <2>4, <2>7, <1>4 DEF y, L, p
<1> QED
  BY <1>5, <1>6

(* The driver's next place: a frame further on, in the ring as in the       *)
(* 16-bit pointer.                                                          *)
LEMMA NextPlace ==
  ASSUME NEW c \in 0 .. 2, NEW x \in 0 .. U16 - 1, x % 4 = 0,
         NEW n \in Nat, Aligned(n) <= RxLength(c)
  PROVE  /\ Aligned(x + n) % U16 \in 0 .. U16 - 1
         /\ (Aligned(x + n) % U16) % 4 = 0
         /\ (Aligned(x + n) % U16) % RxLength(c) = Round(RxLength(c), (x % RxLength(c)) + Aligned(n))
<1> DEFINE L == RxLength(c)
           a == Aligned(n)
<1>1. L \in Nat \ {0} /\ U16 \in Nat \ {0} /\ U16 % 4 = 0 /\ x \in Nat
  BY RingLength, RxAssumption
<1>2. PICK m \in Nat \ {0} : U16 = m * L
  BY RingLength
<1>3. a \in Nat /\ a % 4 = 0 /\ Aligned(x + n) = x + a /\ a \in 0 .. L
  <2>1. a \in Nat /\ a % 4 = 0 /\ Aligned(x + n) = x + a
    BY <1>1, AlignedIs, Zenon
  <2>2. a <= L
    OBVIOUS
  <2> HIDE DEF a, L
  <2> QED
    BY <2>1, <2>2, <1>1
<1> HIDE DEF L, a
<1>4. x + a \in Nat /\ (x + a) % 4 = 0
  BY <1>1, <1>3, SMT
<1>5. (x + a) % U16 \in 0 .. U16 - 1
  BY <1>1, <1>4, DivMod
<1>6. ((x + a) % U16) % 4 = 0
  BY <1>1, <1>4, RemainderOfWord
<1>7. ((x + a) % U16) % L = (x + a) % L
  BY <1>1, <1>2, <1>4, RemainderOfRemainder
<1>8. (x + a) % L = Round(L, (x % L) + a)
  BY <1>1, <1>3, RemainderOfSum
<1> QED
  BY <1>3, <1>5, <1>6, <1>7, <1>8 DEF L, a

(* A frame's room is less than the shortest ring.                           *)
LEMMA RoomIs ==
  ASSUME NEW L \in Nat, RX_BUF_LEN <= L, NEW f \in Queued(L)
  PROVE  /\ f.size \in Nat /\ f.at \in 0 .. L - 1
         /\ Room(f) \in 1 .. L - 1 /\ f.size + 8 <= Room(f)
<1>1. f.size \in Nat /\ f.at \in 0 .. L - 1 /\ f.size + 12 <= RX_BUF_LEN
  BY DEF Queued
<1> DEFINE n == f.size + 8
           a == Aligned(n)
<1>2. n \in Nat
  BY <1>1
<1>3. a \in Nat /\ n <= a /\ a <= n + 3
  <2> HIDE DEF n
  <2> QED
    BY <1>2, AlignedIs
<1>4. Room(f) = a
  BY DEF Room
<1> HIDE DEF a
<1>5. Room(f) \in 1 .. L - 1 /\ f.size + 8 <= Room(f)
  BY <1>1, <1>3, <1>4, RxAssumption, SMT
<1> QED
  BY <1>1, <1>5

(* Distances in a ring.                                                     *)
LEMMA DistIs ==
  ASSUME NEW L \in Nat \ {0}, NEW r \in 0 .. L - 1, NEW a \in 0 .. L - 1
  PROVE  /\ Dist(L, r, a) \in 0 .. L - 1
         /\ Dist(L, r, a) = 0 <=> a = r
         /\ \A n \in 0 .. L : Dist(L, r, a) + n < L =>
              /\ Round(L, a + n) \in 0 .. L - 1
              /\ Dist(L, r, Round(L, a + n)) = Dist(L, r, a) + n
         /\ \A n \in 0 .. L - 1 :
              /\ Round(L, r + n) \in 0 .. L - 1
              /\ n <= Dist(L, r, a) =>
                   Dist(L, Round(L, r + n), a) = Dist(L, r, a) - n
         /\ \A b \in 0 .. L - 1 : Dist(L, r, b) = Dist(L, r, a) => b = a
BY SMT DEF Dist, Round

(* Where the frames of a queue start, and of what it is made.               *)
LEMMA StartIs ==
  ASSUME NEW L \in Nat \ {0}, NEW w \in 0 .. L - 1, NEW q \in Seq(Queued(L))
  PROVE  /\ \A k \in 1 .. Len(q) : q[k] \in Queued(L)
         /\ \A k \in 1 .. Len(q) + 1 : StartOf(w, q, k) \in 0 .. L - 1
<1>1. \A k \in 1 .. Len(q) : q[k] \in Queued(L)
  OBVIOUS
<1>2. \A k \in 1 .. Len(q) : q[k].at \in 0 .. L - 1
  BY <1>1 DEF Queued
<1> QED
  BY <1>1, <1>2 DEF StartOf

(* The card writes a frame behind the last one.                             *)
LEMMA LaidOutAppend ==
  ASSUME NEW L \in Nat \ {0}, RX_BUF_LEN <= L, NEW r \in 0 .. L - 1, NEW w \in 0 .. L - 1,
         NEW q \in Seq(Queued(L)), LaidOut(L, r, w, q),
         NEW f \in Queued(L), f.at = w, Dist(L, r, w) + Room(f) < L
  PROVE  LaidOut(L, r, Round(L, w + Room(f)), Append(q, f))
<1> DEFINE N == Len(q)
           v == Round(L, w + Room(f))
           p == Append(q, f)
           D(k) == Dist(L, r, StartOf(w, q, k))
           E(k) == Dist(L, r, StartOf(v, p, k))
<1>1. N \in Nat /\ Len(p) = N + 1 /\ p[N + 1] = f /\ \A k \in 1 .. N : p[k] = q[k]
  OBVIOUS
<1>2. Room(f) \in 1 .. L - 1
  BY RoomIs
<1>3. Dist(L, r, v) = Dist(L, r, w) + Room(f)
  <2>1. Room(f) \in 0 .. L
    BY <1>2
  <2> QED
    BY <2>1, DistIs
<1>4. StartOf(w, q, N + 1) = w /\ StartOf(v, p, N + 2) = v
  BY <1>1 DEF StartOf
<1>5. \A k \in 1 .. N + 1 : StartOf(v, p, k) = StartOf(w, q, k)
  BY <1>1 DEF StartOf
<1> HIDE DEF N, v, p
<1>6. \A k \in 1 .. N + 1 : E(k) = D(k)
  BY <1>5
<1>7. E(N + 2) = D(N + 1) + Room(f)
  BY <1>3, <1>4
<1>8. /\ \A k \in 1 .. N : D(k + 1) = D(k) + Room(q[k])
      /\ \A j, k \in 1 .. N + 1 : j < k => D(j) + Room(q[j]) <= D(k)
      /\ StartOf(w, q, 1) = r
  BY DEF LaidOut, N
<1>9. /\ \A k \in 1 .. N + 1 : D(k) \in Nat
      /\ \A k \in 1 .. N : Room(q[k]) \in Nat
  <2>1. ASSUME NEW k \in 1 .. N + 1 PROVE D(k) \in Nat
    <3>1. StartOf(w, q, k) \in 0 .. L - 1
      BY StartIs DEF N
    <3>2. D(k) \in 0 .. L - 1
      BY <3>1, DistIs
    <3> QED
      BY <3>2
  <2>2. ASSUME NEW k \in 1 .. N PROVE Room(q[k]) \in Nat
    <3>1. q[k] \in Queued(L)
      BY DEF N
    <3>2. Room(q[k]) \in 1 .. L - 1
      BY <3>1, RoomIs
    <3> QED
      BY <3>2
  <2> QED
    BY <2>1, <2>2
<1> HIDE DEF D, E
<1>10. StartOf(v, p, 1) = r
  BY <1>1, <1>5, <1>8
<1>11. ASSUME NEW k \in 1 .. N + 1 PROVE E(k + 1) = E(k) + Room(p[k])
  <2>1. CASE k = N + 1
    <3>1. k + 1 = N + 2
      BY <2>1, <1>1
    <3> QED
      BY <2>1, <3>1, <1>1, <1>6, <1>7
  <2>2. CASE k # N + 1
    <3>1. k \in 1 .. N /\ k + 1 \in 1 .. N + 1 /\ p[k] = q[k]
      BY <2>2, <1>1
    <3> QED
      BY <3>1, <1>6, <1>8
  <2> QED
    BY <2>1, <2>2
<1>12. ASSUME NEW j \in 1 .. N + 2, NEW k \in 1 .. N + 2, j < k
       PROVE  E(j) + Room(p[j]) <= E(k)
  <2>1. CASE k = N + 2 /\ j = N + 1
    BY <2>1, <1>1, <1>2, <1>6, <1>7, <1>9
  <2>2. CASE k = N + 2 /\ j # N + 1
    <3>1. j \in 1 .. N /\ j < N + 1 /\ p[j] = q[j] /\ N + 1 \in 1 .. N + 1 /\ j \in 1 .. N + 1
      BY <2>2, <1>1, <1>12
    <3>2. D(j) + Room(q[j]) <= D(N + 1) /\ D(j) \in Nat /\ Room(q[j]) \in Nat /\ D(N + 1) \in Nat
      BY <3>1, <1>8, <1>9
    <3>3. E(j) = D(j) /\ E(k) = D(N + 1) + Room(f)
      BY <3>1, <2>2, <1>6, <1>7
    <3> QED
      BY <3>1, <3>2, <3>3, <1>2
  <2>3. CASE k # N + 2
    <3>1. j \in 1 .. N /\ k \in 1 .. N + 1 /\ j \in 1 .. N + 1 /\ p[j] = q[j]
      BY <2>3, <1>1, <1>12
    <3> QED
      BY <3>1, <1>6, <1>8, <1>12
  <2> QED
    BY <2>1, <2>2, <2>3
<1>13. Len(p) + 1 = N + 2
  BY <1>1
<1> QED
  BY <1>1, <1>10, <1>11, <1>12, <1>13 DEF LaidOut, E, v, p

(* The driver passes the first frame.                                       *)
LEMMA LaidOutTail ==
  ASSUME NEW L \in Nat \ {0}, RX_BUF_LEN <= L, NEW r \in 0 .. L - 1, NEW w \in 0 .. L - 1,
         NEW q \in Seq(Queued(L)), LaidOut(L, r, w, q), q # <<>>
  PROVE  /\ Round(L, r + Room(q[1])) \in 0 .. L - 1
         /\ LaidOut(L, Round(L, r + Room(q[1])), w, Tail(q))
<1> DEFINE N == Len(q)
           p == Tail(q)
           n == Room(q[1])
           s == Round(L, r + n)
           D(k) == Dist(L, r, StartOf(w, q, k))
           E(k) == Dist(L, s, StartOf(w, p, k))
<1>1. N \in Nat \ {0} /\ Len(p) = N - 1 /\ \A k \in 1 .. N - 1 : p[k] = q[k + 1]
  OBVIOUS
<1>2. n \in 1 .. L - 1
  <2>1. q[1] \in Queued(L)
    BY <1>1
  <2> QED
    BY <2>1, RoomIs
<1>3. \A k \in 1 .. N : StartOf(w, p, k) = StartOf(w, q, k + 1)
  BY <1>1 DEF StartOf
<1>4. \A k \in 1 .. N + 1 : StartOf(w, q, k) \in 0 .. L - 1
  BY StartIs DEF N
<1>5. \A k \in 1 .. N : Room(q[k]) \in Nat
  <2>2. ASSUME NEW k \in 1 .. N PROVE Room(q[k]) \in Nat
    <3>1. q[k] \in Queued(L)
      BY DEF N
    <3>2. Room(q[k]) \in 1 .. L - 1
      BY <3>1, RoomIs
    <3> QED
      BY <3>2
  <2> QED
    BY <2>2
<1> HIDE DEF N, p
<1>6. /\ \A k \in 1 .. N : D(k + 1) = D(k) + Room(q[k])
      /\ \A j, k \in 1 .. N + 1 : j < k => D(j) + Room(q[j]) <= D(k)
      /\ StartOf(w, q, 1) = r
  BY DEF LaidOut, N
<1>7. D(1) = 0 /\ \A k \in 1 .. N + 1 : D(k) \in Nat
  <2>1. \A k \in 1 .. N + 1 : D(k) \in 0 .. L - 1
    BY <1>4, DistIs
  <2>2. D(1) = 0
    BY <1>6, DistIs
  <2> QED
    BY <2>1, <2>2
<1>8. D(2) = n /\ \A k \in 1 .. N : n <= D(k + 1)
  <2>1. 1 \in 1 .. N /\ 1 \in 1 .. N + 1 /\ 1 + 1 = 2
    BY <1>1
  <2>2. D(2) = D(1) + n
    BY <2>1, <1>6
  <2>3. ASSUME NEW k \in 1 .. N PROVE n <= D(k + 1)
    <3>1. k + 1 \in 1 .. N + 1 /\ 1 < k + 1
      BY <1>1
    <3>2. D(1) + n <= D(k + 1)
      BY <3>1, <2>1, <1>6
    <3> QED
      BY <3>2, <1>7, <1>2
  <2> QED
    BY <2>2, <2>3, <1>7, <1>2
<1>9. s \in 0 .. L - 1 /\ \A k \in 1 .. N : E(k) = D(k + 1) - n
  <2>1. n \in 0 .. L - 1
    BY <1>2
  <2>2. s \in 0 .. L - 1
    BY <2>1, DistIs
  <2>3. ASSUME NEW k \in 1 .. N PROVE E(k) = D(k + 1) - n
    <3>1. k + 1 \in 1 .. N + 1 /\ StartOf(w, p, k) = StartOf(w, q, k + 1)
      BY <1>1, <1>3
    <3>2. StartOf(w, q, k + 1) \in 0 .. L - 1 /\ n <= D(k + 1)
      BY <3>1, <1>4, <1>8
    <3>3. ASSUME NEW a \in 0 .. L - 1, n <= Dist(L, r, a) PROVE Dist(L, s, a) = Dist(L, r, a) - n
      <4> HIDE DEF n
      <4> QED
        BY <3>3, <2>1, DistIs DEF s
    <3> HIDE DEF s, n
    <3> QED
      BY <3>1, <3>2, <3>3, Zenon
  <2> QED
    BY <2>2, <2>3
<1>10. StartOf(w, p, 1) = s
  <2>1. 1 \in 1 .. N /\ 2 \in 1 .. N + 1 /\ 1 + 1 = 2
    BY <1>1
  <2>2. E(1) = 0
    BY <2>1, <1>2, <1>8, <1>9
  <2>3. StartOf(w, p, 1) \in 0 .. L - 1
    BY <2>1, <1>3, <1>4
  <2> HIDE DEF s
  <2> QED
    BY <2>2, <2>3, <1>9, DistIs
<1> HIDE DEF n, D, E
<1>11. ASSUME NEW k \in 1 .. N - 1 PROVE E(k + 1) = E(k) + Room(p[k])
  <2>1. k \in 1 .. N /\ k + 1 \in 1 .. N /\ k + 1 \in 1 .. N + 1 /\ (k + 1) + 1 \in 1 .. N + 1 /\ p[k] = q[k + 1]
    BY <1>1
  <2>2. E(k) = D(k + 1) - n /\ E(k + 1) = D((k + 1) + 1) - n
    BY <2>1, <1>9
  <2>3. D((k + 1) + 1) = D(k + 1) + Room(q[k + 1])
    BY <2>1, <1>6
  <2>4. D(k + 1) \in Nat /\ Room(q[k + 1]) \in Nat
    BY <2>1, <1>5, <1>7
  <2> QED
    BY <2>1, <2>2, <2>3, <2>4, <1>2
<1>12. ASSUME NEW j \in 1 .. N, NEW k \in 1 .. N, j < k
       PROVE  E(j) + Room(p[j]) <= E(k)
  <2>1. j + 1 \in 1 .. N + 1 /\ k + 1 \in 1 .. N + 1 /\ j + 1 < k + 1
        /\ j + 1 \in 1 .. N /\ p[j] = q[j + 1]
    BY <1>1, <1>12
  <2>2. D(j + 1) + Room(q[j + 1]) <= D(k + 1)
    BY <2>1, <1>6
  <2>3. E(j) = D(j + 1) - n /\ E(k) = D(k + 1) - n
    BY <1>9
  <2>4. D(j + 1) \in Nat /\ D(k + 1) \in Nat /\ Room(q[j + 1]) \in Nat
    BY <2>1, <1>5, <1>7
  <2> QED
    BY <2>1, <2>2, <2>3, <2>4, <1>2
<1>13. Len(p) + 1 = N
  BY <1>1
<1>14. LaidOut(L, s, w, p)
  BY <1>1, <1>10, <1>11, <1>12, <1>13 DEF LaidOut, E
<1> QED
  BY <1>9, <1>14 DEF s, n, p

(* How far the bytes of the frames lie from where the driver reads: short   *)
(* of where the card writes.                                                *)
LEMMA ByteAt ==
  ASSUME NEW L \in Nat \ {0}, RX_BUF_LEN <= L, NEW r \in 0 .. L - 1, NEW w \in 0 .. L - 1,
         NEW q \in Seq(Queued(L)), LaidOut(L, r, w, q),
         NEW k \in 1 .. Len(q), NEW i \in 0 .. q[k].size + 7
  PROVE  /\ Round(L, q[k].at + i) \in 0 .. L - 1
         /\ Dist(L, r, Round(L, q[k].at + i)) < Dist(L, r, w)
<1> DEFINE D(j) == Dist(L, r, StartOf(w, q, j))
           N == Len(q)
           f == q[k]
<1>1. N \in Nat /\ N + 1 \in 1 .. N + 1 /\ k \in 1 .. N + 1 /\ k < N + 1
  OBVIOUS
<1>2. f \in Queued(L)
  OBVIOUS
<1>3. f.size \in Nat /\ f.at \in 0 .. L - 1 /\ Room(f) \in 1 .. L - 1 /\ f.size + 8 <= Room(f)
  BY <1>2, RoomIs
<1>4. StartOf(w, q, k) = f.at /\ StartOf(w, q, N + 1) = w
  BY <1>1 DEF StartOf
<1>5. Dist(L, r, f.at) + Room(f) <= Dist(L, r, w)
  BY <1>1, <1>4 DEF LaidOut
<1>6. Dist(L, r, f.at) \in 0 .. L - 1 /\ Dist(L, r, w) \in 0 .. L - 1
  BY <1>3, DistIs
<1>7. i \in 0 .. f.size + 7
  OBVIOUS
<1> HIDE DEF f
<1>a. PICK a \in 0 .. L - 1, z \in Nat, n \in 1 .. L - 1 : a = f.at /\ z = f.size /\ n = Room(f)
  BY <1>3, Zenon
<1>b. PICK d \in 0 .. L - 1, e \in 0 .. L - 1 : d = Dist(L, r, a) /\ e = Dist(L, r, w)
  BY <1>6, <1>a, Zenon
<1>c. i \in 0 .. z + 7 /\ d + n <= e /\ z + 8 <= n
  BY <1>3, <1>5, <1>7, <1>a, <1>b, Zenon
<1>8. i \in 0 .. L /\ d + i < e /\ d + i < L
  BY <1>c, SMT
<1>9. /\ Round(L, a + i) \in 0 .. L - 1
      /\ Dist(L, r, Round(L, a + i)) = d + i
  BY <1>8, <1>b, DistIs
<1> QED
  BY <1>8, <1>9, <1>a, <1>b DEF f

\* The ring `made' is `ring' with the frame f written to it.
Written(L, f, ring, made) ==
  \A o \in 0 .. L - 1 :
    \/ \E i \in -4 .. f.size + 3 : (f.at + i + 4) % L = o /\ made[o] = <<f, i>>
    \/ (\A i \in -4 .. f.size + 3 : (f.at + i + 4) % L # o) /\ made[o] = ring[o]

(* The bytes of a new frame fall on none of the others'.                    *)
LEMMA InPlaceAppend ==
  ASSUME NEW L \in Nat \ {0}, RX_BUF_LEN <= L, NEW r \in 0 .. L - 1, NEW w \in 0 .. L - 1,
         NEW q \in Seq(Queued(L)), LaidOut(L, r, w, q),
         NEW f \in Queued(L), f.at = w, Dist(L, r, w) + Room(f) < L,
         NEW ring, NEW made, InPlace(L, ring, q), Written(L, f, ring, made)
  PROVE  InPlace(L, made, Append(q, f))
<1> DEFINE N == Len(q)
           p == Append(q, f)
<1>1. N \in Nat /\ Len(p) = N + 1 /\ p[N + 1] = f /\ \A k \in 1 .. N : p[k] = q[k]
  OBVIOUS
<1>2. f.size \in Nat /\ Room(f) \in 1 .. L - 1 /\ f.size + 8 <= Room(f)
  BY RoomIs
<1>3. PICK z \in Nat, n \in 1 .. L - 1 : z = f.size /\ n = Room(f)
  BY <1>2, Zenon
<1>4. PICK d \in 0 .. L - 1 : d = Dist(L, r, w)
  BY DistIs, Zenon
<1>5. d + n < L /\ z + 8 <= n
  BY <1>2, <1>3, <1>4, Zenon
<1>6. ASSUME NEW i \in -4 .. z + 3
      PROVE  /\ (w + i + 4) % L = Round(L, w + (i + 4))
             /\ Round(L, w + (i + 4)) \in 0 .. L - 1
             /\ Dist(L, r, Round(L, w + (i + 4))) = d + (i + 4)
  <2>1. i + 4 \in 0 .. L /\ w + (i + 4) \in 0 .. 2 * L - 1 /\ w + i + 4 = w + (i + 4) /\ d + (i + 4) < L
    BY <1>5
  <2>2. (w + (i + 4)) % L = Round(L, w + (i + 4))
    BY <2>1, RemainderRound
  <2> QED
    BY <2>1, <2>2, <1>4, DistIs
<1>7. ASSUME NEW o \in 0 .. L - 1, \A i \in -4 .. z + 3 : (w + i + 4) % L # o
      PROVE  made[o] = ring[o]
  BY <1>3, <1>7, Zenon DEF Written
<1>8. ASSUME NEW o \in 0 .. L - 1, NEW i \in -4 .. z + 3, (w + i + 4) % L = o
      PROVE  made[o] = <<f, i>>
  <2>1. PICK c \in -4 .. z + 3 : (w + c + 4) % L = o /\ made[o] = <<f, c>>
    BY <1>3, <1>8, Zenon DEF Written
  <2>3. Dist(L, r, o) = d + (c + 4) /\ Dist(L, r, o) = d + (i + 4)
    BY <2>1, <1>6, <1>8
  <2>4. c = i
    BY <2>1, <2>3
  <2> QED
    BY <2>1, <2>4
<1> HIDE DEF N, p
<1>9. ASSUME NEW k \in 1 .. N, NEW i \in 0 .. q[k].size + 7
      PROVE  made[Round(L, q[k].at + i)] = <<q[k], i - 4>>
  <2> DEFINE o == Round(L, q[k].at + i)
  <2>1. o \in 0 .. L - 1 /\ Dist(L, r, o) < d
    BY <1>4, <1>9, ByteAt DEF N
  <2>2. ring[o] = <<q[k], i - 4>>
    BY <1>9 DEF InPlace, N
  <2> HIDE DEF o
  <2>3. ASSUME NEW j \in -4 .. z + 3, (w + j + 4) % L = o PROVE FALSE
    <3>1. Dist(L, r, o) = d + (j + 4)
      BY <2>3, <1>6
    <3> QED
      BY <3>1, <2>1
  <2>4. made[o] = ring[o]
    BY <2>1, <2>3, <1>7
  <2> QED
    BY <2>2, <2>4 DEF o
<1>10. ASSUME NEW i \in 0 .. z + 7
       PROVE  made[Round(L, w + i)] = <<f, i - 4>>
  <2>1. PICK j \in -4 .. z + 3 : j = i - 4
    OBVIOUS
  <2>2. j + 4 = i
    BY <2>1
  <2>3. (w + j + 4) % L = Round(L, w + i) /\ Round(L, w + i) \in 0 .. L - 1
    BY <2>2, <1>6
  <2> QED
    BY <2>1, <2>3, <1>8
<1>11. ASSUME NEW k \in 1 .. N + 1, NEW i \in 0 .. p[k].size + 7
       PROVE  made[Round(L, p[k].at + i)] = <<p[k], i - 4>>
  <2>1. CASE k = N + 1
    <3>1. p[k] = f
      BY <2>1, <1>1
    <3>2. p[k].at = w /\ p[k].size = z
      BY <3>1, <1>3
    <3>3. i \in 0 .. z + 7
      BY <3>2, <1>11, Zenon
    <3> QED
      BY <3>1, <3>2, <3>3, <1>10
  <2>2. CASE k # N + 1
    <3>1. k \in 1 .. N /\ p[k] = q[k]
      BY <2>2, <1>1
    <3>2. i \in 0 .. q[k].size + 7
      BY <3>1, <1>11, Zenon
    <3> QED
      BY <3>1, <3>2, <1>9
  <2> QED
    BY <2>1, <2>2
<1> QED
  BY <1>1, <1>11 DEF InPlace, p

(* Passing the first frame leaves the bytes of the others.                  *)
LEMMA InPlaceTail ==
  ASSUME NEW L \in Nat \ {0}, RX_BUF_LEN <= L, NEW r \in 0 .. L - 1, NEW w \in 0 .. L - 1,
         NEW q \in Seq(Queued(L)), LaidOut(L, r, w, q), q # <<>>,
         NEW ring, NEW made, InPlace(L, ring, q),
         \A o \in 0 .. L - 1 : made[o] = IF ring[o][1] = q[1] THEN NoByte ELSE ring[o]
  PROVE  InPlace(L, made, Tail(q))
<1> DEFINE N == Len(q)
           p == Tail(q)
<1>1. N \in Nat \ {0} /\ Len(p) = N - 1 /\ \A k \in 1 .. N - 1 : p[k] = q[k + 1] /\ k + 1 \in 1 .. N
  OBVIOUS
<1>2. ASSUME NEW k \in 1 .. N, k # 1
      PROVE  q[k] # q[1]
  <2>1. 1 \in 1 .. N /\ 1 \in 1 .. N + 1 /\ k \in 1 .. N + 1 /\ 1 < k /\ 1 <= N /\ k <= N
    BY <1>1, <1>2
  <2>2. Dist(L, r, StartOf(w, q, 1)) + Room(q[1]) <= Dist(L, r, StartOf(w, q, k))
    BY <2>1 DEF LaidOut
  <2>3. StartOf(w, q, 1) = q[1].at /\ StartOf(w, q, k) = q[k].at
    BY <2>1 DEF StartOf
  <2>4. q[1] \in Queued(L)
    BY <2>1
  <2>5. Room(q[1]) \in 1 .. L - 1 /\ q[1].at \in 0 .. L - 1
    BY <2>4, RoomIs
  <2>6. Dist(L, r, q[1].at) \in 0 .. L - 1
    <3>1. \A a \in 0 .. L - 1 : Dist(L, r, a) \in 0 .. L - 1
      BY DistIs
    <3> QED
      BY <2>5, <3>1, Zenon
  <2>7. Dist(L, r, q[1].at) # Dist(L, r, q[k].at)
    BY <2>2, <2>3, <2>5, <2>6
  <2> QED
    BY <2>7
<1> HIDE DEF N, p
<1>3. ASSUME NEW k \in 1 .. N, k # 1, NEW i \in 0 .. q[k].size + 7
      PROVE  made[Round(L, q[k].at + i)] = <<q[k], i - 4>>
  <2> DEFINE o == Round(L, q[k].at + i)
  <2>1. o \in 0 .. L - 1
    BY <1>3, ByteAt DEF N
  <2>2. ring[o] = <<q[k], i - 4>>
    BY <1>3 DEF InPlace, N
  <2> HIDE DEF o
  <2>3. ring[o][1] # q[1]
    BY <2>2, <1>2, <1>3
  <2> QED
    BY <2>1, <2>2, <2>3 DEF o
<1>4. ASSUME NEW k \in 1 .. N - 1, NEW i \in 0 .. p[k].size + 7
      PROVE  made[Round(L, p[k].at + i)] = <<p[k], i - 4>>
  <2>1. p[k] = q[k + 1] /\ k + 1 \in 1 .. N /\ k + 1 # 1
    BY <1>1
  <2>2. i \in 0 .. q[k + 1].size + 7
    BY <2>1, <1>4, Zenon
  <2> QED
    BY <2>1, <2>2, <1>3
<1> QED
  BY <1>1, <1>4 DEF InPlace, p

(* What the invariant says about the place the driver reads.                *)
LEMMA RxFacts ==
  ASSUME RxInv
  PROVE  /\ rx_buf_len \in Nat \ {0} /\ RX_BUF_LEN <= rx_buf_len
         /\ rx_buf_len % 4 = 0
         /\ CardLength = rx_buf_len
         /\ ring_offset \in 0 .. rx_buf_len - 1
         /\ ring_offset % 4 = 0
         /\ CardReads = ring_offset
         /\ RxBufPtr \in 0 .. U16 - 1
<1>1. rx_config \in 0 .. 2 /\ rx_buf_len = RxLength(rx_config) /\ cur_rx \in 0 .. U16 - 1
      /\ cur_rx % 4 = 0 /\ RxBufPtr = (cur_rx - 16) % U16
  BY DEF RxInv
<1>2. rx_buf_len \in Nat \ {0} /\ RX_BUF_LEN <= rx_buf_len /\ rx_buf_len % 4 = 0
  BY <1>1, RingLength
<1>3. cur_rx \in Nat
  BY <1>1, RxAssumption
<1>4. ring_offset \in 0 .. rx_buf_len - 1 /\ ring_offset % 4 = 0
  BY <1>1, <1>2, <1>3, DivMod, RemainderOfWord DEF ring_offset
<1>5. RxBufPtr \in 0 .. U16 - 1 /\ CardReads = ring_offset
  BY <1>1, CardReadsThere DEF CardReads, CardLength, ring_offset
<1> QED
  BY <1>1, <1>2, <1>4, <1>5 DEF CardLength

(* The oldest frame starts where the driver reads, and every byte of it is  *)
(* there.                                                                   *)
LEMMA OldestFrame ==
  ASSUME RxInv, arrived # <<>>
  PROVE  /\ arrived[1] \in Queued(rx_buf_len)
         /\ arrived[1].at = ring_offset
         /\ \A i \in 0 .. arrived[1].size + 7 :
              rx_ring[Round(rx_buf_len, ring_offset + i)] = <<arrived[1], i - 4>>
         /\ Header = arrived[1] /\ Head(arrived) = arrived[1]
<1>1. arrived \in Seq(Queued(rx_buf_len)) /\ LaidOut(rx_buf_len, ring_offset, RxBufAddr, arrived)
      /\ InPlace(rx_buf_len, rx_ring, arrived)
  BY DEF RxInv
<1>2. 1 \in 1 .. Len(arrived) /\ arrived[1] \in Queued(rx_buf_len) /\ Head(arrived) = arrived[1]
  BY <1>1
<1>3. arrived[1].at = ring_offset
  BY <1>1, <1>2 DEF LaidOut, StartOf
<1>4. \A i \in 0 .. arrived[1].size + 7 :
        rx_ring[Round(rx_buf_len, ring_offset + i)] = <<arrived[1], i - 4>>
  BY <1>1, <1>2, <1>3, Zenon DEF InPlace
<1>5. 0 \in 0 .. arrived[1].size + 7
  BY <1>2 DEF Queued
<1>6. Round(rx_buf_len, ring_offset + 0) = ring_offset
  BY RxFacts, SMT DEF Round
<1>7. rx_ring[ring_offset] = <<arrived[1], 0 - 4>>
  BY <1>4, <1>5, <1>6, Zenon
<1>8. Header = arrived[1]
  BY <1>7 DEF Header
<1> QED
  BY <1>2, <1>3, <1>4, <1>8

(* Card and driver agree on the state of the ring in every state the        *)
(* invariant allows.                                                        *)
LEMMA InStep ==
  ASSUME RxInv
  PROVE  RingInStep
<1>1. CardReads = ring_offset /\ ring_offset \in 0 .. rx_buf_len - 1 /\ rx_buf_len \in Nat \ {0}
      /\ ring_offset % 4 = 0 /\ rx_buf_len % 4 = 0 /\ RX_BUF_LEN <= rx_buf_len
  BY RxFacts
<1>2. arrived \in Seq(Queued(rx_buf_len)) /\ LaidOut(rx_buf_len, ring_offset, RxBufAddr, arrived)
      /\ RxBufAddr \in 0 .. rx_buf_len - 1
  BY DEF RxInv
<1>3. CASE arrived = <<>>
  <2>1. StartOf(RxBufAddr, arrived, 1) = RxBufAddr
    BY <1>3 DEF StartOf
  <2>2. RxBufAddr = ring_offset
    BY <2>1, <1>2 DEF LaidOut
  <2> QED
    BY <1>1, <1>3, <2>2 DEF RingInStep, RxBufEmpty
<1>4. CASE arrived # <<>>
  <2>1. /\ arrived[1].size \in Nat
        /\ \A i \in 0 .. arrived[1].size + 7 :
             rx_ring[Round(rx_buf_len, ring_offset + i)] = <<arrived[1], i - 4>>
        /\ Head(arrived) = arrived[1]
    BY <1>4, OldestFrame DEF Queued
  <2>2. ASSUME NEW i \in 0 .. 3 PROVE rx_ring[ring_offset + i] = <<Head(arrived), i - 4>>
    <3>1. i \in 0 .. arrived[1].size + 7
      BY <2>1
    <3>2. Round(rx_buf_len, ring_offset + i) = ring_offset + i
      BY <1>1, SMT DEF Round
    <3> QED
      BY <2>1, <3>1, <3>2
  <2>3. RxBufAddr # ring_offset
    <3>1. 1 \in 1 .. Len(arrived) /\ 0 \in 0 .. arrived[1].size + 7
      BY <1>2, <1>4, <2>1
    <3>2. Dist(rx_buf_len, ring_offset, Round(rx_buf_len, arrived[1].at + 0))
            < Dist(rx_buf_len, ring_offset, RxBufAddr)
          /\ Round(rx_buf_len, arrived[1].at + 0) \in 0 .. rx_buf_len - 1
      BY <1>1, <1>2, <3>1, ByteAt
    <3>3. PICK o \in 0 .. rx_buf_len - 1 : o = Round(rx_buf_len, arrived[1].at + 0)
      BY <3>2
    <3>4. Dist(rx_buf_len, ring_offset, o) \in 0 .. rx_buf_len - 1
      BY <1>1, DistIs
    <3>5. Dist(rx_buf_len, ring_offset, RxBufAddr) # 0
      BY <1>1, <3>2, <3>3, <3>4
    <3>6. \A r \in 0 .. rx_buf_len - 1 : Dist(rx_buf_len, r, r) = 0
      BY <1>1, SMT DEF Dist
    <3> QED
      BY <1>1, <3>5, <3>6, Zenon
  <2> QED
    BY <1>1, <1>4, <2>2, <2>3 DEF RingInStep, RxBufEmpty
<1> QED
  BY <1>3, <1>4

(* The copy in one or two parts is the whole of the oldest frame.           *)
LEMMA CopyIsWhole ==
  ASSUME RxInv
  PROVE  OldestFrameWhole
<1> SUFFICES ASSUME arrived # <<>>
             PROVE  Copy = [i \in 1 .. Head(arrived).size |-> <<Head(arrived), i - 1>>]
  BY DEF OldestFrameWhole
<1> DEFINE f == arrived[1]
<1>1. /\ f \in Queued(rx_buf_len) /\ Header = f /\ Head(arrived) = f
      /\ \A i \in 0 .. f.size + 7 : rx_ring[Round(rx_buf_len, ring_offset + i)] = <<f, i - 4>>
  BY OldestFrame
<1> HIDE DEF f
<1>a. PICK L \in Nat \ {0} : L = rx_buf_len
  BY RxFacts
<1>2. PICK r \in 0 .. L - 1 :
        L = rx_buf_len /\ r = ring_offset /\ L % 4 = 0 /\ r % 4 = 0 /\ RX_BUF_LEN <= L
  BY <1>a, RxFacts, Zenon
<1>3. PICK z \in Nat : z = f.size /\ z + 12 <= RX_BUF_LEN
  BY <1>1 DEF Queued
<1>4. r + 4 <= L /\ z + 12 <= L
  BY <1>2, <1>3, RxAssumption, SMT
<1>5. \A i \in 0 .. z + 7 : rx_ring[Round(L, r + i)] = <<f, i - 4>>
  BY <1>1, <1>2, <1>3, Zenon
<1>6. ASSUME NEW i \in 4 .. z + 3, NEW o \in Nat, o = r + i \/ o = r + i - L, o < L
      PROVE  rx_ring[o] = <<f, i - 4>>
  <2>1. Round(L, r + i) = o /\ i \in 0 .. z + 7
    BY <1>4, <1>6, SMT DEF Round
  <2> QED
    BY <2>1, <1>5
<1>7. rx_size = z + 4
  BY <1>1, <1>3 DEF rx_size
<1> DEFINE s == L - r - 4
           whole == [i \in 1 .. z |-> <<f, i - 1>>]
<1>8. Copy = IF r + (z + 4) > L
             THEN memcpy(r + 4, s) \o memcpy(0, z - s) ELSE memcpy(r + 4, z)
  <2>1. rx_size - 4 = z
    BY <1>7
  <2> QED
    BY <1>2, <1>7, <2>1, Zenon DEF Copy
<1>9. CASE ~(r + (z + 4) > L)
  <2>1. ASSUME NEW i \in 1 .. z PROVE rx_ring[(r + 4) + i - 1] = <<f, i - 1>>
    <3>1. PICK j \in 4 .. z + 3 : j = i + 3
      OBVIOUS
    <3>2. (r + 4) + i - 1 \in Nat /\ (r + 4) + i - 1 = r + j /\ (r + 4) + i - 1 < L /\ j - 4 = i - 1
      BY <3>1, <1>9
    <3> QED
      BY <3>2, <1>6
  <2>2. memcpy(r + 4, z) = whole
    BY <2>1 DEF memcpy
  <2> QED
    BY <1>1, <1>3, <1>8, <1>9, <2>2, Zenon
<1>10. CASE r + (z + 4) > L
  <2> DEFINE a == memcpy(r + 4, s)
             b == memcpy(0, z - s)
  <2>1. s \in Nat /\ z - s \in Nat /\ s + (z - s) = z
    BY <1>4, <1>10
  <2>2. /\ a = [i \in 1 .. s |-> rx_ring[(r + 4) + i - 1]]
        /\ b = [i \in 1 .. z - s |-> rx_ring[0 + i - 1]]
    BY DEF memcpy
  <2>3. ASSUME NEW i \in 1 .. s PROVE rx_ring[(r + 4) + i - 1] = <<f, i - 1>>
    <3>1. PICK j \in 4 .. z + 3 : j = i + 3
      BY <1>10
    <3>2. (r + 4) + i - 1 \in Nat /\ (r + 4) + i - 1 = r + j /\ (r + 4) + i - 1 < L /\ j - 4 = i - 1
      BY <3>1, <1>10
    <3> QED
      BY <3>2, <1>6
  <2>4. ASSUME NEW i \in 1 .. z - s PROVE rx_ring[0 + i - 1] = <<f, i + s - 1>>
    <3>1. PICK j \in 4 .. z + 3 : j = i + s + 3
      BY <1>10, <2>1
    <3>2. 0 + i - 1 \in Nat /\ 0 + i - 1 = r + j - L /\ 0 + i - 1 < L /\ j - 4 = i + s - 1
      BY <3>1, <1>4, <1>10
    <3> QED
      BY <3>2, <1>6
  <2>5. /\ a = [i \in 1 .. s |-> <<f, i - 1>>]
        /\ b = [i \in 1 .. z - s |-> <<f, i + s - 1>>]
    BY <2>2, <2>3, <2>4
  <2> HIDE DEF a, b, s
  <2>a. PICK S : S = {f} \X Int
    OBVIOUS
  <2>6. a \in Seq(S) /\ Len(a) = s /\ b \in Seq(S) /\ Len(b) = z - s
    BY <2>1, <2>5, <2>a
  <2>7. a \o b \in Seq(S) /\ Len(a \o b) = z
    <3>1. a \o b \in Seq(S) /\ Len(a \o b) = Len(a) + Len(b)
      BY <2>6
    <3> QED
      BY <3>1, <2>1, <2>6
  <2>8. a \o b = whole
    <3>1. ASSUME NEW i \in 1 .. z PROVE (a \o b)[i] = <<f, i - 1>>
      <4>1. (a \o b)[i] = IF i <= s THEN a[i] ELSE b[i - s]
        BY <2>1, <2>6
      <4>2. i <= s => i \in 1 .. s
        BY <2>1
      <4>3. ~(i <= s) => i - s \in 1 .. z - s /\ (i - s) + s - 1 = i - 1
        BY <2>1
      <4> QED
        BY <4>1, <4>2, <4>3, <2>5
    <3>2. a \o b = [i \in 1 .. z |-> (a \o b)[i]]
      <4> DEFINE c == a \o b
      <4>1. c \in Seq(S) /\ Len(c) = z
        BY <2>7
      <4> HIDE DEF c
      <4>2. c = [i \in 1 .. z |-> c[i]]
        BY <4>1
      <4> QED
        BY <4>2 DEF c
    <3> QED
      BY <3>1, <3>2
  <2> QED
    BY <1>1, <1>3, <1>8, <1>10, <2>8, Zenon DEF a, b
<1> QED
  BY <1>9, <1>10

(* A frame that fits leaves the ring short of full.                         *)
LEMMA FitsIs ==
  ASSUME RxInv, NEW f \in Frame, Fits(f.size)
  PROVE  Dist(rx_buf_len, ring_offset, RxBufAddr) + Aligned(f.size + 8) < rx_buf_len
<1>a. PICK L \in Nat \ {0} : L = rx_buf_len /\ RX_BUF_LEN <= L
  BY RxFacts, Zenon
<1>1. PICK r \in 0 .. L - 1, w \in 0 .. L - 1 : r = ring_offset /\ w = RxBufAddr
  BY <1>a, RxFacts, Zenon DEF RxInv
<1>2. PICK d \in 0 .. L - 1 : d = Dist(L, r, w)
  BY DistIs, Zenon
<1>3. PICK z \in Nat : z = f.size /\ z + 12 <= RX_BUF_LEN
  BY RxAssumption, Zenon
<1>4. z + 8 \in Nat
  OBVIOUS
<1>5. PICK a \in Nat : a = Aligned(z + 8) /\ a <= z + 8 + 3
  BY <1>4, AlignedIs, Zenon
<1>6. a < L
  BY <1>a, <1>3, <1>5, RxAssumption, SMT
<1> DEFINE x == L + r - w
<1>7. x % L = 0 \/ a < x % L
  BY <1>a, <1>1, <1>3, <1>5, RxFacts, Zenon DEF Fits
<1>8. x \in 0 .. 2 * L - 1 /\ (d = 0 => x = L) /\ (d # 0 => x = L - d \/ x = L + L - d)
  BY <1>2, SMT DEF Dist
<1> HIDE DEF x
<1>9. x % L = Round(L, x)
  BY <1>8, RemainderRound
<1>10. d # 0 => x % L = L - d
  BY <1>8, <1>9, SMT DEF Round
<1>11. d + a < L
  <2>1. CASE d = 0
    BY <2>1, <1>6
  <2>2. CASE d # 0
    <3>1. PICK e \in Int : e = x % L /\ e = L - d
      BY <2>2, <1>10
    <3> QED
      BY <3>1, <2>2, <1>7
  <2> QED
    BY <2>1, <2>2
<1> QED
  BY <1>a, <1>1, <1>2, <1>3, <1>5, <1>11

(* The card writes a frame it has room for.                                 *)
LEMMA ReceiveStep ==
  ASSUME RxInv, NEW f \in Frame, CardReceives(f)
  PROVE  RxInv'
<1> DEFINE frame == [at |-> RxBufAddr, size |-> f.size, multicast |-> f.multicast]
<1>1. /\ Fits(f.size)
      /\ rx_ring' = [o \in DOMAIN rx_ring |->
                      IF \E i \in -4 .. f.size + 3 : (RxBufAddr + i + 4) % CardLength = o
                      THEN <<frame, CHOOSE i \in -4 .. f.size + 3 : (RxBufAddr + i + 4) % CardLength = o>>
                      ELSE rx_ring[o]]
      /\ RxBufAddr' = (RxBufAddr + Aligned(f.size + 8)) % CardLength
      /\ arrived' = Append(arrived, frame)
      /\ UNCHANGED <<rx_buf_len, rx_config, cur_rx, RxBufPtr>>
  BY Zenon DEF CardReceives
<1>a. PICK L \in Nat \ {0} : L = rx_buf_len /\ RX_BUF_LEN <= L /\ L = CardLength
  BY RxFacts, Zenon
<1>2. PICK r \in 0 .. L - 1, w \in 0 .. L - 1 : r = ring_offset /\ w = RxBufAddr
  BY <1>a, RxFacts, Zenon DEF RxInv
<1>3. f.size \in Nat /\ f.size + 12 <= RX_BUF_LEN
  BY RxAssumption
<1>4. frame \in Queued(L)
  <2>1. f.multicast \in {g.multicast : g \in Frame}
    OBVIOUS
  <2> QED
    BY <1>2, <1>3, <2>1 DEF Queued
<1>5. frame.at = w /\ frame.size = f.size /\ Room(frame) = Aligned(f.size + 8)
  BY <1>2 DEF Room
<1> HIDE DEF frame
<1>6. Dist(L, r, w) + Room(frame) < L
  BY <1>1, <1>a, <1>2, <1>5, FitsIs
<1>7. arrived \in Seq(Queued(L)) /\ LaidOut(L, r, w, arrived) /\ InPlace(L, rx_ring, arrived)
      /\ DOMAIN rx_ring = 0 .. L - 1
      /\ \A o \in 0 .. L - 1 : rx_ring[o] = NoByte \/ rx_ring[o][1].at \in 0 .. L - 1
  BY <1>a, <1>2, Zenon DEF RxInv
<1>8. RxBufAddr' = Round(L, w + Room(frame)) /\ Round(L, w + Room(frame)) \in 0 .. L - 1
  <2>1. PICK n \in 1 .. L - 1 : n = Room(frame)
    BY <1>a, <1>4, RoomIs
  <2>2. w + n \in 0 .. 2 * L - 1
    OBVIOUS
  <2>3. (w + n) % L = Round(L, w + n) /\ Round(L, w + n) \in 0 .. L - 1
    BY <2>2, RemainderRound
  <2> QED
    BY <2>1, <2>3, <1>1, <1>a, <1>2, <1>5
<1>9. LaidOut(L, r, RxBufAddr', arrived')
  BY <1>1, <1>a, <1>4, <1>5, <1>6, <1>7, <1>8, LaidOutAppend
<1>10. ASSUME NEW o \in 0 .. L - 1
       PROVE  rx_ring'[o] = IF \E i \in -4 .. frame.size + 3 : (w + i + 4) % L = o
                            THEN <<frame, CHOOSE i \in -4 .. frame.size + 3 : (w + i + 4) % L = o>>
                            ELSE rx_ring[o]
  BY <1>1, <1>a, <1>2, <1>5, <1>7, Zenon
<1>11. InPlace(L, rx_ring', arrived')
  <2>1. PICK made : made = rx_ring'
    OBVIOUS
  <2>2. Written(L, frame, rx_ring, made)
    BY <2>1, <1>5, <1>10, Zenon DEF Written
  <2>3. InPlace(L, made, Append(arrived, frame))
    <3>1. frame.at = w /\ arrived \in Seq(Queued(L)) /\ LaidOut(L, r, w, arrived)
          /\ InPlace(L, rx_ring, arrived)
      BY <1>5, <1>7
    <3> QED
      BY <1>a, <1>4, <1>6, <2>2, <3>1, InPlaceAppend
  <2> QED
    BY <2>1, <2>3, <1>1, Zenon
<1>12. ASSUME NEW o \in 0 .. L - 1
       PROVE  rx_ring'[o] = NoByte \/ rx_ring'[o][1].at \in 0 .. L - 1
  <2>1. CASE \E i \in -4 .. frame.size + 3 : (w + i + 4) % L = o
    <3>1. PICK i : rx_ring'[o] = <<frame, i>>
      BY <2>1, <1>10, Zenon
    <3>2. rx_ring'[o][1].at = w
      BY <3>1, <1>5
    <3> QED
      BY <3>2, <1>2
  <2>2. CASE ~ \E i \in -4 .. frame.size + 3 : (w + i + 4) % L = o
    BY <2>2, <1>7, <1>10, Zenon
  <2> QED
    BY <2>1, <2>2
<1>13. arrived' \in Seq(Queued(L))
  BY <1>1, <1>4, <1>7
<1>14. rx_buf_len' = L /\ ring_offset' = r /\ DOMAIN rx_ring' = 0 .. L - 1
  BY <1>1, <1>a, <1>2, <1>7 DEF ring_offset
<1>15. /\ rx_config' \in 0 .. 2 /\ rx_buf_len' = RxLength(rx_config)'
       /\ cur_rx' \in 0 .. U16 - 1 /\ cur_rx' % 4 = 0
       /\ RxBufPtr' = (cur_rx' - 16) % U16
  BY <1>1, Zenon DEF RxInv, RxLength
<1> QED
  BY <1>8, <1>9, <1>11, <1>12, <1>13, <1>14, <1>15, Zenon DEF RxInv

(* The driver passes the oldest frame.                                      *)
LEMMA AdvanceStep ==
  ASSUME RxInv, ~RxBufEmpty, rtl8139_rx_advance
  PROVE  RxInv'
<1>1. arrived # <<>>
  BY InStep DEF RingInStep
<1> DEFINE f == arrived[1]
<1>2. f \in Queued(rx_buf_len) /\ Header = f
  BY <1>1, OldestFrame
<1>3. /\ cur_rx' = NextFrame
      /\ RxBufPtr' = (NextFrame - 16) % U16
      /\ rx_ring' = [o \in DOMAIN rx_ring |-> IF rx_ring[o][1] = f THEN NoByte ELSE rx_ring[o]]
      /\ arrived' = Tail(arrived)
      /\ UNCHANGED <<rx_buf_len, rx_config, RxBufAddr>>
  BY <1>2, Zenon DEF rtl8139_rx_advance
<1> HIDE DEF f
<1>a. PICK L \in Nat \ {0} : L = rx_buf_len /\ RX_BUF_LEN <= L /\ L = CardLength
  BY RxFacts, Zenon
<1>b. rx_config \in 0 .. 2 /\ L = RxLength(rx_config)
  BY <1>a DEF RxInv
<1>4. PICK r \in 0 .. L - 1, w \in 0 .. L - 1 : r = ring_offset /\ w = RxBufAddr
  BY <1>a, RxFacts, Zenon DEF RxInv
<1>5. arrived \in Seq(Queued(L)) /\ LaidOut(L, r, w, arrived) /\ InPlace(L, rx_ring, arrived)
      /\ DOMAIN rx_ring = 0 .. L - 1
      /\ \A o \in 0 .. L - 1 : rx_ring[o] = NoByte \/ rx_ring[o][1].at \in 0 .. L - 1
  BY <1>a, <1>4, Zenon DEF RxInv
<1>6. f.size \in Nat /\ Room(f) \in 1 .. L - 1 /\ Room(f) = Aligned(f.size + 8)
  BY <1>a, <1>2, RoomIs DEF Room
<1>7. PICK n \in Nat : n = f.size + 8 /\ Aligned(n) = Room(f) /\ Aligned(n) <= L
  BY <1>6
<1>8. cur_rx \in 0 .. U16 - 1 /\ cur_rx % 4 = 0
  BY DEF RxInv
<1>9. NextFrame = Aligned(cur_rx + n) % U16
  <2>1. cur_rx + rx_size + 4 = cur_rx + n
    BY <1>2, <1>6, <1>7, <1>8, RxAssumption, SMT DEF rx_size
  <2> QED
    BY <2>1 DEF NextFrame
<1>10. /\ NextFrame \in 0 .. U16 - 1 /\ NextFrame % 4 = 0
       /\ NextFrame % L = Round(L, (cur_rx % L) + Room(f))
  BY <1>b, <1>7, <1>8, <1>9, NextPlace
<1>11. ring_offset' = Round(L, r + Room(f))
  BY <1>3, <1>a, <1>4, <1>10 DEF ring_offset
<1>12. ring_offset' \in 0 .. L - 1 /\ LaidOut(L, ring_offset', w, arrived')
  BY <1>1, <1>3, <1>a, <1>5, <1>11, LaidOutTail DEF f
<1>13. InPlace(L, rx_ring', arrived')
  <2>1. PICK made : made = rx_ring'
    OBVIOUS
  <2>2. \A o \in 0 .. L - 1 : made[o] = IF rx_ring[o][1] = arrived[1] THEN NoByte ELSE rx_ring[o]
    BY <2>1, <1>3, <1>5, Zenon DEF f
  <2>3. InPlace(L, made, Tail(arrived))
    BY <1>1, <1>a, <1>5, <2>2, InPlaceTail, Zenon
  <2> QED
    BY <2>1, <2>3, <1>3, Zenon
<1>14. \A o \in 0 .. L - 1 : rx_ring'[o] = NoByte \/ rx_ring'[o][1].at \in 0 .. L - 1
  BY <1>3, <1>5, Zenon
<1>15. arrived' \in Seq(Queued(L))
  BY <1>1, <1>3, <1>5
<1>16. rx_buf_len' = L /\ RxBufAddr' = w /\ DOMAIN rx_ring' = 0 .. L - 1
  BY <1>3, <1>a, <1>4, <1>5
<1>17. /\ rx_config' \in 0 .. 2 /\ rx_buf_len' = RxLength(rx_config)'
       /\ cur_rx' \in 0 .. U16 - 1 /\ cur_rx' % 4 = 0
       /\ RxBufPtr' = (cur_rx' - 16) % U16
  BY <1>3, <1>b, <1>10, Zenon DEF RxInv, RxLength
<1> QED
  BY <1>12, <1>13, <1>14, <1>15, <1>16, <1>17, Zenon DEF RxInv

=============================================================================
