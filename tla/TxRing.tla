------------------------------- MODULE TxRing -------------------------------
(***************************************************************************)
(* The transmit side of the RTL8139 driver, src/src/drivers/net/rtl8139.c:  *)
(* a ring of descriptors between the driver, which fills one per frame, the *)
(* card, which sends them in turn, and rtl8139_tx_clear, which takes back   *)
(* the ones that are sent.  The card works while the CPU runs: its steps    *)
(* fall between any two of the driver's.  Network buffers come from         *)
(* netbuf_alloc of src/src/sys/net/netdev.c.                                *)
(***************************************************************************)
EXTENDS Integers, Sequences

CONSTANTS NUM_TX_DESC,
          Wrap,        \* cur_tx and dirty_tx count modulo this: 2^32 in C
          Buf          \* the network buffers the heap has room for

ASSUME TxAssumption == /\ NUM_TX_DESC \in Nat \ {0}
                       /\ Wrap \in Nat
                       /\ Wrap > NUM_TX_DESC
                       /\ Wrap % NUM_TX_DESC = 0
                       /\ Buf \subseteq Nat \ {0}

NULL == 0

VARIABLES cur_tx, dirty_tx,
          tx_bufs,     \* per descriptor: the buffer to free when it is sent
          tx_buffer,   \* per descriptor: the buffer whose frame its bounce buffer holds
          tx_status,   \* per descriptor: the card's TxStatus register
          dev_tx,      \* the descriptor the card sends next
          allocated,   \* the network buffers in use
          outgoing     \* the frames taken for sending and not sent, oldest first

tx_vars == <<cur_tx, dirty_tx, tx_bufs, tx_buffer, tx_status, dev_tx, allocated, outgoing>>

Desc == 0 .. NUM_TX_DESC - 1

TxTypeOK ==
  /\ cur_tx \in 0 .. Wrap - 1 /\ dirty_tx \in 0 .. Wrap - 1
  /\ tx_bufs \in [Desc -> Buf \cup {NULL}]
  /\ tx_buffer \in [Desc -> Buf \cup {NULL}]
  /\ tx_status \in [Desc -> {"host", "started", "sent"}]
  /\ dev_tx \in Desc
  /\ allocated \subseteq Buf
  /\ outgoing \in Seq(Buf)

\* rtl8139_init_ring, on a card that was just reset.
rtl8139_init_ring ==
  /\ cur_tx = 0 /\ dirty_tx = 0
  /\ tx_bufs = [e \in Desc |-> NULL]
  /\ tx_buffer = [e \in Desc |-> NULL]
  /\ tx_status = [e \in Desc |-> "host"]
  /\ dev_tx = 0
  /\ allocated = {}
  /\ outgoing = <<>>

\* The arithmetic of uint32_t counters.
Plus1(x) == IF x = Wrap - 1 THEN 0 ELSE x + 1
Minus(x, y) == IF x >= y THEN x - y ELSE x - y + Wrap
Pending == Minus(cur_tx, dirty_tx)
-----------------------------------------------------------------------------
\* Mutant: the first buffer, free or not.
netbuf_alloc_first(held, b) == b \in Buf /\ \A c \in Buf : b <= c

\* The heap's first free buffer.
netbuf_alloc(held, b) == b \in Buf \ held /\ \A c \in Buf \ held : b <= c
netbuf_free(held, b) == held \ {b}

(* ethernet_tx allocates the frame's buffer b, so that `held' is in use,    *)
(* and hands it to the driver.  A full ring refuses the frame, and nobody   *)
(* frees its buffer.                                                        *)
rtl8139_transmit(b, held) ==
  IF Pending >= NUM_TX_DESC
  THEN /\ allocated' = held
       /\ UNCHANGED <<cur_tx, dirty_tx, tx_bufs, tx_buffer, tx_status, dev_tx, outgoing>>
  ELSE LET entry == cur_tx % NUM_TX_DESC IN
       /\ tx_bufs' = [tx_bufs EXCEPT ![entry] = b]
       /\ tx_buffer' = [tx_buffer EXCEPT ![entry] = b]
       /\ tx_status' = [tx_status EXCEPT ![entry] = "started"]
       /\ cur_tx' = Plus1(cur_tx)
       /\ outgoing' = Append(outgoing, b)
       /\ allocated' = held
       /\ UNCHANGED <<dirty_tx, dev_tx>>

(* The card sends the descriptors in turn, each once it is started.  "sent" *)
(* is any of TxStatOK, TxUnderrun and TxAborted, which tx_clear only counts *)
(* differently.                                                             *)
CardSends ==
  /\ tx_status[dev_tx] = "started"
  /\ tx_status' = [tx_status EXCEPT ![dev_tx] = "sent"]
  /\ dev_tx' = (dev_tx + 1) % NUM_TX_DESC
  /\ outgoing' = Tail(outgoing)
  /\ UNCHANGED <<cur_tx, dirty_tx, tx_bufs, tx_buffer, allocated>>

\* The loop of rtl8139_tx_clear goes on.
ClearGoesOn == Pending > 0 /\ tx_status[dirty_tx % NUM_TX_DESC] = "sent"

\* Mutant: a descriptor that is started counts as sent.
rtl8139_tx_clear_early ==
  LET entry == dirty_tx % NUM_TX_DESC IN
  /\ Pending > 0
  /\ allocated' = IF tx_bufs[entry] = NULL THEN allocated
                  ELSE netbuf_free(allocated, tx_bufs[entry])
  /\ tx_bufs' = [tx_bufs EXCEPT ![entry] = NULL]
  /\ dirty_tx' = Plus1(dirty_tx)
  /\ tx_buffer' = [tx_buffer EXCEPT ![entry] = NULL]
  /\ UNCHANGED <<cur_tx, tx_status, dev_tx, outgoing>>

(* One turn of the loop.  The C code writes rtl->dirty_tx after the last    *)
(* turn; nothing reads it in between.  What a bounce buffer held is         *)
(* forgotten here: nothing reads it any more.                               *)
rtl8139_tx_clear ==
  LET entry == dirty_tx % NUM_TX_DESC IN
  /\ ClearGoesOn
  /\ allocated' = IF tx_bufs[entry] = NULL THEN allocated
                  ELSE netbuf_free(allocated, tx_bufs[entry])
  /\ tx_bufs' = [tx_bufs EXCEPT ![entry] = NULL]
  /\ dirty_tx' = Plus1(dirty_tx)
  /\ tx_buffer' = [tx_buffer EXCEPT ![entry] = NULL]
  /\ UNCHANGED <<cur_tx, tx_status, dev_tx, outgoing>>

\* Buffers come and go elsewhere in the stack, never the ones in the ring.
KeepsRing(held) == \A e \in Desc : tx_bufs[e] # NULL => tx_bufs[e] \in held

OtherBuffers ==
  /\ \E held \in SUBSET Buf : KeepsRing(held) /\ allocated' = held
  /\ UNCHANGED <<cur_tx, dirty_tx, tx_bufs, tx_buffer, tx_status, dev_tx, outgoing>>

TxNext ==
  \/ \E b \in Buf, held \in SUBSET Buf :
       /\ b \in held \ allocated /\ KeepsRing(held)
       /\ rtl8139_transmit(b, held)
  \/ CardSends
  \/ rtl8139_tx_clear
  \/ OtherBuffers

TxSpec == rtl8139_init_ring /\ [][TxNext]_tx_vars
-----------------------------------------------------------------------------
\* How far descriptor e lies past the oldest one in use.
Ahead(e) == LET d == dirty_tx % NUM_TX_DESC IN
            IF e >= d THEN e - d ELSE e - d + NUM_TX_DESC

(* The descriptors between dirty_tx and cur_tx, never more than there are,  *)
(* are the ones that hold a buffer to free, each a buffer of its own that   *)
(* is still in use: none is freed twice and none is forgotten, also after   *)
(* the counters wrap.                                                       *)
RingHoldsPending ==
  /\ Pending <= NUM_TX_DESC
  /\ \A e \in Desc : (tx_bufs[e] # NULL) <=> (Ahead(e) < Pending)
  /\ \A e \in Desc : tx_bufs[e] # NULL => tx_bufs[e] \in allocated
  /\ \A e, f \in Desc : tx_bufs[e] = tx_bufs[f] /\ tx_bufs[e] # NULL => e = f

(* What the card is about to send is the oldest frame that rtl8139_transmit *)
(* took and the card did not send: frames leave in the order the stack sent *)
(* them, none twice and none left out.                                      *)
WireInOrder ==
  IF outgoing = <<>> THEN tx_status[dev_tx] # "started"
  ELSE tx_status[dev_tx] = "started" /\ tx_buffer[dev_tx] = Head(outgoing)

(* The frame in a bounce buffer stays there while the card may read it,     *)
(* from the start of its descriptor until the card reports it sent.         *)
BounceBufferStable ==
  [][\A e \in Desc : tx_status[e] = "started" =>
       tx_buffer'[e] = tx_buffer[e] /\ tx_bufs'[e] = tx_bufs[e]]_tx_vars
=============================================================================
