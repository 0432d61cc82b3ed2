--------------------------------- MODULE Nic ---------------------------------
(***************************************************************************)
(* The network card at work: the interrupt handler of                       *)
(* src/src/drivers/net/rtl8139.c over its two rings.  The handler runs with *)
(* interrupts off, but the card goes on receiving and sending between any   *)
(* two of the handler's accesses to it: one step per access that matters.   *)
(* When the handler does not run, user programs send frames.                *)
(***************************************************************************)
EXTENDS TxRing, RxRing, Boot

CONSTANTS max_interrupt_work,
          Machines     \* the machines that may boot

ASSUME NicAssumption == max_interrupt_work \in Nat /\ Machines \subseteq Machine

VARIABLES kernel,      \* what maink left: the tables of Boot
          IntrStatus,  \* the card's interrupt status register
          pc,          \* what the handler does next
          status,      \* its copy of IntrStatus
          max_work,
          squeezed     \* a frame found no buffer and nothing was received since

nic_vars == <<kernel, IntrStatus, pc, status, max_work, squeezed>>
vars == <<tx_vars, rx_vars, nic_vars>>

(* Rx is RxOK, the only receive interrupt of a card that drops bad frames;  *)
(* Tx is TxOK or TxErr, which the handler does not tell apart.  The handler *)
(* only prints the others, so a full ring is just a frame that is lost.     *)
Interrupts == {"Rx", "Tx"}
Up == Served(kernel).state = "up"

Init ==
  /\ \E machine \in Machines : kernel = maink(machine)
  /\ rtl8139_init_ring
  /\ rx_config = IF Up THEN Served(kernel).rx_buf_len_idx ELSE 0
  /\ rx_buf_len = RxLength(rx_config)
  /\ rx_ring = [o \in 0 .. rx_buf_len - 1 |-> NoByte]
  /\ cur_rx = 0 /\ RxBufPtr = U16 - 16 /\ RxBufAddr = 0
  /\ arrived = <<>>
  /\ IntrStatus = {} /\ pc = "idle" /\ status = {} /\ max_work = 0 /\ squeezed = FALSE
-----------------------------------------------------------------------------
\* The card: it receives a frame it has room for, and sends one.
Arrive(frame) ==
  /\ Up
  /\ CardReceives(frame)
  /\ IntrStatus' = IntrStatus \cup {"Rx"}
  /\ UNCHANGED <<tx_vars, kernel, pc, status, max_work, squeezed>>

Send ==
  /\ CardSends
  /\ IntrStatus' = IntrStatus \cup {"Tx"}
  /\ UNCHANGED <<rx_vars, kernel, pc, status, max_work, squeezed>>

\* A program's system call makes the stack send a frame.
sendto ==
  /\ Up /\ pc = "idle"
  /\ \E b \in Buf : netbuf_alloc(allocated, b) /\ rtl8139_transmit(b, allocated \cup {b})
  /\ UNCHANGED <<rx_vars, nic_vars>>
-----------------------------------------------------------------------------
(* The line is level-triggered: it interrupts whenever a status bit is set. *)
Interrupt ==
  /\ pc = "idle" /\ IntrStatus # {}
  /\ pc' = "status" /\ max_work' = max_interrupt_work
  /\ UNCHANGED <<tx_vars, rx_vars, kernel, IntrStatus, status, squeezed>>

\* The head of the loop of rtl8139_interrupt.
ReadStatus ==
  /\ pc = "status"
  /\ IF max_work = 0 \/ IntrStatus = {}
     THEN pc' = "idle" /\ max_work' = 0 /\ UNCHANGED status
     ELSE pc' = "ack" /\ status' = IntrStatus /\ max_work' = max_work - 1
  /\ UNCHANGED <<tx_vars, rx_vars, kernel, IntrStatus, squeezed>>

\* Mutant: everything is acknowledged, also what came since.
AcknowledgeAll ==
  /\ pc = "ack"
  /\ IntrStatus' = {}
  /\ pc' = "rx"
  /\ UNCHANGED <<tx_vars, rx_vars, kernel, status, max_work, squeezed>>

\* Writing the bits that were read clears them.
Acknowledge ==
  /\ pc = "ack"
  /\ IntrStatus' = IntrStatus \ status
  /\ pc' = "rx"
  /\ UNCHANGED <<tx_vars, rx_vars, kernel, status, max_work, squeezed>>

\* rtl8139_rx is not called, or its loop ends.
RxDone ==
  /\ pc = "rx" /\ ("Rx" \notin status \/ RxBufEmpty)
  /\ pc' = "tx"
  /\ UNCHANGED <<tx_vars, rx_vars, kernel, IntrStatus, status, max_work, squeezed>>

(* A frame whose header has bit 15 set is passed over; the card sets it for *)
(* a multicast frame.                                                       *)
RxSkip ==
  /\ pc = "rx" /\ "Rx" \in status
  /\ ~RxBufEmpty /\ Header.multicast
  /\ rtl8139_rx_advance
  /\ squeezed' = FALSE
  /\ UNCHANGED <<tx_vars, kernel, IntrStatus, pc, status, max_work>>

(* A frame goes up the stack in a buffer b of its own.  netdev_rx fails and *)
(* b is freed, or it succeeds and nobody frees b; on the way the stack may  *)
(* send one frame, in a buffer r.                                           *)
RxDeliver ==
  /\ pc = "rx" /\ "Rx" \in status
  /\ ~RxBufEmpty /\ ~Header.multicast
  /\ \E b \in Buf :
       /\ netbuf_alloc(allocated, b)
       /\ \E held \in {allocated \cup {b}, netbuf_free(allocated \cup {b}, b)} :
            \/ /\ allocated' = held
               /\ UNCHANGED <<cur_tx, dirty_tx, tx_bufs, tx_buffer, tx_status, dev_tx, outgoing>>
            \/ \E r \in Buf : netbuf_alloc(allocated \cup {b}, r) /\ rtl8139_transmit(r, held \cup {r})
  /\ rtl8139_rx_advance
  /\ squeezed' = FALSE
  /\ UNCHANGED <<kernel, IntrStatus, pc, status, max_work>>

\* "Memory squeeze, deferring packet": the frame stays in the ring.
RxSqueeze ==
  /\ pc = "rx" /\ "Rx" \in status
  /\ ~RxBufEmpty /\ ~Header.multicast
  /\ ~ \E b \in Buf : netbuf_alloc(allocated, b)
  /\ pc' = "tx" /\ squeezed' = TRUE
  /\ UNCHANGED <<tx_vars, rx_vars, kernel, IntrStatus, status, max_work>>

TxClear ==
  /\ pc = "tx" /\ "Tx" \in status
  /\ rtl8139_tx_clear
  /\ UNCHANGED <<rx_vars, nic_vars>>

TxDone ==
  /\ pc = "tx"
  /\ "Tx" \notin status \/ ~ClearGoesOn
  /\ pc' = "status" /\ status' = {}
  /\ UNCHANGED <<tx_vars, rx_vars, kernel, IntrStatus, max_work, squeezed>>

rtl8139_interrupt ==
  \/ Interrupt \/ ReadStatus \/ Acknowledge
  \/ RxDone \/ RxSkip \/ RxDeliver \/ RxSqueeze
  \/ TxClear \/ TxDone

Next == \/ \E frame \in Frame : Arrive(frame)
        \/ Send
        \/ sendto
        \/ rtl8139_interrupt

Spec == /\ Init /\ [][Next]_vars
        /\ WF_vars(rtl8139_interrupt)
        /\ WF_vars(Send)
-----------------------------------------------------------------------------
TypeOK ==
  /\ TxTypeOK
  /\ \A o \in DOMAIN rx_ring : rx_ring[o] = NoByte \/ rx_ring[o][1].at \in 0 .. CardLength - 1
  /\ cur_rx \in 0 .. U16 - 1 /\ RxBufPtr \in 0 .. U16 - 1
  /\ RxBufAddr \in 0 .. CardLength - 1
  /\ IntrStatus \subseteq Interrupts /\ status \subseteq Interrupts
  /\ pc \in {"idle", "status", "ack", "rx", "tx"}
  /\ max_work \in 0 .. max_interrupt_work
  /\ squeezed \in BOOLEAN

(* Whatever is in the machine's slots and wherever memory ran short, maink  *)
(* leaves every card that has a place in the registry and a receive ring    *)
(* running, and the interrupt handler serves the first one registered.      *)
CardsServed == CardsStarted(kernel) /\ FirstCardServed(kernel)

(* Card and driver agree on the receive ring and its 16-bit pointers, and   *)
(* what rtl8139_rx copies out of it is the oldest frame, no byte more or    *)
(* less.                                                                    *)
FramesIntact == TypeOK /\ RingInStep /\ OldestFrameWhole

(* When the handler does not run, whatever it has left to do keeps the      *)
(* interrupt line up: a frame in the ring has its RxOK bit set, unless the  *)
(* last one found no memory, and a descriptor that was sent and not cleared *)
(* its Tx bit.  The comment on acknowledging first is about this: an event  *)
(* that falls between two steps of the handler is not lost.                 *)
NothingForgotten ==
  pc = "idle" =>
    /\ arrived # <<>> /\ ~squeezed => "Rx" \in IntrStatus
    /\ ClearGoesOn => "Tx" \in IntrStatus

(* Every frame in the ring is passed over or handed to the stack: if the    *)
(* ring does not run empty, and memory not short, again and again, then the *)
(* driver passes frames, oldest first, for ever.  And the buffer of every   *)
(* frame the driver took for sending is freed: the ring empties or is       *)
(* cleared, oldest first, for ever, unless frames come in so fast that the  *)
(* handler never leaves rtl8139_rx.                                         *)
FramesMoveOn ==
  /\ []<>(arrived = <<>> \/ squeezed) \/ []<><<cur_rx' # cur_rx>>_vars
  /\ []<>(Pending = 0) \/ []<><<dirty_tx' # dirty_tx>>_vars \/ <>[](pc = "rx")

\* The handler drives the transmit ring as TxRing allows.
ImplementsTxRing == TxSpec
=============================================================================
