------------------------------- MODULE RxRing -------------------------------
(***************************************************************************)
(* The receive side of the RTL8139 driver, src/src/drivers/net/rtl8139.c:   *)
(* the card copies each frame into a ring of bytes, behind a header with    *)
(* its status and size and before its checksum, and wraps at the end of the *)
(* ring; rtl8139_rx copies the frames out and moves the card's read         *)
(* pointer.  A frame in the ring is [at, size, multicast], `at' where its   *)
(* header starts; a byte of the ring is <<frame, position>>: positions      *)
(* -4 .. -1 are the header, 0 .. size-1 the frame, the next four the        *)
(* checksum.                                                                *)
(***************************************************************************)
EXTENDS Integers, Sequences

CONSTANTS RX_BUF_LEN,  \* the smallest ring: 8192 in C
          U16,         \* uint16_t counts modulo this: 65536 in C
          Frame        \* the frames on the wire: [size, multicast]

ASSUME RxAssumption == /\ RX_BUF_LEN \in Nat \ {0}
                       /\ RX_BUF_LEN % 4 = 0
                       /\ U16 \in Nat \ {0}
                       /\ U16 % (4 * RX_BUF_LEN) = 0
                       /\ \A f \in Frame : f.size \in Nat /\ f.size + 12 <= RX_BUF_LEN

VARIABLES rx_ring,
          rx_buf_len,  \* the driver's idea of the ring's length
          rx_config,   \* the card's: 0, 1, 2 for one, two, four times RX_BUF_LEN
          cur_rx,      \* where the driver reads next
          RxBufPtr,    \* the card's read pointer register: 16 below the driver's
          RxBufAddr,   \* where the card writes next
          arrived      \* the frames the driver has not passed, oldest first

rx_vars == <<rx_ring, rx_buf_len, rx_config, cur_rx, RxBufPtr, RxBufAddr, arrived>>

NoByte == <<[at |-> -1, size |-> 0, multicast |-> FALSE], 0>>

Aligned(n) == ((n + 3) \div 4) * 4

\* 8192 << rx_buf_len_idx
RxLength(rx_buf_len_idx) == RX_BUF_LEN * <<1, 2, 4>>[rx_buf_len_idx + 1]
CardLength == RxLength(rx_config)
CardReads == (RxBufPtr + 16) % CardLength

\* The RxBufEmpty bit of ChipCmd.
RxBufEmpty == CardReads = RxBufAddr

(* A frame that passes the card's filter and fits in the free part of the   *)
(* ring, or in the whole of an empty one.                                   *)
Fits(size) ==
  LET free == (CardLength + CardReads - RxBufAddr) % CardLength IN
  free = 0 \/ Aligned(size + 8) < free

CardReceives(f) ==
  LET frame == [at |-> RxBufAddr, size |-> f.size, multicast |-> f.multicast]
      at(i) == (RxBufAddr + i + 4) % CardLength
      bytes == -4 .. f.size + 3 IN
  /\ Fits(f.size)
  /\ rx_ring' = [o \in DOMAIN rx_ring |->
                   IF \E i \in bytes : at(i) = o
                   THEN <<frame, CHOOSE i \in bytes : at(i) = o>> ELSE rx_ring[o]]
  /\ RxBufAddr' = (RxBufAddr + Aligned(f.size + 8)) % CardLength
  /\ arrived' = Append(arrived, frame)
  /\ UNCHANGED <<rx_buf_len, rx_config, cur_rx, RxBufPtr>>
-----------------------------------------------------------------------------
ring_offset == cur_rx % rx_buf_len

\* The frame whose header is at ring_offset.
Header == rx_ring[ring_offset][1]
rx_size == Header.size + 4

\* memcpy of n bytes from an address of the ring.
memcpy(from, n) == [i \in 1 .. n |-> rx_ring[from + i - 1]]

\* Mutant: the header is not taken off the part before the wrap.
CopyHeaderToo ==
  LET pkt_size == rx_size - 4
      semi_count == rx_buf_len - ring_offset IN
  IF ring_offset + rx_size > rx_buf_len
  THEN memcpy(ring_offset + 4, semi_count - 4) \o
         memcpy(4, IF pkt_size < semi_count THEN 0 ELSE pkt_size - semi_count)
  ELSE memcpy(ring_offset + 4, pkt_size)

\* The frame without header and checksum, in two parts when it wraps.
Copy ==
  LET pkt_size == rx_size - 4
      semi_count == rx_buf_len - ring_offset - 4 IN
  IF ring_offset + rx_size > rx_buf_len
  THEN memcpy(ring_offset + 4, semi_count) \o memcpy(0, pkt_size - semi_count)
  ELSE memcpy(ring_offset + 4, pkt_size)

\* Past the frame, on a multiple of four.
NextFrame == Aligned(cur_rx + rx_size + 4) % U16

(* The end of a turn of the loop of rtl8139_rx: the card learns how far the *)
(* driver has read, and what the driver has passed is forgotten here.       *)
rtl8139_rx_advance ==
  /\ cur_rx' = NextFrame
  /\ RxBufPtr' = (NextFrame - 16) % U16
  /\ rx_ring' = [o \in DOMAIN rx_ring |-> IF rx_ring[o][1] = Header THEN NoByte ELSE rx_ring[o]]
  /\ arrived' = Tail(arrived)
  /\ UNCHANGED <<rx_buf_len, rx_config, RxBufAddr>>
-----------------------------------------------------------------------------
(* What rtl8139_rx copies out of the ring is the oldest frame in it, every  *)
(* byte and nothing of the header, the checksum or another frame, wherever  *)
(* in the ring it lies and however often ring and 16-bit pointer wrapped.   *)
OldestFrameWhole ==
  arrived # <<>> =>
    Copy = [i \in 1 .. Head(arrived).size |-> <<Head(arrived), i - 1>>]

(* The driver and the card agree on the ring: it reads empty exactly when   *)
(* the driver has passed every frame, and the driver's next header is that  *)
(* of the oldest frame, in one piece.                                       *)
RingInStep ==
  /\ RxBufEmpty <=> arrived = <<>>
  /\ arrived # <<>> => \A i \in 0 .. 3 : rx_ring[ring_offset + i] = <<Head(arrived), i - 4>>
=============================================================================
