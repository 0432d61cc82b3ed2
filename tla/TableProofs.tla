---------------------------- MODULE TableProofs -----------------------------
(***************************************************************************)
(* The two tables of the network stack: the sockets, for any number of them,*)
(* any ring size and any ports; and the ARP cache, for any size and any     *)
(* addresses.                                                               *)
(***************************************************************************)
EXTENDS Socket, Arp, SequenceTheorems, TLAPS

-----------------------------------------------------------------------------
(* The sockets.                                                             *)

SocketInv == TypeOK /\ RingConsistent /\ PortsUnique
-----------------------------------------------------------------------------
(* The remainder of a sum of two ring indices.                              *)
LEMMA ModSmall ==
  ASSUME NEW n \in Nat \ {0}, NEW a \in Nat, a < n
  PROVE  a % n = a
  BY SMT

(* An index up to one lap past the end wraps once.                          *)
LEMMA ModWrap ==
  ASSUME NEW n \in Nat \ {0}, NEW a \in Nat, n <= a, a < n + n
  PROVE  a % n = a - n
  BY SMT

(* Both cases: the wrap of an index that is at most one lap too large.      *)
LEMMA ModRing ==
  ASSUME NEW n \in Nat \ {0}
  PROVE  \A a \in 0 .. n + n - 1 : a % n = IF a < n THEN a ELSE a - n
<1> SUFFICES ASSUME NEW a \in 0 .. n + n - 1
             PROVE  a % n = IF a < n THEN a ELSE a - n
  OBVIOUS
<1>1. CASE a < n
  <2>1. a \in Nat
    OBVIOUS
  <2> QED
    BY <1>1, <2>1, ModSmall
<1>2. CASE ~(a < n)
  <2>1. a \in Nat /\ n <= a /\ a < n + n
    BY <1>2
  <2>2. a % n = a - n
    BY <2>1, ModWrap
  <2> QED
    BY <1>2, <2>2
<1> QED
  BY <1>1, <1>2

(* Advancing the write index adds one to the distance of the two indices,   *)
(* advancing the read index takes one from it.                              *)
LEMMA RingAdvance ==
  ASSUME NEW n \in Nat \ {0}, NEW head \in 0 .. n - 1, NEW tail \in 0 .. n - 1,
         NEW count \in 0 .. n, head = (tail + count) % n
  PROVE  /\ (head + 1) % n \in 0 .. n - 1
         /\ (tail + 1) % n \in 0 .. n - 1
         /\ count < n => (head + 1) % n = (tail + (count + 1)) % n
         /\ count > 0 => head = (((tail + 1) % n) + (count - 1)) % n
<1> DEFINE Mod(a) == a % n
<1>0. \A a \in 0 .. n + n - 1 : Mod(a) = IF a < n THEN a ELSE a - n
  BY ModRing
<1>1. head = Mod(tail + count)
  OBVIOUS
<1> SUFFICES /\ Mod(head + 1) \in 0 .. n - 1
             /\ Mod(tail + 1) \in 0 .. n - 1
             /\ count < n => Mod(head + 1) = Mod(tail + (count + 1))
             /\ count > 0 => head = Mod(Mod(tail + 1) + (count - 1))
  OBVIOUS
<1> HIDE DEF Mod
<1>2. head = IF tail + count < n THEN tail + count ELSE tail + count - n
  BY <1>0, <1>1
<1>3. Mod(head + 1) = IF head + 1 < n THEN head + 1 ELSE 0
  BY <1>0
<1>4. Mod(tail + 1) = IF tail + 1 < n THEN tail + 1 ELSE 0
  BY <1>0
<1>5. ASSUME count < n
      PROVE  Mod(head + 1) = Mod(tail + (count + 1))
  BY <1>0, <1>2, <1>3, <1>5
<1>6. ASSUME count > 0
      PROVE  head = Mod(Mod(tail + 1) + (count - 1))
  <2>1. CASE tail + 1 < n
    BY <1>0, <1>2, <1>4, <1>6, <2>1
  <2>2. CASE ~(tail + 1 < n)
    BY <1>0, <1>2, <1>4, <1>6, <2>2
  <2> QED
    BY <2>1, <2>2
<1> QED
  BY <1>3, <1>4, <1>5, <1>6
-----------------------------------------------------------------------------
(* A record is a socket when its fields have their types.                   *)
LEMMA SocketRecord ==
  ASSUME NEW u \in {0, 1}, NEW p \in Port \cup {0},
         NEW q \in [Index -> Packet \cup {NoPacket}],
         NEW h \in Index, NEW t \in Index, NEW c \in Int
  PROVE  [in_use |-> u, bound_port |-> p, recv_queue |-> q,
          recv_head |-> h, recv_tail |-> t, recv_count |-> c] \in SocketType
  BY DEF SocketType

\* What socket_create puts in a slot.
Fresh == [Zeroed EXCEPT !.in_use = 1]

(* What memset and socket_create leave in a slot is a socket.               *)
LEMMA ZeroedType ==
  /\ Zeroed \in SocketType /\ Fresh \in SocketType
  /\ Fresh = [in_use |-> 1, bound_port |-> 0,
              recv_queue |-> [i \in Index |-> NoPacket],
              recv_head |-> 0, recv_tail |-> 0, recv_count |-> 0]
<1>1. 0 \in Index
  BY SocketAssumption DEF Index
<1>2. PICK q \in [Index -> Packet \cup {NoPacket}] : q = [i \in Index |-> NoPacket]
  OBVIOUS
<1>3. Zeroed = [in_use |-> 0, bound_port |-> 0, recv_queue |-> q,
                recv_head |-> 0, recv_tail |-> 0, recv_count |-> 0]
  BY <1>2 DEF Zeroed
<1>4. Fresh = [in_use |-> 1, bound_port |-> 0, recv_queue |-> q,
               recv_head |-> 0, recv_tail |-> 0, recv_count |-> 0]
  BY <1>3 DEF Fresh
<1> QED
  BY <1>1, <1>2, <1>3, <1>4, SocketRecord

(* The indices of an empty, fresh ring agree.                               *)
LEMMA ZeroModulo == (0 + 0) % SOCKET_RECV_QUEUE_SIZE = 0
  BY SocketAssumption, ModSmall

(* The zeroed table satisfies the invariant.                                *)
LEMMA InitSocketInv == Init => SocketInv
  BY SocketAssumption, ZeroedType, ZeroModulo
  DEF Init, SocketInv, TypeOK, RingConsistent, PortsUnique, Zeroed, Socket

(* A socket that got a datagram is still a socket.                          *)
LEMMA DeliveredType ==
  ASSUME NEW k \in SocketType, NEW h \in Index, NEW packet \in Packet
  PROVE  [in_use |-> k.in_use, bound_port |-> k.bound_port,
          recv_queue |-> [k.recv_queue EXCEPT ![k.recv_head] = packet],
          recv_head |-> h, recv_tail |-> k.recv_tail,
          recv_count |-> k.recv_count + 1] \in SocketType
<1>1. PICK q \in [Index -> Packet \cup {NoPacket}] :
        q = [k.recv_queue EXCEPT ![k.recv_head] = packet]
  BY DEF SocketType
<1>2. /\ k.in_use \in {0, 1} /\ k.bound_port \in Port \cup {0}
      /\ k.recv_tail \in Index /\ k.recv_count + 1 \in Int
  BY DEF SocketType
<1>3. [in_use |-> k.in_use, bound_port |-> k.bound_port, recv_queue |-> q,
       recv_head |-> h, recv_tail |-> k.recv_tail,
       recv_count |-> k.recv_count + 1] \in SocketType
  BY <1>2, SocketRecord
<1> QED
  BY <1>1, <1>3

(* What a delivery does to the socket it is for.                            *)
LEMMA DeliverStep ==
  ASSUME SocketInv, NEW port \in Port, NEW packet \in Packet, NEW s \in Socket,
         sockets[s].recv_count < SOCKET_RECV_QUEUE_SIZE,
         sockets' = [sockets EXCEPT
            ![s].recv_queue[sockets[s].recv_head] = packet,
            ![s].recv_head = (@ + 1) % SOCKET_RECV_QUEUE_SIZE,
            ![s].recv_count = @ + 1]
  PROVE  /\ sockets' \in [Socket -> SocketType]
         /\ \A t \in Socket : t # s => sockets'[t] = sockets[t]
         /\ sockets'[s] = [in_use |-> sockets[s].in_use, bound_port |-> sockets[s].bound_port,
              recv_queue |-> [sockets[s].recv_queue EXCEPT ![sockets[s].recv_head] = packet],
              recv_head |-> (sockets[s].recv_head + 1) % SOCKET_RECV_QUEUE_SIZE,
              recv_tail |-> sockets[s].recv_tail,
              recv_count |-> sockets[s].recv_count + 1]
<1>1. sockets \in [Socket -> SocketType]
  BY DEF SocketInv, TypeOK
<1>2. sockets[s] \in SocketType
  BY <1>1
<1>3. /\ \A t \in Socket : t # s => sockets'[t] = sockets[t]
      /\ sockets'[s] = [in_use |-> sockets[s].in_use, bound_port |-> sockets[s].bound_port,
              recv_queue |-> [sockets[s].recv_queue EXCEPT ![sockets[s].recv_head] = packet],
              recv_head |-> (sockets[s].recv_head + 1) % SOCKET_RECV_QUEUE_SIZE,
              recv_tail |-> sockets[s].recv_tail,
              recv_count |-> sockets[s].recv_count + 1]
  BY <1>1, <1>2 DEF SocketType
<1>4. (sockets[s].recv_head + 1) % SOCKET_RECV_QUEUE_SIZE \in Index
  BY <1>2, SocketAssumption, RingAdvance DEF SocketInv, RingConsistent, SocketType, Index
<1>5. sockets'[s] \in SocketType
  BY <1>2, <1>3, <1>4, DeliveredType, Zenon
<1>6. sockets' = [t \in Socket |-> sockets'[t]]
  BY <1>1
<1> QED
  BY <1>1, <1>3, <1>5, <1>6

(* What a receive call does to its socket.                                  *)
LEMMA RecvStep ==
  ASSUME SocketInv, NEW s \in Socket, socket_recvfrom(s)
  PROVE  /\ sockets' \in [Socket -> SocketType]
         /\ \A t \in Socket : t # s => sockets'[t] = sockets[t]
         /\ sockets'[s] = [in_use |-> sockets[s].in_use, bound_port |-> sockets[s].bound_port,
              recv_queue |-> sockets[s].recv_queue,
              recv_head |-> sockets[s].recv_head,
              recv_tail |-> (sockets[s].recv_tail + 1) % SOCKET_RECV_QUEUE_SIZE,
              recv_count |-> sockets[s].recv_count - 1]
<1>1. sockets \in [Socket -> SocketType]
  BY DEF SocketInv, TypeOK
<1>2. sockets[s] \in SocketType
  BY <1>1
<1>3. /\ \A t \in Socket : t # s => sockets'[t] = sockets[t]
      /\ sockets'[s] = [in_use |-> sockets[s].in_use, bound_port |-> sockets[s].bound_port,
              recv_queue |-> sockets[s].recv_queue,
              recv_head |-> sockets[s].recv_head,
              recv_tail |-> (sockets[s].recv_tail + 1) % SOCKET_RECV_QUEUE_SIZE,
              recv_count |-> sockets[s].recv_count - 1]
  BY <1>1, <1>2 DEF socket_recvfrom, SocketType
<1>4. (sockets[s].recv_tail + 1) % SOCKET_RECV_QUEUE_SIZE \in Index
  BY <1>2, SocketAssumption, RingAdvance DEF SocketInv, RingConsistent, SocketType, Index
<1>5. sockets'[s] \in SocketType
  BY <1>2, <1>3, <1>4 DEF SocketType
<1>6. sockets' = [t \in Socket |-> sockets'[t]]
  BY <1>1 DEF socket_recvfrom
<1> QED
  BY <1>1, <1>3, <1>5, <1>6

(* Every call and every delivery keeps the invariant.                       *)
LEMMA NextSocketInv == SocketInv /\ [Next]_vars => SocketInv'
<1> SUFFICES ASSUME SocketInv, [Next]_vars PROVE SocketInv'
  OBVIOUS
<1> USE SocketAssumption
<1>1. sockets \in [Socket -> SocketType] /\ received \in Packet \cup {NoPacket}
  BY DEF SocketInv, TypeOK
<1>2. CASE UNCHANGED vars
  BY <1>2 DEF vars, SocketInv, TypeOK, RingConsistent, PortsUnique
<1>3. CASE NoEffect
  BY <1>3 DEF NoEffect, SocketInv, TypeOK, RingConsistent, PortsUnique
<1>4. ASSUME NEW s \in Socket, NEW new \in {Zeroed, Fresh},
             sockets' = [sockets EXCEPT ![s] = new], received' = NoPacket
      PROVE  SocketInv'
  <2>1. /\ new \in SocketType
        /\ new.recv_head = 0 /\ new.recv_tail = 0 /\ new.recv_count = 0
        /\ new.bound_port = 0
    BY <1>4, ZeroedType DEF Zeroed
  <2>2. /\ sockets' \in [Socket -> SocketType] /\ sockets'[s] = new
        /\ \A t \in Socket : t # s => sockets'[t] = sockets[t]
    BY <1>1, <1>4, <2>1
  <2>3. RingConsistent'
    BY <2>1, <2>2, ZeroModulo DEF SocketInv, RingConsistent
  <2>4. PortsUnique'
    BY <2>1, <2>2 DEF SocketInv, PortsUnique
  <2> QED
    BY <1>4, <2>2, <2>3, <2>4 DEF SocketInv, TypeOK
<1>5. CASE socket_create
  BY <1>4, <1>5 DEF socket_create, Fresh
<1>6. ASSUME NEW s \in Socket, socket_close(s) PROVE SocketInv'
  BY <1>4, <1>6 DEF socket_close
<1>7. ASSUME NEW s \in Socket, NEW port \in Port, socket_bind(s, port) PROVE SocketInv'
  <2>1. sockets[s] \in SocketType
    BY <1>1
  <2>2. /\ \A t \in Socket : t # s => sockets'[t] = sockets[t]
        /\ sockets'[s] = [sockets[s] EXCEPT !.bound_port = port]
        /\ sockets' = [t \in Socket |-> sockets'[t]]
    BY <1>1, <1>7 DEF socket_bind
  <2>3. /\ sockets'[s] \in SocketType
        /\ sockets'[s].in_use = sockets[s].in_use
        /\ sockets'[s].bound_port = port /\ sockets'[s].recv_head = sockets[s].recv_head
        /\ sockets'[s].recv_tail = sockets[s].recv_tail
        /\ sockets'[s].recv_count = sockets[s].recv_count
    BY <2>1, <2>2 DEF SocketType
  <2>4. sockets' \in [Socket -> SocketType]
    BY <1>1, <2>2, <2>3
  <2>5. RingConsistent'
    BY <2>2, <2>3 DEF SocketInv, RingConsistent
  <2>6. PortsUnique'
    <3>1. \A t \in Socket : ~(sockets[t].in_use = 1 /\ sockets[t].bound_port = port)
      BY <1>7 DEF socket_bind
    <3>2. ASSUME NEW a \in Socket, NEW b \in Socket,
                 sockets'[a].in_use = 1, sockets'[b].in_use = 1,
                 sockets'[a].bound_port = sockets'[b].bound_port,
                 sockets'[a].bound_port # 0
          PROVE  a = b
      <4>1. CASE a = s
        BY <2>2, <2>3, <3>1, <3>2, <4>1
      <4>2. CASE b = s
        BY <2>2, <2>3, <3>1, <3>2, <4>2
      <4>3. CASE a # s /\ b # s
        BY <2>2, <3>2, <4>3 DEF SocketInv, PortsUnique
      <4> QED
        BY <4>1, <4>2, <4>3
    <3> QED
      BY <3>2, Zenon DEF PortsUnique
  <2> QED
    BY <1>7, <2>4, <2>5, <2>6 DEF SocketInv, TypeOK, socket_bind
<1>8. ASSUME NEW s \in Socket, socket_recvfrom(s) PROVE SocketInv'
  <2>1. /\ sockets' \in [Socket -> SocketType]
        /\ \A t \in Socket : t # s => sockets'[t] = sockets[t]
        /\ sockets'[s].in_use = sockets[s].in_use
        /\ sockets'[s].bound_port = sockets[s].bound_port
        /\ sockets'[s].recv_head = sockets[s].recv_head
        /\ sockets'[s].recv_tail = (sockets[s].recv_tail + 1) % SOCKET_RECV_QUEUE_SIZE
        /\ sockets'[s].recv_count = sockets[s].recv_count - 1
    <3>1. /\ sockets' \in [Socket -> SocketType]
          /\ \A t \in Socket : t # s => sockets'[t] = sockets[t]
          /\ sockets'[s] = [in_use |-> sockets[s].in_use, bound_port |-> sockets[s].bound_port,
               recv_queue |-> sockets[s].recv_queue,
               recv_head |-> sockets[s].recv_head,
               recv_tail |-> (sockets[s].recv_tail + 1) % SOCKET_RECV_QUEUE_SIZE,
               recv_count |-> sockets[s].recv_count - 1]
      BY <1>8, RecvStep, Zenon
    <3> QED
      BY <3>1
  <2>2. /\ sockets[s].recv_head \in Index /\ sockets[s].recv_tail \in Index
        /\ sockets[s].recv_count \in 0 .. SOCKET_RECV_QUEUE_SIZE
        /\ sockets[s].recv_count > 0
        /\ sockets[s].recv_head =
              (sockets[s].recv_tail + sockets[s].recv_count) % SOCKET_RECV_QUEUE_SIZE
    BY <1>1, <1>8 DEF SocketInv, RingConsistent, SocketType, socket_recvfrom
  <2>3. /\ sockets'[s].recv_count \in 0 .. SOCKET_RECV_QUEUE_SIZE
        /\ sockets'[s].recv_head =
              (sockets'[s].recv_tail + sockets'[s].recv_count) % SOCKET_RECV_QUEUE_SIZE
    <3>1. sockets[s].recv_count - 1 \in 0 .. SOCKET_RECV_QUEUE_SIZE
      BY <2>2
    <3>2. sockets[s].recv_head = (((sockets[s].recv_tail + 1) % SOCKET_RECV_QUEUE_SIZE)
                                    + (sockets[s].recv_count - 1)) % SOCKET_RECV_QUEUE_SIZE
      BY <2>2, RingAdvance DEF Index
    <3> QED
      BY <2>1, <3>1, <3>2
  <2>4. RingConsistent'
    BY <2>1, <2>3 DEF SocketInv, RingConsistent
  <2>5. PortsUnique'
    BY <2>1 DEF SocketInv, PortsUnique
  <2>6. received' \in Packet \cup {NoPacket}
    BY <1>1, <1>8, <2>2 DEF socket_recvfrom, SocketType
  <2> QED
    BY <2>1, <2>4, <2>5, <2>6 DEF SocketInv, TypeOK
<1>9. ASSUME NEW port \in Port, NEW packet \in Packet, socket_deliver_udp(port, packet)
      PROVE  SocketInv'
  <2>1. PICK s \in Socket :
          /\ sockets[s].recv_count < SOCKET_RECV_QUEUE_SIZE
          /\ sockets' = [sockets EXCEPT
               ![s].recv_queue[sockets[s].recv_head] = packet,
               ![s].recv_head = (@ + 1) % SOCKET_RECV_QUEUE_SIZE,
               ![s].recv_count = @ + 1]
    BY <1>9 DEF socket_deliver_udp
  <2>2. /\ sockets' \in [Socket -> SocketType]
        /\ \A t \in Socket : t # s => sockets'[t] = sockets[t]
        /\ sockets'[s].in_use = sockets[s].in_use
        /\ sockets'[s].bound_port = sockets[s].bound_port
        /\ sockets'[s].recv_head = (sockets[s].recv_head + 1) % SOCKET_RECV_QUEUE_SIZE
        /\ sockets'[s].recv_tail = sockets[s].recv_tail
        /\ sockets'[s].recv_count = sockets[s].recv_count + 1
    <3>1. /\ sockets' \in [Socket -> SocketType]
          /\ \A t \in Socket : t # s => sockets'[t] = sockets[t]
          /\ sockets'[s] = [in_use |-> sockets[s].in_use, bound_port |-> sockets[s].bound_port,
               recv_queue |-> [sockets[s].recv_queue EXCEPT ![sockets[s].recv_head] = packet],
               recv_head |-> (sockets[s].recv_head + 1) % SOCKET_RECV_QUEUE_SIZE,
               recv_tail |-> sockets[s].recv_tail,
               recv_count |-> sockets[s].recv_count + 1]
      BY <2>1, DeliverStep, Zenon
    <3> QED
      BY <3>1
  <2>3. /\ sockets[s].recv_head \in Index /\ sockets[s].recv_tail \in Index
        /\ sockets[s].recv_count \in 0 .. SOCKET_RECV_QUEUE_SIZE
        /\ sockets[s].recv_head =
              (sockets[s].recv_tail + sockets[s].recv_count) % SOCKET_RECV_QUEUE_SIZE
    BY <1>1 DEF SocketInv, RingConsistent, SocketType
  <2>4. /\ sockets'[s].recv_count \in 0 .. SOCKET_RECV_QUEUE_SIZE
        /\ sockets'[s].recv_head =
              (sockets'[s].recv_tail + sockets'[s].recv_count) % SOCKET_RECV_QUEUE_SIZE
    <3>1. sockets[s].recv_count + 1 \in 0 .. SOCKET_RECV_QUEUE_SIZE
      BY <2>1, <2>3
    <3>2. (sockets[s].recv_head + 1) % SOCKET_RECV_QUEUE_SIZE =
            (sockets[s].recv_tail + (sockets[s].recv_count + 1)) % SOCKET_RECV_QUEUE_SIZE
      BY <2>1, <2>3, RingAdvance DEF Index
    <3> QED
      BY <2>2, <3>1, <3>2
  <2>5. RingConsistent'
    BY <2>2, <2>4 DEF SocketInv, RingConsistent
  <2>6. PortsUnique'
    BY <2>2 DEF SocketInv, PortsUnique
  <2> QED
    BY <1>9, <2>2, <2>5, <2>6 DEF SocketInv, TypeOK, socket_deliver_udp
<1> QED
  BY <1>2, <1>3, <1>5, <1>6, <1>7, <1>8, <1>9 DEF Next

(* The inductive invariant holds after every call and delivery.             *)
THEOREM Invariance == Spec => []SocketInv
  BY InitSocketInv, NextSocketInv, PTL DEF Spec

(* For rings of any size: the two indices and the count of a ring agree     *)
(* after every call and every delivery.                                     *)
THEOREM RingsConsistent == Spec => []RingConsistent
<1>1. SocketInv => RingConsistent
  BY DEF SocketInv
<1> QED
  BY <1>1, Invariance, PTL

(* For any number of sockets: no two open sockets ever have the same port.  *)
THEOREM PortsAreUnique == Spec => []PortsUnique
<1>1. SocketInv => PortsUnique
  BY DEF SocketInv
<1> QED
  BY <1>1, Invariance, PTL
-----------------------------------------------------------------------------
Size == SOCKET_RECV_QUEUE_SIZE
Content == Packet \cup {NoPacket}

\* The slot of a ring an index leads to, and the queue in count slots from tail on.
RingSlot(a) == a % SOCKET_RECV_QUEUE_SIZE
Ring(buf, tail, count) == [i \in 1 .. count |-> buf[RingSlot(tail + i - 1)]]

(* An index at most one lap too large wraps once.                           *)
LEMMA SlotIs ==
  /\ Size \in Nat /\ Size > 0
  /\ \A a \in 0 .. Size + Size - 1 : RingSlot(a) = IF a < Size THEN a ELSE a - Size
<1>1. Size \in Nat \ {0}
  BY SocketAssumption DEF Size
<1>2. \A a \in 0 .. Size + Size - 1 : a % Size = IF a < Size THEN a ELSE a - Size
  BY <1>1, ModRing
<1>3. \A a : RingSlot(a) = a % Size
  BY DEF RingSlot, Size
<1> HIDE DEF Size
<1>4. Size \in Nat /\ Size > 0
  BY <1>1
<1> QED
  BY <1>2, <1>3, <1>4, Zenon

(* The queue of a ring, place by place.                                     *)
LEMMA RingIs ==
  ASSUME NEW buf \in [0 .. Size - 1 -> Content], NEW tail \in 0 .. Size - 1,
         NEW count \in 0 .. Size
  PROVE  /\ Ring(buf, tail, count) \in Seq(Content)
         /\ Len(Ring(buf, tail, count)) = count
         /\ \A i \in 1 .. count : /\ Ring(buf, tail, count)[i] = buf[RingSlot(tail + i - 1)]
                                  /\ RingSlot(tail + i - 1) \in 0 .. Size - 1
<1>1. \A i \in 1 .. count : RingSlot(tail + i - 1) \in 0 .. Size - 1
  BY SlotIs
<1>2. count \in Nat
  BY SlotIs
<1> DEFINE q == Ring(buf, tail, count)
<1>3. q \in [1 .. count -> Content] /\ \A i \in 1 .. count : q[i] = buf[RingSlot(tail + i - 1)]
  BY <1>1 DEF Ring
<1> HIDE DEF q
<1>4. q \in Seq(Content)
  BY <1>2, <1>3
<1>5. Len(q) = count
  BY <1>2, <1>3, <1>4, LenProperties
<1> QED
  BY <1>1, <1>3, <1>4, <1>5 DEF q

(* Writing to the slot behind the last datagram appends to the queue: with  *)
(* room in the ring that slot holds none of its datagrams.                  *)
LEMMA RingAppend ==
  ASSUME NEW buf \in [0 .. Size - 1 -> Content], NEW tail \in 0 .. Size - 1,
         NEW count \in 0 .. Size - 1, NEW packet \in Content
  PROVE  Ring([buf EXCEPT ![RingSlot(tail + count)] = packet], tail, count + 1) =
           Append(Ring(buf, tail, count), packet)
<1> DEFINE new == [buf EXCEPT ![RingSlot(tail + count)] = packet]
           q == Ring(buf, tail, count)
           r == Ring(new, tail, count + 1)
           t == Append(q, packet)
<1>1. Size \in Nat /\ Size > 0 /\ count \in 0 .. Size /\ count + 1 \in 0 .. Size
  BY SlotIs
<1>2. RingSlot(tail + count) \in 0 .. Size - 1
  BY SlotIs
<1>3. /\ new \in [0 .. Size - 1 -> Content]
      /\ new[RingSlot(tail + count)] = packet
      /\ \A a \in 0 .. Size - 1 : a # RingSlot(tail + count) => new[a] = buf[a]
  BY <1>2
<1> HIDE DEF new
<1>4. /\ q \in Seq(Content) /\ Len(q) = count
      /\ \A i \in 1 .. count : /\ q[i] = buf[RingSlot(tail + i - 1)]
                               /\ RingSlot(tail + i - 1) \in 0 .. Size - 1
  BY <1>1, RingIs
<1>5. /\ r \in Seq(Content) /\ Len(r) = count + 1
      /\ \A i \in 1 .. count + 1 : r[i] = new[RingSlot(tail + i - 1)]
  BY <1>1, <1>3, RingIs
<1> HIDE DEF q, r
<1>6. /\ t \in Seq(Content) /\ Len(t) = count + 1
      /\ \A i \in 1 .. count : t[i] = q[i]
      /\ t[count + 1] = packet
  BY <1>4, AppendProperties
<1> HIDE DEF t
<1>7. ASSUME NEW i \in 1 .. count PROVE r[i] = t[i]
  <2>1. RingSlot(tail + i - 1) # RingSlot(tail + count)
    BY SlotIs
  <2>2. i \in 1 .. count + 1
    BY <1>1
  <2> QED
    BY <1>3, <1>4, <1>5, <1>6, <2>1, <2>2
<1>8. r[count + 1] = t[count + 1]
  <2>1. tail + (count + 1) - 1 = tail + count /\ count + 1 \in 1 .. count + 1
    BY <1>1
  <2> QED
    BY <1>3, <1>5, <1>6, <2>1
<1>9. \A i \in 1 .. Len(r) : r[i] = t[i]
  BY <1>1, <1>5, <1>7, <1>8
<1>10. r = t
  BY <1>5, <1>6, <1>9, SeqEqual
<1> QED
  BY <1>10 DEF q, r, t, new

(* Advancing the read index takes the head of the queue.                    *)
LEMMA RingTail ==
  ASSUME NEW buf \in [0 .. Size - 1 -> Content], NEW tail \in 0 .. Size - 1,
         NEW count \in 1 .. Size
  PROVE  /\ Ring(buf, tail, count) # <<>>
         /\ Head(Ring(buf, tail, count)) = buf[tail]
         /\ Ring(buf, RingSlot(tail + 1), count - 1) = Tail(Ring(buf, tail, count))
<1> DEFINE q == Ring(buf, tail, count)
           next == RingSlot(tail + 1)
           r == Ring(buf, next, count - 1)
           t == Tail(q)
<1>1. /\ Size \in Nat /\ Size > 0 /\ count \in 0 .. Size /\ count - 1 \in 0 .. Size
      /\ next \in 0 .. Size - 1
  BY SlotIs
<1>2. /\ q \in Seq(Content) /\ Len(q) = count
      /\ \A i \in 1 .. count : q[i] = buf[RingSlot(tail + i - 1)]
  BY <1>1, RingIs
<1>3. /\ r \in Seq(Content) /\ Len(r) = count - 1
      /\ \A i \in 1 .. count - 1 : r[i] = buf[RingSlot(next + i - 1)]
  BY <1>1, RingIs
<1> HIDE DEF q, r
<1>4. q # <<>>
  BY <1>2, EmptySeq
<1>5. Head(q) = buf[tail]
  <2>1. Head(q) = q[1]
    BY <1>2, <1>4
  <2>2. tail + 1 - 1 = tail /\ RingSlot(tail) = tail /\ 1 \in 1 .. count
    BY SlotIs
  <2> QED
    BY <1>2, <2>1, <2>2
<1>6. /\ t \in Seq(Content) /\ Len(t) = count - 1
      /\ \A i \in 1 .. count - 1 : t[i] = q[i + 1]
  BY <1>2, <1>4, HeadTailProperties
<1> HIDE DEF t
<1>7. ASSUME NEW i \in 1 .. count - 1 PROVE r[i] = t[i]
  <2>1. RingSlot(next + i - 1) = RingSlot(tail + (i + 1) - 1)
    <3>1. next = IF tail + 1 < Size THEN tail + 1 ELSE 0
      BY SlotIs
    <3> HIDE DEF next
    <3>2. CASE tail + 1 < Size
      BY <3>1, <3>2, SlotIs
    <3>3. CASE ~(tail + 1 < Size)
      BY <3>1, <3>3, SlotIs
    <3> QED
      BY <3>2, <3>3
  <2>2. q[i + 1] = buf[RingSlot(tail + (i + 1) - 1)]
    BY <1>1, <1>2
  <2> QED
    BY <1>3, <1>6, <2>1, <2>2
<1>8. r = t
  BY <1>3, <1>6, <1>7, SeqEqual
<1> QED
  BY <1>4, <1>5, <1>8 DEF q, r, t
-----------------------------------------------------------------------------
(* The ring of a socket holds its queue.                                    *)
LEMMA SocketRing ==
  ASSUME SocketInv, NEW s \in Socket
  PROVE  /\ sockets[s].recv_queue \in [0 .. Size - 1 -> Content]
         /\ sockets[s].recv_tail \in 0 .. Size - 1
         /\ sockets[s].recv_count \in 0 .. Size
         /\ sockets[s].recv_head = RingSlot(sockets[s].recv_tail + sockets[s].recv_count)
         /\ Queues[s] = Ring(sockets[s].recv_queue, sockets[s].recv_tail, sockets[s].recv_count)
         /\ Queues[s] \in Seq(Content) /\ Len(Queues[s]) = sockets[s].recv_count
<1>1. sockets[s] \in SocketType
  BY DEF SocketInv, TypeOK
<1>2. /\ sockets[s].recv_queue \in [0 .. Size - 1 -> Content]
      /\ sockets[s].recv_tail \in 0 .. Size - 1
  BY <1>1 DEF SocketType, Index, Size, Content
<1>3. /\ sockets[s].recv_count \in 0 .. Size
      /\ sockets[s].recv_head = RingSlot(sockets[s].recv_tail + sockets[s].recv_count)
  BY DEF SocketInv, RingConsistent, Size, RingSlot
<1>4. Queues[s] = Ring(sockets[s].recv_queue, sockets[s].recv_tail, sockets[s].recv_count)
  BY DEF Queues, Queued, Ring, RingSlot
<1> QED
  BY <1>2, <1>3, <1>4, RingIs

(* A slot that memset or socket_create filled has an empty queue.           *)
LEMMA EmptyQueue ==
  ASSUME NEW k \in {Zeroed, Fresh}
  PROVE  Queued(k) = <<>>
<1>1. k.recv_count = 0
  BY ZeroedType DEF Zeroed
<1>2. Queued(k) = [i \in 1 .. 0 |-> k.recv_queue[(k.recv_tail + i - 1) % SOCKET_RECV_QUEUE_SIZE]]
  BY <1>1 DEF Queued
<1> DEFINE q == Queued(k)
<1>3. q \in [1 .. 0 -> Content]
  BY <1>2
<1> HIDE DEF q
<1>4. q \in Seq(Content) /\ Len(q) = 0
  BY <1>3, LenProperties
<1> QED
  BY <1>4, EmptySeq DEF q

(* The three functions of the mapping, when one slot of the table changes.  *)
LEMMA MapSlot ==
  ASSUME NEW s \in Socket,
         \A t \in Socket : t # s => sockets'[t] = sockets[t]
  PROVE  /\ BoundPorts' = [BoundPorts EXCEPT ![s] = sockets'[s].bound_port]
         /\ Queues' = [Queues EXCEPT ![s] = Queued(sockets'[s])]
         /\ sockets'[s].in_use = 1 => InUse' = InUse \cup {s}
         /\ sockets'[s].in_use # 1 => InUse' = InUse \ {s}
<1>1. BoundPorts' = [BoundPorts EXCEPT ![s] = sockets'[s].bound_port]
  BY DEF BoundPorts
<1>2. Queues' = [Queues EXCEPT ![s] = Queued(sockets'[s])]
  <2>1. Queues' = [t \in Socket |-> Queued(sockets'[t])]
    BY DEF Queues, Queued
  <2>2. \A t \in Socket : t # s => Queued(sockets'[t]) = Queued(sockets[t])
    BY DEF Queued
  <2> QED
    BY <2>1, <2>2 DEF Queues
<1> QED
  BY <1>1, <1>2 DEF InUse

(* A call on an open socket that leaves it open.                            *)
LEMMA MapOpenSlot ==
  ASSUME NEW s \in Socket, sockets[s].in_use = 1, sockets'[s].in_use = 1,
         \A t \in Socket : t # s => sockets'[t] = sockets[t]
  PROVE  /\ s \in InUse /\ InUse' = InUse
         /\ sockets'[s].bound_port = sockets[s].bound_port => BoundPorts' = BoundPorts
         /\ Queued(sockets'[s]) = Queued(sockets[s]) => Queues' = Queues
<1>1. s \in InUse /\ InUse' = InUse
  BY DEF InUse
<1>2. sockets'[s].bound_port = sockets[s].bound_port => BoundPorts' = BoundPorts
  BY DEF BoundPorts
<1>3. ASSUME Queued(sockets'[s]) = Queued(sockets[s]) PROVE Queues' = Queues
  <2>1. Queues' = [t \in Socket |-> Queued(sockets'[t])]
    BY DEF Queues, Queued
  <2>2. \A t \in Socket : Queued(sockets'[t]) = Queued(sockets[t])
    BY <1>3, Zenon
  <2> QED
    BY <2>1, <2>2 DEF Queues
<1> QED
  BY <1>1, <1>2, <1>3

(* Each call maps to the step of the mailboxes that its name promises.      *)
LEMMA MapCreate ==
  ASSUME SocketInv, socket_create
  PROVE  \E s \in Socket : M!Open(s)
<1>1. PICK s \in Socket : sockets[s].in_use = 0 /\ sockets' = [sockets EXCEPT ![s] = Fresh]
  BY DEF socket_create, Fresh
<1>2. /\ sockets'[s] = Fresh
      /\ \A t \in Socket : t # s => sockets'[t] = sockets[t]
  BY <1>1 DEF SocketInv, TypeOK
<1>3. Fresh.in_use = 1 /\ Fresh.bound_port = 0 /\ Queued(Fresh) = <<>>
  BY ZeroedType, EmptyQueue
<1>4. /\ BoundPorts' = [BoundPorts EXCEPT ![s] = 0]
      /\ Queues' = [Queues EXCEPT ![s] = <<>>]
      /\ InUse' = InUse \cup {s}
  BY <1>2, <1>3, MapSlot
<1>5. s \notin InUse /\ received' = NoPacket
  BY <1>1 DEF InUse, socket_create
<1> QED
  BY <1>4, <1>5 DEF M!Open

(* socket_close empties the mailbox and gives up its port.                  *)
LEMMA MapClose ==
  ASSUME SocketInv, NEW s \in Socket, socket_close(s)
  PROVE  M!Close(s)
<1>1. /\ sockets'[s] = Zeroed
      /\ \A t \in Socket : t # s => sockets'[t] = sockets[t]
  BY DEF SocketInv, TypeOK, socket_close
<1>2. Zeroed.in_use = 0 /\ Zeroed.bound_port = 0 /\ Queued(Zeroed) = <<>>
  BY EmptyQueue DEF Zeroed
<1>3. /\ BoundPorts' = [BoundPorts EXCEPT ![s] = 0]
      /\ Queues' = [Queues EXCEPT ![s] = <<>>]
      /\ InUse' = InUse \ {s}
  BY <1>1, <1>2, MapSlot
<1>4. s \in InUse /\ received' = NoPacket
  BY DEF InUse, socket_close
<1> QED
  BY <1>3, <1>4 DEF M!Close

(* socket_bind gives the mailbox a port that is not 0 and that no open      *)
(* mailbox has.                                                             *)
LEMMA MapBind ==
  ASSUME SocketInv, NEW s \in Socket, NEW port \in Port, socket_bind(s, port)
  PROVE  M!Bind(s, port)
<1>1. sockets \in [Socket -> SocketType] /\ sockets[s] \in SocketType
  BY DEF SocketInv, TypeOK
<1>2. /\ \A t \in Socket : t # s => sockets'[t] = sockets[t]
      /\ sockets'[s] = [sockets[s] EXCEPT !.bound_port = port]
  BY <1>1 DEF socket_bind
<1>3. /\ sockets'[s].in_use = 1 /\ sockets[s].in_use = 1
      /\ sockets'[s].bound_port = port
      /\ Queued(sockets'[s]) = Queued(sockets[s])
  BY <1>1, <1>2 DEF SocketType, Queued, socket_bind
<1>4. s \in InUse /\ InUse' = InUse /\ Queues' = Queues
  BY <1>2, <1>3, MapOpenSlot
<1>5. BoundPorts' = [BoundPorts EXCEPT ![s] = sockets'[s].bound_port]
  BY <1>2, MapSlot
<1>6. BoundPorts' = [BoundPorts EXCEPT ![s] = port]
  BY <1>3, <1>5
<1>7. BoundPorts[s] = 0 /\ port # 0 /\ \A t \in InUse : BoundPorts[t] # port
  BY DEF BoundPorts, InUse, socket_bind
<1> QED
  BY <1>4, <1>5, <1>6, <1>7 DEF M!Bind, socket_bind

(* socket_recvfrom returns the head of the queue and leaves its tail.       *)
LEMMA MapRecv ==
  ASSUME SocketInv, SocketInv', NEW s \in Socket, socket_recvfrom(s)
  PROVE  M!Receive(s)
<1> DEFINE k == sockets[s]
           k2 == sockets'[s]
<1>1. /\ \A t \in Socket : t # s => sockets'[t] = sockets[t]
      /\ k2 = [in_use |-> k.in_use, bound_port |-> k.bound_port,
               recv_queue |-> k.recv_queue, recv_head |-> k.recv_head,
               recv_tail |-> (k.recv_tail + 1) % SOCKET_RECV_QUEUE_SIZE,
               recv_count |-> k.recv_count - 1]
  BY RecvStep, Zenon
<1>2. k.in_use = 1 /\ k.recv_count # 0 /\ received' = k.recv_queue[k.recv_tail]
  BY DEF socket_recvfrom
<1>3. /\ k.recv_queue \in [0 .. Size - 1 -> Content]
      /\ k.recv_tail \in 0 .. Size - 1 /\ k.recv_count \in 0 .. Size
      /\ Queues[s] = Ring(k.recv_queue, k.recv_tail, k.recv_count)
  BY SocketRing
<1>4. k.recv_count \in 1 .. Size
  BY <1>2, <1>3
<1>5. /\ k2.in_use = 1 /\ k2.bound_port = k.bound_port
      /\ Queued(k2) = Ring(k.recv_queue, RingSlot(k.recv_tail + 1), k.recv_count - 1)
  <2>1. /\ k2.in_use = 1 /\ k2.bound_port = k.bound_port
        /\ k2.recv_queue = k.recv_queue /\ k2.recv_tail = RingSlot(k.recv_tail + 1)
        /\ k2.recv_count = k.recv_count - 1
    BY <1>1, <1>2 DEF RingSlot
  <2>2. Queued(k2) = Ring(k2.recv_queue, k2.recv_tail, k2.recv_count)
    BY DEF Queued, Ring, RingSlot
  <2> HIDE DEF k2
  <2> QED
    BY <2>1, <2>2
<1>6. /\ Queues[s] # <<>> /\ Head(Queues[s]) = received'
      /\ Queued(k2) = Tail(Queues[s])
  BY <1>2, <1>3, <1>4, <1>5, RingTail
<1>7. Queues' = [Queues EXCEPT ![s] = Queued(k2)]
  BY <1>1, MapSlot
<1>8. s \in InUse /\ InUse' = InUse /\ BoundPorts' = BoundPorts
  BY <1>1, <1>2, <1>5, MapOpenSlot
<1> HIDE DEF k2
<1> QED
  BY <1>6, <1>7, <1>8 DEF M!Receive

(* socket_deliver_udp appends to the queue of a mailbox that has room.      *)
LEMMA MapDeliver ==
  ASSUME SocketInv, NEW port \in Port, NEW packet \in Packet, socket_deliver_udp(port, packet)
  PROVE  \E s \in Socket : M!Arrive(s, packet)
<1>1. PICK s \in Socket :
        /\ sockets[s].in_use = 1
        /\ sockets[s].recv_count < SOCKET_RECV_QUEUE_SIZE
        /\ sockets' = [sockets EXCEPT
             ![s].recv_queue[sockets[s].recv_head] = packet,
             ![s].recv_head = (@ + 1) % SOCKET_RECV_QUEUE_SIZE,
             ![s].recv_count = @ + 1]
  BY DEF socket_deliver_udp, Addressee
<1> DEFINE k == sockets[s]
           k2 == sockets'[s]
<1>2. /\ \A t \in Socket : t # s => sockets'[t] = sockets[t]
      /\ k2 = [in_use |-> k.in_use, bound_port |-> k.bound_port,
               recv_queue |-> [k.recv_queue EXCEPT ![k.recv_head] = packet],
               recv_head |-> (k.recv_head + 1) % SOCKET_RECV_QUEUE_SIZE,
               recv_tail |-> k.recv_tail, recv_count |-> k.recv_count + 1]
  BY <1>1, DeliverStep, Zenon
<1>3. /\ k.recv_queue \in [0 .. Size - 1 -> Content]
      /\ k.recv_tail \in 0 .. Size - 1 /\ k.recv_count \in 0 .. Size
      /\ k.recv_head = RingSlot(k.recv_tail + k.recv_count)
      /\ Queues[s] = Ring(k.recv_queue, k.recv_tail, k.recv_count)
      /\ Len(Queues[s]) = k.recv_count
  BY SocketRing
<1>4. k.recv_count \in 0 .. Size - 1 /\ Len(Queues[s]) < SOCKET_RECV_QUEUE_SIZE
      /\ packet \in Content
  BY <1>1, <1>3, SlotIs DEF Size, Content
<1>5. /\ k2.in_use = 1 /\ k2.bound_port = k.bound_port
      /\ Queued(k2) = Ring([k.recv_queue EXCEPT ![k.recv_head] = packet],
                           k.recv_tail, k.recv_count + 1)
  <2> DEFINE new == [k.recv_queue EXCEPT ![k.recv_head] = packet]
  <2>1. k2 = [in_use |-> k.in_use, bound_port |-> k.bound_port, recv_queue |-> new,
              recv_head |-> (k.recv_head + 1) % SOCKET_RECV_QUEUE_SIZE,
              recv_tail |-> k.recv_tail, recv_count |-> k.recv_count + 1]
    BY <1>2, Zenon
  <2>2. Queued(k2) = Ring(k2.recv_queue, k2.recv_tail, k2.recv_count)
    BY DEF Queued, Ring, RingSlot
  <2> HIDE DEF new, k2
  <2>3. /\ k2.in_use = 1 /\ k2.bound_port = k.bound_port
        /\ k2.recv_queue = new /\ k2.recv_tail = k.recv_tail
        /\ k2.recv_count = k.recv_count + 1
    BY <1>1, <2>1
  <2>4. Queued(k2) = Ring(new, k.recv_tail, k.recv_count + 1)
    BY <2>2, <2>3
  <2> QED
    BY <2>3, <2>4 DEF new
<1>6. Queued(k2) = Append(Queues[s], packet)
  <2> DEFINE b == k.recv_queue
             t == k.recv_tail
             c == k.recv_count
  <2>1. /\ b \in [0 .. Size - 1 -> Content] /\ t \in 0 .. Size - 1 /\ c \in 0 .. Size - 1
        /\ Queued(k2) = Ring([b EXCEPT ![RingSlot(t + c)] = packet], t, c + 1)
        /\ Queues[s] = Ring(b, t, c)
    BY <1>3, <1>4, <1>5
  <2>2. packet \in Content
    BY <1>4
  <2> HIDE DEF b, t, c, k2
  <2>3. Ring([b EXCEPT ![RingSlot(t + c)] = packet], t, c + 1) = Append(Ring(b, t, c), packet)
    BY <2>1, <2>2, RingAppend, Zenon
  <2> QED
    BY <2>1, <2>3, Zenon
<1>7. Queues' = [Queues EXCEPT ![s] = Queued(k2)]
  BY <1>2, MapSlot
<1>8. s \in InUse /\ InUse' = InUse /\ BoundPorts' = BoundPorts
  BY <1>1, <1>2, <1>5, MapOpenSlot
<1> HIDE DEF k2
<1> QED
  BY <1>4, <1>6, <1>7, <1>8 DEF M!Arrive, socket_deliver_udp

(* Every call and every delivery is a step of the mailboxes.                *)
LEMMA MapNext == SocketInv /\ SocketInv' /\ [Next]_vars => [M!Next]_M!vars
<1> SUFFICES ASSUME SocketInv, SocketInv', [Next]_vars PROVE [M!Next]_M!vars
  OBVIOUS
<1>1. CASE UNCHANGED vars
  BY <1>1 DEF vars, M!vars, InUse, BoundPorts, Queues, Queued
<1>2. CASE NoEffect
  <2>1. M!Nop
    BY <1>2 DEF NoEffect, M!Nop, InUse, BoundPorts, Queues, Queued
  <2> QED
    BY <2>1 DEF M!Next
<1>3. CASE socket_create
  BY <1>3, MapCreate DEF M!Next
<1>4. ASSUME NEW s \in Socket, NEW port \in Port, socket_bind(s, port) PROVE M!Next
  BY <1>4, MapBind DEF M!Next
<1>5. ASSUME NEW s \in Socket, socket_recvfrom(s) PROVE M!Next
  BY <1>5, MapRecv DEF M!Next
<1>6. ASSUME NEW s \in Socket, socket_close(s) PROVE M!Next
  BY <1>6, MapClose DEF M!Next
<1>7. ASSUME NEW port \in Port, NEW packet \in Packet, socket_deliver_udp(port, packet)
      PROVE  M!Next
  BY <1>7, MapDeliver DEF M!Next
<1> QED
  BY <1>1, <1>2, <1>3, <1>4, <1>5, <1>6, <1>7 DEF Next

(* For any number of sockets and rings of any size: the calls of programs   *)
(* and the deliveries of the interrupt implement mailboxes.                 *)
THEOREM SocketsImplementMailboxes == Spec => ImplementsMailboxes
<1>1. Init => M!Init
  <2> SUFFICES ASSUME Init PROVE M!Init
    OBVIOUS
  <2>1. \A s \in Socket : sockets[s] = Zeroed
    BY DEF Init
  <2>2. Zeroed.in_use = 0 /\ Zeroed.bound_port = 0 /\ Queued(Zeroed) = <<>>
    BY EmptyQueue DEF Zeroed
  <2>3. Queues = [s \in Socket |-> <<>>]
    BY <2>1, <2>2 DEF Queues
  <2> QED
    BY <2>1, <2>2, <2>3 DEF Init, M!Init, InUse, BoundPorts
<1> QED
  BY <1>1, MapNext, InitSocketInv, NextSocketInv, PTL DEF Spec, ImplementsMailboxes, M!Spec

-----------------------------------------------------------------------------
(* What waits in a ring is a datagram: no slot of zeroed memory is ever     *)
(* between the read and the write index.                                    *)
QueuedPackets == Queues \in [Socket -> Seq(Packet)]

(* A step of the mailboxes keeps it.                                        *)
LEMMA QueuedStep ==
  ASSUME SocketInv, SocketInv', QueuedPackets, [Next]_vars
  PROVE  QueuedPackets'
<1>1. [M!Next]_M!vars
  BY MapNext
<1> DEFINE q == Queues
<1>2. q \in [Socket -> Seq(Packet)] /\ <<>> \in Seq(Packet)
  BY DEF QueuedPackets
<1>3. \/ q' = q
      \/ \E s \in Socket : q' = [q EXCEPT ![s] = <<>>]
      \/ \E s \in Socket : q[s] # <<>> /\ q' = [q EXCEPT ![s] = Tail(@)]
      \/ \E s \in Socket, d \in Packet : q' = [q EXCEPT ![s] = Append(@, d)]
  BY <1>1, Zenon DEF M!Next, M!vars, M!Open, M!Bind, M!Arrive, M!Receive, M!Close, M!Nop
<1> HIDE DEF q
<1>4. ASSUME NEW s \in Socket, q[s] # <<>>, q' = [q EXCEPT ![s] = Tail(@)]
      PROVE  q' \in [Socket -> Seq(Packet)]
  BY <1>2, <1>4
<1>5. ASSUME NEW s \in Socket, NEW d \in Packet, q' = [q EXCEPT ![s] = Append(@, d)]
      PROVE  q' \in [Socket -> Seq(Packet)]
  BY <1>2, <1>5
<1>6. q' \in [Socket -> Seq(Packet)]
  BY <1>2, <1>3, <1>4, <1>5
<1> QED
  BY <1>6 DEF q, QueuedPackets

(* A receive call returns a datagram.                                       *)
LEMMA ReceivedPacket ==
  ASSUME SocketInv, SocketInv', QueuedPackets, NEW s \in Socket, socket_recvfrom(s)
  PROVE  received' \in Packet
<1>1. M!Receive(s)
  BY MapRecv
<1> DEFINE q == Queues[s]
<1>2. q \in Seq(Packet) /\ q # <<>> /\ received' = Head(q)
  BY <1>1 DEF QueuedPackets, M!Receive
<1> HIDE DEF q
<1> QED
  BY <1>2

(* The rings start empty.                                                   *)
LEMMA QueuedStart == Init => QueuedPackets
<1> SUFFICES ASSUME Init PROVE QueuedPackets
  OBVIOUS
<1>1. \A s \in Socket : Queued(sockets[s]) = <<>>
  BY EmptyQueue DEF Init
<1>2. Queues = [s \in Socket |-> <<>>]
  BY <1>1 DEF Queues
<1>3. <<>> \in Seq(Packet)
  OBVIOUS
<1> QED
  BY <1>2, <1>3, Zenon DEF QueuedPackets
-----------------------------------------------------------------------------
(* The ARP cache.                                                           *)

ArpInv == ArpTypeOK /\ OneEntryPerIp
-----------------------------------------------------------------------------
(* The zeroed table satisfies the invariant: it has no valid entry.         *)
LEMMA ArpStart == ArpInit => ArpInv
<1> SUFFICES ASSUME ArpInit PROVE ArpInv
  OBVIOUS
<1>1. ArpTypeOK
  BY ArpAssumption DEF ArpInit, ArpTypeOK, Slot
<1>2. OneEntryPerIp
  BY DEF ArpInit, OneEntryPerIp, Unused
<1> QED
  BY <1>1, <1>2 DEF ArpInv

(* Refreshing an entry keeps its address: the valid entries stay what they  *)
(* were, up to one link address.                                            *)
LEMMA Refresh ==
  ASSUME ArpInv, NEW ip \in Ip, NEW mac \in Mac, NEW i \in Slot, Holds(i, ip),
         arp_cache' = [arp_cache EXCEPT ![i].mac = mac], UNCHANGED arp_cache_next
  PROVE  ArpInv'
<1>1. arp_cache[i] \in Entry
  BY DEF ArpInv, ArpTypeOK, Holds, Unused
<1>2. [arp_cache[i] EXCEPT !.mac = mac] \in Entry
  BY <1>1 DEF Entry
<1>3. arp_cache' \in [Slot -> Entry \cup {Unused}]
  BY <1>2 DEF ArpInv, ArpTypeOK
<1>4. \A j \in Slot : /\ arp_cache'[j].valid = arp_cache[j].valid
                      /\ arp_cache[j].valid = 1 => arp_cache'[j].ip = arp_cache[j].ip
  <2> TAKE j \in Slot
  <2>1. CASE j = i
    <3>1. arp_cache'[i] = [arp_cache[i] EXCEPT !.mac = mac]
      BY DEF ArpInv, ArpTypeOK
    <3> QED
      BY <2>1, <3>1, <1>1 DEF Entry
  <2>2. CASE j # i
    BY <2>2 DEF ArpInv, ArpTypeOK
  <2> QED
    BY <2>1, <2>2
<1>5. OneEntryPerIp'
  BY <1>4 DEF ArpInv, OneEntryPerIp, Slot
<1> QED
  BY <1>3, <1>5 DEF ArpInv, ArpTypeOK

(* A new entry has an address that no valid entry had.                      *)
LEMMA Insert ==
  ASSUME ArpInv, NEW ip \in Ip, NEW mac \in Mac,
         \A i \in Slot : ~Holds(i, ip),
         arp_cache' = [arp_cache EXCEPT ![arp_cache_next] =
                         [ip |-> ip, mac |-> mac, valid |-> 1]],
         arp_cache_next' = (arp_cache_next + 1) % ARP_CACHE_SIZE
  PROVE  ArpInv'
<1> DEFINE new == [ip |-> ip, mac |-> mac, valid |-> 1]
<1>1. new \in Entry
  BY DEF Entry
<1>2. arp_cache' \in [Slot -> Entry \cup {Unused}]
  BY <1>1 DEF ArpInv, ArpTypeOK
<1>3. arp_cache_next' \in Slot
  BY ArpAssumption DEF ArpInv, ArpTypeOK, Slot
<1>4. arp_cache'[arp_cache_next] = new
  BY DEF ArpInv, ArpTypeOK
<1>5. \A j \in Slot : j # arp_cache_next => arp_cache'[j] = arp_cache[j]
  BY DEF ArpInv, ArpTypeOK
<1>6. OneEntryPerIp'
  <2> SUFFICES ASSUME NEW i \in Slot, NEW j \in Slot,
                      arp_cache'[i].valid = 1, arp_cache'[j].valid = 1,
                      arp_cache'[i].ip = arp_cache'[j].ip
               PROVE  i = j
    BY DEF OneEntryPerIp, Slot
  <2>1. CASE i # arp_cache_next /\ j # arp_cache_next
    BY <2>1, <1>5 DEF ArpInv, OneEntryPerIp
  <2>2. CASE i = arp_cache_next /\ j # arp_cache_next
    <3>1. Holds(j, ip)
      BY <2>2, <1>4, <1>5 DEF Holds
    <3> QED
      BY <3>1
  <2>3. CASE i # arp_cache_next /\ j = arp_cache_next
    <3>1. Holds(i, ip)
      BY <2>3, <1>4, <1>5 DEF Holds
    <3> QED
      BY <3>1
  <2> QED
    BY <2>1, <2>2, <2>3
<1> QED
  BY <1>2, <1>3, <1>6 DEF ArpInv, ArpTypeOK

(* Every call of arp_cache_update keeps the invariant.                      *)
LEMMA ArpStep == ArpInv /\ [ArpNext]_arp_vars => ArpInv'
<1> SUFFICES ASSUME ArpInv, [ArpNext]_arp_vars PROVE ArpInv'
  OBVIOUS
<1>1. CASE UNCHANGED arp_vars
  BY <1>1 DEF arp_vars, ArpInv, ArpTypeOK, OneEntryPerIp
<1>2. CASE ArpNext
  <2>1. PICK ip \in Ip, mac \in Mac : arp_cache_update(ip, mac)
    BY <1>2 DEF ArpNext
  <2>2. CASE \E i \in Slot : /\ Holds(i, ip)
                             /\ arp_cache' = [arp_cache EXCEPT ![i].mac = mac]
                             /\ UNCHANGED arp_cache_next
    BY <2>2, Refresh
  <2>3. CASE /\ \A i \in Slot : ~Holds(i, ip)
             /\ arp_cache' = [arp_cache EXCEPT ![arp_cache_next] =
                                [ip |-> ip, mac |-> mac, valid |-> 1]]
             /\ arp_cache_next' = (arp_cache_next + 1) % ARP_CACHE_SIZE
    BY <2>3, Insert
  <2> QED
    BY <2>1, <2>2, <2>3 DEF arp_cache_update
<1> QED
  BY <1>1, <1>2

(* OneEntryPerIp holds in every state the cache reaches, however many       *)
(* hosts announce themselves and however often.                             *)
THEOREM OneEntryAlways == ArpSpec => []OneEntryPerIp
<1>1. ArpInv => OneEntryPerIp
  BY DEF ArpInv
<1> QED
  BY <1>1, ArpStart, ArpStep, PTL DEF ArpSpec
-----------------------------------------------------------------------------
(* The order of the entries.  Either the slots in use are those below       *)
(* arp_cache_next, or all of them are.                                      *)
FillsInOrder ==
  \/ \A i \in Slot : arp_cache[i].valid = 1 <=> i < arp_cache_next
  \/ \A i \in Slot : arp_cache[i].valid = 1

RInv == ArpInv /\ FillsInOrder

(* An index less than one lap too large wraps once.                         *)
LEMMA WrapOnce ==
  ASSUME NEW n \in Nat \ {0}
  PROVE  \A a \in 0 .. n + n - 1 : a % n = IF a < n THEN a ELSE a - n
<1> SUFFICES ASSUME NEW a \in 0 .. n + n - 1
             PROVE  a % n = IF a < n THEN a ELSE a - n
  OBVIOUS
<1>1. CASE a < n
  BY <1>1, SMT
<1>2. CASE ~(a < n)
  BY <1>2, SMT
<1> QED
  BY <1>1, <1>2

(* One step in the circle.                                                  *)
LEMMA StepInCircle ==
  ASSUME NEW n \in Nat \ {0}, NEW a \in 0 .. n - 1
  PROVE  (a + 1) % n = IF a + 1 < n THEN a + 1 ELSE 0
<1>1. CASE a + 1 < n
  BY <1>1, SMT
<1>2. CASE ~(a + 1 < n)
  <2>1. a + 1 = n
    BY <1>2
  <2>2. n % n = 0
    BY SMT
  <2> QED
    BY <1>2, <2>1, <2>2
<1> QED
  BY <1>1, <1>2

(* Refreshing an entry leaves the slots in use as they are.                 *)
LEMMA RefreshFacts ==
  ASSUME ArpInv, NEW mac \in Mac, NEW i \in Slot, arp_cache[i].valid = 1,
         arp_cache' = [arp_cache EXCEPT ![i].mac = mac]
  PROVE  /\ arp_cache[i] \in Entry
         /\ arp_cache'[i] = [arp_cache[i] EXCEPT !.mac = mac]
         /\ \A j \in Slot : j # i => arp_cache'[j] = arp_cache[j]
         /\ \A j \in Slot : arp_cache'[j].valid = arp_cache[j].valid
<1>1. arp_cache[i] \in Entry
  BY DEF ArpInv, ArpTypeOK, Unused
<1>2. arp_cache'[i] = [arp_cache[i] EXCEPT !.mac = mac]
  BY DEF ArpInv, ArpTypeOK
<1>3. \A j \in Slot : j # i => arp_cache'[j] = arp_cache[j]
  BY DEF ArpInv, ArpTypeOK
<1>4. arp_cache'[i].valid = arp_cache[i].valid
  BY <1>1, <1>2 DEF Entry
<1> QED
  BY <1>1, <1>2, <1>3, <1>4

(* A new entry is the only slot that changes.                               *)
LEMMA InsertFacts ==
  ASSUME ArpInv, NEW ip \in Ip, NEW mac \in Mac,
         arp_cache' = [arp_cache EXCEPT ![arp_cache_next] =
                         [ip |-> ip, mac |-> mac, valid |-> 1]]
  PROVE  /\ arp_cache'[arp_cache_next] = [ip |-> ip, mac |-> mac, valid |-> 1]
         /\ \A j \in Slot : j # arp_cache_next => arp_cache'[j] = arp_cache[j]
         /\ \A j \in Slot : arp_cache'[j].valid = 1 <=>
                              (j = arp_cache_next \/ arp_cache[j].valid = 1)
  BY DEF ArpInv, ArpTypeOK

(* The index after the next one.                                            *)
LEMMA NextIndex ==
  ASSUME ArpInv
  PROVE  (arp_cache_next + 1) % ARP_CACHE_SIZE =
           IF arp_cache_next + 1 < ARP_CACHE_SIZE THEN arp_cache_next + 1 ELSE 0
<1>1. arp_cache_next \in 0 .. ARP_CACHE_SIZE - 1
  BY DEF ArpInv, ArpTypeOK, Slot
<1> QED
  BY <1>1, ArpAssumption, StepInCircle

(* The table fills from the front.                                          *)
LEMMA FillStart == ArpInit => FillsInOrder
<1> SUFFICES ASSUME ArpInit PROVE FillsInOrder
  OBVIOUS
<1>1. \A i \in Slot : arp_cache[i].valid = 0
  BY DEF ArpInit, Unused
<1>2. \A i \in Slot : ~(i < arp_cache_next)
  BY ArpAssumption DEF ArpInit, Slot
<1> QED
  BY <1>1, <1>2 DEF FillsInOrder

(* Every step of the cache keeps the slots filled from the first to the     *)
(* last.                                                                    *)
LEMMA FillStep == RInv /\ [ArpNext]_arp_vars => FillsInOrder'
<1> SUFFICES ASSUME RInv, [ArpNext]_arp_vars PROVE FillsInOrder'
  OBVIOUS
<1>0. ArpInv /\ FillsInOrder
  BY DEF RInv
<1>1. CASE UNCHANGED arp_vars
  BY <1>0, <1>1 DEF arp_vars, FillsInOrder, Slot
<1>2. ASSUME NEW ip \in Ip, NEW mac \in Mac, NEW i \in Slot, Holds(i, ip),
             arp_cache' = [arp_cache EXCEPT ![i].mac = mac], UNCHANGED arp_cache_next
      PROVE  FillsInOrder'
  <2>1. \A j \in Slot : arp_cache'[j].valid = arp_cache[j].valid
    BY <1>0, <1>2, RefreshFacts DEF Holds
  <2> QED
    BY <1>0, <1>2, <2>1 DEF FillsInOrder, Slot
<1>3. ASSUME NEW ip \in Ip, NEW mac \in Mac,
             arp_cache' = [arp_cache EXCEPT ![arp_cache_next] =
                             [ip |-> ip, mac |-> mac, valid |-> 1]],
             arp_cache_next' = (arp_cache_next + 1) % ARP_CACHE_SIZE
      PROVE  FillsInOrder'
  <2>1. \A j \in Slot : arp_cache'[j].valid = 1 <=>
                          (j = arp_cache_next \/ arp_cache[j].valid = 1)
    BY <1>0, <1>3, InsertFacts
  <2>2. arp_cache_next' = IF arp_cache_next + 1 < ARP_CACHE_SIZE
                            THEN arp_cache_next + 1 ELSE 0
    BY <1>0, <1>3, NextIndex
  <2>3. arp_cache_next \in 0 .. ARP_CACHE_SIZE - 1
    BY <1>0 DEF ArpInv, ArpTypeOK, Slot
  <2>4. CASE \A j \in Slot : arp_cache[j].valid = 1
    BY <2>1, <2>4 DEF FillsInOrder, Slot
  <2>5. CASE \A j \in Slot : arp_cache[j].valid = 1 <=> j < arp_cache_next
    <3>1. \A j \in Slot : arp_cache'[j].valid = 1 <=> j < arp_cache_next + 1
      BY <2>1, <2>3, <2>5, ArpAssumption DEF Slot
    <3>2. CASE arp_cache_next + 1 < ARP_CACHE_SIZE
      BY <2>2, <3>1, <3>2 DEF FillsInOrder, Slot
    <3>3. CASE ~(arp_cache_next + 1 < ARP_CACHE_SIZE)
      <4>1. \A j \in Slot : arp_cache'[j].valid = 1
        BY <2>3, <3>1, <3>3, ArpAssumption DEF Slot
      <4> QED
        BY <4>1 DEF FillsInOrder, Slot
    <3> QED
      BY <3>2, <3>3
  <2> QED
    BY <1>0, <2>4, <2>5 DEF FillsInOrder
<1>4. CASE ArpNext
  BY <1>2, <1>3, <1>4 DEF ArpNext, arp_cache_update
<1> QED
  BY <1>1, <1>4

(* The slot k - 1 steps after slot a.                                       *)
LEMMA Circle ==
  ASSUME NEW n \in Nat \ {0}, NEW a \in 0 .. n - 1, NEW k \in 1 .. n
  PROVE  (a + k - 1) % n = IF a + k - 1 < n THEN a + k - 1 ELSE a + k - 1 - n
<1> DEFINE b == a + k - 1
<1>1. b \in 0 .. n + n - 1
  OBVIOUS
<1> HIDE DEF b
<1>2. b % n = IF b < n THEN b ELSE b - n
  BY <1>1, WrapOnce
<1> QED
  BY <1>2 DEF b

(* Where the entries are: from Oldest on, around the circle, all valid, and *)
(* each valid slot is the place of one of them.                             *)
Placed ==
  /\ Oldest \in 0 .. ARP_CACHE_SIZE - 1
  /\ Count \in 0 .. ARP_CACHE_SIZE
  /\ Full => Count = ARP_CACHE_SIZE /\ Oldest = arp_cache_next
  /\ ~Full => Count = arp_cache_next /\ Oldest = 0
  /\ \A k \in 1 .. ARP_CACHE_SIZE :
       At(k) = IF Oldest + k - 1 < ARP_CACHE_SIZE
                 THEN Oldest + k - 1 ELSE Oldest + k - 1 - ARP_CACHE_SIZE
  /\ \A k \in 1 .. Count : At(k) \in Slot /\ arp_cache[At(k)] \in Entry
  /\ \A i \in Slot : arp_cache[i].valid = 1 => \E k \in 1 .. Count : At(k) = i

(* The entries in use, counted from the oldest, are in different slots and  *)
(* leave none out.                                                          *)
LEMMA Places == RInv => Placed
<1> SUFFICES ASSUME RInv PROVE Placed
  OBVIOUS
<1>0. /\ arp_cache_next \in 0 .. ARP_CACHE_SIZE - 1
      /\ ARP_CACHE_SIZE \in Nat \ {0}
      /\ \A i \in Slot : arp_cache[i] \in Entry \cup {Unused}
  BY ArpAssumption DEF RInv, ArpInv, ArpTypeOK, Slot
<1>1. Oldest \in 0 .. ARP_CACHE_SIZE - 1
  BY <1>0 DEF Oldest
<1>2. Count \in 0 .. ARP_CACHE_SIZE
  BY <1>0 DEF Count
<1>3. Full => Count = ARP_CACHE_SIZE /\ Oldest = arp_cache_next
  BY DEF Count, Oldest
<1>4. ~Full => Count = arp_cache_next /\ Oldest = 0
  BY DEF Count, Oldest
<1>5. \A k \in 1 .. ARP_CACHE_SIZE :
        At(k) = IF Oldest + k - 1 < ARP_CACHE_SIZE
                  THEN Oldest + k - 1 ELSE Oldest + k - 1 - ARP_CACHE_SIZE
  BY <1>0, <1>1, Circle DEF At
<1>6. Full => \A i \in Slot : arp_cache[i].valid = 1
  <2>1. arp_cache_next \in Slot
    BY <1>0 DEF Slot
  <2>2. ~(arp_cache_next < arp_cache_next)
    BY <1>0
  <2> QED
    BY <2>1, <2>2 DEF RInv, FillsInOrder, Full
<1>7. ~Full => \A i \in Slot : arp_cache[i].valid = 1 <=> i < arp_cache_next
  <2>1. arp_cache_next \in Slot
    BY <1>0 DEF Slot
  <2> QED
    BY <2>1 DEF RInv, FillsInOrder, Full
<1>8. ASSUME NEW k \in 1 .. Count
      PROVE  At(k) \in Slot /\ arp_cache[At(k)] \in Entry
  <2>1. k \in 1 .. ARP_CACHE_SIZE
    BY <1>0, <1>2
  <2>2. At(k) \in Slot
    BY <2>1, <1>0, <1>1, <1>5 DEF Slot
  <2>3. ~Full => At(k) = k - 1
    BY <2>1, <1>0, <1>4, <1>5
  <2>4. ~Full => At(k) < arp_cache_next
    BY <2>3, <1>0, <1>4
  <2>5. arp_cache[At(k)].valid = 1
    BY <2>2, <2>4, <1>6, <1>7
  <2> QED
    BY <2>2, <2>5, <1>0 DEF Unused
<1>9. ASSUME NEW i \in Slot, arp_cache[i].valid = 1
      PROVE  \E k \in 1 .. Count : At(k) = i
  <2> DEFINE k == IF i >= Oldest THEN i - Oldest + 1 ELSE i - Oldest + 1 + ARP_CACHE_SIZE
  <2>0. i \in 0 .. ARP_CACHE_SIZE - 1
    BY DEF Slot
  <2>1. k \in 1 .. ARP_CACHE_SIZE
    BY <2>0, <1>0, <1>1
  <2>2. ~Full => i < arp_cache_next
    BY <1>7, <1>9
  <2>3. k \in 1 .. Count
    BY <2>0, <2>1, <2>2, <1>0, <1>1, <1>3, <1>4
  <2>4. At(k) = IF Oldest + k - 1 < ARP_CACHE_SIZE
                  THEN Oldest + k - 1 ELSE Oldest + k - 1 - ARP_CACHE_SIZE
    <3> HIDE DEF k
    <3> QED
      BY <2>1, <1>5
  <2>5. At(k) = i
    BY <2>0, <2>4, <1>0, <1>1
  <2> QED
    BY <2>3, <2>5
<1> QED
  BY <1>1, <1>2, <1>3, <1>4, <1>5, <1>8, <1>9 DEF Placed

(* The same after a step.                                                   *)
LEMMA PlacesNext == RInv' => Placed'
  BY Places, PTL

(* Known as a sequence.                                                     *)
LEMMA KnownFacts ==
  ASSUME RInv
  PROVE  /\ Known \in Seq([ip : Ip, mac : Mac])
         /\ Len(Known) = Count
         /\ \A k \in 1 .. Count :
              Known[k] = [ip |-> arp_cache[At(k)].ip, mac |-> arp_cache[At(k)].mac]
<1>1. /\ Count \in Nat
      /\ \A k \in 1 .. Count : arp_cache[At(k)] \in Entry
  BY Places, ArpAssumption DEF Placed
<1>2. \A k \in 1 .. Count :
        [ip |-> arp_cache[At(k)].ip, mac |-> arp_cache[At(k)].mac] \in [ip : Ip, mac : Mac]
  BY <1>1 DEF Entry
<1> HIDE DEF At, Count
<1>3. \A k \in 1 .. Count :
        Known[k] = [ip |-> arp_cache[At(k)].ip, mac |-> arp_cache[At(k)].mac]
  BY DEF Known
<1> DEFINE T == [ip : Ip, mac : Mac]
<1>4. Known \in [1 .. Count -> T]
  BY <1>2 DEF Known
<1> HIDE DEF T
<1>5. Known \in Seq(T)
  BY <1>1, <1>4
<1>6. Len(Known) = Count
  BY <1>1, <1>4, <1>5, LenProperties
<1> QED
  BY <1>3, <1>5, <1>6 DEF T

(* The empty table is the empty list.                                       *)
LEMMA MapStart == ArpInit => N!Init
<1> SUFFICES ASSUME ArpInit PROVE Known = <<>>
  BY DEF N!Init
<1>1. ~Full
  BY ArpAssumption DEF ArpInit, Full, Unused, Slot
<1>2. Count = 0
  BY <1>1 DEF ArpInit, Count
<1> QED
  BY <1>2 DEF Known

(* A refresh changes one link address of the list and no place in it.       *)
LEMMA MapRefresh ==
  ASSUME RInv, NEW ip \in Ip, NEW mac \in Mac, NEW i \in Slot, Holds(i, ip),
         arp_cache' = [arp_cache EXCEPT ![i].mac = mac], UNCHANGED arp_cache_next
  PROVE  N!Again(ip, mac)
<1>1. /\ arp_cache[i] \in Entry
      /\ arp_cache'[i] = [arp_cache[i] EXCEPT !.mac = mac]
      /\ \A j \in Slot : j # i => arp_cache'[j] = arp_cache[j]
      /\ \A j \in Slot : arp_cache'[j].valid = arp_cache[j].valid
  BY RefreshFacts DEF RInv, Holds
<1>2. arp_cache_next \in Slot
  BY DEF RInv, ArpInv, ArpTypeOK
<1>3. Full' <=> Full
  BY <1>1, <1>2 DEF Full
<1>4. Count' = Count /\ Oldest' = Oldest
  BY <1>3 DEF Count, Oldest
<1>5. Placed
  BY Places
<1>6. PICK k \in 1 .. Count : At(k) = i
  BY <1>5 DEF Placed, Holds
<1>7. ASSUME NEW j \in 1 .. Count, j # k
      PROVE  At(j) # i
  <2>1. /\ Oldest \in 0 .. ARP_CACHE_SIZE - 1
        /\ j \in 1 .. ARP_CACHE_SIZE /\ k \in 1 .. ARP_CACHE_SIZE
    BY <1>5, ArpAssumption DEF Placed
  <2>2. /\ At(j) = IF Oldest + j - 1 < ARP_CACHE_SIZE
                     THEN Oldest + j - 1 ELSE Oldest + j - 1 - ARP_CACHE_SIZE
        /\ At(k) = IF Oldest + k - 1 < ARP_CACHE_SIZE
                     THEN Oldest + k - 1 ELSE Oldest + k - 1 - ARP_CACHE_SIZE
    BY <1>5, <2>1 DEF Placed
  <2> QED
    BY <1>6, <1>7, <2>1, <2>2, ArpAssumption
<1>8. \A j \in 1 .. Count : At(j)' = At(j)
  BY <1>4 DEF At
<1>9. Known' = [j \in 1 .. Count |-> [ip |-> arp_cache'[At(j)].ip, mac |-> arp_cache'[At(j)].mac]]
  BY <1>4, <1>8 DEF Known
<1>10. Known' = [Known EXCEPT ![k].mac = mac]
  <2>1. \A j \in 1 .. Count : At(j) \in Slot
    BY <1>5 DEF Placed
  <2>2. \A j \in 1 .. Count : j # k => arp_cache'[At(j)] = arp_cache[At(j)]
    BY <1>1, <1>7, <2>1
  <2>3. arp_cache'[At(k)].ip = arp_cache[At(k)].ip /\ arp_cache'[At(k)].mac = mac
    BY <1>1, <1>6 DEF Entry
  <2> HIDE DEF At, Count
  <2> QED
    BY <1>9, <2>2, <2>3 DEF Known
<1>11. Len(Known) = Count /\ Known[k].ip = ip
  BY KnownFacts, <1>6 DEF Holds
<1> QED
  BY <1>10, <1>11 DEF N!Again

(* Between one insertion and the next: the list grows, or it moves on by    *)
(* one place of the circle.                                                 *)
LEMMA Shift ==
  ASSUME RInv, RInv', NEW ip \in Ip, NEW mac \in Mac,
         arp_cache' = [arp_cache EXCEPT ![arp_cache_next] =
                         [ip |-> ip, mac |-> mac, valid |-> 1]],
         arp_cache_next' = (arp_cache_next + 1) % ARP_CACHE_SIZE
  PROVE  /\ Full => /\ Count' = Count
                    /\ At(Count)' = arp_cache_next
                    /\ \A k \in 1 .. Count - 1 : At(k)' = At(k + 1) /\ At(k + 1) # arp_cache_next
         /\ ~Full => /\ Count' = Count + 1
                     /\ At(Count)' = arp_cache_next
                     /\ \A k \in 1 .. Count : At(k)' = At(k) /\ At(k) # arp_cache_next
<1>1. Placed /\ Placed'
  BY Places, PlacesNext
<1>2. arp_cache_next' = IF arp_cache_next + 1 < ARP_CACHE_SIZE THEN arp_cache_next + 1 ELSE 0
  BY NextIndex DEF RInv
<1>3. /\ arp_cache_next \in 0 .. ARP_CACHE_SIZE - 1
      /\ ARP_CACHE_SIZE \in Nat \ {0}
      /\ arp_cache_next \in Slot /\ arp_cache_next' \in Slot
  BY ArpAssumption DEF RInv, ArpInv, ArpTypeOK, Slot
<1>4. \A j \in Slot : arp_cache'[j].valid = 1 <=> (j = arp_cache_next \/ arp_cache[j].valid = 1)
  BY InsertFacts DEF RInv
<1>5. Full' <=> (arp_cache_next' = arp_cache_next \/ arp_cache[arp_cache_next'].valid = 1)
  BY <1>3, <1>4 DEF Full
<1>6. CASE Full
  <2>1. \A i \in Slot : arp_cache[i].valid = 1
    <3>1. ~(arp_cache_next < arp_cache_next)
      BY <1>3
    <3> QED
      BY <1>3, <1>6, <3>1 DEF RInv, FillsInOrder, Full
  <2>2. Full'
    BY <1>3, <1>5, <2>1
  <2>3. /\ Count = ARP_CACHE_SIZE /\ Oldest = arp_cache_next
        /\ Count' = ARP_CACHE_SIZE /\ Oldest' = arp_cache_next'
    BY <1>1, <1>6, <2>2 DEF Placed
  <2>4. At(ARP_CACHE_SIZE)' = IF Oldest' + ARP_CACHE_SIZE - 1 < ARP_CACHE_SIZE
                                THEN Oldest' + ARP_CACHE_SIZE - 1
                                ELSE Oldest' + ARP_CACHE_SIZE - 1 - ARP_CACHE_SIZE
    <3>1. ARP_CACHE_SIZE \in 1 .. ARP_CACHE_SIZE
      BY <1>3
    <3> QED
      BY <1>1, <3>1 DEF Placed
  <2>5. At(ARP_CACHE_SIZE)' = arp_cache_next
    BY <1>2, <1>3, <2>3, <2>4
  <2>6. ASSUME NEW k \in 1 .. ARP_CACHE_SIZE - 1
        PROVE  At(k)' = At(k + 1) /\ At(k + 1) # arp_cache_next
    <3>1. k \in 1 .. ARP_CACHE_SIZE /\ k + 1 \in 1 .. ARP_CACHE_SIZE
      BY <1>3
    <3>2. At(k)' = IF Oldest' + k - 1 < ARP_CACHE_SIZE
                     THEN Oldest' + k - 1 ELSE Oldest' + k - 1 - ARP_CACHE_SIZE
      BY <1>1, <3>1 DEF Placed
    <3>3. At(k + 1) = IF Oldest + (k + 1) - 1 < ARP_CACHE_SIZE
                        THEN Oldest + (k + 1) - 1 ELSE Oldest + (k + 1) - 1 - ARP_CACHE_SIZE
      BY <1>1, <3>1 DEF Placed
    <3> QED
      BY <1>2, <1>3, <2>3, <3>2, <3>3
  <2> QED
    BY <1>6, <2>3, <2>5, <2>6
<1>7. CASE ~Full
  <2>1. \A i \in Slot : arp_cache[i].valid = 1 <=> i < arp_cache_next
    BY <1>3, <1>7 DEF RInv, FillsInOrder, Full
  <2>2. Full' <=> arp_cache_next + 1 = ARP_CACHE_SIZE
    BY <1>2, <1>3, <1>5, <2>1
  <2>3. Count = arp_cache_next /\ Oldest = 0
    BY <1>1, <1>7 DEF Placed
  <2>4. Count' = arp_cache_next + 1 /\ Oldest' = 0
    BY <1>1, <1>2, <1>3, <2>2 DEF Placed
  <2>5. \A k \in 1 .. ARP_CACHE_SIZE : At(k)' = k - 1 /\ At(k) = k - 1
    <3> TAKE k \in 1 .. ARP_CACHE_SIZE
    <3>1. /\ At(k)' = IF Oldest' + k - 1 < ARP_CACHE_SIZE
                        THEN Oldest' + k - 1 ELSE Oldest' + k - 1 - ARP_CACHE_SIZE
          /\ At(k) = IF Oldest + k - 1 < ARP_CACHE_SIZE
                       THEN Oldest + k - 1 ELSE Oldest + k - 1 - ARP_CACHE_SIZE
      BY <1>1 DEF Placed
    <3> QED
      BY <1>3, <2>3, <2>4, <3>1
  <2>6. At(Count)' = arp_cache_next
    <3>1. At(Count)' = (Oldest' + Count' - 1) % ARP_CACHE_SIZE
      BY DEF At
    <3>2. Count' \in 1 .. ARP_CACHE_SIZE /\ Oldest' \in 0 .. ARP_CACHE_SIZE - 1
      BY <1>3, <2>4
    <3>3. (Oldest' + Count' - 1) % ARP_CACHE_SIZE =
            IF Oldest' + Count' - 1 < ARP_CACHE_SIZE
              THEN Oldest' + Count' - 1 ELSE Oldest' + Count' - 1 - ARP_CACHE_SIZE
      BY <1>3, <3>2, Circle
    <3> QED
      BY <1>3, <2>4, <3>1, <3>3
  <2>7. ASSUME NEW k \in 1 .. Count
        PROVE  At(k)' = At(k) /\ At(k) # arp_cache_next
    <3>1. k \in 1 .. ARP_CACHE_SIZE /\ k - 1 < arp_cache_next
      BY <1>3, <2>3
    <3> QED
      BY <1>3, <2>5, <3>1
  <2> QED
    BY <1>7, <2>3, <2>4, <2>6, <2>7
<1> QED
  BY <1>6, <1>7

(* Append, and Append after Tail, place by place.                           *)
LEMMA AppendIs ==
  ASSUME NEW S, NEW s \in Seq(S), NEW e \in S
  PROVE  Append(s, e) = [k \in 1 .. Len(s) + 1 |-> IF k = Len(s) + 1 THEN e ELSE s[k]]
<1> DEFINE t == Append(s, e)
<1>1. t \in Seq(S) /\ Len(t) = Len(s) + 1 /\ Len(s) \in Nat
  BY AppendProperties, LenProperties
<1>2. \A k \in 1 .. Len(s) + 1 : t[k] = IF k = Len(s) + 1 THEN e ELSE s[k]
  BY <1>1, AppendProperties
<1> HIDE DEF t
<1>3. t \in [1 .. Len(t) -> S]
  BY <1>1, LenProperties
<1>4. t = [k \in 1 .. Len(s) + 1 |-> t[k]]
  BY <1>1, <1>3
<1> QED
  BY <1>2, <1>4 DEF t

(* A list that loses its first element and gets a new last one.             *)
LEMMA AppendTailIs ==
  ASSUME NEW S, NEW s \in Seq(S), NEW e \in S, Len(s) > 0
  PROVE  Append(Tail(s), e) = [k \in 1 .. Len(s) |-> IF k = Len(s) THEN e ELSE s[k + 1]]
<1> DEFINE t == Tail(s)
<1>0. s # <<>>
  BY EmptySeq
<1>1. /\ t \in Seq(S) /\ Len(t) + 1 = Len(s) /\ Len(s) \in Nat
      /\ \A k \in 1 .. Len(t) : t[k] = s[k + 1]
  BY <1>0, HeadTailProperties, LenProperties
<1> HIDE DEF t
<1>2. Append(t, e) = [k \in 1 .. Len(t) + 1 |-> IF k = Len(t) + 1 THEN e ELSE t[k]]
  BY <1>1, AppendIs
<1>3. Append(t, e) = [k \in 1 .. Len(s) |-> IF k = Len(s) THEN e ELSE t[k]]
  BY <1>1, <1>2
<1>4. \A k \in 1 .. Len(s) : k # Len(s) => t[k] = s[k + 1]
  <2> SUFFICES ASSUME NEW k \in 1 .. Len(s), k # Len(s) PROVE t[k] = s[k + 1]
    OBVIOUS
  <2>0. Len(t) \in Nat
    BY <1>1, LenProperties
  <2>1. k \in 1 .. Len(t)
    BY <1>1, <2>0
  <2> QED
    BY <1>1, <2>1
<1> QED
  BY <1>3, <1>4 DEF t

(* A new host goes to the end of the list, and the oldest leaves a full one.*)
LEMMA MapInsert ==
  ASSUME RInv, RInv', NEW ip \in Ip, NEW mac \in Mac,
         \A i \in Slot : ~Holds(i, ip),
         arp_cache' = [arp_cache EXCEPT ![arp_cache_next] =
                         [ip |-> ip, mac |-> mac, valid |-> 1]],
         arp_cache_next' = (arp_cache_next + 1) % ARP_CACHE_SIZE
  PROVE  N!Meet(ip, mac)
<1> DEFINE host == [ip |-> ip, mac |-> mac]
<1>1. /\ arp_cache'[arp_cache_next] = [ip |-> ip, mac |-> mac, valid |-> 1]
      /\ \A j \in Slot : j # arp_cache_next => arp_cache'[j] = arp_cache[j]
  BY InsertFacts DEF RInv
<1>2. /\ Count \in 0 .. ARP_CACHE_SIZE
      /\ ARP_CACHE_SIZE \in Nat \ {0}
      /\ Full <=> Count = ARP_CACHE_SIZE
      /\ \A k \in 1 .. Count : At(k) \in Slot /\ arp_cache[At(k)] \in Entry
  <2>1. arp_cache_next \in 0 .. ARP_CACHE_SIZE - 1
    BY DEF RInv, ArpInv, ArpTypeOK, Slot
  <2> QED
    BY <2>1, Places, ArpAssumption DEF Placed
<1>3. /\ Known \in Seq([ip : Ip, mac : Mac])
      /\ Len(Known) = Count
      /\ \A k \in 1 .. Count :
           Known[k] = [ip |-> arp_cache[At(k)].ip, mac |-> arp_cache[At(k)].mac]
  BY KnownFacts
<1>4. \A k \in 1 .. Len(Known) : Known[k].ip # ip
  <2> TAKE k \in 1 .. Len(Known)
  <2>1. At(k) \in Slot /\ arp_cache[At(k)] \in Entry
    BY <1>2, <1>3
  <2>2. arp_cache[At(k)].valid = 1
    BY <2>1 DEF Entry
  <2>3. arp_cache[At(k)].ip # ip
    BY <2>1, <2>2 DEF Holds
  <2> QED
    BY <1>3, <2>3
<1>5. Known' = [k \in 1 .. Count' |->
                  [ip |-> arp_cache'[At(k)'].ip, mac |-> arp_cache'[At(k)'].mac]]
  BY DEF Known
<1>6. \A k \in 1 .. Count' : k = Count' => At(k)' = At(Count)'
  BY DEF At
<1>7. CASE Full
  <2>1. /\ Count' = Count /\ Count = ARP_CACHE_SIZE
        /\ At(Count)' = arp_cache_next
        /\ \A k \in 1 .. Count - 1 : At(k)' = At(k + 1) /\ At(k + 1) # arp_cache_next
    BY <1>2, <1>7, Shift
  <2> DEFINE new == [k \in 1 .. Count |-> IF k = Count THEN host ELSE Known[k + 1]]
  <2>2. ASSUME NEW k \in 1 .. Count
        PROVE  [ip |-> arp_cache'[At(k)'].ip, mac |-> arp_cache'[At(k)'].mac] = new[k]
    <3>1. CASE k = Count
      <4>1. At(k)' = arp_cache_next
        BY <1>6, <2>1, <3>1
      <4> QED
        BY <1>1, <3>1, <4>1
    <3>2. CASE k # Count
      <4>1. k \in 1 .. Count - 1 /\ k + 1 \in 1 .. Count
        BY <1>2, <3>2
      <4>2. At(k)' = At(k + 1) /\ At(k + 1) # arp_cache_next /\ At(k + 1) \in Slot
        BY <1>2, <2>1, <4>1
      <4>3. arp_cache'[At(k)'] = arp_cache[At(k + 1)]
        BY <1>1, <4>2
      <4>4. Known[k + 1] = [ip |-> arp_cache[At(k + 1)].ip, mac |-> arp_cache[At(k + 1)].mac]
        BY <1>3, <4>1
      <4> QED
        BY <3>2, <4>3, <4>4
    <3> QED
      BY <3>1, <3>2
  <2>3. Known' = new
    <3> HIDE DEF new
    <3>1. Known' = [k \in 1 .. Count |-> new[k]]
      BY <1>5, <2>1, <2>2
    <3> QED
      BY <3>1 DEF new
  <2>4. new = Append(Tail(Known), host)
    <3>1. host \in [ip : Ip, mac : Mac]
      OBVIOUS
    <3> HIDE DEF host
    <3>2. Len(Known) > 0
      BY <1>2, <1>3, <2>1
    <3>3. Append(Tail(Known), host) =
            [k \in 1 .. Len(Known) |-> IF k = Len(Known) THEN host ELSE Known[k + 1]]
      BY <1>3, <3>1, <3>2, AppendTailIs
    <3> QED
      BY <1>3, <3>3
  <2>5. ~(Len(Known) < ARP_CACHE_SIZE)
    BY <1>2, <1>3, <2>1
  <2>6. Known' = Append(Tail(Known), host)
    BY <2>3, <2>4
  <2> QED
    BY <1>4, <2>5, <2>6 DEF N!Meet
<1>8. CASE ~Full
  <2>1. /\ Count' = Count + 1 /\ Count < ARP_CACHE_SIZE
        /\ At(Count)' = arp_cache_next
        /\ \A k \in 1 .. Count : At(k)' = At(k) /\ At(k) # arp_cache_next
    <3>1. Count < ARP_CACHE_SIZE
      BY <1>2, <1>8
    <3> QED
      BY <1>8, <3>1, Shift
  <2> DEFINE new == [k \in 1 .. Count + 1 |-> IF k = Count + 1 THEN host ELSE Known[k]]
  <2>2. ASSUME NEW k \in 1 .. Count + 1
        PROVE  [ip |-> arp_cache'[At(k)'].ip, mac |-> arp_cache'[At(k)'].mac] = new[k]
    <3>1. CASE k = Count + 1
      <4>1. At(k)' = arp_cache_next
        BY <1>6, <2>1, <3>1
      <4> QED
        BY <1>1, <3>1, <4>1
    <3>2. CASE k # Count + 1
      <4>1. k \in 1 .. Count
        BY <1>2, <3>2
      <4>2. At(k)' = At(k) /\ At(k) # arp_cache_next /\ At(k) \in Slot
        BY <1>2, <2>1, <4>1
      <4>3. arp_cache'[At(k)'] = arp_cache[At(k)]
        BY <1>1, <4>2
      <4>4. Known[k] = [ip |-> arp_cache[At(k)].ip, mac |-> arp_cache[At(k)].mac]
        BY <1>3, <4>1
      <4> QED
        BY <3>2, <4>3, <4>4
    <3> QED
      BY <3>1, <3>2
  <2>3. Known' = new
    <3> HIDE DEF new
    <3>1. Known' = [k \in 1 .. Count + 1 |-> new[k]]
      BY <1>5, <2>1, <2>2
    <3> QED
      BY <3>1 DEF new
  <2>4. new = Append(Known, host)
    <3>1. host \in [ip : Ip, mac : Mac]
      OBVIOUS
    <3> HIDE DEF host
    <3>2. Append(Known, host) =
            [k \in 1 .. Len(Known) + 1 |-> IF k = Len(Known) + 1 THEN host ELSE Known[k]]
      <4> DEFINE T == [ip : Ip, mac : Mac]
      <4>1. Known \in Seq(T) /\ host \in T
        BY <1>3, <3>1
      <4> HIDE DEF T
      <4> QED
        BY <4>1, AppendIs
    <3> QED
      BY <1>3, <3>2
  <2>5. Len(Known) < ARP_CACHE_SIZE
    BY <1>2, <1>3, <2>1
  <2>6. Known' = Append(Known, host)
    BY <2>3, <2>4
  <2> QED
    BY <1>4, <2>5, <2>6 DEF N!Meet
<1> QED
  BY <1>7, <1>8

(* The table of arp_cache_update keeps the addresses of the hosts met last: *)
(* it implements Neighbours, for every size of the table.                   *)
THEOREM ArpImplementsNeighbours == ArpSpec => ImplementsNeighbours
<1>1. ArpInit => RInv
  BY ArpStart, FillStart DEF RInv
<1>2. RInv /\ [ArpNext]_arp_vars => RInv'
  BY ArpStep, FillStep DEF RInv
<1>3. RInv /\ RInv' /\ [ArpNext]_arp_vars => [N!Next]_Known
  <2> SUFFICES ASSUME RInv, RInv', [ArpNext]_arp_vars PROVE [N!Next]_Known
    OBVIOUS
  <2>1. CASE UNCHANGED arp_vars
    BY <2>1 DEF arp_vars, Known, At, Count, Oldest, Full
  <2>2. CASE ArpNext
    <3>1. PICK ip \in Ip, mac \in Mac : arp_cache_update(ip, mac)
      BY <2>2 DEF ArpNext
    <3>2. N!Again(ip, mac) \/ N!Meet(ip, mac)
      BY <3>1, MapRefresh, MapInsert DEF arp_cache_update
    <3> QED
      BY <3>2 DEF N!Next
  <2> QED
    BY <2>1, <2>2
<1> QED
  BY <1>1, <1>2, <1>3, MapStart, PTL DEF ArpSpec, ImplementsNeighbours, N!Spec

=============================================================================
