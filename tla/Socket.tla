------------------------------- MODULE Socket -------------------------------
(***************************************************************************)
(* The socket table of src/src/sys/net/socket.c: a flat array of sockets,   *)
(* each with a ring buffer of received datagrams.  The system calls of user *)
(* programs and the receive path of the network interrupt act on it in any  *)
(* order, one call at a time.                                               *)
(***************************************************************************)
EXTENDS Integers

CONSTANTS MAX_SOCKETS,
          SOCKET_RECV_QUEUE_SIZE,
          Port,        \* port numbers, 0 included
          Packet,      \* datagrams: payload and sender
          NoPacket     \* a slot of zeroed memory; a receive call that gets nothing

ASSUME SocketAssumption == /\ MAX_SOCKETS \in Nat \ {0}
                           /\ SOCKET_RECV_QUEUE_SIZE \in Nat \ {0}
                           /\ Port \subseteq Nat
                           /\ NoPacket \notin Packet

VARIABLES sockets,     \* the table
          received     \* the datagram the last call handed to a program

vars == <<sockets, received>>

Socket == 0 .. MAX_SOCKETS - 1
Index == 0 .. SOCKET_RECV_QUEUE_SIZE - 1

SocketType == [in_use : {0, 1}, bound_port : Port \cup {0},
               recv_queue : [Index -> Packet \cup {NoPacket}],
               recv_head : Index, recv_tail : Index, recv_count : Int]

TypeOK == /\ sockets \in [Socket -> SocketType]
          /\ received \in Packet \cup {NoPacket}

\* memset(&sockets[i], 0, sizeof(struct socket))
Zeroed == [in_use |-> 0, bound_port |-> 0,
           recv_queue |-> [i \in Index |-> NoPacket],
           recv_head |-> 0, recv_tail |-> 0, recv_count |-> 0]

Init == sockets = [s \in Socket |-> Zeroed] /\ received = NoPacket
-----------------------------------------------------------------------------
\* Mutant: the first slot, free or not.
socket_create_first ==
  /\ sockets' = [sockets EXCEPT ![0] = [Zeroed EXCEPT !.in_use = 1]]
  /\ received' = NoPacket

\* The lowest free slot of the table.
socket_create ==
  /\ \E s \in Socket :
       /\ sockets[s].in_use = 0
       /\ \A t \in Socket : sockets[t].in_use = 0 => s <= t
       /\ sockets' = [sockets EXCEPT ![s] = [Zeroed EXCEPT !.in_use = 1]]
  /\ received' = NoPacket

(* The socket has no port yet and no open socket has this one.  The caller  *)
(* itself counts, so binding to port 0 always fails.                        *)
socket_bind(s, port) ==
  /\ sockets[s].in_use = 1
  /\ sockets[s].bound_port = 0
  /\ \A t \in Socket : ~(sockets[t].in_use = 1 /\ sockets[t].bound_port = port)
  /\ sockets' = [sockets EXCEPT ![s].bound_port = port]
  /\ received' = NoPacket

\* Mutant: reads the slot of the write index.
socket_recvfrom_head(s) ==
  /\ sockets[s].in_use = 1
  /\ sockets[s].recv_count # 0
  /\ received' = sockets[s].recv_queue[sockets[s].recv_head]
  /\ sockets' = [sockets EXCEPT ![s].recv_tail = (@ + 1) % SOCKET_RECV_QUEUE_SIZE,
                                ![s].recv_count = @ - 1]

\* The oldest datagram leaves the ring.
socket_recvfrom(s) ==
  /\ sockets[s].in_use = 1
  /\ sockets[s].recv_count # 0
  /\ received' = sockets[s].recv_queue[sockets[s].recv_tail]
  /\ sockets' = [sockets EXCEPT ![s].recv_tail = (@ + 1) % SOCKET_RECV_QUEUE_SIZE,
                                ![s].recv_count = @ - 1]

\* The first open socket whose port field is the datagram's port.
Addressee(s, port) ==
  /\ sockets[s].in_use = 1
  /\ sockets[s].bound_port = port
  /\ \A t \in 0 .. s - 1 : ~(sockets[t].in_use = 1 /\ sockets[t].bound_port = port)

\* Mutant: a full ring takes one more datagram.
socket_deliver_udp_full(port, packet) ==
  /\ \E s \in Socket :
       /\ Addressee(s, port)
       /\ sockets' = [sockets EXCEPT
            ![s].recv_queue[sockets[s].recv_head] = packet,
            ![s].recv_head = (@ + 1) % SOCKET_RECV_QUEUE_SIZE,
            ![s].recv_count = @ + 1]
  /\ received' = NoPacket

\* A datagram with an addressee whose ring has room; any other is dropped.
socket_deliver_udp(port, packet) ==
  /\ \E s \in Socket :
       /\ Addressee(s, port)
       /\ sockets[s].recv_count < SOCKET_RECV_QUEUE_SIZE
       /\ sockets' = [sockets EXCEPT
            ![s].recv_queue[sockets[s].recv_head] = packet,
            ![s].recv_head = (@ + 1) % SOCKET_RECV_QUEUE_SIZE,
            ![s].recv_count = @ + 1]
  /\ received' = NoPacket

socket_close(s) ==
  /\ sockets[s].in_use = 1
  /\ sockets' = [sockets EXCEPT ![s] = Zeroed]
  /\ received' = NoPacket

(* A call that fails, a receive call that finds the ring empty, a datagram  *)
(* that is dropped, a sendto.                                               *)
NoEffect == received' = NoPacket /\ UNCHANGED sockets

Next == \/ socket_create
        \/ \E s \in Socket, port \in Port : socket_bind(s, port)
        \/ \E s \in Socket : socket_recvfrom(s) \/ socket_close(s)
        \/ \E port \in Port, packet \in Packet : socket_deliver_udp(port, packet)
        \/ NoEffect

Spec == Init /\ [][Next]_vars
-----------------------------------------------------------------------------
(* The three fields of a ring agree at every moment: the write index is     *)
(* recv_count slots past the read index and the ring never overfills, so a  *)
(* full ring and an empty one, which have the same indices, stay apart.     *)
RingConsistent ==
  \A s \in Socket :
    /\ sockets[s].recv_count \in 0 .. SOCKET_RECV_QUEUE_SIZE
    /\ sockets[s].recv_head =
         (sockets[s].recv_tail + sockets[s].recv_count) % SOCKET_RECV_QUEUE_SIZE

(* A port leads to one socket.                                              *)
PortsUnique ==
  \A s, t \in Socket :
    /\ sockets[s].in_use = 1 /\ sockets[t].in_use = 1
    /\ sockets[s].bound_port = sockets[t].bound_port
    /\ sockets[s].bound_port # 0
    => s = t

\* The datagrams in a ring, oldest first.
Queued(k) == [i \in 1 .. k.recv_count |->
                k.recv_queue[(k.recv_tail + i - 1) % SOCKET_RECV_QUEUE_SIZE]]

InUse == {s \in Socket : sockets[s].in_use = 1}
BoundPorts == [s \in Socket |-> sockets[s].bound_port]
Queues == [s \in Socket |-> Queued(sockets[s])]

M == INSTANCE Mailboxes WITH
       Capacity <- SOCKET_RECV_QUEUE_SIZE, Nothing <- NoPacket,
       open <- InUse, port <- BoundPorts, queue <- Queues

(* Calls and deliveries implement mailboxes: a ring is a first-in first-out *)
(* queue over all its laps, and a port has one owner.                       *)
ImplementsMailboxes == M!Spec
=============================================================================
